------------------------------ MODULE Volumes ------------------------------
(***************************************************************************)
(* A shared folder of the host as an AmigaDOS volume (harddisk.cpp):       *)
(* filesystem_handler's tree of nodes, the FileLocks and file handles that *)
(* hold them, and the DOS packets.  A packet is one write to the board, so *)
(* each is one step; the host's files are changed by packets only.         *)
(*                                                                         *)
(* A name in a packet is what node_operation makes of it: parents to go up *)
(* to, components, and whether a '/' ends it.  Names are equal up to case. *)
(* Sizes, dates, contents and positions in files are left out.             *)
(***************************************************************************)
EXTENDS Integers, Sequences, FiniteSets, SequencesExt

CONSTANTS
  Names,       (* names of entries on the host                             *)
  Dots,        (* ".." or ".", which the host has in every directory       *)
  PacketNames, (* records [up, comps, slash]                               *)
  NewNames,    (* the same, for what is renamed                            *)
  InitialHost, (* the shared folder when the emulator starts               *)
  MaxDepth, MaxId, MaxLocks, MaxHandles, MaxHeld, MaxEntries,
               (* bounds of the instance                                   *)
  ScanSlots    (* the locks ExNext loops are done with                     *)

Paths == SeqOf(Names, MaxDepth)

Below(p, q) == IsStrictPrefix(p, q)

(* What is above an entry on the host is a directory *)
HostTree(h) == \A p, q \in Paths : (Below(q, p) /\ h[p] # "none") => h[q] = "dir"

ASSUME VolumesAssumption ==
  /\ Dots \notin Names /\ IsFiniteSet(Names)
  /\ {MaxDepth, MaxId, MaxLocks, MaxHandles, MaxHeld, MaxEntries} \subseteq Nat \ {0}
  /\ \A name \in PacketNames \cup NewNames :
       name.up \in Nat /\ name.comps \in Seq(Names \cup {Dots}) /\ name.slash \in BOOLEAN
  /\ InitialHost \in [Paths -> {"none", "file", "dir"}] /\ HostTree(InitialHost)
  /\ ScanSlots \subseteq 1 .. MaxLocks

Access == {"shared", "exclusive"}
Nothing == 0                 (* nullptr, BPTR 0; ids start at 1            *)
RootId == 1
Ids == 1 .. MaxId

VARIABLES
  host,     (* [Paths -> {"none", "file", "dir"}]                          *)
  nodes,    (* id -> [path, parent, type, count, children]                 *)
  next_id,
  locks,    (* [1..MaxLocks -> FileLock or NoLock]                         *)
  handles,  (* file_handles_                                               *)
  scan,     (* one ExNext loop of the guest, and what it still has to see  *)
  status,   (* "ok", or how the program ended: "assert" or "undefined"     *)
  moved     (* a known entry lost its directory's node, see below          *)

vars == <<host, nodes, next_id, locks, handles, scan, status, moved>>

NoHold == [node |-> Nothing, access |-> "shared"]
NoScan == [lock |-> Nothing, last |-> Nothing, owed |-> {}, cut |-> FALSE, missed |-> {}]

-----------------------------------------------------------------------------
(* The state a packet works on, and host's answers                          *)
Now == [host |-> host, nodes |-> nodes, next |-> next_id]

Exists(fs, p) == p \in Paths /\ fs.host[p] # "none"
IsDir(fs, p) == p \in Paths /\ fs.host[p] = "dir"
Entries(fs, p) == {n \in Names : Exists(fs, Append(p, n))}

NewNode(path, parent, type) ==
  [path |-> path, parent |-> parent, type |-> type, count |-> 0, children |-> <<>>]

make_node(fs, dir, path, type) ==
  LET id == fs.next
      known == [fs.nodes EXCEPT ![dir].children = Append(@, id)]
  IN  [fs EXCEPT !.next = id + 1,
                 !.nodes = [i \in DOMAIN known \cup {id} |->
                              IF i = id THEN NewNode(path, dir, type) ELSE known[i]]]

(* Mutant: the destructor leaves the node in its parent's list *)
ForgetNothing(children, n) == children

Forget(children, n) ==
  IF n \in ToSet(children) THEN RemoveAt(children, CHOOSE i \in DOMAIN children : children[i] = n)
  ELSE children

(* nodes_.erase and ~node *)
Erase(fs, n) ==
  LET at == fs.nodes
      left == [i \in DOMAIN at \ {n} |->
                 IF i = at[n].parent THEN [at[i] EXCEPT !.children = Forget(@, n)] ELSE at[i]]
  IN  [fs EXCEPT !.nodes = left]

(* A node whose directory's node was erased refers to freed memory *)
Dangling(fs, n) == fs.nodes[n].parent \notin DOMAIN fs.nodes

(* Every operation on the tree answers [fs, node, err, status] *)
Answer(fs, node, err) == [fs |-> fs, node |-> node, err |-> err, status |-> "ok"]
Fails(fs, err) == Answer(fs, Nothing, err)
Ends(fs, how) == [fs |-> fs, node |-> Nothing, err |-> "none", status |-> how]

Named(fs, dir, n) ==
  {c \in ToSet(fs.nodes[dir].children) : Last(fs.nodes[c].path) = n}

find_in_node(fs, dir, n) ==
  LET path == Append(fs.nodes[dir].path, n) IN
  IF n = Dots THEN Answer(fs, Nothing, "none")
  ELSE IF Named(fs, dir, n) # {} THEN Answer(fs, CHOOSE c \in Named(fs, dir, n) : TRUE, "none")
  ELSE IF Exists(fs, path)
       THEN Answer(make_node(fs, dir, path, fs.host[path]), fs.next, "none")
       ELSE Answer(fs, Nothing, "none")

-----------------------------------------------------------------------------
(* Locks on a node *)
CanLock(fs, n, access) ==
  IF access = "exclusive" THEN fs.nodes[n].count = 0 ELSE fs.nodes[n].count >= 0

Lock(fs, n, access) ==
  [fs EXCEPT !.nodes[n].count = IF access = "exclusive" THEN -1 ELSE @ + 1]

MayUnlock(fs, n, access) ==
  IF access = "exclusive" THEN fs.nodes[n].count = -1 ELSE fs.nodes[n].count > 0

Unlock(fs, n, access) ==
  [fs EXCEPT !.nodes[n].count = IF access = "exclusive" THEN 0 ELSE @ - 1]

-----------------------------------------------------------------------------
(* The host's part: it may refuse anything, and must refuse some            *)
Removable(fs, p) == Exists(fs, p) /\ Entries(fs, p) = {}

delete_node(fs, n, refused) ==
  LET p == fs.nodes[n].path IN
  IF refused \/ ~Removable(fs, p) THEN Fails(fs, "host")
  ELSE IF n = RootId \/ Dangling(fs, n) THEN Ends(fs, "undefined")
  ELSE Answer(Erase([fs EXCEPT !.host[p] = "none"], n), Nothing, "none")

Moved(h, from, to) ==
  [q \in Paths |->
     IF IsPrefix(to, q) THEN LET old == from \o SubSeq(q, Len(to) + 1, Len(q))
                             IN  IF old \in Paths THEN h[old] ELSE "none"
     ELSE IF IsPrefix(from, q) THEN "none" ELSE h[q]]

(* MaxDepth bounds the instance; everything moved must fit *)
Renamable(fs, from, to) ==
  /\ Exists(fs, from) /\ IsDir(fs, Front(to)) /\ ~Exists(fs, to)
  /\ ~IsPrefix(from, to) /\ Last(to) # Dots
  /\ \A q \in Paths : (IsPrefix(from, q) /\ Exists(fs, q)) =>
                      Len(to) + Len(q) - Len(from) <= MaxDepth

(* filesystem_handler::rename: the node goes and another comes; the nodes   *)
(* of what is in a directory keep their path and their parent.              *)
rename(fs, n, dir, name) ==
  LET from == fs.nodes[n].path
      to == Append(fs.nodes[dir].path, name)
      type == fs.nodes[n].type
  IN  IF ~Renamable(fs, from, to) THEN Fails(fs, "host")
      ELSE IF Dangling(fs, n) THEN Ends(fs, "undefined")
      ELSE LET left == Erase([fs EXCEPT !.host = Moved(@, from, to)], n)
           IN  IF dir \notin DOMAIN left.nodes THEN Ends(fs, "undefined")
               ELSE Answer(make_node(left, dir, to, type), Nothing, "none")

CreateFile(fs, dir, name, refused) ==
  LET p == Append(fs.nodes[dir].path, name) IN
  IF refused \/ p \notin Paths \/ ~IsDir(fs, Front(p)) \/ IsDir(fs, p)
  THEN Fails(fs, "host")
  ELSE find_in_node([fs EXCEPT !.host[p] = "file"], dir, name)

(* create_directory throws where it cannot, but not for what is there       *)
CreateDir(fs, dir, name, refused) ==
  LET p == Append(fs.nodes[dir].path, name) IN
  IF refused \/ ~IsDir(fs, Front(p)) \/ Len(p) > MaxDepth THEN Fails(fs, "throw")
  ELSE IF name = Dots THEN Ends(fs, "assert")
  ELSE find_in_node([fs EXCEPT !.host[p] = "dir"], dir, name)

-----------------------------------------------------------------------------
(* node_operation.  An operation is one of these; a rename has the node     *)
LockIt == [kind |-> "lock", node |-> Nothing]
MakeFile == [kind |-> "file", node |-> Nothing]
MakeDir == [kind |-> "dir", node |-> Nothing]
RenameOf(n) == [kind |-> "rename", node |-> n]

LockKey(l) == IF l = Nothing THEN RootId ELSE locks[l].node

IsDirNode(fs, n) == fs.nodes[n].type = "dir"

(* One '/' in front of the name *)
Up(r) ==
  IF r.node = Nothing THEN r
  ELSE IF r.node = RootId THEN Fails(r.fs, "not found")
  ELSE IF Dangling(r.fs, r.node) THEN Ends(r.fs, "undefined")
  ELSE [r EXCEPT !.node = r.fs.nodes[r.node].parent]

(* A component with another one or a '/' behind it *)
Down(r, name) ==
  IF r.node = Nothing THEN r
  ELSE IF ~IsDirNode(r.fs, r.node) THEN Fails(r.fs, "wrong type")
  ELSE find_in_node(r.fs, r.node, name)

Taken(node) == node # Nothing

(* The last component, with nothing behind it *)
AtLast(r, name, op, refused) ==
  LET f == find_in_node(r.fs, r.node, name) IN
  IF r.node = Nothing THEN [r EXCEPT !.err = "not found"]
  ELSE IF ~IsDirNode(r.fs, r.node) THEN Fails(r.fs, "wrong type")
  ELSE CASE op.kind = "lock" -> f
         [] op.kind = "file" -> CreateFile(f.fs, r.node, name, refused)
         [] op.kind = "dir" -> IF Taken(f.node) THEN Fails(f.fs, "exists")
                               ELSE CreateDir(f.fs, r.node, name, refused)
         [] op.kind = "rename" -> IF Taken(f.node) THEN Fails(f.fs, "exists")
                                  ELSE rename(f.fs, op.node, r.node, name)

Ups(r, n) ==
  LET at[i \in 0 .. n] == IF i = 0 THEN r ELSE Up(at[i - 1]) IN at[n]

Downs(r, comps) ==
  LET at[i \in 0 .. Len(comps)] == IF i = 0 THEN r ELSE Down(at[i - 1], comps[i])
  IN  at[Len(comps)]

Walk(fs, l, name) ==
  Downs(Ups(Answer(fs, LockKey(l), "none"), name.up),
        IF name.slash \/ name.comps = <<>> THEN name.comps ELSE Front(name.comps))

node_operation(fs, l, name, access, op, refused) ==
  LET r == Walk(fs, l, name)
      whole == name.slash \/ name.comps = <<>>
      found == IF whole THEN r ELSE AtLast(r, Last(name.comps), op, refused)
  IN  IF found.status # "ok" \/ found.err # "none" \/ (op.kind = "rename" /\ ~whole) THEN found
      ELSE IF found.node = Nothing THEN Fails(found.fs, "not found")
      ELSE IF whole /\ op.kind # "lock" THEN Ends(found.fs, "assert")
      ELSE IF CanLock(found.fs, found.node, access)
           THEN [found EXCEPT !.fs = Lock(@, found.node, access)]
           ELSE Fails(found.fs, "in use")

-----------------------------------------------------------------------------
(* What a packet leaves: FileLocks ls, handles hs.  A scan is owed what was *)
(* there when it began and still is; it is cut when the entry it stands at  *)
(* is gone.                                                                 *)
FirstFree(slots, f) == CHOOSE i \in slots : f[i] = NoHold /\ \A j \in slots : f[j] = NoHold => i <= j
HasFree(slots, f) == \E i \in slots : f[i] = NoHold

Slots == 1 .. MaxLocks
Indices == 1 .. MaxHandles
Held == {l \in Slots : locks[l] # NoHold}

Follow(fs, ls) ==
  IF scan.lock = Nothing THEN scan
  ELSE IF ls[scan.lock] = NoHold THEN [NoScan EXCEPT !.missed = scan.missed]
  ELSE [scan EXCEPT
          !.owed = {n \in @ : Exists(fs, Append(fs.nodes[ls[scan.lock].node].path, n))},
          !.cut = @ \/ (scan.last # Nothing /\ scan.last \notin DOMAIN fs.nodes)]

Root == [i \in {RootId} |-> NewNode(<<>>, RootId, "dir")]

(* Neither the tree nor what the guest held of it outlives its process      *)
Fresh ==
  /\ nodes' = Root /\ next_id' = RootId + 1
  /\ locks' = [l \in Slots |-> NoHold] /\ handles' = [i \in Indices |-> NoHold]
  /\ scan' = NoScan

Leaves(r, ls, hs) ==
  /\ status = "ok" /\ status' = r.status
  /\ IF r.status # "ok"
     THEN Fresh /\ UNCHANGED host
     ELSE /\ r.fs.next <= MaxId + 1
          /\ Cardinality({l \in Slots : ls[l] # NoHold})
               + Cardinality({i \in Indices : hs[i] # NoHold}) <= MaxHeld
          /\ Cardinality({p \in Paths : Exists(r.fs, p)}) <= MaxEntries
          /\ host' = r.fs.host /\ nodes' = r.fs.nodes /\ next_id' = r.fs.next
          /\ locks' = ls /\ handles' = hs /\ scan' = Follow(r.fs, ls)

(* Mutant: the node stays locked *)
UnlockForgotten(fs, n, access) == fs

NotMade(fs, n, access) == Unlock(fs, n, access)

(* make_lock for a node that is locked already.  The board's RAM may be     *)
(* used up before MaxLocks are out, see LocalRam.                           *)
MakesLock(r, access, full) ==
  IF r.node = Nothing THEN Leaves(r, locks, handles)
  ELSE IF full \/ ~HasFree(Slots, locks)
       THEN Leaves([r EXCEPT !.fs = NotMade(@, r.node, access)], locks, handles)
       ELSE Leaves(r, [locks EXCEPT ![FirstFree(Slots, locks)] =
                         [node |-> r.node, access |-> access]], handles)

action_locate_object(l, name, access, full) ==
  /\ MakesLock(node_operation(Now, l, name, access, LockIt, FALSE), access, full)
  /\ UNCHANGED moved

action_create_dir(l, name, full, refused) ==
  /\ MakesLock(node_operation(Now, l, name, "exclusive", MakeDir, refused), "exclusive", full)
  /\ UNCHANGED moved

action_free_lock(l) ==
  /\ l \in Held
  /\ LET h == locks[l] IN
     IF h.node \notin DOMAIN nodes THEN UNCHANGED <<host, nodes, next_id, locks, handles, scan, status>>
     ELSE IF ~MayUnlock(Now, h.node, h.access) THEN Leaves(Ends(Now, "assert"), locks, handles)
     ELSE Leaves(Answer(Unlock(Now, h.node, h.access), Nothing, "none"),
                 [locks EXCEPT ![l] = NoHold], handles)
  /\ UNCHANGED moved

action_copy_dir(l, full) ==
  /\ LET n == LockKey(l)
         valid == l = Nothing \/ (locks[l].access = "shared" /\ n \in DOMAIN nodes)
     IN  MakesLock(IF valid /\ CanLock(Now, n, "shared")
                   THEN Answer(Lock(Now, n, "shared"), n, "none") ELSE Fails(Now, "in use"),
                   "shared", full)
  /\ UNCHANGED moved

action_parent(l, full) ==
  /\ l \in Held /\ LockKey(l) # RootId
  /\ LET p == nodes[LockKey(l)].parent
     IN  IF Dangling(Now, LockKey(l)) THEN Leaves(Ends(Now, "undefined"), locks, handles)
         ELSE MakesLock(IF CanLock(Now, p, "shared")
                        THEN Answer(Lock(Now, p, "shared"), p, "none") ELSE Fails(Now, "in use"),
                        "shared", full)
  /\ UNCHANGED moved

(* A node that was locked for the packet only, unless op made it go *)
Released(before, after, access) ==
  IF after.status = "ok" /\ after.err # "none"
  THEN [after EXCEPT !.fs = Unlock(@, before.node, access)] ELSE after

action_delete_object(l, name, refused) ==
  /\ LET r == node_operation(Now, l, name, "exclusive", LockIt, FALSE)
     IN  Leaves(IF r.node = Nothing THEN r
                ELSE Released(r, delete_node(r.fs, r.node, refused), "exclusive"), locks, handles)
  /\ UNCHANGED moved

action_rename_object(l, name, l2, name2) ==
  LET r == node_operation(Now, l, name, "exclusive", LockIt, FALSE)
      r2 == node_operation(r.fs, l2, name2, "shared", RenameOf(r.node), FALSE)
  IN  IF r.node = Nothing THEN Leaves(r, locks, handles) /\ UNCHANGED moved
      ELSE /\ Leaves(Released(r, r2, "exclusive"), locks, handles)
           /\ moved' = (moved \/ (/\ r2.status = "ok" /\ r2.err = "none"
                                  /\ r.fs.nodes[r.node].children # <<>>))

(* It only asks whether the object could be locked *)
action_set_protect(l, name) ==
  /\ LET r == node_operation(Now, l, name, "exclusive", LockIt, FALSE)
     IN  Leaves(IF r.node = Nothing THEN r
                ELSE [r EXCEPT !.fs = Unlock(@, r.node, "exclusive")], locks, handles)
  /\ UNCHANGED moved

Opens(fs, n, mode) == 
  IF mode = "output" THEN IsDir(fs, Front(fs.nodes[n].path)) /\ ~IsDir(fs, fs.nodes[n].path)
  ELSE Exists(fs, fs.nodes[n].path) /\ ~IsDir(fs, fs.nodes[n].path)

action_find(mode, l, name, refused) ==
  LET access == IF mode = "input" THEN "shared" ELSE "exclusive"
      r == node_operation(Now, l, name, access, IF mode = "output" THEN MakeFile ELSE LockIt, refused)
  IN  /\ IF r.node = Nothing THEN Leaves(r, locks, handles)
         ELSE IF ~IsDirNode(r.fs, r.node) /\ ~refused /\ Opens(r.fs, r.node, mode)
         THEN /\ HasFree(Indices, handles)
              /\ Leaves(r, locks, [handles EXCEPT ![FirstFree(Indices, handles)] =
                                     [node |-> r.node, access |-> access]])
         ELSE Leaves([r EXCEPT !.fs = Unlock(@, r.node, access)], locks, handles)
      /\ UNCHANGED moved

(* close_file_handle and ~file_handle *)
action_end(i) ==
  /\ handles[i] # NoHold
  /\ Leaves(Answer(Unlock(Now, handles[i].node, handles[i].access), Nothing, "none"),
            locks, [handles EXCEPT ![i] = NoHold])
  /\ UNCHANGED moved

-----------------------------------------------------------------------------
(* find_next_node: the first call learns what the host has, in its order    *)
Orders(S) == {s \in [1 .. Cardinality(S) -> S] : \A i, j \in DOMAIN s : s[i] = s[j] => i = j}

(* Mutant: what is not known yet is not found *)
LearnNothing(fs, dir, order) == fs

Learn(fs, dir, order) ==
  LET at[i \in 0 .. Len(order)] == IF i = 0 THEN fs ELSE find_in_node(at[i - 1], dir, order[i]).fs
  IN  at[Len(order)]

Reports(fs, owed, n) ==
  /\ Exists(fs, fs.nodes[n].path)           (* else fill_file_info throws  *)
  /\ scan' = [scan EXCEPT !.last = n, !.owed = owed \ {Last(fs.nodes[n].path)}, !.cut = FALSE]

NoMoreEntries(owed, cut) ==
  scan' = [NoScan EXCEPT !.missed = IF cut THEN {} ELSE owed]

(* ACTION_EXAMINE_OBJECT on a directory, whose file info ExNext goes on     *)
action_examine_object(l) ==
  /\ status = "ok" /\ l \in Held /\ LockKey(l) \in DOMAIN nodes /\ IsDirNode(Now, LockKey(l))
  /\ IsDir(Now, nodes[LockKey(l)].path)
  /\ scan' = [NoScan EXCEPT !.lock = l]
  /\ UNCHANGED <<host, nodes, next_id, locks, handles, status, moved>>

ExamineFirst ==
  /\ status = "ok" /\ scan.lock # Nothing /\ scan.last = Nothing
  /\ LET dir == LockKey(scan.lock)
         found == Entries(Now, nodes[dir].path)
     IN  /\ IsDir(Now, nodes[dir].path)
         /\ \E order \in Orders(found) :
              LET fs == Learn(Now, dir, order)
                  children == fs.nodes[dir].children
              IN  /\ fs.next <= MaxId + 1
                  /\ nodes' = fs.nodes /\ next_id' = fs.next
                  /\ IF children = <<>> THEN NoMoreEntries(found, FALSE)
                     ELSE Reports(fs, found, Head(children))
  /\ UNCHANGED <<host, locks, handles, status, moved>>

ExamineNext ==
  /\ status = "ok" /\ scan.lock # Nothing /\ scan.last # Nothing
  /\ LET children == nodes[LockKey(scan.lock)].children
         after == {i \in 2 .. Len(children) : children[i - 1] = scan.last}
     IN  IF after = {} THEN NoMoreEntries(scan.owed, scan.cut)
         ELSE \E i \in after : Reports(Now, scan.owed, children[i])
  /\ UNCHANGED <<host, nodes, next_id, locks, handles, status, moved>>

-----------------------------------------------------------------------------
(* do_reset: the tree is made anew, the guest forgets its locks *)
reset ==
  /\ status = "ok"
  /\ status' = IF \E n \in DOMAIN nodes : Dangling(Now, n) THEN "undefined" ELSE "ok"
  /\ Fresh /\ moved' = FALSE /\ UNCHANGED host

Init ==
  /\ host = InitialHost /\ nodes = Root /\ next_id = RootId + 1
  /\ locks = [l \in Slots |-> NoHold] /\ handles = [i \in Indices |-> NoHold]
  /\ scan = NoScan /\ status = "ok" /\ moved = FALSE

Next ==
  \/ \E l \in Held \cup {Nothing} :
       \/ \E name \in PacketNames :
            \/ action_set_protect(l, name)
            \/ action_create_dir(l, name, TRUE, FALSE)
            \/ \E name2 \in NewNames : action_rename_object(l, name, l, name2)
       \/ \E full \in BOOLEAN :
            \/ action_copy_dir(l, full)
            \/ action_parent(l, full)
            \/ \E name \in PacketNames, access \in Access : action_locate_object(l, name, access, full)
       \/ \E name \in PacketNames, refused \in BOOLEAN :
            \/ action_create_dir(l, name, FALSE, refused)
            \/ action_delete_object(l, name, refused)
            \/ \E mode \in {"update", "input", "output"} : action_find(mode, l, name, refused)
  \/ \E l \in Slots : action_free_lock(l)
  \/ \E l \in ScanSlots : action_examine_object(l)
  \/ \E i \in Indices : action_end(i)
  \/ ExamineFirst \/ ExamineNext
  \/ reset

Spec == Init /\ [][Next]_vars

-----------------------------------------------------------------------------
Holders(n) == {<<"lock", l>> : l \in {k \in Slots : locks[k].node = n}}
                \cup {<<"handle", i>> : i \in {k \in Indices : handles[k].node = n}}

HeldExclusively(n) == \/ \E l \in Slots : locks[l] = [node |-> n, access |-> "exclusive"]
                      \/ \E i \in Indices : handles[i] = [node |-> n, access |-> "exclusive"]

(***************************************************************************)
(* access_count_, "-1 -> exclusive access, 0 no access, > 0 number of      *)
(* shared accesses", is what the guest holds whatever packets failed half  *)
(* way: an exclusive holder is alone, and what is held has a node, so each *)
(* lock and handle can be given back.                                      *)
(***************************************************************************)
HoldersMatch ==
  /\ \A n \in DOMAIN nodes :
       IF HeldExclusively(n) THEN nodes[n].count = -1 /\ Cardinality(Holders(n)) = 1
       ELSE nodes[n].count = Cardinality(Holders(n))
  /\ \A l \in Held : locks[l].node \in DOMAIN nodes
  /\ \A i \in Indices : handles[i] # NoHold => handles[i].node \in DOMAIN nodes

(***************************************************************************)
(* What can be reached from the root is a tree: a directory lists a node   *)
(* once, the node's path is one name longer, and no two siblings have the  *)
(* same name, so an object of the host is locked through one node only.    *)
(* A node refers to a directory's node that is gone only after a directory *)
(* was renamed while entries of it were known.                             *)
(***************************************************************************)
ChildrenOf(n) == ToSet(nodes[n].children)

LiveTree ==
  /\ ~moved => \A n \in DOMAIN nodes : ~Dangling(Now, n)
  /\ status = "ok" =>
     \A n \in DOMAIN nodes :
      /\ ChildrenOf(n) \subseteq DOMAIN nodes
      /\ Cardinality(ChildrenOf(n)) = Len(nodes[n].children)
      /\ \A c \in ChildrenOf(n) : nodes[c].parent = n /\ Front(nodes[c].path) = nodes[n].path
      /\ \A c, d \in ChildrenOf(n) : nodes[c].path = nodes[d].path => c = d

(***************************************************************************)
(* An ExNext loop that runs to its end has reported every entry that was   *)
(* there from its start to its end, unless the entry it stood at was       *)
(* deleted or renamed (find_next_node then ends it).                       *)
(***************************************************************************)
ScanSeesAll == scan.missed = {}

=============================================================================
