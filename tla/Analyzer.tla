----------------------------- MODULE Analyzer ------------------------------
(***************************************************************************)
(* The disassembler's analyzer (m68kdisasm.cpp): code is found by tracing  *)
(* it from known roots with simulated registers, data by the labels that   *)
(* traced instructions give it, and then the whole area is printed.        *)
(*                                                                         *)
(* Addresses are bytes, an instruction has one or two words.  An image     *)
(* says what the words at an even address mean as an instruction, as a     *)
(* pointer and as an offset in a jump table; how one follows from the      *)
(* other is left out.  Instructions are kept apart by what the tracer does *)
(* with them; of the registers, one is lost in a call and one is not.      *)
(* Structures, strings, copper lists, libraries, and how an operand is     *)
(* written are left out.                                                   *)
(***************************************************************************)
EXTENDS Integers, Sequences, FiniteSets, SequencesExt, FiniteSetsExt, TLC

CONSTANTS
  Low,       (* roots below it must be forced: the vectors                 *)
  End,       (* the area that was loaded is Low .. End - 1                 *)
  Images,    (* records [inst, ptr, ofs] of functions of the even addresses *)
  Infos,     (* info files: records [predef, forced, ignored, functions]   *)
  TableReach (* how far an entry of a jump table may point                 *)

Area == Low .. End - 1
Unknown == -1
Registers == {"scratch", "kept"}
NoRegs == [r \in Registers |-> Unknown]

VARIABLES
  image, info,
  phase,     (* "predef", "trace", "print", "done"                         *)
  more,      (* predefined entries still to be looked at                   *)
  at, regs,  (* where trace is, or Unknown, and its registers              *)
  roots, visited, labels, saved_pointers, informed,
  pos, data, (* where the output is; the data area it is in                *)
  shown      (* how often each byte was printed                            *)

vars == <<image, info, phase, more, at, regs, roots, visited, labels, saved_pointers,
          informed, pos, data, shown>>

-----------------------------------------------------------------------------
(* Types and labels *)
Code == [kind |-> "code", size |-> 0]
Plain == [kind |-> "unknown", size |-> 0]
CodePtr == [kind |-> "ptr", size |-> 4]
Sized(n) == [kind |-> "data", size |-> n]
JumpTable(n) == [kind |-> "table", size |-> 2 * n]

Below(ls, addr) == {l \in DOMAIN ls : l < addr}

(* The label that covers an address *)
find_label(ls, addr) ==
  IF addr \in DOMAIN ls THEN addr
  ELSE IF Below(ls, addr) = {} THEN Unknown
  ELSE LET l == Max(Below(ls, addr))
       IN  IF addr < l + ls[l].type.size THEN l ELSE Unknown

Predefined(addr) == {p \in ToSet(info.predef) : p.addr = addr}

Label(t, dat) == [type |-> t, dat |-> dat]

(* dat: the name is one made for data, which any better one replaces *)
add_label(ls, addr, t, dat) ==
  LET l == find_label(ls, addr) IN
  IF l = Unknown THEN (addr :> Label(t, dat)) @@ ls
  ELSE LET old == ls[l].type IN
       IF Predefined(addr) # {} \/ old = t \/ t = Plain \/ old.kind = "table" THEN ls
       ELSE IF old = Plain \/ t = Code
       THEN [ls EXCEPT ![l] = Label(t, dat /\ ls[l].dat)]
       ELSE IF old # Code /\ t.size > old.size THEN [ls EXCEPT ![l].type = t]
       ELSE ls

(* A vector is a pointer to code whatever it is used as *)
add_auto_label(ls, addr, t, dat) ==
  IF addr < Low /\ addr % 4 = 0 /\ t # Code
  THEN IF addr \div 4 < 2 THEN ls ELSE add_label(ls, addr, CodePtr, FALSE)
  ELSE add_label(ls, addr, t, dat)

(* Data may be defined outside the area, see handle_predef_info *)
Extent(p) == p.addr .. p.addr + (IF p.type = Plain THEN 1 ELSE p.type.size) - 1
Written == Area \cup UNION {Extent(p) : p \in {q \in ToSet(info.predef) : q.type # Code}}

-----------------------------------------------------------------------------
(* What a step works on *)
Now == [regs |-> regs, roots |-> roots, visited |-> visited, labels |-> labels, saved |-> saved_pointers]

Becomes(s) ==
  /\ regs' = s.regs /\ roots' = s.roots /\ visited' = s.visited
  /\ labels' = s.labels /\ saved_pointers' = s.saved

ForcedAt(addr, rs) ==
  [r \in Registers |-> IF <<addr, r>> \in DOMAIN info.forced THEN info.forced[<<addr, r>>] ELSE rs[r]]

Rejected(addr, force) ==
  \/ addr % 2 = 1
  \/ ~force /\ (addr \notin Written \/ addr < Low)

(* A root is visited from the moment it is known *)
add_root(s, addr, rs, force) ==
  LET seen == addr \in DOMAIN s.visited
      root == [addr |-> addr, regs |-> ForcedAt(addr, rs)]
  IN  IF Rejected(addr, force) \/ (~seen /\ \E p \in Predefined(addr) : p.type # Code) THEN s
      ELSE [s EXCEPT !.roots = IF seen THEN @ ELSE Append(@, root),
                     !.visited = IF seen THEN @ ELSE (addr :> root.regs) @@ @,
                     !.labels = add_auto_label(@, addr, Code, FALSE)]

Call(s) == [s EXCEPT !.regs["scratch"] = Unknown]

do_branch(s, addr, is_func) ==
  IF addr \in DOMAIN info.functions
  THEN LET r == info.functions[addr]
       IN  Call(IF s.regs[r] # Unknown THEN add_root(s, s.regs[r], s.regs, FALSE) ELSE s)
  ELSE LET t == add_root(s, addr, s.regs, FALSE) IN IF is_func THEN Call(t) ELSE t

Offset(addr) == IF addr \in DOMAIN image.ofs THEN image.ofs[addr] ELSE 0

do_jump_table(s, addr, len) ==
  FoldLeft(LAMBDA t, i : IF addr \in Written /\ Offset(addr + (2 * i)) # 0
                         THEN do_branch(t, addr + Offset(addr + (2 * i)), TRUE) ELSE t,
           s, [i \in 1 .. len |-> i - 1])

(* The words behind a label that look like entries of a table *)
LooksLikeEntry(addr, a) ==
  LET dest == addr + Offset(a)
  IN  Offset(a) = 0 \/ (/\ Offset(a) % 2 = 0
                        /\ dest \in Written /\ dest \in DOMAIN image.inst
                        /\ image.inst[dest].op # "illegal"
                        /\ Offset(a) \in -TableReach .. TableReach)

TableLength(ls, addr) ==
  LET InTable(n) == \A i \in 0 .. n - 1 :
        LET a == addr + (2 * i)
        IN  /\ a \in Written
            /\ \A l \in DOMAIN ls : l > addr => a < l
            /\ LooksLikeEntry(addr, a)
  IN  Max({n \in 0 .. (End - addr) \div 2 + 1 : InTable(n)})

(* The table a jump with an index uses, known or guessed once *)
IsTable(s, addr) == addr \in DOMAIN s.labels /\ s.labels[addr].type.kind = "table"
Guessed(s, addr) ==
  addr \in DOMAIN s.labels /\ addr % 2 = 0 /\ ~IsTable(s, addr) /\ s.labels[addr].dat /\ addr \notin informed

check_jump_table(s, addr) ==
  IF addr \notin Written THEN s
  ELSE IF IsTable(s, addr) THEN do_jump_table(s, addr, s.labels[addr].type.size \div 2)
  ELSE IF Guessed(s, addr) /\ TableLength(s.labels, addr) > 0
  THEN LET n == TableLength(s.labels, addr)
       IN  do_jump_table([s EXCEPT !.labels = add_auto_label(@, addr, JumpTable(n), FALSE)], addr, n)
  ELSE s

(* What is written to memory is remembered, the first value for good *)
update_mem(s, addr, val) ==
  IF val = Unknown THEN s
  ELSE IF addr % 4 = 0 /\ addr < Low
  THEN add_root([s EXCEPT !.labels = add_auto_label(@, addr, CodePtr, FALSE)], val, NoRegs, FALSE)
  ELSE IF addr % 2 = 0
  THEN LET t == [s EXCEPT !.saved = @ @@ (addr :> val)]
       IN  IF addr \in DOMAIN s.labels /\ s.labels[addr].type = CodePtr
           THEN add_root(t, val, NoRegs, FALSE) ELSE t
  ELSE s

read_mem(s, addr) ==
  IF addr \in DOMAIN s.saved THEN s.saved[addr]
  ELSE IF addr \in Written /\ addr \in DOMAIN image.ptr THEN image.ptr[addr] ELSE Unknown

(* Data that an instruction uses gets a label, vectors only as longs *)
Uses(s, addr, t) ==
  IF addr \in Written /\ (addr < Low => t.size = 4 /\ addr % 4 = 0)
  THEN [s EXCEPT !.labels = add_auto_label(@, addr, t, TRUE)] ELSE s

-----------------------------------------------------------------------------
(* trace: one instruction *)
Length(i) == IF i.op \in {"branch", "through", "return", "illegal"} THEN 2 ELSE 4
EndsTrace(i) == i.op \in {"return", "illegal"} \/ (i.op \in {"branch", "jump", "through", "table"} /\ i.last)

Effect(s, i) ==
  CASE i.op = "branch" -> do_branch(s, i.addr, i.call)
    [] i.op = "dbcc" -> add_root(s, i.addr, s.regs, FALSE)
    [] i.op = "jump" -> do_branch(s, i.addr, TRUE)
    [] i.op = "through" -> IF s.regs[i.reg] = Unknown THEN s ELSE do_branch(s, s.regs[i.reg], TRUE)
    [] i.op = "table" -> IF s.regs[i.reg] = Unknown THEN s ELSE check_jump_table(s, s.regs[i.reg])
    [] i.op = "lea" -> [Uses(s, i.addr, Plain) EXCEPT !.regs[i.reg] = i.addr]
    [] i.op = "load" -> LET v == read_mem(s, i.addr)
                        IN  [Uses(s, i.addr, Sized(4)) EXCEPT !.regs[i.reg] = v]
    [] i.op = "store" -> update_mem(Uses(s, i.addr, Sized(4)), i.addr, s.regs[i.reg])
    [] i.op = "access" -> Uses(s, i.addr, Sized(i.size))
    [] OTHER -> s

(* Mutant: what was visited before is not traced again *)
GoesOnUnseen(seen, i) == ~seen /\ ~EndsTrace(i)

GoesOn(seen, i) == ~EndsTrace(i)

trace ==
  /\ at # Unknown
  /\ IF at \notin Written \/ at \notin DOMAIN image.inst
     THEN at' = Unknown /\ UNCHANGED <<regs, roots, visited, labels, saved_pointers, informed>>
     ELSE LET i == image.inst[at]
              rs == ForcedAt(at, regs)
              s == [Now EXCEPT !.regs = rs, !.visited = @ @@ (at :> rs)]
          IN  /\ Becomes(Effect(s, i))
              /\ informed' = IF i.op = "table" /\ rs[i.reg] # Unknown /\ rs[i.reg] \in Written
                                /\ Guessed(s, rs[i.reg])
                             THEN informed \cup {rs[i.reg]} ELSE informed
              /\ at' = IF GoesOn(at \in DOMAIN visited, i) THEN at + Length(i) ELSE Unknown
  /\ UNCHANGED <<image, info, phase, more, pos, data, shown>>

(* process_roots *)
process_roots ==
  /\ phase = "trace" /\ at = Unknown /\ roots # <<>>
  /\ at' = Last(roots).addr /\ regs' = Last(roots).regs /\ roots' = Front(roots)
  /\ UNCHANGED <<image, info, phase, more, visited, labels, saved_pointers, informed, pos, data, shown>>

(* handle_predef_info: an entry of the info file, with what it points to *)
handle_predef_info ==
  /\ phase = "predef"
  /\ IF more = <<>>
     THEN /\ phase' = "trace" /\ more' = info.predef
          /\ UNCHANGED <<regs, roots, visited, labels, saved_pointers>>
     ELSE /\ more' = Tail(more) /\ UNCHANGED phase
          /\ LET p == Head(more)
                 s == [Now EXCEPT !.labels = add_label(@, p.addr, p.type, FALSE)]
                 to == IF p.addr \in DOMAIN image.ptr THEN image.ptr[p.addr] ELSE 0
             IN  Becomes(IF p.type = CodePtr /\ to \in Written /\ to # 0 THEN add_root(s, to, NoRegs, TRUE) ELSE s)
  /\ UNCHANGED <<image, info, at, informed, pos, data, shown>>

(* Predefined code that tracing did not find *)
more_roots ==
  /\ phase = "trace" /\ at = Unknown /\ roots = <<>> /\ more # <<>>
  /\ more' = Tail(more)
  /\ LET p == Head(more) IN
     IF p.type = Code /\ p.addr \notin DOMAIN visited THEN Becomes(add_root(Now, p.addr, NoRegs, TRUE))
     ELSE IF p.type.kind = "table"
     THEN Becomes(FoldLeft(LAMBDA t, i : IF Offset(p.addr + (2 * i)) = 0 THEN t
                                         ELSE add_root(t, p.addr + Offset(p.addr + (2 * i)), NoRegs, TRUE),
                           Now, [i \in 1 .. p.type.size \div 2 |-> i - 1]))
     ELSE UNCHANGED <<regs, roots, visited, labels, saved_pointers>>
  /\ UNCHANGED <<image, info, phase, at, informed, pos, data, shown>>

-----------------------------------------------------------------------------
(* The output *)

(* Labels inside of what an earlier one covers go *)
Pruned(ls) ==
  FoldLeft(LAMBDA kept, l :
             IF \E k \in DOMAIN kept : k < l /\ l < k + kept[k].type.size
             THEN kept ELSE (l :> ls[l]) @@ kept,
           <<>>, SetToSortSeq(DOMAIN ls, <))

prune ==
  /\ phase = "trace" /\ at = Unknown /\ roots = <<>> /\ more = <<>>
  /\ phase' = "print" /\ labels' = Pruned(labels) /\ pos' = Low
  /\ UNCHANGED <<image, info, more, at, regs, roots, visited, saved_pointers, informed, data, shown>>

Prints(from, to) == shown' = [a \in Area |-> IF a \in from .. to - 1 THEN shown[a] + 1 ELSE shown[a]]

NoData == [limit |-> 0, next |-> 0, end |-> 0]

IgnoredAt(a) == {i \in info.ignored : a >= i.beg /\ a < i.end}

(* handle_data_area: up to an ignored area, and behind it *)
Part(from, end) ==
  LET met == {i \in info.ignored : from <= i.end /\ i.beg <= end}
      first == CHOOSE i \in met : \A j \in met : i.beg <= j.beg
  IN  IF met = {} THEN [limit |-> end, next |-> end, end |-> end]
      ELSE [limit |-> first.beg, next |-> first.end + 2, end |-> end]

NextOf(S, a, default) == LET above == {x \in S : x > a /\ x < default}
                         IN  IF above = {} THEN default ELSE Min(above)

IsCode(a) == a \in DOMAIN visited

run ==
  /\ phase = "print" /\ data = NoData
  /\ IF pos >= End THEN phase' = "done" /\ UNCHANGED <<pos, data, shown>>
     ELSE /\ UNCHANGED phase
          /\ IF IgnoredAt(pos) # {}
             THEN pos' = (CHOOSE i \in IgnoredAt(pos) : TRUE).end /\ UNCHANGED <<data, shown>>
             ELSE IF ~IsCode(pos)
             THEN data' = Part(pos, NextOf(DOMAIN visited, pos, End)) /\ UNCHANGED <<pos, shown>>
             ELSE LET len == IF pos \in DOMAIN image.inst THEN Length(image.inst[pos]) ELSE 2
                  IN  pos' = pos + len /\ Prints(pos, pos + len) /\ UNCHANGED data
  /\ UNCHANGED <<image, info, more, at, regs, roots, visited, labels, saved_pointers, informed>>

(* handle_data_area_checked: a labelled item whole, or all up to the next   *)
(* label in words, with single bytes to even addresses                      *)
Item(next) ==
  IF pos \in DOMAIN labels /\ labels[pos].type.size > 0
  THEN IF labels[pos].type.kind = "table" THEN Min({pos + labels[pos].type.size, next})
       ELSE pos + labels[pos].type.size
  ELSE LET even == IF pos % 2 = 1 \/ next = pos + 1 THEN pos + 1 ELSE pos
       IN  IF even = next THEN next ELSE Max({even, next - (next % 2)})

handle_data_area ==
  /\ phase = "print" /\ data # NoData
  /\ IF pos < data.limit
     THEN LET to == Item(NextOf(DOMAIN labels, pos, data.limit))
          IN  Prints(pos, to) /\ pos' = to /\ UNCHANGED data
     ELSE /\ UNCHANGED shown
          /\ IF data.next < data.end THEN pos' = data.next /\ data' = Part(data.next, data.end)
             ELSE pos' = data.end /\ data' = NoData
  /\ UNCHANGED <<image, info, phase, more, at, regs, roots, visited, labels, saved_pointers, informed>>

-----------------------------------------------------------------------------
(* add_start_root *)
AnalyzerInit ==
  /\ image \in Images /\ info \in Infos
  /\ phase = "predef" /\ more = info.predef
  /\ at = Unknown /\ regs = NoRegs
  /\ LET known == Predefined(Low) # {}
     IN  /\ roots = IF known THEN <<>> ELSE <<[addr |-> Low, regs |-> ForcedAt(Low, NoRegs)]>>
         /\ visited = IF known THEN <<>> ELSE (Low :> ForcedAt(Low, NoRegs))
         /\ labels = IF known THEN <<>> ELSE (Low :> Label(Code, FALSE))
  /\ saved_pointers = <<>> /\ informed = {}
  /\ pos = 0 /\ data = NoData /\ shown = [a \in Area |-> 0]

AnalyzerNext ==
  handle_predef_info \/ process_roots \/ trace \/ more_roots \/ prune \/ run \/ handle_data_area

-----------------------------------------------------------------------------
(***************************************************************************)
(* When the output begins, what an instruction in the area leads to is     *)
(* code too, with the address behind it if it does not end the flow and    *)
(* the one it names, unless a root may not be there -- whatever path it    *)
(* was reached on, and however often.                                      *)
(***************************************************************************)
Follows(a) ==
  LET i == image.inst[a]
  IN  /\ (~EndsTrace(i) /\ a + Length(i) \in Area) => a + Length(i) \in DOMAIN visited
      /\ (i.op \in {"branch", "dbcc", "jump"} /\ i.addr \notin DOMAIN info.functions) =>
           \/ i.addr \in DOMAIN visited \/ Rejected(i.addr, FALSE)
           \/ \E p \in Predefined(i.addr) : p.type # Code

FlowFollowed ==
  phase \in {"print", "done"} =>
    \A a \in DOMAIN visited : (a \in Area /\ a \in DOMAIN image.inst) => Follows(a)

(***************************************************************************)
(* Each byte of the area is printed, but for ignored ones and the word     *)
(* behind them, and twice only where an item of data reaches into code.    *)
(***************************************************************************)
Skipped == UNION {i.beg .. i.end + 1 : i \in info.ignored}

ReachesIntoCode(a) ==
  \E l \in DOMAIN labels : /\ labels[l].type.size > 0
                           /\ \E v \in DOMAIN visited : l < v /\ v <= a /\ a < l + labels[l].type.size

EveryByteShown ==
  phase = "done" => \A a \in Area \ Skipped : shown[a] = 1 \/ (shown[a] = 2 /\ ReachesIntoCode(a))

=============================================================================
