------------------------------ MODULE LocalRam ------------------------------
(***************************************************************************)
(* The allocator in the harddisk board's RAM (harddisk.cpp): a free list   *)
(* kept in the free memory itself, from which the volumes' names and the   *)
(* FileLocks are taken that AmigaDOS and the emulator share.               *)
(*                                                                         *)
(* Everything is a multiple of local_ram_align, so RAM is cut into cells   *)
(* of 8 bytes: the two longwords of a cell are the header of a free block  *)
(* that starts there.  What owners write in their memory is left out: the  *)
(* list must never lead there.                                             *)
(***************************************************************************)
EXTENDS Integers, Sequences, FiniteSets

CONSTANTS
  local_ram_size,  (* in cells                                             *)
  NameBytes,       (* for each volume, the bytes of its name as a BSTR     *)
  fl_Sizeof        (* the bytes of a FileLock                              *)

Cells == 0 .. local_ram_size - 1
Volumes == DOMAIN NameBytes

ASSUME LocalRamAssumption ==
  /\ local_ram_size \in Nat \ {0} /\ fl_Sizeof \in Nat \ {0}
  /\ NameBytes \in Seq(Nat \ {0})

(* Sizes are rounded up to local_ram_align, in alloc and in free *)
local_ram_align == 8
AllocCells(bytes) == (bytes + local_ram_align - 1) \div local_ram_align

(* Mutant: rounded down *)
FreeCellsDown(bytes) == bytes \div local_ram_align

FreeCells(bytes) == (bytes + local_ram_align - 1) \div local_ram_align

(* local_ram_list_end is ~0U: more than any offset *)
local_ram_list_end == 2 * local_ram_size
None == -1
Offsets == Cells \cup {local_ram_list_end}

VARIABLES
  heap_ptr,  (* local_ram_heap_ptr_                                        *)
  ram,       (* [Cells -> [next, size]]: the headers, in cells             *)
  names,     (* [Volumes -> Cells \cup {None}]: name_addr                  *)
  locks      (* the FileLocks handed out                                   *)

vars == <<heap_ptr, ram, names, locks>>

-----------------------------------------------------------------------------
(* The walk along the list.  A list that closes on itself never ends.       *)
InRam(p) == p < local_ram_size

walk ==
  LET w[n \in 0 .. local_ram_size] ==
        IF n = 0 THEN heap_ptr
        ELSE LET p == w[n - 1] IN IF InRam(p) THEN ram[p].next ELSE p
  IN  w

Listed == {walk[n] : n \in 0 .. local_ram_size} \cap Cells

Header(next, size) == [next |-> next, size |-> size]

(* memset: what was a header reads as zero *)
Cleared(r, p, size) ==
  [c \in Cells |-> IF c \in p .. p + size - 1 THEN Header(0, 0) ELSE r[c]]

(* The first block that is large enough: its place in the walk *)
FirstFit(size) ==
  {n \in 0 .. local_ram_size :
     /\ InRam(walk[n]) /\ ram[walk[n]].size >= size
     /\ \A m \in 0 .. n - 1 : InRam(walk[m]) /\ ram[walk[m]].size < size}

(* Mutants: the rest keeps the size of the whole; the wrong way round *)
RemainderWhole(asize, size) == asize
RemainderSwapped(asize, size) == size - asize

Remainder(asize, size) == asize - size

(* local_ram_alloc of the block at p.  Only the head is linked anew: a      *)
(* block further on leaves its predecessor pointing at what it gave away.   *)
Take(p, size) ==
  LET b == ram[p]
      rem_size == Remainder(b.size, size)
      rest == IF rem_size # 0 THEN p + size ELSE b.next
      split == IF rem_size # 0
               THEN [ram EXCEPT ![p + size] = Header(b.next, rem_size)]
               ELSE ram
  IN  /\ heap_ptr' = IF p = heap_ptr THEN rest ELSE heap_ptr
      /\ ram' = Cleared(split, p, size)

(* local_ram_free: the blocks around ptr in the list *)
Before(ptr) == {p \in Listed : p < ptr}

Prev(ptr) ==
  IF Before(ptr) = {} THEN local_ram_list_end
  ELSE CHOOSE p \in Before(ptr) : \A q \in Before(ptr) : q <= p

Following(ptr) ==
  IF Before(ptr) = {} THEN heap_ptr ELSE ram[Prev(ptr)].next

(* Mutant: only blocks with something between them are joined *)
JoinsNextNever(end, next) == end > next

JoinsNext(end, next) == InRam(next) /\ end = next

(* Only the head is linked to the freed block; one that does not touch its  *)
(* predecessor is not linked to it.                                         *)
Free(ptr, size) ==
  LET prev == Prev(ptr)
      joined == InRam(prev) /\ prev + ram[prev].size = ptr
      start == IF joined THEN prev ELSE ptr
      end == ptr + size
      next == Following(ptr)
      merged == JoinsNext(end, next)
      total == (end - start) + (IF merged THEN ram[next].size ELSE 0)
  IN  /\ heap_ptr' = IF InRam(prev) THEN heap_ptr ELSE ptr
      /\ ram' = [ram EXCEPT ![start] =
                   Header(IF merged THEN ram[next].next ELSE next, total)]

-----------------------------------------------------------------------------
(* handle_volume_get_id.  exprom asks for every name while it adds the      *)
(* volumes, before any of them can be used.                                 *)
handle_volume_get_id(v) ==
  /\ names[v] = None
  /\ \E n \in FirstFit(AllocCells(NameBytes[v])) :
       /\ Take(walk[n], AllocCells(NameBytes[v]))
       /\ names' = [names EXCEPT ![v] = walk[n]]
  /\ UNCHANGED locks

make_lock ==
  /\ \A v \in Volumes : names[v] # None
  /\ \E n \in FirstFit(AllocCells(fl_Sizeof)) :
       /\ Take(walk[n], AllocCells(fl_Sizeof))
       /\ locks' = locks \cup {walk[n]}
  /\ UNCHANGED names

action_free_lock(p) ==
  /\ p \in locks
  /\ Free(p, FreeCells(fl_Sizeof))
  /\ locks' = locks \ {p}
  /\ UNCHANGED names

(* local_ram_init; shared_folders_ is made anew *)
InitialRam == [c \in Cells |->
                 IF c = 0 THEN Header(local_ram_list_end, local_ram_size)
                 ELSE Header(0, 0)]

reset ==
  /\ heap_ptr' = 0 /\ ram' = InitialRam
  /\ names' = [v \in Volumes |-> None] /\ locks' = {}

Init ==
  /\ heap_ptr = 0 /\ ram = InitialRam
  /\ names = [v \in Volumes |-> None] /\ locks = {}

Next == \/ \E v \in Volumes : handle_volume_get_id(v)
        \/ make_lock
        \/ \E p \in Cells : action_free_lock(p)
        \/ reset

Spec == Init /\ [][Next]_vars

-----------------------------------------------------------------------------
TypeOK ==
  /\ heap_ptr \in Offsets
  /\ ram \in [Cells -> [next : Offsets, size : 0 .. local_ram_size]]
  /\ names \in [Volumes -> Cells \cup {None}]
  /\ locks \subseteq Cells

Block(p, size) == p .. p + size - 1

(* Who has memory: a volume its name, AmigaDOS the FileLocks *)
Owners ==
  {<<"name", v>> : v \in {u \in Volumes : names[u] # None}} \cup {<<"lock", p>> : p \in locks}

Owned(o) ==
  IF o[1] = "name" THEN Block(names[o[2]], AllocCells(NameBytes[o[2]]))
  ELSE Block(o[2], AllocCells(fl_Sizeof))

FreeBlock(p) == Block(p, ram[p].size)

(***************************************************************************)
(* "Invalid local RAM free list": the checks of local_ram_debug on every   *)
(* block of the list, each before the next and not touching it.            *)
(***************************************************************************)
FreeListValid ==
  /\ InRam(heap_ptr) \/ heap_ptr = local_ram_list_end
  /\ \A p \in Listed :
       /\ ram[p].next > p /\ ram[p].size <= local_ram_size
       /\ p + ram[p].size < ram[p].next

(***************************************************************************)
(* No memory is given to two owners, and none in use is in the free list:  *)
(* AmigaDOS and the board never write over each other's locks or names.    *)
(***************************************************************************)
NothingShared ==
  /\ \A a, b \in Owners : a # b => Owned(a) \cap Owned(b) = {}
  /\ \A a \in Owners, p \in Listed : Owned(a) \cap FreeBlock(p) = {}
  /\ \A a \in Owners : Owned(a) \subseteq Cells
  /\ \A p \in Listed : FreeBlock(p) \subseteq Cells

(***************************************************************************)
(* Once locks are made no hole smaller than a lock is left but the end of  *)
(* the RAM.  So a lock is always cut from the head of the list, the one    *)
(* block local_ram_alloc unlinks, and refused only when no block is left.  *)
(***************************************************************************)
NoSmallHoles ==
  (\A v \in Volumes : names[v] # None) =>
    \A p \in Listed :
      ram[p].size < AllocCells(fl_Sizeof) => p + ram[p].size = local_ram_size

(***************************************************************************)
(* "Invalid local RAM free list": local_ram_alloc's list stays valid, no   *)
(* memory has two owners, and no hole is left that a lock does not fit in. *)
(***************************************************************************)
RamSound == FreeListValid /\ NothingShared /\ NoSmallHoles
=============================================================================
