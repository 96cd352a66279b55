------------------------------- MODULE Hunks -------------------------------
(***************************************************************************)
(* The disassembler's loader of executables (m68kdisasm.cpp, hunk_file):   *)
(* hunks get their places from the table at the start of the file, their   *)
(* blocks are read and relocated in the order of the file, and the result  *)
(* is put into memory with the header and the link of each segment.        *)
(*                                                                         *)
(* A file is given block by block, and may end after any.  Sizes, offsets  *)
(* and addresses are in longs, a long is a number.  Names of symbols,      *)
(* contents of debug blocks, ROM tags and WHDLoad slaves are left out, and *)
(* so are HUNK_UNIT files, which are only printed.                         *)
(***************************************************************************)
EXTENDS Integers, Sequences, FiniteSets

CONSTANTS
  HunkTables,   (* records [table_size, hunks] of sequences of [size, chip] *)
  ChipStart, ChipEnd, FastStart, MemoryEnd,
  HunkPage,     (* what a hunk's memory is a multiple of                   *)
  PredefinedHunks, (* numbers of those the info file says what they are     *)
  BlockLengths, RelocOffsets, (* of blocks, and in them                    *)
  MaxBlocks     (* bound: blocks of relocations in the file                *)

ASSUME HunksAssumption ==
  /\ \A t \in HunkTables : t.table_size \in Nat /\ t.hunks \in Seq([size : Nat, chip : BOOLEAN])
  /\ ChipStart \in Nat /\ ChipEnd \in Nat /\ FastStart \in Nat /\ ChipEnd <= FastStart /\ MemoryEnd \in Nat
  /\ HunkPage \in Nat \ {0} /\ BlockLengths \subseteq Nat /\ RelocOffsets \subseteq Nat /\ MaxBlocks \in Nat

LongInFile == 1 (* of each                                                *)
Overhead == 2 (* longs before a hunk: its size and the link to the next    *)

VARIABLES
  load_phase, (* "table", "between", "hunk", "loaded", "done"; or "failed",   *)
              (* "undefined" when the code reads or writes outside a hunk  *)
  analyze,    (* -a                                                        *)
  table, hunks, table_index, blocks,
  memory, code_roots,
  relocations (* what the file asked for: [hunk, ofs, ref, rel], in order  *)

hunk_vars == <<load_phase, analyze, table, hunks, table_index, blocks, memory, code_roots, relocations>>

-----------------------------------------------------------------------------
HunkCount == Len(table.hunks)          (* hunks are numbered from 1 here        *)

(* Mutant: without what comes before the hunk *)
AlignedBare(size) == ((size + HunkPage - 1) \div HunkPage) * HunkPage

Aligned(size) == ((size + Overhead + HunkPage - 1) \div HunkPage) * HunkPage

(* Places: chip memory from below, anything else in fast memory *)
PlaceHunk(s, h) ==
  IF h.chip
  THEN [s EXCEPT !.at = Append(@, s.chip + Overhead), !.chip = @ + Aligned(h.size)]
  ELSE [s EXCEPT !.at = Append(@, s.fast + Overhead), !.fast = @ + Aligned(h.size)]

placed[n \in 0 .. HunkCount] ==
  IF n = 0 THEN [at |-> <<>>, chip |-> ChipStart, fast |-> FastStart]
  ELSE PlaceHunk(placed[n - 1], table.hunks[n])
Places == placed[HunkCount]

read_table ==
  /\ load_phase = "table"
  /\ load_phase' = IF Places.chip > ChipEnd \/ HunkCount > table.table_size THEN "failed" ELSE "between"
  /\ hunks' = [i \in 1 .. HunkCount |-> [type |-> "none", addr |-> Places.at[i], loaded |-> 0,
                                    data |-> [o \in 0 .. table.hunks[i].size - 1 |-> 0]]]
  /\ UNCHANGED <<analyze, table, table_index, blocks, memory, code_roots, relocations>>

Size(h) == Cardinality(DOMAIN h.data)

Then(n) == table_index' = n /\ load_phase' = IF n < HunkCount THEN "between" ELSE "loaded"

(* HUNK_CODE, HUNK_DATA, HUNK_BSS, also where HUNK_END is missing: only the *)
(* last kind may be larger than the table said                             *)
Missed == IF load_phase = "hunk" THEN 1 ELSE 0

Block(type, longs) ==
  /\ load_phase \in {"between", "hunk"}
  /\ IF table_index + Missed = HunkCount THEN Then(HunkCount) /\ UNCHANGED <<hunks, blocks>>
     ELSE LET n == table_index + Missed + 1
              h == hunks[n]
          IN  /\ table_index' = n - 1 /\ UNCHANGED blocks
              /\ load_phase' = IF longs > Size(h) /\ type # "bss" THEN "failed" ELSE "hunk"
              /\ hunks' = [hunks EXCEPT ![n] =
                   [type |-> type, addr |-> h.addr, loaded |-> longs,
                    data |-> [o \in DOMAIN h.data |-> IF type # "bss" /\ o < longs THEN LongInFile ELSE 0]]]
  /\ UNCHANGED <<analyze, table, memory, code_roots, relocations>>

(* HUNK_RELOC32, HUNK_RELOC32SHORT, HUNK_DREL32, and HUNK_RELRELOC32, whose *)
(* values are relative to the hunk; the check of the offset says nothing   *)
(* of a hunk without data                                                  *)
Reloc(ref, ofs, rel) ==
  /\ load_phase = "hunk" /\ blocks < MaxBlocks /\ blocks' = blocks + 1
  /\ LET n == table_index + 1
         size == Size(hunks[n])
     IN  IF ref > HunkCount \/ (size > 0 /\ ofs >= size)
         THEN load_phase' = "failed" /\ UNCHANGED <<hunks, relocations>>
         ELSE IF size = 0 THEN load_phase' = "undefined" /\ UNCHANGED <<hunks, relocations>>
         ELSE /\ hunks' = [hunks EXCEPT ![n].data[ofs] =
                            @ + hunks[ref].addr - (IF rel THEN hunks[n].addr ELSE 0)]
              /\ relocations' = Append(relocations, [hunk |-> n, ofs |-> ofs, ref |-> ref, rel |-> rel])
              /\ UNCHANGED load_phase
  /\ UNCHANGED <<analyze, table, table_index, memory, code_roots>>

(* HUNK_END, and the end of the file; HUNK_OVERLAY ends it too *)
EndOfHunk ==
  /\ load_phase = "hunk"
  /\ Then(table_index + 1) \/ Then(table.table_size)
  /\ UNCHANGED <<analyze, table, hunks, blocks, memory, code_roots, relocations>>

EndOfFile ==
  /\ load_phase = "between" /\ load_phase' = "loaded"
  /\ UNCHANGED <<analyze, table, hunks, table_index, blocks, memory, code_roots, relocations>>

(* HUNK_DEBUG and HUNK_SYMBOL change nothing here; anything else, or the   *)
(* end of the file inside of a block, is refused                           *)
Refused ==
  /\ load_phase \in {"between", "hunk"} /\ load_phase' = "failed"
  /\ UNCHANGED <<analyze, table, hunks, table_index, blocks, memory, code_roots, relocations>>

-----------------------------------------------------------------------------
(* A hunk in memory with its header: the size, and where the next link is  *)
Link(i) == IF i = HunkCount THEN 0 ELSE hunks[i + 1].addr - 1

Segment(i) ==
  LET h == hunks[i]
  IN  [a \in h.addr - Overhead .. h.addr + Size(h) - 1 |->
         CASE a = h.addr - 2 -> Size(h) + Overhead
           [] a = h.addr - 1 -> Link(i)
           [] OTHER -> h.data[a - h.addr]]

(* What is written to memory: later hunks over earlier ones *)
Onto(s, m) == [a \in DOMAIN s \cup DOMAIN m |-> IF a \in DOMAIN s THEN s[a] ELSE m[a]]
written[n \in 0 .. HunkCount] == IF n = 0 THEN <<>> ELSE Onto(Segment(n), written[n - 1])

IsCode(i) == hunks[i].type = "code" /\ Size(hunks[i]) > 0

(* Behind the end of memory nothing is written, and an executable without  *)
(* code meets an assertion.  Without -a each hunk of the table is printed, *)
(* also those of overlays, which have no place                             *)
WriteHunks ==
  /\ load_phase = "loaded" /\ analyze
  /\ memory' = written[HunkCount]
  /\ code_roots' = {hunks[i].addr : i \in {j \in 1 .. HunkCount : IsCode(j) /\ j \notin PredefinedHunks}}
  /\ load_phase' = IF /\ \A i \in 1 .. HunkCount : hunks[i].addr + Size(hunks[i]) <= MemoryEnd
                      /\ \E i \in 1 .. HunkCount : IsCode(i)
                   THEN "done" ELSE "failed"
  /\ UNCHANGED <<analyze, table, hunks, table_index, blocks, relocations>>

Printed ==
  /\ load_phase = "loaded" /\ ~analyze
  /\ load_phase' = IF table.table_size > HunkCount THEN "undefined" ELSE "done"
  /\ UNCHANGED <<analyze, table, hunks, table_index, blocks, memory, code_roots, relocations>>

-----------------------------------------------------------------------------
HunkInit ==
  /\ load_phase = "table" /\ analyze \in BOOLEAN /\ table \in HunkTables
  /\ hunks = <<>> /\ table_index = 0 /\ blocks = 0 /\ memory = <<>> /\ code_roots = {} /\ relocations = <<>>

HunkNext ==
  \/ read_table \/ EndOfHunk \/ EndOfFile \/ Refused \/ WriteHunks \/ Printed
  \/ \E type \in {"code", "data", "bss"}, longs \in BlockLengths : Block(type, longs)
  \/ \E ref \in 1 .. HunkCount + 1, ofs \in RelocOffsets, rel \in BOOLEAN : Reloc(ref, ofs, rel)

HunkSpec == HunkInit /\ [][HunkNext]_hunk_vars

-----------------------------------------------------------------------------
(***************************************************************************)
(* In memory every hunk is whole: no other one lies over it, each long is  *)
(* the file's with what its relocations add, once each, and from the first *)
(* segment the links lead through all of them.                             *)
(***************************************************************************)
Addresses == [i \in 1 .. HunkCount |-> hunks[i].addr]
Term(r, addr, i, o) == IF r.hunk = i /\ r.ofs = o THEN addr[r.ref] - (IF r.rel THEN addr[i] ELSE 0) ELSE 0
Added(rs, addr, i, o) ==
  LET sum[n \in 0 .. Len(rs)] == IF n = 0 THEN 0 ELSE sum[n - 1] + Term(rs[n], addr, i, o)
  IN  sum[Len(rs)]

InFile(i, o) == IF hunks[i].type \in {"code", "data"} /\ o < hunks[i].loaded THEN LongInFile ELSE 0

LoadedWhole ==
  (load_phase = "done" /\ analyze) =>
    \A i \in 1 .. HunkCount :
      /\ \A o \in 0 .. Size(hunks[i]) - 1 : memory[hunks[i].addr + o] = InFile(i, o) + Added(relocations, Addresses, i, o)
      /\ memory[hunks[i].addr - 2] = Size(hunks[i]) + Overhead
      /\ memory[hunks[i].addr - 1] = IF i = HunkCount THEN 0 ELSE hunks[i + 1].addr - 1

=============================================================================
