------------------------------- MODULE Copper -------------------------------
(***************************************************************************)
(* The copper of the custom chips (custom.cpp): it fetches an instruction  *)
(* in two words, in slots it is given or not, compares a WAIT with the     *)
(* beam, and is jumped by writes of its own and of the CPU, and by the     *)
(* vertical blank, in whatever state it is.                                *)
(*                                                                         *)
(* A list's instructions are two words each: word 2i and 2i + 1 of         *)
(* Program[i].  Masks of a WAIT are reduced to comparing whole or halved   *)
(* lines; the horizontal position is compared as a whole.                  *)
(***************************************************************************)
EXTENDS Integers

CONSTANTS Program, Lines, LinesCompared,
          Lists,       (* the instructions COPxLC may point to               *)
          LineLength

Instructions ==
  [op : {"move", "wait", "skip", "end"}, reg : STRING, val : Int, v : Int, ve : Int, h : Int,
   bfd : BOOLEAN]

(* Every list in memory has an end *)
ASSUME CopperAssumption ==
  /\ DOMAIN Program \subseteq Nat /\ 0 \in DOMAIN Program /\ Lists \subseteq DOMAIN Program
  /\ Lists # {} /\ LineLength \in Nat /\ LineLength > 1
  /\ \A i \in DOMAIN Program :
       Program[i] \in Instructions /\ (Program[i].op # "end" => i + 1 \in DOMAIN Program)

VARIABLES
  copstate, copper_pt,
  copper_inst,        (* the instruction the first word came from          *)
  copper_inst_ofs, copper_skip_next,
  coplc, cdang, copwrite, beam, busy

copper_vars == <<copstate, copper_pt, copper_inst, copper_inst_ofs, copper_skip_next,
                 coplc, cdang, copwrite, beam, busy>>

(* The instruction the copper is in *)
Executing ==
  CASE copstate = "halted" -> -1
    [] copstate = "vblank" -> -2
    [] copstate = "read_inst" -> (copper_pt - copper_inst_ofs) \div 2
    [] copstate \in {"jmp_delay1", "jmp_delay2"} -> copper_pt \div 2
    [] OTHER -> (copper_pt - 2) \div 2

L == INSTANCE CopperList WITH pc <- Executing, skip <- copper_skip_next, written <- copwrite

Others == UNCHANGED <<coplc, cdang, beam, busy>>

-----------------------------------------------------------------------------
VblankSlot ==
  /\ copstate = "vblank"
  /\ copper_pt' = 2 * coplc[1] /\ copper_inst_ofs' = 0 /\ copper_skip_next' = FALSE
  /\ copstate' = "read_inst" /\ UNCHANGED <<copper_inst, copwrite>>

FirstWord ==
  /\ copstate = "read_inst" /\ copper_inst_ofs = 0
  /\ copper_inst' = Program[copper_pt \div 2] /\ copper_inst_ofs' = 1
  /\ copper_pt' = copper_pt + 1 /\ UNCHANGED <<copstate, copper_skip_next, copwrite>>

(* Mutant: a jump leaves the words already fetched *)
FetchedKept == copper_inst_ofs

FetchedAfterJump == 0

copjmp(i) ==
  copper_inst_ofs' = FetchedAfterJump /\ copper_pt' = 2 * coplc[i] /\ copstate' = "jmp_delay1"

(* An instruction of the words fetched; what tells a SKIP from a WAIT is   *)
(* taken with the first                                                    *)
Fetched ==
  LET second == Program[copper_pt \div 2]
  IN  [copper_inst EXCEPT !.val = second.val, !.ve = second.ve, !.bfd = second.bfd]

SecondWord ==
  /\ copstate = "read_inst" /\ copper_inst_ofs = 1
  /\ copper_inst' = Fetched
  /\ IF Fetched.op # "move"
     THEN /\ copper_inst_ofs' = 2 /\ copper_pt' = copper_pt + 1
          /\ copstate' = IF Fetched.op = "end" THEN "halted" ELSE "need_free_cycle"
          /\ UNCHANGED <<copper_skip_next, copwrite>>
     ELSE IF ~L!Allowed(Fetched.reg)
     THEN /\ copper_inst_ofs' = 2 /\ copper_pt' = copper_pt + 1
          /\ copstate' = "halted" /\ UNCHANGED <<copper_skip_next, copwrite>>
     ELSE /\ copper_skip_next' = FALSE
          /\ copwrite' = L!Effect(Fetched)
          /\ IF ~copper_skip_next /\ Fetched.reg = "COPJMP1" THEN copjmp(1)
             ELSE IF ~copper_skip_next /\ Fetched.reg = "COPJMP2" THEN copjmp(2)
             ELSE copper_inst_ofs' = 0 /\ copper_pt' = copper_pt + 1 /\ UNCHANGED copstate

NeedFreeCycle ==
  /\ copstate = "need_free_cycle" /\ copstate' = copper_inst.op
  /\ UNCHANGED <<copper_pt, copper_inst, copper_inst_ofs, copper_skip_next, copwrite>>

JumpDelay1 ==
  /\ copstate = "jmp_delay1" /\ copstate' = "jmp_delay2"
  /\ UNCHANGED <<copper_pt, copper_inst, copper_inst_ofs, copper_skip_next, copwrite>>

JumpDelay2 ==
  /\ copstate = "jmp_delay2" /\ copstate' = "read_inst"
  /\ UNCHANGED <<copper_pt, copper_inst, copper_inst_ofs, copper_skip_next, copwrite>>

Compare ==
  /\ copstate \in {"wait", "skip"}
  /\ IF copstate = "skip" \/ L!reached(copper_inst)
     THEN /\ copper_inst_ofs' = 0 /\ copper_skip_next' = (copstate = "skip" /\ L!reached(copper_inst))
          /\ copstate' = "read_inst"
     ELSE UNCHANGED <<copper_inst_ofs, copper_skip_next, copstate>>
  /\ UNCHANGED <<copper_pt, copper_inst, copwrite>>

do_copper ==
  /\ VblankSlot \/ FirstWord \/ SecondWord \/ NeedFreeCycle \/ JumpDelay1 \/ JumpDelay2 \/ Compare
  /\ Others

-----------------------------------------------------------------------------
(* The chips' step: the beam; JumpDelay1 also passes without a slot *)
advance_beam ==
  /\ LET line == beam.h + 1 = beam.len  field == line /\ beam.v + 1 = Lines
     IN  /\ beam' = [beam EXCEPT !.h = IF line THEN 0 ELSE @ + 1,
                                 !.v = IF field THEN 0 ELSE IF line THEN @ + 1 ELSE @]
         /\ copstate' = IF field THEN "vblank" ELSE copstate
  /\ UNCHANGED <<copper_pt, copper_inst, copper_inst_ofs, copper_skip_next, coplc, cdang, copwrite, busy>>

(* The CPU's accesses, and the blitter *)
WriteCopjmp(i) == copjmp(i) /\ UNCHANGED <<copper_inst, copper_skip_next, copwrite>> /\ Others

WriteCoplc(i, list) ==
  /\ coplc' = [coplc EXCEPT ![i] = list]
  /\ UNCHANGED <<copstate, copper_pt, copper_inst, copper_inst_ofs, copper_skip_next, cdang, copwrite, beam, busy>>

WriteCopcon(on) ==
  /\ cdang' = on
  /\ UNCHANGED <<copstate, copper_pt, copper_inst, copper_inst_ofs, copper_skip_next, coplc, copwrite, beam, busy>>

BlitterChanges ==
  /\ busy' = ~busy
  /\ UNCHANGED <<copstate, copper_pt, copper_inst, copper_inst_ofs, copper_skip_next, coplc, cdang, copwrite, beam>>

CopperInit ==
  /\ copstate = "halted" /\ copper_pt = 0 /\ copper_inst = Program[0] /\ copper_inst_ofs = 0
  /\ copper_skip_next = FALSE /\ coplc = <<CHOOSE l \in Lists : TRUE, CHOOSE l \in Lists : TRUE>>
  /\ cdang = FALSE /\ copwrite = L!NoWrite /\ beam = [v |-> 0, h |-> 0, len |-> LineLength] /\ busy = FALSE

CopperNext ==
  \/ do_copper \/ advance_beam
  \/ \E i \in 1 .. 2 : WriteCopjmp(i) \/ (\E list \in Lists : WriteCoplc(i, list))
  \/ \E on \in BOOLEAN : WriteCopcon(on)
  \/ BlitterChanges

CopperSpec == CopperInit /\ [][CopperNext]_copper_vars

-----------------------------------------------------------------------------
(***************************************************************************)
(* A list is executed instruction by instruction (CopperList): no jump,    *)
(* also none between the two words of an instruction, in a WAIT or in the  *)
(* delay of another jump, makes an instruction of two halves, loses one or *)
(* executes one twice.                                                     *)
(***************************************************************************)
ListSpec == L!Spec
=============================================================================
