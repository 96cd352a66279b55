----------------------------- MODULE CopperList -----------------------------
(***************************************************************************)
(* What the copper promises to whoever writes a list: instructions are     *)
(* executed one after the other, each as a whole, from the start of a list *)
(* on, and a jump, wherever it hits, goes on at a list's start.            *)
(***************************************************************************)
EXTENDS Integers

CONSTANTS Program,       (* the lists: [0 .. n -> instructions]            *)
          Lines, LinesCompared (* lines of a field, and of those a WAIT tells apart *)

VARIABLES
  pc,            (* the instruction to execute, Halted or Reload           *)
  skip,          (* the next MOVE writes nothing                           *)
  written,       (* the last write: register and value                     *)
  coplc, cdang,  (* the guest's registers                                  *)
  beam, busy     (* the beam and the blitter                               *)

list_vars == <<pc, skip, written, coplc, cdang, beam, busy>>

Halted == -1
Reload == -2
NoWrite == [reg |-> "none", val |-> 0]

(* A WAIT or SKIP compares with the beam two colour clocks ahead           *)
Ahead == IF beam.h + 2 >= beam.len THEN [v |-> beam.v + 1, h |-> beam.h + 2 - beam.len]
         ELSE [v |-> beam.v, h |-> beam.h + 2]

reached(i) ==
  LET cvp == (Ahead.v % LinesCompared) \div i.ve  vp == i.v \div i.ve
  IN  (i.bfd \/ ~busy) /\ (cvp > vp \/ (cvp = vp /\ Ahead.h >= i.h))

Allowed(reg) == reg # "dangerous" \/ cdang
Effect(i) == IF skip THEN written ELSE [reg |-> i.reg, val |-> i.val]
Target(i, next) ==
  IF skip THEN next ELSE IF i.reg = "COPJMP1" THEN coplc[1] ELSE IF i.reg = "COPJMP2" THEN coplc[2] ELSE next

Start == pc = Reload /\ pc' = coplc[1] /\ skip' = FALSE /\ UNCHANGED written

Move ==
  /\ pc \in DOMAIN Program /\ Program[pc].op = "move"
  /\ IF Allowed(Program[pc].reg)
     THEN pc' = Target(Program[pc], pc + 1) /\ written' = Effect(Program[pc]) /\ skip' = FALSE
     ELSE pc' = Halted /\ UNCHANGED <<written, skip>>

Wait ==
  /\ pc \in DOMAIN Program /\ Program[pc].op = "wait" /\ reached(Program[pc])
  /\ pc' = pc + 1 /\ skip' = FALSE /\ UNCHANGED written

Skip ==
  /\ pc \in DOMAIN Program /\ Program[pc].op = "skip"
  /\ pc' = pc + 1 /\ skip' = reached(Program[pc]) /\ UNCHANGED written

End ==
  /\ pc \in DOMAIN Program /\ Program[pc].op = "end"
  /\ pc' = Halted /\ UNCHANGED <<skip, written>>

Execute == (Start \/ Move \/ Wait \/ Skip \/ End) /\ UNCHANGED <<coplc, cdang, beam, busy>>

Jump == (\E i \in 1 .. 2 : pc' = coplc[i]) /\ UNCHANGED <<skip, written, coplc, cdang, beam, busy>>

(* The beam moves; a new field waits for its first slot *)
Beam ==
  /\ beam' # beam /\ (pc' = pc \/ (pc' = Reload /\ beam'.v = 0))
  /\ UNCHANGED <<skip, written, coplc, cdang, busy>>

Guest == (coplc' # coplc \/ cdang' # cdang \/ busy' # busy) /\ UNCHANGED <<pc, skip, written, beam>>

ListInit ==
  /\ pc = Halted /\ skip = FALSE /\ written = NoWrite
  /\ cdang = FALSE /\ busy = FALSE

Spec == ListInit /\ [][Execute \/ Jump \/ Beam \/ Guest]_list_vars
=============================================================================
