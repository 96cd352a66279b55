-------------------------------- MODULE Cpu --------------------------------
(***************************************************************************)
(* The control of the CPU (cpu.cpp): the order in which a step looks at    *)
(* STOP, a pending interrupt, the program counter, the instruction and the *)
(* trace bit, the exceptions each of them takes, and the C++ exceptions    *)
(* that leave a step.  What instructions compute is Alu; when an interrupt *)
(* is pending, Interrupts.                                                 *)
(*                                                                         *)
(* The guest's instructions are reduced to those that differ in control,   *)
(* its stacks to what calls and exceptions leave on them, and its code to  *)
(* routines of a few instructions: its own, and one for each vector.       *)
(***************************************************************************)
EXTENDS Integers, Sequences

CONSTANTS
  Levels,       (* interrupt levels the lines may have                     *)
  Statuses,     (* what the guest writes to SR                             *)
  OddTables,    (* sets of vectors that may be odd                         *)
  RoutineLength, (* instructions of one are numbered modulo this           *)
  MaxDepth      (* bound on the items on a stack                           *)

ASSUME CpuAssumption ==
  /\ Levels \subseteq 1 .. 7 /\ Statuses \subseteq [t : BOOLEAN, s : BOOLEAN, mask : 0 .. 7]
  /\ OddTables \subseteq SUBSET STRING /\ RoutineLength \in Nat \ {0} /\ MaxDepth \in Nat

VARIABLES
  pc, sr,                 (* [routine, n, odd]; [t, s, mask]               *)
  ssp, usp,               (* the stacks, top first                         *)
  ssp_odd, usp_odd,
  ipl, halted,
  odd_vectors,
  taken,                  (* the exceptions of the last step, in order     *)
  executed,               (* the last step has completed an instruction    *)
  escaped,                (* the C++ exception that left the last step     *)
  contexts                (* what exceptions have interrupted, newest first *)

cpu_vars == <<pc, sr, ssp, usp, ssp_odd, usp_odd, ipl, halted, odd_vectors,
              taken, executed, escaped, contexts>>

NoThrow == "none"
Address == "address_error_exception"
Runtime == "runtime_error"

(* The state a step works on; what is thrown ends it *)
Machine == [pc |-> pc, sr |-> sr, ssp |-> ssp, usp |-> usp, ipl |-> ipl, halted |-> halted,
            taken |-> <<>>, contexts |-> contexts, thrown |-> NoThrow]

Routine(name) == [routine |-> name, n |-> 0, odd |-> name \in odd_vectors]
Next1(at) == [at EXCEPT !.n = (@ + 1) % RoutineLength]

(* A(7), and pushing and popping it *)
StackOdd(m) == IF m.sr.s THEN ssp_odd ELSE usp_odd
Push(m, item) ==
  IF StackOdd(m) THEN [m EXCEPT !.thrown = Address]
  ELSE IF m.sr.s THEN [m EXCEPT !.ssp = <<item>> \o @] ELSE [m EXCEPT !.usp = <<item>> \o @]
Top(m) == IF m.sr.s THEN m.ssp[1] ELSE m.usp[1]
Pop(m) == IF m.sr.s THEN [m EXCEPT !.ssp = Tail(@)] ELSE [m EXCEPT !.usp = Tail(@)]
Holds(m, kind) ==
  LET stack == IF m.sr.s THEN m.ssp ELSE m.usp IN stack # <<>> /\ stack[1].kind = kind

useless_prefetch(m) == IF m.pc.odd THEN [m EXCEPT !.thrown = Address] ELSE m

-----------------------------------------------------------------------------
(* do_interrupt_impl: the status and the PC go on the supervisor's stack, for *)
(* an address error four more words; the new handler is prefetched           *)
FrameOf(m) == [kind |-> "frame", pc |-> m.pc, sr |-> m.sr]
Info == [kind |-> "info"]

do_interrupt_impl(m, vec, level) ==
  LET entered == [m EXCEPT !.sr = [t |-> FALSE, s |-> TRUE, mask |-> level], !.taken = Append(@, vec), !.thrown = NoThrow]
      pushed == [entered EXCEPT !.ssp = <<FrameOf(m)>> \o @, !.contexts = <<FrameOf(m)>> \o @, !.pc = Routine(vec)]
  IN  IF ssp_odd THEN [entered EXCEPT !.thrown = Runtime]
      ELSE IF vec # "address error" THEN useless_prefetch(pushed)
      ELSE IF pushed.pc.odd THEN [pushed EXCEPT !.thrown = Runtime]   (* double fault *)
      ELSE [pushed EXCEPT !.ssp = <<Info>> \o @]

do_trap(m, vec) == do_interrupt_impl(m, vec, m.sr.mask)

Level(l) == <<"level 1", "level 2", "level 3", "level 4", "level 5", "level 6", "level 7">>[l]
do_interrupt(m) == do_interrupt_impl(m, Level(m.ipl), m.ipl)

-----------------------------------------------------------------------------
(* Instructions *)
Privileged == {"move to sr", "stop", "rte"}
Ordinary == {"plain", "trap", "trapv", "jsr", "rts", "jump to odd", "access odd", "illegal", "drop info"}

(* Mutant: the stacks are switched before the PC is popped *)
PoppedEarly(m) ==
  LET early == [Pop(m) EXCEPT !.sr = Top(m).sr]
  IN  IF early.sr.s THEN [early EXCEPT !.pc = Top(m).pc]
      ELSE IF early.usp # <<>> THEN [Pop(early) EXCEPT !.pc = Top(early).pc] ELSE early

Popped(m) == [Pop(m) EXCEPT !.pc = Top(m).pc, !.sr = Top(m).sr]

RTE(m) ==
  IF StackOdd(m) THEN [m EXCEPT !.thrown = Address]
  ELSE useless_prefetch([Popped(m) EXCEPT !.contexts = Tail(@)])

RTS(m) ==
  IF StackOdd(m) THEN [m EXCEPT !.thrown = Address] ELSE useless_prefetch([Pop(m) EXCEPT !.pc = Top(m).pc])

JSR(m) == Push(m, [kind |-> "pc", pc |-> m.pc])

(* What an instruction does after it has been fetched; TRAPV has a vector  *)
(* of its own, here it is TRAP's                                            *)
Handle(m, inst, new) ==
  CASE inst = "plain"       -> m
    [] inst = "move to sr"  -> useless_prefetch([m EXCEPT !.sr = new])
    [] inst = "stop"        -> [m EXCEPT !.sr = new, !.halted = ~m.sr.t]
    [] inst = "rte"         -> RTE(m)
    [] inst = "trap"        -> do_trap(m, "trap")
    [] inst = "trapv"       -> useless_prefetch(do_trap(m, "trap"))
    [] inst = "jsr"         -> JSR(m)
    [] inst = "rts"         -> RTS(m)
    [] inst = "jump to odd" -> [m EXCEPT !.pc.odd = TRUE]
    [] inst = "access odd"  -> [m EXCEPT !.thrown = Address]
    [] inst = "drop info"   -> Pop(m)

(* The guest pops what is there, and removes an address error's words; a   *)
(* bound: it calls only outside handlers                                   *)
Sensible(m, inst) ==
  /\ inst = "jsr" => m.contexts = <<>>
  /\ inst = "rte" => ~m.sr.s \/ Holds(m, "frame")
  /\ inst = "rts" => Holds(m, "pc")
  /\ inst = "drop info" => Holds(m, "info")

(* The try block: an address error in it is taken *)
Caught(m) == IF m.thrown = Address THEN do_trap(m, "address error") ELSE m

(* An instruction at an even address: whether it was executed, and traced *)
Traces(done) == done

Instruct(m, inst, new) ==
  IF inst \in Privileged /\ ~m.sr.s
  THEN [m |-> do_trap(m, "privilege violation"), executed |-> FALSE, trace |-> Traces(FALSE)]
  ELSE IF inst = "illegal"
  THEN [m |-> do_trap(m, "illegal instruction"), executed |-> FALSE, trace |-> Traces(FALSE)]
  ELSE LET done == Handle([m EXCEPT !.pc = Next1(m.pc)], inst, new)
       IN  [m |-> Caught(done), executed |-> done.thrown # Address, trace |-> Traces(done.thrown # Address)]

-----------------------------------------------------------------------------
(* The end of a step: an odd PC is found before the trace is taken *)
Finished(m, trace) ==
  IF m.pc.odd THEN do_trap(m, "address error") ELSE IF trace THEN do_trap(m, "trace") ELSE m

(* What poll_ipl reads is the last thing each instruction and exception does *)
Becomes(m, level, isExecuted) ==
  /\ pc' = m.pc /\ sr' = m.sr /\ ssp' = m.ssp /\ usp' = m.usp
  /\ halted' = m.halted /\ taken' = m.taken /\ contexts' = m.contexts /\ escaped' = m.thrown
  /\ ipl' = level /\ executed' = isExecuted
  /\ UNCHANGED <<ssp_odd, usp_odd, odd_vectors>>

(* A throw outside the try block ends the step there *)
Ends(m, trace, level, isExecuted) ==
  Becomes(IF m.thrown # NoThrow THEN m ELSE Finished(m, trace), level, isExecuted)

Waiting == halted /\ ~sr.t /\ ipl = 0

step(inst, new, level) ==
  LET m == [Machine EXCEPT !.halted = FALSE]
      ran == Instruct(m, inst, new)
  IN  IF Waiting THEN Becomes(Machine, level, FALSE)
      ELSE IF ipl > sr.mask THEN Ends(do_interrupt(m), sr.t, level, FALSE)
      ELSE IF pc.odd THEN Ends(do_trap(m, "address error"), FALSE, level, FALSE)
      ELSE Sensible(m, inst) /\ Ends(ran.m, sr.t /\ ran.trace, level, ran.executed)

(* The guest gives A7 an odd value; bounded to one stack, before any exception *)
MoveStack ==
  /\ escaped = NoThrow /\ contexts = <<>> /\ ~ssp_odd /\ ~usp_odd
  /\ IF sr.s THEN ssp_odd' = TRUE /\ UNCHANGED usp_odd ELSE usp_odd' = TRUE /\ UNCHANGED ssp_odd
  /\ taken' = <<>> /\ executed' = FALSE
  /\ UNCHANGED <<pc, sr, ssp, usp, ipl, halted, odd_vectors, escaped, contexts>>

CpuInit ==
  /\ pc = [routine |-> "reset", n |-> 0, odd |-> FALSE] /\ sr = [t |-> FALSE, s |-> TRUE, mask |-> 7]
  /\ ssp = <<>> /\ usp = <<>> /\ ssp_odd = FALSE /\ usp_odd = FALSE
  /\ ipl = 0 /\ halted = FALSE /\ odd_vectors \in OddTables
  /\ taken = <<>> /\ executed = FALSE /\ escaped = NoThrow /\ contexts = <<>>

AnyStep ==
  /\ escaped = NoThrow /\ Len(ssp) <= MaxDepth /\ Len(usp) < MaxDepth
  /\ \E level \in {0} \cup Levels :
       \/ \E inst \in Ordinary \cup {"rte"} : step(inst, sr, level)
       \/ \E inst \in {"move to sr", "stop"}, new \in Statuses : step(inst, new, level)

CpuNext == AnyStep \/ MoveStack

CpuSpec == CpuInit /\ [][CpuNext]_cpu_vars

-----------------------------------------------------------------------------
(***************************************************************************)
(* RTE resumes what the exception has interrupted, its PC and status, on   *)
(* whichever stack that works, however exceptions nest.                    *)
(***************************************************************************)
ResumesStep ==
  Len(contexts') < Len(contexts) =>
    pc' = contexts[1].pc /\ sr' = contexts[1].sr /\ Len(ssp') < Len(ssp) /\ usp' = usp

(***************************************************************************)
(* An instruction that begins with the trace bit set is traced once: its   *)
(* step ends with a trace (an address error, if it leaves the PC odd), also *)
(* if it is a TRAP or clears the bit; one that is not executed is not.     *)
(* (An interrupt that comes before the first instruction is traced as      *)
(* well.)                                                                  *)
(***************************************************************************)
TracedStep ==
  escaped' = NoThrow /\ contexts' # contexts =>
    LET traces == {i \in DOMAIN taken' : taken'[i] = "trace"} IN
    /\ \A i \in traces : i = Len(taken') /\ sr.t /\ (executed' \/ taken'[1] \in {Level(l) : l \in Levels})
    /\ sr.t /\ executed' => taken' # <<>> /\ taken'[Len(taken')] \in {"trace", "address error"}

(* An exception, however deep, returns to what it has interrupted, and an  *)
(* instruction begun with T set is traced once, and only such              *)
ResumesAndTraces == [][ResumesStep /\ TracedStep]_cpu_vars
=============================================================================
