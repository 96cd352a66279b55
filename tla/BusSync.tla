------------------------------ MODULE BusSync ------------------------------
(***************************************************************************)
(* How the CPU and the custom chips share time (main.cpp): the CPU runs    *)
(* ahead and its cycles are made up for at its next access, poll or        *)
(* instruction; accesses wait for the chip bus or the E clock.             *)
(*                                                                         *)
(* A cycle of the chips is one of the base CPU clock, Scale of the CPU's.  *)
(* What the chips do in a cycle is left out but for whether they leave the *)
(* bus free, what is behind an address but for the part it lies in.        *)
(***************************************************************************)
EXTENDS Integers

CONSTANTS
  Scale,     (* cpu_scale: CPU cycles in one of the chips                  *)
  Line,      (* hpos_per_line                                              *)
  EClock,    (* cycles of the E clock                                      *)
  Ready,     (* the cycle of it before which an address must be there      *)
  MaxTodo,   (* bound: cycles the CPU runs ahead                           *)
  MaxSlack   (* bound: of the time waited                                  *)

ASSUME BusAssumption ==
  /\ {Scale, Line, EClock} \subseteq Nat \ {0}
  /\ {MaxTodo, MaxSlack} \subseteq Nat

VARIABLES
  hpos, eclock,      (* the chips' next cycle                              *)
  custom_step,       (* the last one: its hpos, E clock, and the bus free  *)
  cycles_todo,       (* CPU cycles the chips have not run yet              *)
  doing,             (* what the CPU waits in: "run", "align", "wait",     *)
                     (* "eclock", "erise", "stopped"                       *)
  slack              (* CPU cycles that passed and were not asked for,     *)
                     (* those in cycles_todo included                      *)

bus_vars == <<hpos, eclock, custom_step, cycles_todo, doing, slack>>

-----------------------------------------------------------------------------
(* custom.step: the bus may be free in even cycles only *)
Last(h, e, free) == [hpos |-> h, eclock |-> e, free |-> free /\ h % 2 = 0]

Runs(n) ==
  /\ hpos' = (hpos + n) % Line /\ eclock' = (eclock + n) % EClock
  /\ IF n = 0 THEN UNCHANGED custom_step
     ELSE \E free \in BOOLEAN : custom_step' = Last((hpos + n - 1) % Line, (eclock + n - 1) % EClock, free)

(* The chips run n cycles, todo CPU cycles are left, and some were asked for *)
Spend(n, todo, asked) ==
  /\ Runs(n) /\ cycles_todo' = todo
  /\ slack' = slack + (n * Scale) + todo - cycles_todo - asked

(* do_all_custom_cylces: whole cycles of the chips *)
Whole == cycles_todo \div Scale
Remainder == cycles_todo % Scale

(* set_cycle_handler *)
cycle_handler(cycles) ==
  /\ doing = "run" /\ cycles_todo + cycles <= MaxTodo
  /\ Spend(0, cycles_todo + cycles, cycles) /\ UNCHANGED doing

(* The end of an instruction, and the poll of the interrupt level *)
do_all_custom_cylces == doing = "run" /\ Spend(Whole, Remainder, 0) /\ UNCHANGED doing

(* Mutant: the rest of a cycle is dropped *)
RestDropped == Whole

(* on_memory_access: chip memory and custom registers, first the rest of a *)
(* cycle that has begun                                                    *)
Rest == Whole + (IF Remainder > 0 THEN 1 ELSE 0)

ChipAccess == doing = "run" /\ Spend(Rest, 0, 0) /\ doing' = "align"

(* ... to the end of an even cycle, and two for the address *)
Align == doing = "align" /\ Spend((custom_step.hpos % 2) + 2, 0, 2 * Scale) /\ doing' = "wait"

(* ... to a free one; the transfer is made up for later *)
WaitForBus ==
  /\ doing = "wait"
  /\ IF custom_step.free THEN Spend(0, 2 * Scale, 2 * Scale) /\ doing' = "run"
     ELSE Spend(1, cycles_todo, 0) /\ UNCHANGED doing

(* A CIA: up to the cycle before which the address must be there, and then *)
(* to the end of the transfer                                              *)
CiaAccess == doing = "run" /\ Spend(Whole, Remainder, 0) /\ doing' = "eclock"

WaitForE ==
  \/ /\ doing = "eclock"
     /\ IF custom_step.eclock = Ready THEN Spend(0, cycles_todo, 0) /\ doing' = "erise"
        ELSE Spend(1, cycles_todo, 0) /\ UNCHANGED doing
  \/ /\ doing = "erise"
     /\ IF custom_step.eclock = 0 THEN Spend(0, cycles_todo, 0) /\ doing' = "run"
        ELSE Spend(1, cycles_todo, 0) /\ UNCHANGED doing

(* Anything else *)
OtherAccess == cycle_handler(4)

(* amiga::step of a stopped CPU: the chips run on *)
Stopped ==
  \/ doing \in {"run", "stopped"} /\ Spend(1, cycles_todo, 0) /\ doing' = "stopped"
  \/ doing = "stopped" /\ Spend(0, cycles_todo, 0) /\ doing' = "run"

-----------------------------------------------------------------------------
BusInit ==
  /\ hpos = 1 /\ eclock = 1 /\ custom_step \in {Last(0, 0, free) : free \in BOOLEAN}
  /\ cycles_todo = 0 /\ doing = "run" /\ slack = 0

BusNext ==
  /\ slack < MaxSlack
  /\ \/ cycle_handler(2) \/ OtherAccess \/ do_all_custom_cylces
     \/ ChipAccess \/ Align \/ WaitForBus \/ CiaAccess \/ WaitForE \/ Stopped

BusSpec == BusInit /\ [][BusNext]_bus_vars

-----------------------------------------------------------------------------
(***************************************************************************)
(* The CPU's clock and the chips' keep together: whatever is left to do    *)
(* and wherever an access finds the bus, no cycle the CPU asked for is     *)
(* dropped, and more pass only where it waits, one at a time.              *)
(***************************************************************************)
TimeStep ==
  /\ slack' >= slack /\ slack' <= slack + Scale
  /\ (doing = "run" /\ doing' = "run") => slack' = slack

(***************************************************************************)
(* A transfer takes an even cycle that nobody else uses (the assertion in  *)
(* on_memory_access); the CIAs transfer in a whole high phase of the E     *)
(* clock.                                                                  *)
(***************************************************************************)
TransferStep ==
  /\ (doing = "wait" /\ doing' = "run") => (custom_step.free /\ custom_step.hpos % 2 = 0)
  /\ (doing = "erise" /\ doing' = "run") => custom_step.eclock = 0

(***************************************************************************)
(* Both, for every interleaving of instructions, accesses and stops.       *)
(***************************************************************************)
TimeKept == [][TimeStep /\ TransferStep]_bus_vars
=============================================================================
