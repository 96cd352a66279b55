------------------------------ MODULE MainLoop -----------------------------
(***************************************************************************)
(* amiga::step and what it calls (main.cpp): one event of the window, the  *)
(* debugger, one instruction of the CPU or the wait of a stopped one, the  *)
(* reset, and at the end of a frame disks that are due and new events.    *)
(*                                                                         *)
(* Of an instruction there is whether it is RESET or STOP, whether it ends *)
(* the debugger's waits, the cycles of the chips that it takes, and that   *)
(* an exception may come out of the CPU or the chips at any place.  Of the *)
(* cycles the chips still owe the CPU (cycles_todo, which BusSync counts)  *)
(* there is whether they make a whole one of theirs.  What the window, the *)
(* keyboard and the ports do with their events is left out, with what may  *)
(* be thrown there, and so are a start from a saved state, test mode and   *)
(* what the debugger only prints.                                          *)
(***************************************************************************)
EXTENDS Integers, Sequences, FiniteSets

CONSTANTS
  Files,      (* disk images that can be read, Bad and "" are others       *)
  Delay,      (* default_disk_insertion_delay, in frames                   *)
  Drives,
  Inserted,   (* what df0 and df1 may be in the command line               *)
  cpu_scale,  (* -cpuscale: cycles of the CPU in one of the chips          *)
  FrameCycles, (* cycles in a frame                                        *)
  MaxEvents,  (* bound: of events that come with one update                *)
  MaxChosen,  (* bound: of disks chosen                                    *)
  MaxDebugged (* bound: of times the debugger comes                        *)

Empty == "no disk"
Bad == "bad"
NoName == ""
Names == Files \cup {NoName, Bad}

(* What is in a drive that a file was chosen for *)
DiskOf(name) == IF name = NoName THEN Empty ELSE name

ASSUME LoopAssumption ==
  /\ Delay \in Nat
  /\ Inserted \subseteq [Drives -> Files \cup {NoName}]
  /\ cpu_scale \in Nat \ {0}

(* cycles_todo is 0, less than a cycle of the chips, or not *)
Rests == IF cpu_scale = 1 THEN {"none"} ELSE {"none", "rest"}
Owing == Rests \cup {"whole"}

VARIABLES
  place,         (* in step: "begin", "prompt", "cpu", "stopped", "behind", "end"; "over" *)
  events, quit, reset, debug_mode, wait_mode, wait_arg, new_frame, cycle,
  drives,        (* the disk in each drive                                 *)
  df,            (* the one in the command line, that a saved state names  *)
  pending_disk, pending_disk_drive, disk_chosen_countdown,
  stopped,       (* cpu_step.stopped                                       *)
  cpu_active,
  owed,          (* in Owing                                               *)
  thrown,        (* an exception came out of the last instruction          *)
  chosen, debugged,
  overtaken      (* drives whose pending disk is older than another choice *)

window == <<events, quit>>
timing == <<new_frame, cycle, stopped, owed, thrown>>
machine == <<timing, cpu_active>>
debugger == <<debug_mode, wait_mode, wait_arg, debugged>>
disks == <<drives, df, pending_disk, pending_disk_drive, disk_chosen_countdown, chosen, overtaken>>
loop_vars == <<place, window, machine, debugger, disks, reset>>

-----------------------------------------------------------------------------
activate_debugger ==
  /\ debug_mode \/ debugged < MaxDebugged
  /\ debug_mode' = TRUE /\ debugged' = debugged + (IF debug_mode THEN 0 ELSE 1)

(* Mutant: the drive of the pending disk is not noted *)
DriveKept(d) == pending_disk_drive

DriveOf(d) == d

(* insert_disk: the drive is empty at once, and a disk comes later unless  *)
(* another one is pending                                                  *)
insert_disk(d, name, delay) ==
  /\ chosen < MaxChosen /\ chosen' = chosen + 1
  /\ IF name = Bad THEN UNCHANGED <<drives, df, pending_disk, pending_disk_drive, disk_chosen_countdown, overtaken>>
     ELSE /\ df' = [df EXCEPT ![d] = name]
          /\ LET later == name # NoName /\ delay > 0 /\ disk_chosen_countdown = 0
             IN  /\ drives' = [drives EXCEPT ![d] = IF later THEN Empty ELSE DiskOf(name)]
                 /\ IF later
                    THEN /\ disk_chosen_countdown' = delay /\ pending_disk' = name
                         /\ pending_disk_drive' = DriveOf(d) /\ overtaken' = overtaken \ {d}
                    ELSE /\ UNCHANGED <<disk_chosen_countdown, pending_disk, pending_disk_drive>>
                         /\ overtaken' = IF disk_chosen_countdown > 0 /\ d = pending_disk_drive
                                         THEN overtaken \cup {d} ELSE overtaken \ {d}

(* process_event: the first one *)
process_event ==
  /\ place = "begin" /\ events # <<>>
  /\ events' = Tail(events) /\ place' = "prompt"
  /\ LET e == Head(events) IN
     \/ e = "quit" /\ quit' = TRUE /\ UNCHANGED <<reset, debugger, disks>>
     \/ e = "reset" /\ reset' = "keyboard" /\ UNCHANGED <<quit, debugger, disks>>
     \/ e = "debug" /\ activate_debugger /\ UNCHANGED <<quit, reset, wait_mode, wait_arg, disks>>
     \/ /\ e = "disk" /\ \E d \in Drives, name \in Names : insert_disk(d, name, Delay)
        /\ UNCHANGED <<quit, reset, debugger>>
  /\ UNCHANGED machine

NoEvent ==
  /\ place = "begin" /\ events = <<>> /\ place' = "prompt"
  /\ UNCHANGED <<window, machine, debugger, disks, reset>>

(* debugger_loop: a command that stays at the prompt *)
Prompting == place = "prompt" /\ debug_mode

Command ==
  /\ Prompting
  /\ \/ /\ reset' = "keyboard" /\ UNCHANGED disks
     \/ /\ \E d \in Drives, name \in Names, delay \in {0, Delay} : insert_disk(d, name, delay)
        /\ UNCHANGED reset
  /\ UNCHANGED <<place, window, machine, debugger>>

(* ... and one that ends it.  "g" leaves what was waited for as it is; "q",*)
(* and the end of the input, still run one instruction                     *)
Leave ==
  /\ Prompting
  /\ debug_mode' = FALSE /\ place' = "cpu" /\ cpu_active' = TRUE
  /\ \/ quit' = TRUE /\ UNCHANGED <<wait_mode, wait_arg>>
     \/ UNCHANGED <<quit, wait_mode, wait_arg>>
     \/ wait_mode' \in {"vpos", "pc"} /\ UNCHANGED <<quit, wait_arg>>
     \/ wait_mode' \in {"inst", "frames"} /\ wait_arg' \in 0 .. 1 /\ UNCHANGED quit
  /\ UNCHANGED <<events, timing, debugged, disks, reset>>

NoPrompt ==
  /\ place = "prompt" /\ ~debug_mode /\ place' = "cpu" /\ cpu_active' = TRUE
  /\ UNCHANGED <<window, timing, debugger, disks, reset>>

-----------------------------------------------------------------------------
(* cstep: a wait for a frame or a place on the screen ends in the cycle *)
FirstCycle == (cycle + 1) % FrameCycles = 0

cstep ==
  /\ cycle' = (cycle + 1) % FrameCycles
  /\ IF wait_mode = "vpos"
     THEN \/ activate_debugger /\ wait_mode' = "none" /\ new_frame' = (new_frame \/ FirstCycle) /\ UNCHANGED wait_arg
          \/ new_frame' = (new_frame \/ FirstCycle) /\ UNCHANGED debugger
     ELSE /\ new_frame' = (new_frame \/ FirstCycle)
          /\ IF FirstCycle /\ wait_mode = "frames"
             THEN IF wait_arg = 0 THEN activate_debugger /\ wait_mode' = "none" /\ wait_arg' = 0
                  ELSE wait_arg' = wait_arg - 1 /\ UNCHANGED <<debug_mode, wait_mode, debugged>>
             ELSE UNCHANGED debugger

(* Accesses to memory by the CPU, or by the debugger while something thrown *)
(* has left cpu_active set                                                  *)
Accesses == place = "cpu" \/ (Prompting /\ cpu_active)

(* The chips follow an access, or have some cycles left to run; behind an   *)
(* instruction they run the whole ones, which are taken off in the end      *)
Cycles ==
  /\ \/ Accesses /\ owed' \in Owing
     \/ place = "behind" /\ owed = "whole" /\ UNCHANGED owed
  /\ cstep
  /\ UNCHANGED <<place, window, stopped, cpu_active, thrown, disks, reset>>

(* A watched access *)
Watched ==
  /\ place = "cpu" /\ activate_debugger
  /\ UNCHANGED <<place, window, machine, wait_mode, wait_arg, disks, reset>>

(* check_debug_break *)
Breaks ==
  \/ wait_mode = "inst" /\ wait_arg > 0 /\ wait_arg' = wait_arg - 1 /\ UNCHANGED <<wait_mode, debug_mode, debugged>>
  \/ /\ (wait_mode = "inst" /\ wait_arg = 0) \/ wait_mode = "pc"
     /\ activate_debugger /\ wait_mode' = "none" /\ UNCHANGED wait_arg
  \/ wait_mode # "inst" /\ UNCHANGED debugger

(* cpu.step ends: what a STOP owes is made up for when it polls in the next *)
(* step                                                                     *)
Instruction ==
  /\ place = "cpu" /\ cpu_active' = FALSE /\ owed' \in Owing /\ thrown' = FALSE
  /\ \/ /\ stopped' = TRUE /\ place' = "stopped"
        /\ UNCHANGED <<debugger, reset>>
     \/ /\ stopped' = FALSE /\ place' = "behind"
        /\ Breaks
        /\ reset' \in {reset, "cpu"}
  /\ UNCHANGED <<window, new_frame, cycle, disks>>

(* do_all_custom_cylces behind any other instruction: a rest may stay *)
CaughtUp ==
  /\ place = "behind" /\ place' = "end"
  /\ owed' \in IF owed = "whole" THEN Rests ELSE {owed}
  /\ UNCHANGED <<window, new_frame, cycle, stopped, cpu_active, thrown, debugger, disks, reset>>

(* A stopped CPU: cycles pass until a request, a frame or the debugger *)
Wait ==
  /\ place = "stopped" /\ cstep
  /\ place' \in IF new_frame' \/ debug_mode' THEN {"end"} ELSE {"stopped", "end"}
  /\ UNCHANGED <<window, stopped, cpu_active, owed, thrown, disks, reset>>

(* run: an exception ends the step where it is.  One out of the chips has   *)
(* cpu_active cleared (cstep); a command that fails leaves all as it is     *)
Thrown ==
  /\ activate_debugger /\ place' = IF quit THEN "over" ELSE "begin"
  /\ \/ Accesses /\ owed' \in Owing /\ cpu_active' \in BOOLEAN /\ thrown' = TRUE
     \/ /\ place = "stopped" \/ (place = "behind" /\ owed = "whole")
        /\ thrown' = TRUE /\ UNCHANGED <<owed, cpu_active>>
     \/ Prompting /\ UNCHANGED <<owed, cpu_active, thrown>>
  /\ UNCHANGED <<window, new_frame, cycle, stopped, wait_mode, wait_arg, disks, reset>>

-----------------------------------------------------------------------------
(* The end of a step: a reset, unless the debugger is to come first; the   *)
(* disk that is due, and what the window has seen, with the frame or when  *)
(* enough steps have been made since                                       *)
Serves == reset # "none" /\ ~debug_mode

Due == new_frame /\ disk_chosen_countdown = 1

New == UNION {[1 .. n -> {"quit", "reset", "debug", "disk"}] : n \in 0 .. MaxEvents}

End ==
  /\ place = "end" /\ place' = IF quit THEN "over" ELSE "begin"
  /\ IF Serves THEN reset' = "none" ELSE UNCHANGED reset
  /\ new_frame' = FALSE
  /\ disk_chosen_countdown' = IF new_frame /\ disk_chosen_countdown > 0 THEN disk_chosen_countdown - 1
                              ELSE disk_chosen_countdown
  /\ IF Due THEN /\ drives' = [drives EXCEPT ![pending_disk_drive] = pending_disk]
                 /\ pending_disk' = Empty /\ pending_disk_drive' = 255
     ELSE UNCHANGED <<drives, pending_disk, pending_disk_drive>>
  /\ IF Len(events) < MaxEvents THEN \E more \in New : events' = events \o more
     ELSE UNCHANGED events
  /\ \/ activate_debugger                            (* ctrl-C *)
     \/ UNCHANGED <<debug_mode, debugged>>
  /\ UNCHANGED <<quit, wait_mode, wait_arg, cycle, stopped, cpu_active, owed, thrown, df, chosen, overtaken>>

LoopInit ==
  /\ place = "begin" /\ events = <<>> /\ quit = FALSE /\ reset = "none"
  /\ debug_mode = FALSE /\ wait_mode = "none" /\ wait_arg = 0 /\ new_frame = FALSE /\ cycle = 0
  /\ df \in Inserted
  /\ drives = [d \in Drives |-> DiskOf(df[d])]
  /\ pending_disk = Empty /\ pending_disk_drive = 255 /\ disk_chosen_countdown = 0
  /\ stopped = FALSE /\ cpu_active = FALSE /\ owed = "none" /\ thrown = FALSE
  /\ chosen = 0 /\ debugged = 0 /\ overtaken = {}

LoopNext ==
  \/ process_event \/ NoEvent \/ Command \/ Leave \/ NoPrompt
  \/ Cycles \/ Watched \/ Instruction \/ CaughtUp \/ Wait \/ Thrown \/ End

LoopSpec == LoopInit /\ [][LoopNext]_loop_vars

-----------------------------------------------------------------------------
(***************************************************************************)
(* A drive holds the disk that was last chosen for it, or waits for it     *)
(* empty, unless a choice was made for the drive while another one was     *)
(* pending for it: then the older one comes back when it is due.           *)
(***************************************************************************)
DisksAsChosen ==
  \A d \in Drives \ overtaken :
    IF disk_chosen_countdown > 0 /\ d = pending_disk_drive
    THEN drives[d] = Empty /\ pending_disk = df[d]
    ELSE drives[d] = DiskOf(df[d])

(***************************************************************************)
(* At the debugger's prompt no access of the CPU is under way, and of the  *)
(* cycles it has taken the chips are behind by less than one of theirs,    *)
(* unless the CPU is stopped.  So write_state's assertion, that there are  *)
(* none at all (main.cpp 2260), holds at a prompt that comes after an      *)
(* instruction that was not STOP if -cpuscale is 1.  It may fail if        *)
(* -cpuscale is more than 1 (a rest), after STOP, and after an exception   *)
(* (thrown), where cpu_active may be set or clear with any cycles owed.    *)
(***************************************************************************)
NothingOwed == Prompting /\ ~thrown => ~cpu_active /\ (stopped \/ owed \in Rests)

(***************************************************************************)
(* The disks are as chosen, whatever the order of events, commands,        *)
(* instructions, frames and exceptions in amiga::step; and at a prompt     *)
(* that comes after no exception, the chips are behind by no whole cycle   *)
(* unless the CPU is stopped.                                              *)
(***************************************************************************)
LoopKeepsItsState == DisksAsChosen /\ NothingOwed
=============================================================================
