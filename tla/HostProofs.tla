----------------------------- MODULE HostProofs -----------------------------
(***************************************************************************)
(* Theorems about the parts of the program that share time and threads:    *)
(* amiga::step keeps the disks that were chosen and lets the chips catch   *)
(* up with the CPU (MainLoop), the CPU and the chips keep one time (BusSync), the   *)
(* sound device's buffers belong to one side at a time (WaveOut), the      *)
(* debugger's questions are answered by their lines (DebugPrompt), the     *)
(* text the guest sends keeps its lines (Serial), exceptions return to     *)
(* what they have interrupted (Cpu), and executables are whole in memory   *)
(* (Hunks), for every delay, scale, line, E clock, ring, text, number of   *)
(* questions, status, set of odd vectors and table of hunks.               *)
(***************************************************************************)
EXTENDS MainLoop, BusSync, WaveOut, DebugPrompt, Serial, Cpu, Hunks, WellFoundedInduction, SequenceTheorems,
        FiniteSetTheorems, TLAPS

-----------------------------------------------------------------------------
(* The main loop *)

DrivesType ==
  /\ drives \in [Drives -> Files \cup {NoName, Bad, Empty}]
  /\ df \in [Drives -> Files \cup {NoName, Bad}]
  /\ pending_disk \in Files \cup {NoName, Bad, Empty}
  /\ disk_chosen_countdown \in Nat
  /\ disk_chosen_countdown > 0 => pending_disk_drive \in Drives /\ pending_disk # NoName

(* Outside of an instruction the CPU is not active, behind it the chips may *)
(* still be a cycle or more behind, later on only if it was STOP            *)
ChipsFollow ==
  /\ owed \in Owing
  /\ ~thrown /\ place # "cpu" => ~cpu_active
  /\ ~thrown /\ place \notin {"cpu", "behind"} => stopped \/ owed \in Rests

LoopInv == DrivesType /\ DisksAsChosen /\ ChipsFollow

(* A disk that is inserted is in its drive, or the drive waits for it *)
LEMMA InsertKeepsDisks ==
  ASSUME LoopInv, NEW d \in Drives, NEW name \in Names, NEW delay \in Nat,
         insert_disk(d, name, delay)
  PROVE  DrivesType' /\ DisksAsChosen'
  <1> USE LoopAssumption DEF LoopInv, DrivesType, Names
  <1>1. CASE name = Bad
    BY <1>1 DEF insert_disk, DisksAsChosen
  <1>2. CASE name # Bad
    <2> DEFINE later == name # NoName /\ delay > 0 /\ disk_chosen_countdown = 0
    <2>1. /\ df' = [df EXCEPT ![d] = name]
          /\ drives' = [drives EXCEPT ![d] = IF later THEN Empty ELSE DiskOf(name)]
      BY <1>2 DEF insert_disk
    <2>2. CASE later
      <3>1. /\ disk_chosen_countdown' = delay /\ pending_disk' = name
            /\ pending_disk_drive' = d /\ overtaken' = overtaken \ {d}
        BY <1>2, <2>2 DEF insert_disk, DriveOf
      <3>2. DrivesType'
        BY <2>1, <2>2, <3>1
      <3>3. ASSUME NEW e \in Drives, e \notin overtaken'
            PROVE  IF disk_chosen_countdown' > 0 /\ e = pending_disk_drive'
                   THEN drives'[e] = Empty /\ pending_disk' = df'[e]
                   ELSE drives'[e] = DiskOf(df'[e])
        <4>1. CASE e = d
          BY <2>1, <2>2, <3>1, <4>1
        <4>2. CASE e # d
          <5>1. e \notin overtaken  BY <3>1, <3>3, <4>2
          <5>2. drives'[e] = drives[e] /\ df'[e] = df[e]  BY <2>1, <4>2
          <5>3. ~(disk_chosen_countdown > 0)  BY ONLY <2>2
          <5>4. drives[e] = DiskOf(df[e])
            BY ONLY <5>1, <5>3, DisksAsChosen, e \in Drives DEF DisksAsChosen
          <5> QED  BY <3>1, <4>2, <5>2, <5>4
        <4> QED  BY <4>1, <4>2
      <3> QED  BY <3>2, <3>3 DEF DisksAsChosen
    <2>3. CASE ~later
      <3>1. /\ UNCHANGED <<disk_chosen_countdown, pending_disk, pending_disk_drive>>
            /\ overtaken' = IF disk_chosen_countdown > 0 /\ d = pending_disk_drive
                            THEN overtaken \cup {d} ELSE overtaken \ {d}
        BY <1>2, <2>3 DEF insert_disk
      <3>2. DrivesType'
        BY <2>1, <2>3, <3>1 DEF DiskOf
      <3>3. DisksAsChosen'
        BY <2>1, <2>3, <3>1 DEF DisksAsChosen
      <3> QED  BY <3>2, <3>3
    <2> QED  BY <2>2, <2>3
  <1> QED  BY <1>1, <1>2

LEMMA LoopStarts == LoopInit => LoopInv
  <1> SUFFICES ASSUME LoopInit  PROVE LoopInv
    OBVIOUS
  <1> USE LoopAssumption DEF LoopInit
  <1>1. df \in [Drives -> Files \cup {NoName}]
    OBVIOUS
  <1>2. drives = [d \in Drives |-> DiskOf(df[d])]
    OBVIOUS
  <1>3. drives \in [Drives -> Files \cup {NoName, Bad, Empty}]
    BY <1>1, <1>2 DEF DiskOf
  <1>0. disk_chosen_countdown = 0 /\ pending_disk = Empty
    OBVIOUS
  <1>4. DrivesType
    <2>1. disk_chosen_countdown \in Nat /\ ~(disk_chosen_countdown > 0)
      BY ONLY <1>0
    <2>2. df \in [Drives -> Files \cup {NoName, Bad}] /\ pending_disk \in Files \cup {NoName, Bad, Empty}
      BY ONLY <1>0, <1>1
    <2> QED  BY ONLY <1>3, <2>1, <2>2 DEF DrivesType
  <1>5. DisksAsChosen
    BY ONLY <1>0, <1>2 DEF DisksAsChosen
  <1>6. ChipsFollow
    BY DEF ChipsFollow, Owing, Rests
  <1> QED  BY <1>4, <1>5, <1>6 DEF LoopInv

LEMMA LoopKeeps == LoopInv /\ [LoopNext]_loop_vars => LoopInv'
  <1> SUFFICES ASSUME LoopInv, [LoopNext]_loop_vars  PROVE LoopInv'
    OBVIOUS
  <1> USE DEF LoopInv
  <1>a. UNCHANGED disks => DrivesType' /\ DisksAsChosen'
    <2> SUFFICES ASSUME UNCHANGED disks  PROVE DrivesType' /\ DisksAsChosen'
      OBVIOUS
    <2>1. DrivesType'
      BY DEF DrivesType, disks
    <2>2. DisksAsChosen'
      BY DEF DisksAsChosen, disks
    <2> QED  BY <2>1, <2>2
  <1>b. ASSUME UNCHANGED <<owed, stopped, cpu_active, thrown>>,
               place' = place \/ {place, place'} \subseteq {"begin", "prompt", "stopped", "end", "over"}
        PROVE  ChipsFollow'
    BY <1>b DEF ChipsFollow
  <1>1. ASSUME place' = "cpu", owed' \in Owing, UNCHANGED disks  PROVE LoopInv'
    BY <1>a, <1>1 DEF ChipsFollow
  <1>2. CASE process_event
    <2>1. ChipsFollow'
      BY <1>2, <1>b DEF process_event, machine, timing
    <2>2. CASE UNCHANGED disks
      BY <1>a, <2>1, <2>2
    <2>3. CASE \E d \in Drives, name \in Names : insert_disk(d, name, Delay)
      BY <2>1, <2>3, InsertKeepsDisks, LoopAssumption
    <2> QED  BY <1>2, <2>2, <2>3 DEF process_event
  <1>3. CASE NoEvent
    <2>1. ChipsFollow'
      BY <1>3, <1>b DEF NoEvent, machine, timing
    <2> QED  BY <1>3, <1>a, <2>1 DEF NoEvent
  <1>4. CASE Command
    <2>1. ChipsFollow'
      BY <1>4, <1>b DEF Command, machine, timing
    <2>2. CASE UNCHANGED disks
      BY <1>a, <2>1, <2>2
    <2>3. CASE \E d \in Drives, name \in Names, delay \in {0, Delay} : insert_disk(d, name, delay)
      BY <2>1, <2>3, InsertKeepsDisks, LoopAssumption
    <2> QED  BY <1>4, <2>2, <2>3 DEF Command
  <1>5. CASE Leave \/ NoPrompt
    <2>1. place' = "cpu" /\ owed' = owed /\ UNCHANGED disks
      BY <1>5 DEF Leave, NoPrompt, timing
    <2> QED  BY <1>1, <2>1 DEF ChipsFollow
  <1>6. CASE Cycles \/ Watched
    <2>1. UNCHANGED disks
      BY <1>6 DEF Cycles, Watched
    <2>2. CASE Cycles
      <3>1. UNCHANGED <<place, stopped, cpu_active, thrown>>
        BY <2>2 DEF Cycles
      <3>2. ChipsFollow'
        <4>1. CASE Accesses /\ owed' \in Owing
          <5>1. place = "cpu" \/ thrown
            BY <4>1 DEF ChipsFollow, Accesses, Prompting
          <5>2. place' = "cpu" \/ thrown'
            BY <3>1, <5>1
          <5> QED  BY <4>1, <5>2 DEF ChipsFollow
        <4>2. CASE UNCHANGED owed
          BY <3>1, <4>2, <1>b
        <4> QED  BY <2>2, <4>1, <4>2 DEF Cycles
      <3> QED  BY <1>a, <2>1, <3>2
    <2>3. CASE Watched
      BY <1>a, <1>b, <2>1, <2>3 DEF Watched, machine, timing
    <2> QED  BY <1>6, <2>2, <2>3
  <1>7. CASE Instruction
    <2>1. /\ UNCHANGED disks /\ owed' \in Owing /\ ~cpu_active'
          /\ stopped' = TRUE \/ place' = "behind"
      BY <1>7 DEF Instruction
    <2> QED  BY <1>a, <2>1 DEF ChipsFollow
  <1>8. CASE CaughtUp
    <2>1. /\ place = "behind" /\ UNCHANGED <<cpu_active, thrown, disks>>
          /\ owed' \in IF owed = "whole" THEN Rests ELSE {owed}
      BY <1>8 DEF CaughtUp
    <2> QED  BY <1>a, <2>1 DEF ChipsFollow, Owing
  <1>11. CASE Wait
    <2>1. ChipsFollow'
      BY <1>11, <1>b DEF Wait
    <2> QED  BY <1>11, <1>a, <2>1 DEF Wait
  <1>12. CASE Thrown
    <2>1. UNCHANGED disks
      BY <1>12 DEF Thrown
    <2>2. ChipsFollow'
      <3>1. CASE Prompting /\ UNCHANGED <<owed, cpu_active, thrown, stopped>>
        BY <1>12, <3>1, <1>b DEF Thrown, Prompting
      <3>2. CASE thrown' = TRUE /\ owed' \in Owing
        BY <3>2 DEF ChipsFollow
      <3> QED  BY <1>12, <3>1, <3>2 DEF Thrown, ChipsFollow
    <2> QED  BY <1>a, <2>1, <2>2
  <1>9. CASE End
    <2>1. UNCHANGED <<df, overtaken>>
      BY <1>9 DEF End
    <2>5. ChipsFollow'
      BY <1>9, <1>b DEF End
    <2>2. /\ disk_chosen_countdown' = IF new_frame /\ disk_chosen_countdown > 0
                                      THEN disk_chosen_countdown - 1 ELSE disk_chosen_countdown
          /\ IF Due THEN /\ drives' = [drives EXCEPT ![pending_disk_drive] = pending_disk]
                         /\ pending_disk' = Empty /\ pending_disk_drive' = 255
             ELSE UNCHANGED <<drives, pending_disk, pending_disk_drive>>
      BY <1>9 DEF End
    <2>3. CASE Due
      <3>1. disk_chosen_countdown' = 0 /\ disk_chosen_countdown = 1
        BY <2>2, <2>3 DEF Due
      <3>2. drives' = [drives EXCEPT ![pending_disk_drive] = pending_disk] /\ pending_disk' = Empty
        BY <2>2, <2>3
      <3>3. pending_disk_drive \in Drives /\ pending_disk # NoName
        BY ONLY <3>1, DrivesType DEF DrivesType
      <3>4. DrivesType'
        BY ONLY <2>1, <3>1, <3>2, <3>3, DrivesType DEF DrivesType
      <3>5. ASSUME NEW e \in Drives, e \notin overtaken
            PROVE  drives'[e] = DiskOf(df[e])
        BY ONLY <3>1, <3>2, <3>3, <3>5, DisksAsChosen, DrivesType DEF DisksAsChosen, DrivesType, DiskOf
      <3>6. DisksAsChosen'
        BY ONLY <2>1, <3>1, <3>5 DEF DisksAsChosen
      <3> QED  BY <2>5, <3>4, <3>6
    <2>4. CASE ~Due
      <3>1. UNCHANGED <<drives, pending_disk, pending_disk_drive>>
        BY <2>2, <2>4
      <3>2. disk_chosen_countdown' \in Nat /\ (disk_chosen_countdown' > 0 <=> disk_chosen_countdown > 0)
        <4>1. CASE new_frame /\ disk_chosen_countdown > 0
          BY ONLY <2>2, <2>4, <4>1, DrivesType DEF Due, DrivesType
        <4>2. CASE ~(new_frame /\ disk_chosen_countdown > 0)
          <5>1. disk_chosen_countdown' = disk_chosen_countdown
            BY <2>2, <4>2
          <5> QED  BY <5>1 DEF DrivesType
        <4> QED  BY <4>1, <4>2
      <3> QED  BY <2>1, <2>5, <3>1, <3>2 DEF DrivesType, DisksAsChosen
    <2> QED  BY <2>3, <2>4
  <1>10. CASE UNCHANGED loop_vars
    <2>1. ChipsFollow'
      BY <1>10, <1>b DEF loop_vars, machine, timing
    <2> QED  BY <1>10, <1>a, <2>1 DEF loop_vars
  <1> QED  BY <1>2, <1>3, <1>4, <1>5, <1>6, <1>7, <1>8, <1>9, <1>10, <1>11, <1>12 DEF LoopNext

(***************************************************************************)
(* For any drives, files, delay and scale of the clocks: a drive holds the *)
(* disk last chosen for it or waits empty for it; and at the debugger's    *)
(* prompt, unless an exception came out of the last instruction, no access *)
(* of the CPU is under way, and the chips are behind it by no whole cycle  *)
(* of theirs or it is stopped.  That they are not behind at all, which     *)
(* write_state asserts (main.cpp 2260), follows only for a CPU that is not *)
(* stopped, with -cpuscale 1.                                              *)
(***************************************************************************)
THEOREM LoopKeepsItsStateCorrect == LoopSpec => []LoopKeepsItsState
  <1>1. LoopInv => LoopKeepsItsState
    BY DEF LoopInv, LoopKeepsItsState, NothingOwed, ChipsFollow, Prompting
  <1> QED  BY <1>1, LoopStarts, LoopKeeps, PTL DEF LoopSpec

-----------------------------------------------------------------------------
(* The time of CPU and chips *)

BusTypes ==
  /\ hpos \in Nat /\ eclock \in Nat /\ cycles_todo \in Nat /\ slack \in Int
  /\ custom_step \in [hpos : Nat, eclock : Nat, free : BOOLEAN]
  /\ doing \in {"run", "align", "wait", "eclock", "erise", "stopped"}

BusInv ==
  /\ BusTypes
  /\ custom_step.free => custom_step.hpos % 2 = 0
  /\ doing \in {"align", "wait"} => cycles_todo = 0

(* Cycles the CPU owes are whole cycles of the chips and a rest *)
LEMMA Owes ==
  ASSUME NEW t \in Nat
  PROVE  /\ t \div Scale \in Nat /\ t % Scale \in 0 .. Scale - 1
         /\ t = ((t \div Scale) * Scale) + (t % Scale)
         /\ ((t \div Scale) + 1) * Scale = ((t \div Scale) * Scale) + Scale
  <1>1. Scale \in Nat /\ Scale > 0
    BY BusAssumption
  <1> DEFINE q == t \div Scale
             r == t % Scale
  <1>2. q \in Int /\ r \in 0 .. Scale - 1 /\ t = Scale * q + r
    BY <1>1
  <1> HIDE DEF q, r
  <1>3. q >= 0
    <2> SUFFICES ASSUME q <= -1  PROVE FALSE
      BY <1>2
    <2>1. Scale * q <= Scale * (-1)
      BY <1>1, <1>2
    <2> QED  BY <1>1, <1>2, <2>1
  <1>4. (q + 1) * Scale = (q * Scale) + Scale /\ Scale * q = q * Scale
    BY <1>1, <1>2
  <1> QED  BY <1>1, <1>2, <1>3, <1>4 DEF q, r

(* The chips' next cycle, and the one they ran *)
LEMMA RunsTyped ==
  ASSUME BusTypes, custom_step.free => custom_step.hpos % 2 = 0, NEW n \in Nat, Runs(n)
  PROVE  /\ hpos' \in Nat /\ eclock' \in Nat
         /\ custom_step' \in [hpos : Nat, eclock : Nat, free : BOOLEAN]
         /\ custom_step'.free => custom_step'.hpos % 2 = 0
  <1>1. \A m \in Nat : m % Line \in Nat /\ m % EClock \in Nat
    BY BusAssumption
  <1>2. hpos' \in Nat /\ eclock' \in Nat
    BY <1>1 DEF Runs, BusTypes
  <1>3. CASE n = 0
    BY <1>2, <1>3 DEF Runs, BusTypes
  <1>4. CASE n # 0
    <2>1. PICK free \in BOOLEAN :
            custom_step' = Last((hpos + n - 1) % Line, (eclock + n - 1) % EClock, free)
      BY <1>4 DEF Runs
    <2>2. hpos + n - 1 \in Nat /\ eclock + n - 1 \in Nat
      BY <1>4 DEF BusTypes
    <2>3. (hpos + n - 1) % Line \in Nat /\ (eclock + n - 1) % EClock \in Nat
      BY <1>1, <2>2
    <2> DEFINE h == (hpos + n - 1) % Line
               e == (eclock + n - 1) % EClock
    <2> HIDE DEF h, e
    <2>4. Last(h, e, free) \in [hpos : Nat, eclock : Nat, free : BOOLEAN]
          /\ (Last(h, e, free).free => Last(h, e, free).hpos % 2 = 0)
      BY <2>3 DEF Last, h, e
    <2> QED  BY <1>2, <2>1, <2>4 DEF h, e
  <1> QED  BY <1>3, <1>4

(* What every step of the CPU or the chips comes to *)
LEMMA Spent ==
  ASSUME BusInv, NEW n \in Nat, NEW todo \in Nat, NEW due \in Nat, Spend(n, todo, due),
         doing' \in {"run", "align", "wait", "eclock", "erise", "stopped"},
         doing' \in {"align", "wait"} => todo = 0
  PROVE  BusInv' /\ slack' = slack + (n * Scale) + todo - cycles_todo - due
  <1>1. Runs(n) /\ cycles_todo' = todo /\ slack' = slack + (n * Scale) + todo - cycles_todo - due
    BY DEF Spend
  <1>2. n * Scale \in Int
    BY BusAssumption
  <1>3. slack' \in Int
    BY <1>1, <1>2 DEF BusInv, BusTypes
  <1>4. /\ hpos' \in Nat /\ eclock' \in Nat
        /\ custom_step' \in [hpos : Nat, eclock : Nat, free : BOOLEAN]
        /\ custom_step'.free => custom_step'.hpos % 2 = 0
    BY <1>1, RunsTyped DEF BusInv
  <1> QED  BY <1>1, <1>3, <1>4 DEF BusInv, BusTypes

BusStep == BusInv' /\ TimeStep /\ TransferStep

LEMMA BusKeeps == BusInv /\ BusNext => BusStep
  <1> SUFFICES ASSUME BusInv, BusNext  PROVE BusStep
    OBVIOUS
  <1>1. /\ Scale \in Nat /\ Scale > 0 /\ 0 * Scale = 0 /\ 1 * Scale = Scale /\ 2 * Scale \in Nat
        /\ slack \in Int /\ cycles_todo \in Nat
    BY BusAssumption DEF BusInv, BusTypes
  <1>2. ASSUME NEW c \in {2, 4}, cycle_handler(c)  PROVE BusStep
    <2>1. doing = "run" /\ doing' = "run" /\ Spend(0, cycles_todo + c, c)
      BY <1>2 DEF cycle_handler
    <2>2. BusInv' /\ slack' = slack + (0 * Scale) + (cycles_todo + c) - cycles_todo - c
      BY <1>1, <2>1, Spent
    <2> QED  BY <1>1, <2>1, <2>2 DEF BusStep, TimeStep, TransferStep
  <1>3. ASSUME NEW next \in {"run", "eclock"}, doing = "run", Spend(Whole, Remainder, 0), doing' = next
        PROVE  BusStep
    <2>1. /\ Whole \in Nat /\ Remainder \in 0 .. Scale - 1
          /\ cycles_todo = (Whole * Scale) + Remainder /\ Whole * Scale \in Int
      BY <1>1, Owes DEF Whole, Remainder
    <2>2. BusInv' /\ slack' = slack + (Whole * Scale) + Remainder - cycles_todo - 0
      BY <1>1, <1>3, <2>1, Spent
    <2>3. slack' = slack
      BY <1>1, <2>1, <2>2
    <2> QED  BY <1>1, <1>3, <2>2, <2>3 DEF BusStep, TimeStep, TransferStep
  <1>4. CASE do_all_custom_cylces \/ CiaAccess
    BY <1>3, <1>4 DEF do_all_custom_cylces, CiaAccess
  <1>5. CASE ChipAccess
    <2>1. /\ Whole \in Nat /\ Remainder \in 0 .. Scale - 1
          /\ cycles_todo = (Whole * Scale) + Remainder /\ Whole * Scale \in Int
          /\ (Whole + 1) * Scale = (Whole * Scale) + Scale
      BY <1>1, Owes DEF Whole, Remainder
    <2>2. /\ Rest \in Nat
          /\ \/ Remainder = 0 /\ Rest * Scale = Whole * Scale
             \/ Remainder > 0 /\ Rest * Scale = (Whole * Scale) + Scale
      BY <1>1, <2>1 DEF Rest
    <2>3. doing = "run" /\ doing' = "align" /\ Spend(Rest, 0, 0)
      BY <1>5 DEF ChipAccess
    <2>4. BusInv' /\ slack' = slack + (Rest * Scale) + 0 - cycles_todo - 0
      BY <1>1, <2>2, <2>3, Spent
    <2>5. slack' >= slack /\ slack' <= slack + Scale
      BY <1>1, <2>1, <2>2, <2>4
    <2> QED  BY <2>3, <2>4, <2>5 DEF BusStep, TimeStep, TransferStep
  <1>6. CASE Align
    <2>1. /\ doing = "align" /\ doing' = "wait" /\ cycles_todo = 0
          /\ Spend((custom_step.hpos % 2) + 2, 0, 2 * Scale)
      BY <1>6 DEF Align, BusInv
    <2> DEFINE odd == custom_step.hpos % 2
    <2>2. odd \in {0, 1}
      BY DEF BusInv, BusTypes
    <2> HIDE DEF odd
    <2>3. (odd + 2) * Scale = (odd * Scale) + 2 * Scale /\ odd * Scale \in {0, Scale}
      BY <1>1, <2>2
    <2>4. BusInv' /\ slack' = slack + ((odd + 2) * Scale) + 0 - cycles_todo - (2 * Scale)
      BY <1>1, <2>1, <2>2, Spent DEF odd
    <2>5. slack' >= slack /\ slack' <= slack + Scale
      BY <1>1, <2>1, <2>3, <2>4
    <2> QED  BY <2>1, <2>4, <2>5 DEF BusStep, TimeStep, TransferStep
  (* One cycle passes, or none, and nothing was asked for *)
  <1>7. ASSUME NEW n \in {0, 1}, Spend(n, cycles_todo, 0), doing # "run",
               doing' \in {"run", "align", "wait", "eclock", "erise", "stopped"},
               doing' \in {"align", "wait"} => doing = doing'
        PROVE  BusInv' /\ TimeStep
    <2>1. doing' \in {"align", "wait"} => cycles_todo = 0
      BY <1>7 DEF BusInv
    <2>2. BusInv' /\ slack' = slack + (n * Scale) + cycles_todo - cycles_todo - 0
      BY <1>1, <1>7, <2>1, Spent
    <2>3. n * Scale \in {0, Scale}
      BY <1>1
    <2>4. slack' >= slack /\ slack' <= slack + Scale
      BY <1>1, <2>2, <2>3
    <2> QED  BY <1>7, <2>2, <2>4 DEF TimeStep
  <1>8. CASE WaitForBus
    <2>1. doing = "wait" /\ cycles_todo = 0
      BY <1>8 DEF WaitForBus, BusInv
    <2>2. CASE custom_step.free
      <3>1. doing' = "run" /\ Spend(0, 2 * Scale, 2 * Scale)
        BY <1>8, <2>2 DEF WaitForBus
      <3>2. BusInv' /\ slack' = slack + (0 * Scale) + (2 * Scale) - cycles_todo - (2 * Scale)
        BY <1>1, <3>1, Spent
      <3>3. slack' = slack
        BY <1>1, <2>1, <3>2
      <3> QED  BY <1>1, <2>1, <2>2, <3>2, <3>3 DEF BusStep, TimeStep, TransferStep, BusInv
    <2>3. CASE ~custom_step.free
      <3>1. doing' = "wait" /\ Spend(1, cycles_todo, 0)
        BY <1>8, <2>1, <2>3 DEF WaitForBus
      <3>2. BusInv' /\ TimeStep
        BY <1>7, <2>1, <3>1
      <3> QED  BY <2>1, <3>1, <3>2 DEF BusStep, TransferStep
    <2> QED  BY <2>2, <2>3
  <1>9. CASE WaitForE
    <2>1. PICK n \in {0, 1} :
            /\ Spend(n, cycles_todo, 0) /\ doing \in {"eclock", "erise"}
            /\ doing' \in {"run", "eclock", "erise"}
            /\ (doing = "erise" /\ doing' = "run") => custom_step.eclock = 0
      BY <1>9 DEF WaitForE
    <2>2. BusInv' /\ TimeStep
      BY <1>7, <2>1
    <2> QED  BY <2>1, <2>2 DEF BusStep, TransferStep
  <1>10. CASE Stopped
    <2>1. CASE doing = "stopped"
      <3>1. PICK n \in {0, 1} : Spend(n, cycles_todo, 0) /\ doing' \in {"run", "stopped"}
        BY <1>10, <2>1 DEF Stopped
      <3>2. BusInv' /\ TimeStep
        BY <1>7, <2>1, <3>1
      <3> QED  BY <2>1, <3>2 DEF BusStep, TransferStep
    <2>2. CASE doing # "stopped"
      <3>1. doing = "run" /\ doing' = "stopped" /\ Spend(1, cycles_todo, 0)
        BY <1>10, <2>2 DEF Stopped
      <3>2. BusInv' /\ slack' = slack + (1 * Scale) + cycles_todo - cycles_todo - 0
        BY <1>1, <3>1, Spent
      <3>3. slack' >= slack /\ slack' <= slack + Scale
        BY <1>1, <3>2
      <3> QED  BY <3>1, <3>2, <3>3 DEF BusStep, TimeStep, TransferStep
    <2> QED  BY <2>1, <2>2
  <1> QED  BY <1>2, <1>4, <1>5, <1>6, <1>8, <1>9, <1>10 DEF BusNext, OtherAccess

LEMMA BusStarts == BusInit => BusInv
  <1> SUFFICES ASSUME BusInit  PROVE BusInv
    OBVIOUS
  <1>1. PICK free \in BOOLEAN : custom_step = Last(0, 0, free)
    BY DEF BusInit
  <1>2. custom_step \in [hpos : Nat, eclock : Nat, free : BOOLEAN]
        /\ (custom_step.free => custom_step.hpos % 2 = 0)
    BY <1>1 DEF Last
  <1> QED  BY <1>2 DEF BusInit, BusInv, BusTypes

(***************************************************************************)
(* For any clock scale, line and E clock: however instructions, accesses,  *)
(* waits and stops follow each other, the CPU's cycles and the chips'      *)
(* differ only by what the CPU waited for, one cycle of the chips at a     *)
(* time, and a transfer takes an even cycle that is free.                  *)
(***************************************************************************)
THEOREM TimeKeptCorrect == BusSpec => TimeKept
  <1>1. BusInv /\ [BusNext]_bus_vars => BusInv'
    <2> SUFFICES ASSUME BusInv, UNCHANGED bus_vars  PROVE BusInv'
      BY BusKeeps DEF BusStep
    <2> QED  BY DEF bus_vars, BusInv, BusTypes
  <1>2. BusInv /\ [BusNext]_bus_vars => [TimeStep /\ TransferStep]_bus_vars
    BY BusKeeps DEF BusStep
  <1> QED  BY <1>1, <1>2, BusStarts, PTL DEF BusSpec, TimeKept

-----------------------------------------------------------------------------
(* The sound device's ring *)

Ring == 0 .. buffer_count - 1

LEMMA RingSize == buffer_count \in Nat /\ buffer_count > 0
  BY WaveAssumption

LEMMA OnlyMultiple ==
  ASSUME NEW x \in Int, NEW d \in (1 - buffer_count) .. (buffer_count - 1), buffer_count * x = d
  PROVE  x = 0 /\ d = 0
  <1>1. ~(x >= 1)
    <2> SUFFICES ASSUME x >= 1  PROVE FALSE
      OBVIOUS
    <2>1. buffer_count * x >= buffer_count * 1  BY RingSize
    <2> QED  BY <2>1, RingSize
  <1>2. ~(x <= -1)
    <2> SUFFICES ASSUME x <= -1  PROVE FALSE
      OBVIOUS
    <2>1. buffer_count * x <= buffer_count * (-1)  BY RingSize
    <2> QED  BY <2>1, RingSize
  <1>3. x = 0  BY <1>1, <1>2
  <1> QED  BY <1>3, RingSize

LEMMA Place ==
  ASSUME NEW n \in Nat
  PROVE  \E q \in Int : n % buffer_count \in Ring /\ n = buffer_count * q + (n % buffer_count)
  <1>1. n \div buffer_count \in Int /\ n % buffer_count \in Ring
        /\ n = buffer_count * (n \div buffer_count) + (n % buffer_count)
    BY RingSize DEF Ring
  <1> QED  BY <1>1

(* The buffer after one, and those that are less than a ring apart *)
LEMMA NextPlace ==
  ASSUME NEW n \in Nat
  PROVE  ((n % buffer_count) + 1) % buffer_count = (n + 1) % buffer_count
  <1> DEFINE r == n % buffer_count
             j == (n + 1) % buffer_count
             k == (r + 1) % buffer_count
  <1>1. PICK q \in Int : r \in Ring /\ n = buffer_count * q + r
    BY Place
  <1>2. PICK b \in Int : j \in Ring /\ n + 1 = buffer_count * b + j
    BY Place
  <1>3. PICK a \in Int : k \in Ring /\ r + 1 = buffer_count * a + k
    BY <1>1, Place DEF Ring
  <1> HIDE DEF r, j, k
  <1>4. buffer_count * (q + a - b) = (buffer_count * q + buffer_count * a) - buffer_count * b
    BY RingSize
  <1>5. /\ buffer_count * q \in Int /\ buffer_count * a \in Int /\ buffer_count * b \in Int
        /\ j \in Int /\ k \in Int /\ r \in Int
    BY <1>1, <1>2, <1>3, RingSize DEF Ring
  <1>6. buffer_count * (q + a - b) = j - k
    BY <1>1, <1>2, <1>3, <1>4, <1>5
  <1>7. j - k \in (1 - buffer_count) .. (buffer_count - 1) /\ q + a - b \in Int
    BY <1>2, <1>3, RingSize DEF Ring
  <1>8. j - k = 0
    BY <1>6, <1>7, OnlyMultiple
  <1> QED  BY <1>5, <1>8 DEF j, k, r

LEMMA ApartPlaces ==
  ASSUME NEW m \in Nat, NEW n \in Nat, m < n, n - m < buffer_count
  PROVE  m % buffer_count # n % buffer_count
  <1> DEFINE r == m % buffer_count
             j == n % buffer_count
  <1> SUFFICES ASSUME r = j  PROVE FALSE
    OBVIOUS
  <1>1. PICK q \in Int : r \in Ring /\ m = buffer_count * q + r
    BY Place
  <1>2. PICK b \in Int : j \in Ring /\ n = buffer_count * b + j
    BY Place
  <1> HIDE DEF r, j
  <1>3. buffer_count * (b - q) = (buffer_count * b) - (buffer_count * q)
    BY RingSize
  <1>4. buffer_count * q \in Int /\ buffer_count * b \in Int /\ r \in Int /\ j \in Int
    BY <1>1, <1>2, RingSize DEF Ring
  <1>5. buffer_count * (b - q) = n - m
    BY <1>1, <1>2, <1>3, <1>4
  <1>6. n - m \in (1 - buffer_count) .. (buffer_count - 1) /\ b - q \in Int
    BY RingSize
  <1>7. n - m = 0
    BY <1>5, <1>6, OnlyMultiple
  <1> QED  BY <1>7

Busy == thread.at \in {"fill", "write"}
Taken == IF Busy THEN 1 ELSE 0

WaveTypes ==
  /\ exiting \in BOOLEAN /\ paused \in BOOLEAN
  /\ num_buffers_to_play \in Nat /\ returned \in Nat
  /\ next_buffer \in Ring
  /\ thread \in [at : {"wait", "paused", "fill", "write", "ended"}, buffer : Ring]
  /\ queue \in Seq(Ring) /\ played \in Seq(Ring)
  /\ owner \in {"alive", "exiting", "reset", "gone"}

Counted == num_buffers_to_play + Len(queue) + returned + Taken = buffer_count

(* Up to waveOutReset the buffers are taken, queued and played around the ring *)
Around ==
  /\ next_buffer = (Len(played) + Len(queue) + Taken) % buffer_count
  /\ \A i \in 1 .. Len(queue) : queue[i] = (Len(played) + i - 1) % buffer_count
  /\ Busy => thread.buffer = (Len(played) + Len(queue)) % buffer_count
  /\ \A i \in 1 .. Len(played) : played[i] = (i - 1) % buffer_count

(* and then at most the one that the thread had taken is still written *)
WaveInv ==
  /\ WaveTypes /\ Counted
  /\ owner # "alive" => exiting
  /\ owner \in {"alive", "exiting"} => Around
  /\ owner \in {"reset", "gone"} => (Busy => queue = <<>>)

LEMMA WaveStarts == WaveInit => WaveInv
  <1> SUFFICES ASSUME WaveInit  PROVE WaveInv
    OBVIOUS
  <1>1. 0 \in Ring /\ Taken = 0 /\ ~Busy
    BY RingSize DEF WaveInit, Ring, Taken, Busy
  <1>2. Len(queue) = 0 /\ Len(played) = 0 /\ queue \in Seq(Ring) /\ played \in Seq(Ring)
    BY DEF WaveInit
  <1>3. 0 % buffer_count = 0
    <2>1. PICK q \in Int : 0 % buffer_count \in Ring /\ 0 = buffer_count * q + (0 % buffer_count)
      BY Place
    <2> DEFINE r == 0 % buffer_count
    <2> HIDE DEF r
    <2>2. r \in Ring /\ buffer_count * (-q) = r /\ -q \in Int
      BY <2>1, RingSize DEF r, Ring
    <2>3. r = 0
      BY <2>2, OnlyMultiple, RingSize DEF Ring
    <2> QED  BY <2>3 DEF r
  <1>4. Around
    BY <1>1, <1>2, <1>3 DEF Around, WaveInit
  <1>5. WaveTypes
    BY <1>1, <1>2, RingSize DEF WaveTypes, WaveInit
  <1>6. Counted
    BY <1>1, <1>2, RingSize DEF Counted, WaveInit
  <1> QED  BY <1>4, <1>5, <1>6 DEF WaveInv, WaveInit

(* The thread takes a buffer, or sees that it is paused or to end *)
LEMMA WorkKeeps == WaveInv /\ Work => WaveInv'
  <1> SUFFICES ASSUME WaveInv, Work  PROVE WaveInv'
    OBVIOUS
  <1> USE DEF WaveInv, WaveTypes
  <1>1. ~Busy /\ Taken = 0 /\ UNCHANGED <<exiting, paused, queue, returned, owner, played>>
    BY DEF Work, At, Busy, Taken
  <1>2. CASE exiting \/ paused
    <2>1. /\ thread' \in [at : {"paused", "ended"}, buffer : Ring]
          /\ UNCHANGED <<num_buffers_to_play, next_buffer>>
      BY <1>2 DEF Work, Goes
    <2>2. ~Busy' /\ Taken' = 0
      BY <2>1 DEF Busy, Taken
    <2> QED  BY <1>1, <2>1, <2>2 DEF Counted, Around
  <1>3. CASE ~exiting /\ ~paused
    <2>1. /\ num_buffers_to_play > 0 /\ num_buffers_to_play' = num_buffers_to_play - 1
          /\ next_buffer' = (next_buffer + 1) % buffer_count
          /\ thread' = [at |-> "fill", buffer |-> next_buffer]
      BY <1>3 DEF Work, Take, Wakes
    <2>2. Busy' /\ Taken' = 1 /\ thread'.buffer = next_buffer
      BY <2>1 DEF Busy, Taken
    <2>3. owner = "alive" /\ Around
      BY <1>3
    <2> DEFINE n == Len(played) + Len(queue)
    <2>4. n \in Nat
      OBVIOUS
    <2>5. next_buffer = n % buffer_count
      BY <1>1, <2>3, <2>4 DEF Around
    <2>6. next_buffer' = (n + 1) % buffer_count
      BY <2>1, <2>4, <2>5, NextPlace
    <2>7. next_buffer' \in Ring
      BY <2>4, <2>6, Place
    <2>8. WaveTypes'
      BY <1>1, <2>1, <2>7
    <2>9. Counted'
      BY <1>1, <2>1, <2>2 DEF Counted
    <2>10. Around'
      BY <1>1, <2>2, <2>3, <2>5, <2>6 DEF Around
    <2> QED  BY <1>1, <2>3, <2>8, <2>9, <2>10
  <1> QED  BY <1>2, <1>3

LEMMA WriteKeeps == WaveInv /\ Write => WaveInv'
  <1> SUFFICES ASSUME WaveInv, Write  PROVE WaveInv'
    OBVIOUS
  <1> USE DEF WaveInv, WaveTypes
  <1> DEFINE b == thread.buffer
  <1>1. /\ UNCHANGED <<exiting, paused, num_buffers_to_play, next_buffer, returned, owner, played>>
        /\ Busy /\ Taken = 1 /\ ~Busy' /\ Taken' = 0 /\ b \in Ring
        /\ thread' \in [at : {"wait"}, buffer : Ring] /\ queue' = Append(queue, b)
    BY DEF Write, At, Goes, Busy, Taken
  <1> HIDE DEF b
  <1>2. /\ queue' \in Seq(Ring) /\ Len(queue') = Len(queue) + 1 /\ queue'[Len(queue) + 1] = b
        /\ \A i \in 1 .. Len(queue) : queue'[i] = queue[i]
    BY <1>1, AppendProperties
  <1>3. WaveTypes' /\ Counted'
    BY <1>1, <1>2 DEF Counted
  <1>4. ASSUME Around  PROVE Around'
    <2>1. b = (Len(played) + Len(queue)) % buffer_count
      BY <1>1, <1>4 DEF Around, b
    <2>2. \A i \in 1 .. Len(queue') : queue'[i] = (Len(played) + i - 1) % buffer_count
      <3> SUFFICES ASSUME NEW i \in 1 .. Len(queue')
                   PROVE  queue'[i] = (Len(played) + i - 1) % buffer_count
        OBVIOUS
      <3>1. CASE i = Len(queue) + 1
        <4>1. Len(played) + i - 1 = Len(played) + Len(queue)
          BY <3>1
        <4> QED  BY <1>2, <2>1, <3>1, <4>1
      <3>2. CASE i # Len(queue) + 1
        BY <1>2, <1>4, <3>2 DEF Around
      <3> QED  BY <3>1, <3>2
    <2>3. Len(played) + Len(queue) + 1 = Len(played) + Len(queue') + 0
      BY <1>2
    <2>4. next_buffer' = (Len(played') + Len(queue') + Taken') % buffer_count
      BY <1>1, <1>4, <2>3 DEF Around
    <2> QED  BY <1>1, <1>4, <2>2, <2>4 DEF Around
  <1> QED  BY <1>1, <1>3, <1>4

LEMMA PlayKeeps == WaveInv /\ Play => WaveInv'
  <1> SUFFICES ASSUME WaveInv, Play  PROVE WaveInv'
    OBVIOUS
  <1> USE DEF WaveInv, WaveTypes
  <1> DEFINE b == Head(queue)
  <1>1. /\ UNCHANGED <<exiting, paused, num_buffers_to_play, next_buffer, thread, owner>>
        /\ queue # <<>> /\ queue' = Tail(queue) /\ returned' = returned + 1 /\ played' = Append(played, b)
    BY DEF Play
  <1>2. Busy' = Busy /\ Taken' = Taken
    BY <1>1 DEF Busy, Taken
  <1>3. /\ b \in Ring /\ b = queue[1] /\ Len(queue) >= 1
        /\ queue' \in Seq(Ring) /\ Len(queue') = Len(queue) - 1
        /\ \A i \in 1 .. Len(queue') : queue'[i] = queue[i + 1]
    BY <1>1, HeadTailProperties
  <1> HIDE DEF b
  <1>4. /\ played' \in Seq(Ring) /\ Len(played') = Len(played) + 1 /\ played'[Len(played) + 1] = b
        /\ \A i \in 1 .. Len(played) : played'[i] = played[i]
    BY <1>1, <1>3, AppendProperties
  <1>5. WaveTypes'
    BY <1>1, <1>3, <1>4
  <1>6. Counted'
    BY <1>1, <1>2, <1>3, <1>4 DEF Counted, Taken
  <1>7. ASSUME Around  PROVE Around'
    <2>1. Len(played') + Len(queue') = Len(played) + Len(queue)
      BY <1>3, <1>4
    <2>2. \A i \in 1 .. Len(queue') : queue'[i] = (Len(played') + i - 1) % buffer_count
      <3> SUFFICES ASSUME NEW i \in 1 .. Len(queue')
                   PROVE  queue'[i] = (Len(played') + i - 1) % buffer_count
        OBVIOUS
      <3>1. i + 1 \in 1 .. Len(queue) /\ Len(played) + (i + 1) - 1 = Len(played') + i - 1
        BY <1>3, <1>4
      <3>2. queue[i + 1] = (Len(played) + (i + 1) - 1) % buffer_count
        BY <1>7, <3>1 DEF Around
      <3> QED  BY <1>3, <3>1, <3>2
    <2>3. b = Len(played) % buffer_count
      <3>1. queue[1] = (Len(played) + 1 - 1) % buffer_count
        BY <1>3, <1>7 DEF Around
      <3>2. Len(played) + 1 - 1 = Len(played)
        OBVIOUS
      <3> QED  BY <1>3, <3>1, <3>2
    <2>4. \A i \in 1 .. Len(played') : played'[i] = (i - 1) % buffer_count
      <3> SUFFICES ASSUME NEW i \in 1 .. Len(played')
                   PROVE  played'[i] = (i - 1) % buffer_count
        OBVIOUS
      <3>1. CASE i = Len(played) + 1
        <4>1. i - 1 = Len(played)
          BY <3>1
        <4> QED  BY <1>4, <2>3, <3>1, <4>1
      <3>2. CASE i # Len(played) + 1
        <4>1. i \in 1 .. Len(played)
          BY <1>4, <3>2
        <4>2. played[i] = (i - 1) % buffer_count
          BY <1>7, <4>1 DEF Around
        <4> QED  BY <1>4, <4>1, <4>2
      <3> QED  BY <3>1, <3>2
    <2> QED  BY <1>1, <1>2, <1>7, <2>1, <2>2, <2>4 DEF Around
  <1>8. owner' \in {"reset", "gone"} => (Busy' => queue' = <<>>)
    BY <1>1, <1>2
  <1> QED  BY <1>1, <1>5, <1>6, <1>7, <1>8

LEMMA WaveKeeps == WaveInv /\ [WaveNext]_wave_vars => WaveInv'
  <1> SUFFICES ASSUME WaveInv, [WaveNext]_wave_vars  PROVE WaveInv'
    OBVIOUS
  <1> USE DEF WaveInv, WaveTypes
  <1>1. CASE Work \/ Write \/ Play
    BY <1>1, WorkKeeps, WriteKeeps, PlayKeeps
  <1>2. CASE Resume
    <2>1. /\ thread' \in [at : {"wait"}, buffer : Ring] /\ ~Busy /\ Taken = 0
          /\ UNCHANGED <<exiting, paused, num_buffers_to_play, next_buffer, queue, returned, owner, played>>
      BY <1>2 DEF Resume, At, Goes, Busy, Taken
    <2>2. ~Busy' /\ Taken' = 0
      BY <2>1 DEF Busy, Taken
    <2> QED  BY <2>1, <2>2 DEF Counted, Around
  <1>3. CASE Fill
    <2>1. /\ thread' \in [at : {"write"}, buffer : Ring] /\ thread'.buffer = thread.buffer /\ Busy /\ Taken = 1
          /\ UNCHANGED <<exiting, paused, num_buffers_to_play, next_buffer, queue, returned, owner, played>>
      BY <1>3 DEF Fill, At, Goes, Busy, Taken
    <2>2. Busy' /\ Taken' = 1
      BY <2>1 DEF Busy, Taken
    <2> QED  BY <2>1, <2>2 DEF Counted, Around
  <1>4. CASE s_callback
    <2>1. /\ num_buffers_to_play' = num_buffers_to_play + 1 /\ returned' = returned - 1 /\ returned > 0
          /\ UNCHANGED <<exiting, paused, next_buffer, thread, queue, owner, played>>
      BY <1>4 DEF s_callback
    <2>2. Busy' = Busy /\ Taken' = Taken /\ Taken \in {0, 1}
      BY <2>1 DEF Busy, Taken
    <2>3. Around => Around'
      BY <2>1, <2>2 DEF Around
    <2>4. Counted'
      BY <2>1, <2>2 DEF Counted
    <2> QED  BY <2>1, <2>2, <2>3, <2>4
  <1>5. ASSUME exiting' \in BOOLEAN, paused' \in BOOLEAN, owner' \in {"alive", "exiting", "gone"},
               owner' # "alive" => exiting', owner' = "gone" => owner = "reset",
               owner' # "gone" => owner \in {"alive", "exiting"},
               UNCHANGED <<num_buffers_to_play, next_buffer, thread, queue, returned, played>>
        PROVE  WaveInv'
    <2>1. Busy' = Busy /\ Taken' = Taken
      BY <1>5 DEF Busy, Taken
    <2>2. (Around => Around') /\ Counted'
      BY <1>5, <2>1 DEF Around, Counted
    <2> QED  BY <1>5, <2>1, <2>2
  <1>6. CASE (\E pause \in BOOLEAN : set_paused(pause)) \/ Destroy \/ Join
    BY <1>5, <1>6 DEF set_paused, Destroy, Join
  <1>7. CASE Reset
    <2>1. /\ owner = "exiting" /\ owner' = "reset" /\ queue' = <<>> /\ returned' = returned + Len(queue)
          /\ UNCHANGED <<exiting, paused, num_buffers_to_play, next_buffer, thread, played>>
      BY <1>7 DEF Reset
    <2>2. Busy' = Busy /\ Taken' = Taken /\ Taken \in {0, 1}
      BY <2>1 DEF Busy, Taken
    <2>3. queue' \in Seq(Ring) /\ Len(queue') = 0
      BY <2>1
    <2>4. Counted'
      BY <2>1, <2>2, <2>3 DEF Counted
    <2> QED  BY <2>1, <2>3, <2>4
  <1>8. CASE UNCHANGED wave_vars
    <2>1. Busy' = Busy /\ Taken' = Taken
      BY <1>8 DEF Busy, Taken, wave_vars
    <2> QED  BY <1>8, <2>1 DEF Around, Counted, wave_vars
  <1> QED  BY <1>1, <1>2, <1>3, <1>4, <1>6, <1>7, <1>8 DEF WaveNext

(***************************************************************************)
(* For any number of buffers, and however the thread, the driver and the   *)
(* owner take turns: the buffer that the thread fills or writes is none    *)
(* the device has, the free, queued, returned and taken ones are all there *)
(* are, and until the reset they are played around the ring.               *)
(***************************************************************************)
THEOREM BuffersTakeTurnsCorrect == WaveSpec => []BuffersTakeTurns
  <1>1. WaveInv => BuffersTakeTurns
    <2> SUFFICES ASSUME WaveInv  PROVE BuffersTakeTurns
      OBVIOUS
    <2> USE DEF WaveInv, WaveTypes
    <2>1. num_buffers_to_play + Len(queue) + returned + (IF thread.at \in {"fill", "write"} THEN 1 ELSE 0) = buffer_count
      BY DEF Counted, Taken, Busy
    <2>2. owner \in {"alive", "exiting"} => \A i \in 1 .. Len(played) : played[i] = (i - 1) % buffer_count
      BY DEF Around
    <2>3. ASSUME Busy, NEW i \in DOMAIN queue  PROVE queue[i] # thread.buffer
      <3>1. i \in 1 .. Len(queue) /\ queue # <<>>
        BY <2>3
      <3>2. Around
        BY <2>3, <3>1
      <3> DEFINE m == Len(played) + i - 1
                 n == Len(played) + Len(queue)
      <3>3. queue[i] = m % buffer_count /\ thread.buffer = n % buffer_count
        BY <2>3, <3>1, <3>2 DEF Around
      <3>4. m \in Nat /\ n \in Nat /\ m < n
        BY <3>1
      <3>5. n - m < buffer_count
        BY <2>3, <3>1, RingSize DEF Counted, Taken
      <3> HIDE DEF m, n
      <3> QED  BY <3>3, <3>4, <3>5, ApartPlaces
    <2> QED  BY <2>1, <2>2, <2>3 DEF BuffersTakeTurns, Busy
  <1> QED  BY <1>1, WaveStarts, WaveKeeps, PTL DEF WaveSpec

-----------------------------------------------------------------------------
(* The prompt: while the window is open, the thread is where the question  *)
(* that is open, if one is, has got to.                                    *)
Asking ==
  \/ reader \in {"waiting", "reading"} /\ msg = "read_line" /\ read + 1 = asked
  \/ reader = "read" /\ msg = "read_line" /\ read = asked /\ line = asked
Answering == reader = "waiting" /\ msg = "none" /\ read = asked /\ line = asked

PromptInv ==
  /\ asked \in Nat /\ read \in Nat
  /\ ~closed =>
       /\ ~failed
       /\ \/ caller = "program" /\ Answering
          \/ caller = "polling" /\ (Asking \/ Answering)
          \/ caller = "leaving" /\ Answering
          \/ caller \in {"joining", "gone"} /\ msg = "quit" /\ reader \in {"waiting", "gone"}

(***************************************************************************)
(* Each question of the SDL driver's prompt is answered by its line, no    *)
(* assertion of its two threads fails, and they do not wait for each other,*)
(* unless the window is closed while a question is open.                   *)
(***************************************************************************)
THEOREM LinesAnswerQuestionsCorrect == PromptSpec => []LinesAnswerQuestions
  <1>1. PromptInit => PromptInv
    BY DEF PromptInit, PromptInv, Asking, Answering
  <1>2. PromptInv /\ [PromptNext]_prompt_vars => PromptInv'
    <2> SUFFICES ASSUME PromptInv, [PromptNext]_prompt_vars PROVE PromptInv'
      OBVIOUS
    <2> USE DEF PromptInv, Asking, Answering, send_msg
    <2>1. CASE Ask
      <3>1. caller = "program" /\ caller' = "polling" /\ asked' = asked + 1 /\ msg' = "read_line"
            /\ reader' = reader /\ read' = read /\ line' = line /\ closed' = closed
        BY <2>1 DEF Ask
      <3>2. ~closed => Answering  BY <3>1
      <3>3. ~closed => ~failed'  BY <2>1, <3>2, Zenon DEF Ask
      <3>4. ~closed => Asking'  BY <3>1, <3>2
      <3> QED  BY <3>1, <3>3, <3>4
    <2>2. CASE Close  BY <2>2 DEF Close
    <2>3. CASE Answered  BY <2>3 DEF Answered
    <2>4. CASE AtExit  BY <2>4 DEF AtExit
    <2>5. CASE JoinReader  BY <2>5 DEF JoinReader
    <2>6. CASE Wake  BY <2>6 DEF Wake
    <2>7. CASE GetLine  BY <2>7 DEF GetLine
    <2>8. CASE Done  BY <2>8 DEF Done, Over
    <2>9. CASE UNCHANGED prompt_vars  BY <2>9 DEF prompt_vars
    <2> QED  BY <2>1, <2>2, <2>3, <2>4, <2>5, <2>6, <2>7, <2>8, <2>9 DEF PromptNext
  <1>3. PromptInv => LinesAnswerQuestions
    BY DEF PromptInv, Asking, Answering, LinesAnswerQuestions
  <1> QED  BY <1>1, <1>2, <1>3, PTL DEF PromptSpec

-----------------------------------------------------------------------------
(* The serial text *)

(* A set of naturals with 0 and the successor of each of its members has all *)
LEMMA AllNaturals ==
  ASSUME NEW T, 0 \in T, \A n \in Nat : n \in T => n + 1 \in T
  PROVE  \A n \in Nat : n \in T
  <1> SUFFICES ASSUME NEW m \in Nat, m \notin T PROVE FALSE
    OBVIOUS
  <1> DEFINE less == OpToRel(<, Nat)
             S == {n \in Nat : n \notin T}
  <1>1. IsWellFoundedOn(less, Nat)  BY NatLessThanWellFounded
  <1>2. \A x, y \in Nat : x < y => <<x, y>> \in less  BY DEF OpToRel
  <1>3. S \subseteq Nat /\ S # {}  OBVIOUS
  <1> HIDE DEF less
  <1>4. PICK i \in S : \A j \in S : ~ (<<j, i>> \in less)
    <2> HIDE DEF S
    <2> QED  BY <1>1, <1>3, WFMin
  <1>5. i # 0 /\ i - 1 \in Nat  OBVIOUS
  <1>6. i - 1 < i  BY <1>5
  <1>7. i - 1 \in T
    <2>1. <<i - 1, i>> \in less  BY <1>2, <1>5, <1>6
    <2>2. i - 1 \notin S  BY <1>4, <2>1
    <2> QED  BY <1>5, <2>2
  <1>8. i - 1 + 1 = i  BY <1>5
  <1> QED  BY <1>5, <1>7, <1>8

(* The lines of a prefix of a text, for every prefix *)
IsLines(f, text, m) == f = [n \in 0 .. m |-> IF n = 0 THEN <<>> ELSE AddByte(f[n - 1], text[n])]

LEMMA LinesExist ==
  ASSUME NEW text, NEW m \in Nat
  PROVE  \E f : IsLines(f, text, m)
  <1> DEFINE T == {j \in Nat : \E f : IsLines(f, text, j)}
  <1>1. 0 \in T
    <2> DEFINE f == [k \in 0 .. 0 |-> <<>>]
    <2>1. f = [k \in 0 .. 0 |-> IF k = 0 THEN <<>> ELSE AddByte(f[k - 1], text[k])]  OBVIOUS
    <2> QED  BY <2>1 DEF IsLines
  <1>2. ASSUME NEW j \in Nat, j \in T PROVE j + 1 \in T
    <2>1. PICK f : IsLines(f, text, j)  BY <1>2
    <2> DEFINE g == [k \in 0 .. j + 1 |-> IF k = j + 1 THEN AddByte(f[j], text[j + 1]) ELSE f[k]]
    <2>2. \A k \in 0 .. j : g[k] = f[k]  OBVIOUS
    <2>3. g[j + 1] = AddByte(f[j], text[j + 1])  OBVIOUS
    <2>4. \A k \in 0 .. j : f[k] = IF k = 0 THEN <<>> ELSE AddByte(f[k - 1], text[k])  BY <2>1 DEF IsLines
    <2>5. g = [k \in 0 .. j + 1 |-> g[k]]  OBVIOUS
    <2> HIDE DEF g
    <2>6. ASSUME NEW k \in 0 .. j + 1
          PROVE  g[k] = IF k = 0 THEN <<>> ELSE AddByte(g[k - 1], text[k])
      <3>1. CASE k = j + 1
        <4>1. k # 0 /\ k - 1 = j /\ j \in 0 .. j  BY <3>1
        <4> QED  BY <2>2, <2>3, <3>1, <4>1
      <3>2. CASE k # j + 1
        <4>1. k \in 0 .. j /\ (k # 0 => k - 1 \in 0 .. j)  BY <3>2
        <4> QED  BY <2>2, <2>4, <4>1
      <3> QED  BY <3>1, <3>2
    <2>7. IsLines(g, text, j + 1)  BY <2>5, <2>6 DEF IsLines
    <2> QED  BY <2>7
  <1> HIDE DEF T
  <1>3. \A j \in Nat : j \in T  BY <1>1, <1>2, AllNaturals
  <1> QED  BY <1>3 DEF T

(* A prefix has the same lines in any text it begins *)
LEMMA SameLines ==
  ASSUME NEW f, NEW g, NEW s, NEW t, NEW m \in Nat, NEW l \in Nat, m <= l,
         IsLines(f, s, m), IsLines(g, t, l), \A n \in 1 .. m : s[n] = t[n]
  PROVE  f[m] = g[m]
  <1> DEFINE T == {n \in Nat : n <= m => f[n] = g[n]}
  <1>1. 0 \in T
    BY DEF IsLines
  <1>2. ASSUME NEW n \in Nat, n \in T PROVE n + 1 \in T
    <2> SUFFICES ASSUME n + 1 <= m PROVE f[n + 1] = g[n + 1]
      OBVIOUS
    <2>1. n + 1 \in 0 .. m /\ n + 1 \in 0 .. l /\ n + 1 # 0 /\ n + 1 - 1 = n /\ n + 1 \in 1 .. m
      OBVIOUS
    <2>2. f[n + 1] = AddByte(f[n], s[n + 1])  BY <2>1 DEF IsLines
    <2>3. g[n + 1] = AddByte(g[n], t[n + 1])  BY <2>1 DEF IsLines
    <2>4. f[n] = g[n] /\ s[n + 1] = t[n + 1]  BY <1>2, <2>1
    <2> QED  BY <2>2, <2>3, <2>4
  <1> HIDE DEF T
  <1>3. \A n \in Nat : n \in T  BY <1>1, <1>2, AllNaturals
  <1> QED  BY <1>3 DEF T

LEMMA LinesAre ==
  ASSUME NEW S, NEW text \in Seq(S)
  PROVE  \E f : IsLines(f, text, Len(text)) /\ Lines(text) = f[Len(text)]
  <1> DEFINE f == CHOOSE f : f = [n \in 0 .. Len(text) |-> IF n = 0 THEN <<>> ELSE AddByte(f[n - 1], text[n])]
  <1>1. IsLines(f, text, Len(text))
    <2>1. Len(text) \in Nat  OBVIOUS
    <2>2. \E g : g = [n \in 0 .. Len(text) |-> IF n = 0 THEN <<>> ELSE AddByte(g[n - 1], text[n])]
      BY <2>1, LinesExist DEF IsLines
    <2> QED  BY <2>2 DEF IsLines
  <1>2. Lines(text) = f[Len(text)]  BY DEF Lines
  <1> QED  BY <1>1, <1>2

LEMMA LinesOfNone == Lines(<<>>) = <<>>
  <1>1. <<>> \in Seq({}) /\ Len(<<>>) = 0  OBVIOUS
  <1>2. PICK f : IsLines(f, <<>>, 0) /\ Lines(<<>>) = f[0]  BY <1>1, LinesAre
  <1> QED  BY <1>2 DEF IsLines

LEMMA LinesAppended ==
  ASSUME NEW S, NEW text \in Seq(S), NEW byte \in S
  PROVE  Lines(Append(text, byte)) = AddByte(Lines(text), byte)
  <1> DEFINE m == Len(text)
             more == Append(text, byte)
  <1>1. m \in Nat /\ more \in Seq(S) /\ Len(more) = m + 1 /\ more[m + 1] = byte /\ \A n \in 1 .. m : text[n] = more[n]
    OBVIOUS
  <1>2. PICK f : IsLines(f, text, m) /\ Lines(text) = f[m]  BY LinesAre
  <1>3. PICK g : IsLines(g, more, m + 1) /\ Lines(more) = g[m + 1]  BY <1>1, LinesAre
  <1> HIDE DEF m, more
  <1>4. f[m] = g[m]
    <2>1. m + 1 \in Nat /\ m <= m + 1  BY <1>1
    <2> QED  BY <1>1, <1>2, <1>3, <2>1, SameLines
  <1>5. g[m + 1] = AddByte(g[m], more[m + 1])
    <2>1. m + 1 \in 0 .. m + 1 /\ m + 1 # 0 /\ m + 1 - 1 = m  BY <1>1
    <2>2. \A n \in 0 .. m + 1 : g[n] = IF n = 0 THEN <<>> ELSE AddByte(g[n - 1], more[n])
      BY <1>3 DEF IsLines
    <2> QED  BY <1>1, <2>1, <2>2
  <1>6. Lines(more) = AddByte(Lines(text), byte)
    BY <1>1, <1>2, <1>3, <1>4, <1>5
  <1> QED  BY <1>6 DEF more

(* What is read of a prefix of a text, for every prefix *)
NothingRead == [escape |-> FALSE, text |-> <<>>]
IsUnescaped(f, text, m) == f = [n \in 0 .. m |-> IF n = 0 THEN NothingRead ELSE Unescape(f[n - 1], text[n])]

LEMMA UnescapedExists ==
  ASSUME NEW text, NEW m \in Nat
  PROVE  \E f : IsUnescaped(f, text, m)
  <1> DEFINE T == {j \in Nat : \E f : IsUnescaped(f, text, j)}
  <1>1. 0 \in T
    <2> DEFINE f == [k \in 0 .. 0 |-> NothingRead]
    <2>1. f = [k \in 0 .. 0 |-> IF k = 0 THEN NothingRead ELSE Unescape(f[k - 1], text[k])]  OBVIOUS
    <2> QED  BY <2>1 DEF IsUnescaped
  <1>2. ASSUME NEW j \in Nat, j \in T PROVE j + 1 \in T
    <2>1. PICK f : IsUnescaped(f, text, j)  BY <1>2
    <2> DEFINE g == [k \in 0 .. j + 1 |-> IF k = j + 1 THEN Unescape(f[j], text[j + 1]) ELSE f[k]]
    <2>2. \A k \in 0 .. j : g[k] = f[k]  OBVIOUS
    <2>3. g[j + 1] = Unescape(f[j], text[j + 1])  OBVIOUS
    <2>4. \A k \in 0 .. j : f[k] = IF k = 0 THEN NothingRead ELSE Unescape(f[k - 1], text[k])  BY <2>1 DEF IsUnescaped
    <2>5. g = [k \in 0 .. j + 1 |-> g[k]]  OBVIOUS
    <2> HIDE DEF g
    <2>6. ASSUME NEW k \in 0 .. j + 1
          PROVE  g[k] = IF k = 0 THEN NothingRead ELSE Unescape(g[k - 1], text[k])
      <3>1. CASE k = j + 1
        <4>1. k # 0 /\ k - 1 = j /\ j \in 0 .. j  BY <3>1
        <4> QED  BY <2>2, <2>3, <3>1, <4>1
      <3>2. CASE k # j + 1
        <4>1. k \in 0 .. j /\ (k # 0 => k - 1 \in 0 .. j)  BY <3>2
        <4> QED  BY <2>2, <2>4, <4>1
      <3> QED  BY <3>1, <3>2
    <2>7. IsUnescaped(g, text, j + 1)  BY <2>5, <2>6 DEF IsUnescaped
    <2> QED  BY <2>7
  <1> HIDE DEF T
  <1>3. \A j \in Nat : j \in T  BY <1>1, <1>2, AllNaturals
  <1> QED  BY <1>3 DEF T

(* Reading a prefix is the same in any text it begins *)
LEMMA SameUnescaped ==
  ASSUME NEW f, NEW g, NEW s, NEW t, NEW m \in Nat, NEW l \in Nat, m <= l,
         IsUnescaped(f, s, m), IsUnescaped(g, t, l), \A n \in 1 .. m : s[n] = t[n]
  PROVE  f[m] = g[m]
  <1> DEFINE T == {n \in Nat : n <= m => f[n] = g[n]}
  <1>1. 0 \in T
    BY DEF IsUnescaped
  <1>2. ASSUME NEW n \in Nat, n \in T PROVE n + 1 \in T
    <2> SUFFICES ASSUME n + 1 <= m PROVE f[n + 1] = g[n + 1]
      OBVIOUS
    <2>1. n + 1 \in 0 .. m /\ n + 1 \in 0 .. l /\ n + 1 # 0 /\ n + 1 - 1 = n /\ n + 1 \in 1 .. m
      OBVIOUS
    <2>2. f[n + 1] = Unescape(f[n], s[n + 1])  BY <2>1 DEF IsUnescaped
    <2>3. g[n + 1] = Unescape(g[n], t[n + 1])  BY <2>1 DEF IsUnescaped
    <2>4. f[n] = g[n] /\ s[n + 1] = t[n + 1]  BY <1>2, <2>1
    <2> QED  BY <2>2, <2>3, <2>4
  <1> HIDE DEF T
  <1>3. \A n \in Nat : n \in T  BY <1>1, <1>2, AllNaturals
  <1> QED  BY <1>3 DEF T

LEMMA UnescapedIs ==
  ASSUME NEW S, NEW text \in Seq(S)
  PROVE  \E f : IsUnescaped(f, text, Len(text)) /\ Unescaped(text) = f[Len(text)]
  <1> DEFINE f == CHOOSE f : f = [n \in 0 .. Len(text) |-> IF n = 0 THEN NothingRead ELSE Unescape(f[n - 1], text[n])]
  <1>1. IsUnescaped(f, text, Len(text))
    <2>1. Len(text) \in Nat  OBVIOUS
    <2>2. \E g : g = [n \in 0 .. Len(text) |-> IF n = 0 THEN NothingRead ELSE Unescape(g[n - 1], text[n])]
      BY <2>1, UnescapedExists DEF IsUnescaped
    <2> QED  BY <2>2 DEF IsUnescaped
  <1>2. Unescaped(text) = f[Len(text)]  BY DEF Unescaped, NothingRead
  <1> QED  BY <1>1, <1>2

LEMMA UnescapedNone == Unescaped(<<>>) = NothingRead
  <1>1. <<>> \in Seq({}) /\ Len(<<>>) = 0  OBVIOUS
  <1>2. PICK f : IsUnescaped(f, <<>>, 0) /\ Unescaped(<<>>) = f[0]  BY <1>1, UnescapedIs
  <1> QED  BY <1>2 DEF IsUnescaped

LEMMA UnescapedAppended ==
  ASSUME NEW S, NEW text \in Seq(S), NEW byte \in S
  PROVE  Unescaped(Append(text, byte)) = Unescape(Unescaped(text), byte)
  <1> DEFINE m == Len(text)
             more == Append(text, byte)
  <1>1. m \in Nat /\ more \in Seq(S) /\ Len(more) = m + 1 /\ more[m + 1] = byte /\ \A n \in 1 .. m : text[n] = more[n]
    OBVIOUS
  <1>2. PICK f : IsUnescaped(f, text, m) /\ Unescaped(text) = f[m]  BY UnescapedIs
  <1>3. PICK g : IsUnescaped(g, more, m + 1) /\ Unescaped(more) = g[m + 1]  BY <1>1, UnescapedIs
  <1> HIDE DEF m, more
  <1>4. f[m] = g[m]
    <2>1. m + 1 \in Nat /\ m <= m + 1  BY <1>1
    <2> QED  BY <1>1, <1>2, <1>3, <2>1, SameUnescaped
  <1>5. g[m + 1] = Unescape(g[m], more[m + 1])
    <2>1. m + 1 \in 0 .. m + 1 /\ m + 1 # 0 /\ m + 1 - 1 = m  BY <1>1
    <2>2. \A n \in 0 .. m + 1 : g[n] = IF n = 0 THEN NothingRead ELSE Unescape(g[n - 1], more[n])
      BY <1>3 DEF IsUnescaped
    <2> QED  BY <1>1, <2>1, <2>2
  <1>6. Unescaped(more) = Unescape(Unescaped(text), byte)
    BY <1>1, <1>2, <1>3, <1>4, <1>5
  <1> QED  BY <1>6 DEF more

(***************************************************************************)
(* What is shown, with a line end that waits, has the lines of what was    *)
(* sent; and the handler is in an escape sequence when the text is.        *)
(***************************************************************************)
ShownBytes == Bytes \cup {"space"}
TextLines == ShownBytes \cup {"end"}
Shown == seen \o serdata

LinesKept ==
  /\ Unescaped(sent).escape <=> escape_sequence_pos > 0
  /\ Plain(sent) \in Seq(Bytes)
  /\ Lines(Plain(sent)) \in Seq(TextLines) /\ Lines(Shown) \in Seq(TextLines)
  /\ Lines(Plain(sent)) = IF crlf = {} THEN Lines(Shown) ELSE EndLine(Lines(Shown))

SerialInv ==
  /\ sent \in Seq(Bytes) /\ seen \in Seq(ShownBytes) /\ serdata \in Seq(ShownBytes)
  /\ crlf \subseteq LineEnds /\ escape_sequence_pos \in Nat
  /\ ~aborted => LinesKept

(* A line has one end *)
LEMMA EndsOnce ==
  ASSUME NEW lines \in Seq(TextLines)
  PROVE  EndLine(lines) \in Seq(TextLines) /\ EndLine(EndLine(lines)) = EndLine(lines)
  <1>1. CASE lines = <<>> \/ lines[Len(lines)] = "end"
    BY <1>1 DEF EndLine
  <1>2. CASE ~(lines = <<>> \/ lines[Len(lines)] = "end")
    <2>1. EndLine(lines) = Append(lines, "end")
      BY <1>2 DEF EndLine
    <2>2. Append(lines, "end") \in Seq(TextLines) /\ Append(lines, "end")[Len(Append(lines, "end"))] = "end"
      BY DEF TextLines
    <2>3. EndLine(Append(lines, "end")) = Append(lines, "end")
      BY <2>2 DEF EndLine
    <2> QED  BY <2>1, <2>2, <2>3
  <1> QED  BY <1>1, <1>2

LEMMA LinesOfNewLine ==
  ASSUME NEW text \in Seq(ShownBytes), Lines(text) \in Seq(TextLines)
  PROVE  text \o NewLine \in Seq(ShownBytes) /\ Lines(text \o NewLine) = EndLine(Lines(text))
  <1>1. text \o NewLine = Append(Append(text, "CR"), "LF")
    BY DEF NewLine
  <1>2. "CR" \in ShownBytes /\ "LF" \in ShownBytes /\ "CR" \in LineEnds /\ "LF" \in LineEnds
    BY DEF ShownBytes, Bytes, LineEnds
  <1>3. Append(text, "CR") \in Seq(ShownBytes)
    BY <1>2
  <1>4. Lines(Append(text, "CR")) = EndLine(Lines(text))
    BY <1>2, LinesAppended DEF AddByte
  <1>5. Lines(Append(Append(text, "CR"), "LF")) = EndLine(EndLine(Lines(text)))
    BY <1>2, <1>3, <1>4, LinesAppended DEF AddByte
  <1> QED  BY <1>1, <1>2, <1>3, <1>5, EndsOnce

(* What waits is shown as a line end *)
LEMMA ShownLines ==
  ASSUME SerialInv, LinesKept
  PROVE  /\ Shown \in Seq(ShownBytes)
         /\ Lines(Shown \o (IF crlf = {} THEN <<>> ELSE NewLine)) = Lines(Plain(sent))
  <1>1. Shown \in Seq(ShownBytes)
    BY DEF SerialInv, Shown
  <1>2. CASE crlf = {}
    BY <1>1, <1>2, ConcatEmptySeq DEF LinesKept
  <1>3. CASE crlf # {}
    BY <1>1, <1>3, LinesOfNewLine DEF LinesKept
  <1> QED  BY <1>1, <1>2, <1>3

LEMMA SerialStarts == SerialInit => SerialInv
  <1> SUFFICES ASSUME SerialInit PROVE SerialInv
    OBVIOUS
  <1> USE DEF SerialInit
  <1>1. Shown = <<>>
    BY DEF Shown
  <1>2. Plain(sent) = <<>> /\ ~Unescaped(sent).escape
    BY UnescapedNone DEF Plain, NothingRead
  <1>3. LinesKept
    <2>1. Lines(Plain(sent)) = <<>> /\ Lines(Shown) = <<>> /\ Plain(sent) = <<>>
      BY <1>1, <1>2, LinesOfNone
    <2>2. <<>> \in Seq(Bytes) /\ <<>> \in Seq(TextLines) /\ ~(escape_sequence_pos > 0)
      OBVIOUS
    <2> QED  BY <2>1, <2>2, <1>2 DEF LinesKept
  <1> QED  BY <1>3 DEF SerialInv

LEMMA UnescapeIs ==
  ASSUME NEW was, NEW byte
  PROVE  /\ Unescape(was, byte).escape <=> byte = "ESC" \/ (was.escape /\ byte # "letter")
         /\ Unescape(was, byte).text = IF byte = "ESC" \/ was.escape THEN was.text ELSE Append(was.text, byte)
  BY Zenon DEF Unescape

(* A byte outside an escape sequence is added to the text *)
LEMMA TextGrows ==
  ASSUME SerialInv, LinesKept, NEW data \in Bytes, data # "ESC", escape_sequence_pos = 0
  PROVE  /\ Plain(Append(sent, data)) = Append(Plain(sent), data)
         /\ ~Unescaped(Append(sent, data)).escape
         /\ Lines(Append(Plain(sent), data)) = AddByte(Lines(Plain(sent)), data)
  <1>1. ~Unescaped(sent).escape
    BY DEF LinesKept
  <1>2. Unescaped(Append(sent, data)) = Unescape(Unescaped(sent), data)
    BY UnescapedAppended DEF SerialInv
  <1>3. Plain(Append(sent, data)) = Append(Plain(sent), data)
    BY <1>1, <1>2, UnescapeIs DEF Plain
  <1>4. ~Unescaped(Append(sent, data)).escape
    BY <1>1, <1>2, UnescapeIs
  <1> QED  BY <1>3, <1>4, LinesAppended DEF LinesKept

LEMMA EscapeKeeps ==
  ASSUME SerialInv, LinesKept, ~aborted', NEW data \in Bytes, Escape(data), sent' = Append(sent, data),
         data = "ESC" \/ escape_sequence_pos > 0, UNCHANGED <<crlf, serdata, seen>>
  PROVE  SerialInv'
  <1>1. Unescaped(sent') = Unescape(Unescaped(sent), data)
    BY UnescapedAppended DEF SerialInv
  <1>2. data = "ESC" \/ Unescaped(sent).escape
    BY DEF LinesKept
  <1>3. Plain(sent') = Plain(sent)
    BY <1>1, <1>2, UnescapeIs DEF Plain
  <1>4. escape_sequence_pos' \in Nat /\ (Unescaped(sent').escape <=> escape_sequence_pos' > 0)
    <2>1. Unescaped(sent').escape <=> (data = "ESC" \/ (Unescaped(sent).escape /\ data # "letter"))
      BY <1>1, UnescapeIs
    <2>2. CASE data = "ESC"
      <3>1. escape_sequence_pos' = 1
        BY <2>2 DEF Escape
      <3> QED  BY <2>1, <2>2, <3>1
    <2>3. CASE data # "ESC"
      <3>1. escape_sequence_pos' = IF data = "letter" THEN 0 ELSE escape_sequence_pos + 1
        BY <2>3 DEF Escape
      <3>2. escape_sequence_pos \in Nat
        BY DEF SerialInv
      <3>3. escape_sequence_pos' > 0 <=> data # "letter"
        BY <3>1, <3>2
      <3>4. Unescaped(sent').escape <=> data # "letter"
        BY <1>2, <2>1, <2>3
      <3> QED  BY <3>1, <3>2, <3>3, <3>4
    <2> QED  BY <2>2, <2>3
  <1>5. sent' \in Seq(Bytes)
    BY DEF SerialInv
  <1>6. LinesKept'
    BY <1>3, <1>4 DEF LinesKept, Shown
  <1> QED  BY <1>4, <1>5, <1>6 DEF SerialInv

LEMMA LineEndKeeps ==
  ASSUME SerialInv, LinesKept, NEW data \in LineEnds, LineEnd(data), sent' = Append(sent, data),
         escape_sequence_pos = 0, UNCHANGED <<escape_sequence_pos, seen>>
  PROVE  SerialInv'
  <1>1. data \in Bytes /\ data # "ESC"
    BY DEF LineEnds, Bytes
  <1>2. Plain(sent') = Append(Plain(sent), data) /\ ~Unescaped(sent').escape
    BY <1>1, TextGrows
  <1>3. Lines(Plain(sent')) = EndLine(Lines(Plain(sent)))
    BY <1>1, <1>2, TextGrows DEF AddByte
  <1>4. PICK shown : shown = Lines(Shown)  OBVIOUS
  <1>5. Lines(Plain(sent')) = EndLine(shown) /\ shown \in Seq(TextLines) /\ EndLine(shown) \in Seq(TextLines)
    BY <1>3, <1>4, EndsOnce DEF LinesKept
  <1>6. Shown \in Seq(ShownBytes)
    BY DEF SerialInv, Shown
  <1>7. sent' \in Seq(Bytes) /\ Plain(sent') \in Seq(Bytes)
    BY <1>1, <1>2 DEF SerialInv, LinesKept
  <1>8. CASE Pairs(data)
    <2>1. serdata' = serdata \o NewLine /\ crlf' = {}
      BY <1>8 DEF LineEnd
    <2>2. NewLine \in Seq(ShownBytes)
      BY DEF NewLine, ShownBytes, Bytes
    <2>3. Shown' = Shown \o NewLine /\ serdata' \in Seq(ShownBytes)
      BY <2>1, <2>2, ConcatAssociative DEF SerialInv, Shown
    <2>4. Lines(Shown') = EndLine(shown)
      BY <2>3, <1>4, <1>5, <1>6, LinesOfNewLine
    <2>5. LinesKept'
      BY <1>2, <1>5, <1>7, <2>1, <2>4 DEF LinesKept
    <2> QED  BY <1>7, <2>1, <2>3, <2>5 DEF SerialInv
  <1>9. CASE ~Pairs(data)
    <2>1. serdata' = serdata /\ crlf' = crlf \cup {data}
      BY <1>9 DEF LineEnd
    <2>2. Shown' = Shown /\ crlf' # {}
      BY <2>1 DEF Shown
    <2>3. LinesKept'
      BY <1>2, <1>4, <1>5, <1>7, <2>2 DEF LinesKept
    <2> QED  BY <1>7, <2>1, <2>3 DEF SerialInv
  <1> QED  BY <1>8, <1>9

LEMMA CharacterKeeps ==
  ASSUME SerialInv, LinesKept, NEW data \in Bytes \ LineEnds, data # "ESC", Character(data), sent' = Append(sent, data),
         escape_sequence_pos = 0, UNCHANGED <<escape_sequence_pos, seen>>
  PROVE  SerialInv'
  <1>1. PICK byte : byte = IF data = "NUL" THEN "space" ELSE data  OBVIOUS
  <1>2. byte \in ShownBytes /\ byte \notin LineEnds /\ byte # "NUL" /\ byte \in TextLines
    BY <1>1 DEF ShownBytes, LineEnds, TextLines
  <1>3. Plain(sent') = Append(Plain(sent), data) /\ ~Unescaped(sent').escape
    BY TextGrows
  <1>4. Lines(Plain(sent')) = Append(Lines(Plain(sent)), byte)
    BY <1>1, <1>3, TextGrows DEF AddByte
  <1>5. sent' \in Seq(Bytes) /\ Plain(sent') \in Seq(Bytes)
    BY <1>3 DEF SerialInv, LinesKept
  <1>6. PICK end : end = IF crlf = {} THEN <<>> ELSE NewLine  OBVIOUS
  <1>7. end \in Seq(ShownBytes)
    <2>1. <<>> \in Seq(ShownBytes) /\ NewLine \in Seq(ShownBytes)
      BY DEF NewLine, ShownBytes, Bytes
    <2> QED  BY <1>6, <2>1
  <1>8. serdata' = (serdata \o end) \o <<byte>> /\ crlf' = {}
    <2>1. CASE crlf = {}
      <3>1. serdata \o <<>> = serdata
        BY ConcatEmptySeq DEF SerialInv
      <3> QED  BY <3>1, <2>1, <1>1, <1>6 DEF Character
    <2>2. CASE crlf # {}
      BY <2>2, <1>1, <1>6 DEF Character
    <2> QED  BY <2>1, <2>2
  <1>9. PICK before : before = Shown \o end  OBVIOUS
  <1>10. before \in Seq(ShownBytes) /\ Lines(before) = Lines(Plain(sent))
    BY <1>6, <1>7, <1>9, ShownLines
  <1>11. serdata' \in Seq(ShownBytes) /\ Shown' = Append(before, byte)
    <2>1. serdata \o end \in Seq(ShownBytes) /\ <<byte>> \in Seq(ShownBytes)
      BY <1>2, <1>7 DEF SerialInv
    <2>2. seen \o ((serdata \o end) \o <<byte>>) = (seen \o (serdata \o end)) \o <<byte>>
      BY <2>1, ConcatAssociative DEF SerialInv
    <2>3. seen \o (serdata \o end) = before
      BY <1>7, <1>9, ConcatAssociative DEF SerialInv, Shown
    <2>4. before \o <<byte>> = Append(before, byte)
      BY <1>2, <1>10
    <2>5. Shown' = seen \o serdata'
      BY DEF Shown
    <2>6. serdata' \in Seq(ShownBytes)
      BY <1>8, <2>1, ConcatProperties
    <2> QED  BY <1>8, <2>2, <2>3, <2>4, <2>5, <2>6
  <1>12. Lines(Shown') = Lines(Plain(sent'))
    <2>1. Lines(Append(before, byte)) = AddByte(Lines(before), byte)
      BY <1>2, <1>10, LinesAppended
    <2> QED  BY <2>1, <1>2, <1>4, <1>10, <1>11 DEF AddByte
  <1>13. Lines(Plain(sent')) \in Seq(TextLines)
    BY <1>2, <1>4 DEF LinesKept
  <1>14. LinesKept'
    BY <1>3, <1>5, <1>8, <1>12, <1>13 DEF LinesKept
  <1> QED  BY <1>5, <1>8, <1>11, <1>14 DEF SerialInv

LEMMA FlushKeeps ==
  ASSUME SerialInv, LinesKept, serial_data_flush
  PROVE  SerialInv'
  <1>1. Shown' = Shown /\ seen' \in Seq(ShownBytes) /\ serdata' = <<>>
    <2>1. seen' = Shown /\ serdata' = <<>> /\ Shown \in Seq(ShownBytes)
      BY DEF serial_data_flush, SerialInv, Shown
    <2> QED  BY <2>1, ConcatEmptySeq DEF Shown
  <1> QED  BY <1>1 DEF SerialInv, LinesKept, serial_data_flush

LEMMA SerialStep == SerialInv /\ [SerialNext]_serial_vars => SerialInv'
  <1> SUFFICES ASSUME SerialInv, [SerialNext]_serial_vars PROVE SerialInv'
    OBVIOUS
  <1>1. CASE UNCHANGED serial_vars
    BY <1>1 DEF SerialInv, LinesKept, Shown, serial_vars
  <1>2. CASE SerialNext /\ serial_data_flush
    BY <1>2, FlushKeeps DEF SerialNext, SerialInv
  <1>3. ASSUME aborted = FALSE, NEW data \in Bytes, serial_data_handler(data), UNCHANGED seen
        PROVE  SerialInv'
    <2>1. LinesKept /\ sent' = Append(sent, data)
      BY <1>3 DEF SerialInv, serial_data_handler
    <2>2. CASE (data = "ESC" \/ escape_sequence_pos > 0) /\ ~aborted'
      BY <1>3, <2>1, <2>2, EscapeKeeps DEF serial_data_handler
    <2>3. CASE (data = "ESC" \/ escape_sequence_pos > 0) /\ aborted'
      <3>1. escape_sequence_pos' \in Nat
        <4>1. escape_sequence_pos' \in {0, 1, escape_sequence_pos, escape_sequence_pos + 1}
          BY <1>3, <2>3 DEF serial_data_handler, Escape
        <4> QED  BY <4>1 DEF SerialInv
      <3>2. sent' \in Seq(Bytes) /\ UNCHANGED <<seen, serdata, crlf>>
        <4>1. UNCHANGED <<crlf, serdata>>
          BY <1>3, <2>3 DEF serial_data_handler
        <4>2. sent' \in Seq(Bytes)
          BY <1>3, <2>1 DEF SerialInv
        <4> QED  BY <1>3, <4>1, <4>2
      <3> QED  BY <2>3, <3>1, <3>2 DEF SerialInv
    <2>4. CASE ~(data = "ESC" \/ escape_sequence_pos > 0)
      <3>1. escape_sequence_pos = 0 /\ UNCHANGED <<escape_sequence_pos, aborted>>
        BY <1>3, <2>4 DEF SerialInv, serial_data_handler
      <3>2. CASE data \in LineEnds
        BY <1>3, <2>1, <2>4, <3>1, <3>2, LineEndKeeps DEF serial_data_handler
      <3>3. CASE data \notin LineEnds
        BY <1>3, <2>1, <2>4, <3>1, <3>3, CharacterKeeps DEF serial_data_handler
      <3> QED  BY <3>2, <3>3
    <2> QED  BY <2>2, <2>3, <2>4
  <1> QED  BY <1>1, <1>2, <1>3 DEF SerialNext

(***************************************************************************)
(* For any text, cut by flushes anywhere, and any size of the buffer for   *)
(* escape sequences: what is shown has the lines of what was sent.         *)
(***************************************************************************)
THEOREM TextKeepsItsLinesCorrect == SerialSpec => []TextKeepsItsLines
  <1>1. SerialInv => TextKeepsItsLines
    BY ShownLines DEF SerialInv, TextKeepsItsLines, Shown
  <1> QED  BY <1>1, SerialStarts, SerialStep, PTL DEF SerialSpec

-----------------------------------------------------------------------------
(* The CPU *)

Vectors == {"reset", "address error", "illegal instruction", "privilege violation", "trace", "trap",
            "level 1", "level 2", "level 3", "level 4", "level 5", "level 6", "level 7"}
PCs == [routine : Vectors, n : Nat, odd : BOOLEAN]
SRs == [t : BOOLEAN, s : BOOLEAN, mask : 0 .. 7]
Frames == [kind : {"frame"}, pc : PCs, sr : SRs]
Items == Frames \cup [kind : {"info"}] \cup [kind : {"pc"}, pc : PCs]
Machines == [pc : PCs, sr : SRs, ssp : Seq(Items), usp : Seq(Items), ipl : {0} \cup Levels,
             halted : BOOLEAN, taken : Seq(Vectors), contexts : Seq(Frames),
             thrown : {NoThrow, Address, Runtime}]

(* The frames on a stack, from its top, are those of what has been interrupted *)
FramesAre(stack, cs) ==
  \E at \in [1 .. Len(cs) -> 1 .. Len(stack)] :
    /\ \A i, j \in 1 .. Len(cs) : i < j => at[i] < at[j]
    /\ \A i \in 1 .. Len(cs) : stack[at[i]] = cs[i]
    /\ \A j \in 1 .. Len(stack) : stack[j].kind = "frame" => \E i \in 1 .. Len(cs) : at[i] = j

LEMMA NoFrames == FramesAre(<<>>, <<>>)
  <1> DEFINE at == [i \in 1 .. 0 |-> i]
  <1>1. at \in [1 .. Len(<<>>) -> 1 .. Len(<<>>)]  OBVIOUS
  <1> QED  BY <1>1 DEF FramesAre

LEMMA Pushed ==
  ASSUME NEW S, NEW s \in Seq(S), NEW x \in S
  PROVE  /\ <<x>> \o s \in Seq(S) /\ Len(<<x>> \o s) = Len(s) + 1 /\ (<<x>> \o s)[1] = x
         /\ \A i \in 1 .. Len(s) : (<<x>> \o s)[i + 1] = s[i]
  OBVIOUS

LEMMA PoppedOne ==
  ASSUME NEW S, NEW s \in Seq(S), s # <<>>
  PROVE  /\ Tail(s) \in Seq(S) /\ Len(Tail(s)) = Len(s) - 1 /\ Len(s) \in Nat \ {0}
         /\ \A i \in 1 .. Len(s) - 1 : Tail(s)[i] = s[i + 1]
  OBVIOUS

LEMMA FramePushed ==
  ASSUME NEW s \in Seq(Items), NEW cs \in Seq(Frames), NEW f \in Frames, FramesAre(s, cs)
  PROVE  FramesAre(<<f>> \o s, <<f>> \o cs)
  <1>1. PICK at \in [1 .. Len(cs) -> 1 .. Len(s)] :
          /\ \A i, j \in 1 .. Len(cs) : i < j => at[i] < at[j]
          /\ \A i \in 1 .. Len(cs) : s[at[i]] = cs[i]
          /\ \A j \in 1 .. Len(s) : s[j].kind = "frame" => \E i \in 1 .. Len(cs) : at[i] = j
    BY DEF FramesAre
  <1> DEFINE t == <<f>> \o s
             ds == <<f>> \o cs
             up == [i \in 1 .. Len(cs) + 1 |-> IF i = 1 THEN 1 ELSE at[i - 1] + 1]
  <1>2. Len(s) \in Nat /\ Len(cs) \in Nat  OBVIOUS
  <1>3. f \in Items  BY DEF Items
  <1>4. Len(t) = Len(s) + 1 /\ t[1] = f /\ \A i \in 1 .. Len(s) : t[i + 1] = s[i]
    BY <1>3, Pushed
  <1>5. Len(ds) = Len(cs) + 1 /\ ds[1] = f /\ \A i \in 1 .. Len(cs) : ds[i + 1] = cs[i]
    BY Pushed
  <1> HIDE DEF t, ds
  <1>6. up \in [1 .. Len(ds) -> 1 .. Len(t)]  BY <1>2, <1>4, <1>5
  <1>7. /\ up[1] = 1
        /\ \A i \in 1 .. Len(cs) : up[i + 1] = at[i] + 1
        /\ \A i \in 1 .. Len(cs) + 1 : i = 1 \/ (i - 1 \in 1 .. Len(cs) /\ up[i] = at[i - 1] + 1)
    BY <1>2
  <1> HIDE DEF up
  <1>8. \A i, j \in 1 .. Len(ds) : i < j => up[i] < up[j]
    <2> SUFFICES ASSUME NEW i \in 1 .. Len(cs) + 1, NEW j \in 1 .. Len(cs) + 1, i < j
                 PROVE  up[i] < up[j]
      BY <1>5
    <2>1. j - 1 \in 1 .. Len(cs) /\ up[j] = at[j - 1] + 1  BY <1>2, <1>7
    <2>2. at[j - 1] \in 1 .. Len(s)  BY <2>1
    <2>3. CASE i = 1  BY <1>2, <1>7, <2>1, <2>2, <2>3
    <2>4. CASE i # 1
      <3>1. i - 1 \in 1 .. Len(cs) /\ up[i] = at[i - 1] + 1  BY <1>7, <2>4
      <3>2. at[i - 1] \in 1 .. Len(s)  BY <3>1
      <3>3. at[i - 1] < at[j - 1]  BY <1>1, <1>2, <2>1, <3>1
      <3> QED  BY <1>2, <2>1, <2>2, <3>1, <3>2, <3>3
    <2> QED  BY <2>3, <2>4
  <1>9. \A i \in 1 .. Len(ds) : t[up[i]] = ds[i]
    <2> SUFFICES ASSUME NEW i \in 1 .. Len(cs) + 1 PROVE t[up[i]] = ds[i]  BY <1>5
    <2>1. CASE i = 1  BY <1>4, <1>5, <1>7, <2>1
    <2>2. CASE i # 1
      <3>1. i - 1 \in 1 .. Len(cs) /\ up[i] = at[i - 1] + 1  BY <1>7, <2>2
      <3>2. at[i - 1] \in 1 .. Len(s) /\ s[at[i - 1]] = cs[i - 1]  BY <1>1, <3>1
      <3>3. t[up[i]] = s[at[i - 1]]  BY <1>4, <3>1, <3>2
      <3>4. ds[(i - 1) + 1] = cs[i - 1] /\ (i - 1) + 1 = i  BY <1>2, <1>5, <3>1
      <3> QED  BY <3>2, <3>3, <3>4
    <2> QED  BY <2>1, <2>2
  <1>10. \A j \in 1 .. Len(t) : t[j].kind = "frame" => \E i \in 1 .. Len(ds) : up[i] = j
    <2> SUFFICES ASSUME NEW j \in 1 .. Len(s) + 1, t[j].kind = "frame"
                 PROVE  \E i \in 1 .. Len(ds) : up[i] = j
      BY <1>4
    <2>1. CASE j = 1  BY <1>2, <1>5, <1>7, <2>1
    <2>2. CASE j # 1
      <3>1. j - 1 \in 1 .. Len(s) /\ (j - 1) + 1 = j  BY <1>2, <2>2
      <3>2. t[j] = s[j - 1]  BY <1>4, <3>1
      <3>3. PICK i \in 1 .. Len(cs) : at[i] = j - 1  BY <1>1, <3>1, <3>2
      <3>4. i + 1 \in 1 .. Len(ds) /\ up[i + 1] = j  BY <1>2, <1>5, <1>7, <3>1, <3>3
      <3> QED  BY <3>4
    <2> QED  BY <2>1, <2>2
  <1>11. FramesAre(t, ds)  BY <1>6, <1>8, <1>9, <1>10 DEF FramesAre
  <1> QED  BY <1>11 DEF t, ds

LEMMA OtherPushed ==
  ASSUME NEW s \in Seq(Items), NEW cs \in Seq(Frames), NEW x \in Items, x.kind # "frame", FramesAre(s, cs)
  PROVE  FramesAre(<<x>> \o s, cs)
  <1>1. PICK at \in [1 .. Len(cs) -> 1 .. Len(s)] :
          /\ \A i, j \in 1 .. Len(cs) : i < j => at[i] < at[j]
          /\ \A i \in 1 .. Len(cs) : s[at[i]] = cs[i]
          /\ \A j \in 1 .. Len(s) : s[j].kind = "frame" => \E i \in 1 .. Len(cs) : at[i] = j
    BY DEF FramesAre
  <1> DEFINE t == <<x>> \o s
             up == [i \in 1 .. Len(cs) |-> at[i] + 1]
  <1>2. Len(s) \in Nat /\ Len(cs) \in Nat  OBVIOUS
  <1>3. Len(t) = Len(s) + 1 /\ t[1] = x /\ \A i \in 1 .. Len(s) : t[i + 1] = s[i]
    BY Pushed
  <1> HIDE DEF t
  <1>4. up \in [1 .. Len(cs) -> 1 .. Len(t)]  BY <1>2, <1>3
  <1>5. \A i, j \in 1 .. Len(cs) : i < j => up[i] < up[j]  BY <1>1, <1>2
  <1>6. \A i \in 1 .. Len(cs) : t[up[i]] = cs[i]  BY <1>1, <1>3
  <1>7. \A j \in 1 .. Len(t) : t[j].kind = "frame" => \E i \in 1 .. Len(cs) : up[i] = j
    <2> SUFFICES ASSUME NEW j \in 1 .. Len(s) + 1, t[j].kind = "frame"
                 PROVE  \E i \in 1 .. Len(cs) : up[i] = j
      BY <1>3
    <2>1. j # 1  BY <1>3
    <2>2. j - 1 \in 1 .. Len(s) /\ (j - 1) + 1 = j  BY <1>2, <2>1
    <2>3. t[j] = s[j - 1]  BY <1>3, <2>2
    <2>4. PICK i \in 1 .. Len(cs) : at[i] = j - 1  BY <1>1, <2>2, <2>3
    <2> QED  BY <2>2, <2>4
  <1> HIDE DEF up
  <1>8. FramesAre(t, cs)  BY <1>4, <1>5, <1>6, <1>7 DEF FramesAre
  <1> QED  BY <1>8 DEF t

LEMMA OtherPopped ==
  ASSUME NEW s \in Seq(Items), NEW cs \in Seq(Frames), s # <<>>, s[1].kind # "frame", FramesAre(s, cs)
  PROVE  FramesAre(Tail(s), cs)
  <1>1. PICK at \in [1 .. Len(cs) -> 1 .. Len(s)] :
          /\ \A i, j \in 1 .. Len(cs) : i < j => at[i] < at[j]
          /\ \A i \in 1 .. Len(cs) : s[at[i]] = cs[i]
          /\ \A j \in 1 .. Len(s) : s[j].kind = "frame" => \E i \in 1 .. Len(cs) : at[i] = j
    BY DEF FramesAre
  <1> DEFINE t == Tail(s)
             down == [i \in 1 .. Len(cs) |-> at[i] - 1]
  <1>2. Len(s) \in Nat \ {0} /\ Len(cs) \in Nat  BY PoppedOne
  <1>3. Len(t) = Len(s) - 1 /\ \A i \in 1 .. Len(s) - 1 : t[i] = s[i + 1]
    BY PoppedOne
  <1> HIDE DEF t
  <1>a. \A i \in 1 .. Len(cs) : at[i] # 1
    <2> SUFFICES ASSUME NEW i \in 1 .. Len(cs), at[i] = 1 PROVE FALSE  OBVIOUS
    <2>1. cs[i] \in Frames  OBVIOUS
    <2>2. cs[i].kind = "frame"  BY <2>1 DEF Frames
    <2>3. s[1] = cs[i]  BY <1>1
    <2> QED  BY ONLY <2>2, <2>3, s[1].kind # "frame"
  <1>b. \A i \in 1 .. Len(cs) : at[i] - 1 \in 1 .. Len(s) - 1 /\ (at[i] - 1) + 1 = at[i]  BY <1>a, <1>2
  <1>4. down \in [1 .. Len(cs) -> 1 .. Len(t)]  BY <1>b, <1>3
  <1>5. \A i, j \in 1 .. Len(cs) : i < j => down[i] < down[j]  BY <1>1, <1>2
  <1>6. \A i \in 1 .. Len(cs) : t[down[i]] = cs[i]
    <2> SUFFICES ASSUME NEW i \in 1 .. Len(cs) PROVE t[down[i]] = cs[i]  OBVIOUS
    <2>1. t[at[i] - 1] = s[(at[i] - 1) + 1]  BY <1>b, <1>3
    <2> QED  BY <2>1, <1>1, <1>b
  <1>7. \A j \in 1 .. Len(t) : t[j].kind = "frame" => \E i \in 1 .. Len(cs) : down[i] = j
    <2> SUFFICES ASSUME NEW j \in 1 .. Len(s) - 1, t[j].kind = "frame"
                 PROVE  \E i \in 1 .. Len(cs) : down[i] = j
      BY <1>3
    <2>1. j + 1 \in 1 .. Len(s) /\ t[j] = s[j + 1]  BY <1>2, <1>3
    <2>2. PICK i \in 1 .. Len(cs) : at[i] = j + 1  BY <1>1, <2>1
    <2>3. down[i] = j  BY <2>2
    <2> QED  BY <2>3
  <1> HIDE DEF down
  <1>8. FramesAre(t, cs)  BY <1>4, <1>5, <1>6, <1>7 DEF FramesAre
  <1> QED  BY <1>8 DEF t

LEMMA FramePopped ==
  ASSUME NEW s \in Seq(Items), NEW cs \in Seq(Frames), s # <<>>, s[1].kind = "frame", FramesAre(s, cs)
  PROVE  cs # <<>> /\ cs[1] = s[1] /\ FramesAre(Tail(s), Tail(cs))
  <1>1. PICK at \in [1 .. Len(cs) -> 1 .. Len(s)] :
          /\ \A i, j \in 1 .. Len(cs) : i < j => at[i] < at[j]
          /\ \A i \in 1 .. Len(cs) : s[at[i]] = cs[i]
          /\ \A j \in 1 .. Len(s) : s[j].kind = "frame" => \E i \in 1 .. Len(cs) : at[i] = j
    BY DEF FramesAre
  <1>2. Len(s) \in Nat \ {0} /\ Len(cs) \in Nat  BY PoppedOne
  <1>3. PICK k \in 1 .. Len(cs) : at[k] = 1  BY <1>1, <1>2
  <1>4. k = 1
    <2> SUFFICES ASSUME k # 1 PROVE FALSE  OBVIOUS
    <2>1. 1 \in 1 .. Len(cs) /\ 1 < k  BY <1>2
    <2>2. at[1] < at[k]  BY <1>1, <2>1
    <2>3. at[1] \in 1 .. Len(s)  BY <2>1
    <2> QED  BY <1>2, <1>3, <2>2, <2>3
  <1>5. cs # <<>> /\ cs[1] = s[1]  BY <1>1, <1>2, <1>3, <1>4
  <1> DEFINE t == Tail(s)
             ds == Tail(cs)
             down == [i \in 1 .. Len(cs) - 1 |-> at[i + 1] - 1]
  <1>6. Len(t) = Len(s) - 1 /\ \A i \in 1 .. Len(s) - 1 : t[i] = s[i + 1]
    BY PoppedOne
  <1>7. Len(cs) \in Nat \ {0} /\ Len(ds) = Len(cs) - 1 /\ \A i \in 1 .. Len(cs) - 1 : ds[i] = cs[i + 1]
    BY <1>5, PoppedOne
  <1> HIDE DEF t, ds
  <1>8. \A i \in 1 .. Len(cs) - 1 :
          i + 1 \in 1 .. Len(cs) /\ at[i + 1] - 1 \in 1 .. Len(s) - 1 /\ (at[i + 1] - 1) + 1 = at[i + 1]
    <2> SUFFICES ASSUME NEW i \in 1 .. Len(cs) - 1
                 PROVE  i + 1 \in 1 .. Len(cs) /\ at[i + 1] - 1 \in 1 .. Len(s) - 1 /\ (at[i + 1] - 1) + 1 = at[i + 1]
      OBVIOUS
    <2>1. i + 1 \in 1 .. Len(cs) /\ 1 \in 1 .. Len(cs) /\ 1 < i + 1  BY <1>7
    <2>2. at[i + 1] \in 1 .. Len(s) /\ at[1] < at[i + 1]  BY <1>1, <2>1
    <2> QED  BY <1>2, <1>3, <1>4, <2>1, <2>2
  <1>9. down \in [1 .. Len(ds) -> 1 .. Len(t)]  BY <1>6, <1>7, <1>8
  <1>10. \A i, j \in 1 .. Len(ds) : i < j => down[i] < down[j]
    <2> SUFFICES ASSUME NEW i \in 1 .. Len(cs) - 1, NEW j \in 1 .. Len(cs) - 1, i < j
                 PROVE  down[i] < down[j]
      BY <1>7
    <2>1. i + 1 \in 1 .. Len(cs) /\ j + 1 \in 1 .. Len(cs) /\ i + 1 < j + 1  BY <1>8
    <2>2. at[i + 1] < at[j + 1] /\ at[i + 1] \in 1 .. Len(s) /\ at[j + 1] \in 1 .. Len(s)  BY <1>1, <2>1
    <2> QED  BY <1>2, <2>2
  <1>11. \A i \in 1 .. Len(ds) : t[down[i]] = ds[i]
    <2> SUFFICES ASSUME NEW i \in 1 .. Len(cs) - 1 PROVE t[down[i]] = ds[i]  BY <1>7
    <2>1. t[at[i + 1] - 1] = s[(at[i + 1] - 1) + 1]  BY <1>6, <1>8
    <2>2. s[at[i + 1]] = cs[i + 1]  BY <1>1, <1>8
    <2> QED  BY <2>1, <2>2, <1>7, <1>8
  <1>12. \A j \in 1 .. Len(t) : t[j].kind = "frame" => \E i \in 1 .. Len(ds) : down[i] = j
    <2> SUFFICES ASSUME NEW j \in 1 .. Len(s) - 1, t[j].kind = "frame"
                 PROVE  \E i \in 1 .. Len(ds) : down[i] = j
      BY <1>6
    <2>1. j + 1 \in 1 .. Len(s) /\ t[j] = s[j + 1]  BY <1>2, <1>6
    <2>2. PICK i \in 1 .. Len(cs) : at[i] = j + 1  BY <1>1, <2>1
    <2>3. i # 1  BY <1>3, <1>4, <2>2
    <2>4. i - 1 \in 1 .. Len(cs) - 1 /\ (i - 1) + 1 = i  BY <1>2, <2>3
    <2>5. down[i - 1] = j  BY <2>2, <2>4
    <2> QED  BY <1>7, <2>4, <2>5
  <1> HIDE DEF down
  <1>13. FramesAre(t, ds)  BY <1>9, <1>10, <1>11, <1>12 DEF FramesAre
  <1> QED  BY <1>5, <1>13 DEF t, ds

LEMMA OneItem ==
  ASSUME NEW x
  PROVE  /\ <<x>>[1] = x /\ <<x>> # <<>> /\ Len(<<x>>) = 1 /\ DOMAIN <<x>> = {1}
         /\ Append(<<>>, x) = <<x>>
  OBVIOUS

LEMMA TwoItems ==
  ASSUME NEW x, NEW y
  PROVE  /\ <<x, y>>[1] = x /\ <<x, y>>[2] = y /\ <<x, y>> # <<>> /\ Len(<<x, y>>) = 2
         /\ DOMAIN <<x, y>> = {1, 2} /\ Append(<<x>>, y) = <<x, y>>
  <1> DEFINE S == {x, y}
  <1>1. /\ <<x>> \in Seq(S) /\ y \in S /\ <<x, y>> \in Seq(S) /\ Len(<<x>>) = 1 /\ Len(<<x, y>>) = 2
        /\ <<x>>[1] = x /\ <<x, y>>[1] = x /\ <<x, y>>[2] = y /\ <<x, y>> # <<>> /\ DOMAIN <<x, y>> = {1, 2}
    OBVIOUS
  <1>2. /\ Append(<<x>>, y) \in Seq(S) /\ Len(Append(<<x>>, y)) = 2
        /\ Append(<<x>>, y)[1] = x /\ Append(<<x>>, y)[2] = y
    BY <1>1, AppendProperties
  <1>3. \A i \in 1 .. 2 : Append(<<x>>, y)[i] = <<x, y>>[i]
    <2>1. \A i \in 1 .. 2 : i = 1 \/ i = 2  OBVIOUS
    <2> QED  BY <1>1, <1>2, <2>1
  <1> HIDE DEF S
  <1>4. Append(<<x>>, y) = <<x, y>>  BY <1>1, <1>2, <1>3, SeqEqual
  <1> QED  BY <1>1, <1>4

(* An exception is recorded; where the supervisor's stack can take it, what it *)
(* interrupts is the newest, and its frame the first on that stack            *)
Entered(m, vec, r) ==
  /\ r \in Machines /\ r.taken = Append(m.taken, vec) /\ r.usp = m.usp
  /\ FramesAre(r.ssp, r.contexts)
  /\ r.thrown = NoThrow => ~r.pc.odd
  /\ ssp_odd => r.thrown = Runtime /\ r.contexts = m.contexts
  /\ ~ssp_odd => r.contexts = <<FrameOf(m)>> \o m.contexts

LEMMA ExceptionsEntered ==
  ASSUME NEW m \in Machines, FramesAre(m.ssp, m.contexts), NEW vec \in Vectors, NEW level \in 0 .. 7
  PROVE  Entered(m, vec, do_interrupt_impl(m, vec, level))
  <1> DEFINE entered == [m EXCEPT !.sr = [t |-> FALSE, s |-> TRUE, mask |-> level], !.taken = Append(@, vec),
                                  !.thrown = NoThrow]
             f == FrameOf(m)
             pushed == [entered EXCEPT !.ssp = <<f>> \o @, !.contexts = <<f>> \o @, !.pc = Routine(vec)]
             r == do_interrupt_impl(m, vec, level)
  <1>1. /\ entered \in Machines /\ entered.thrown = NoThrow /\ entered.taken = Append(m.taken, vec)
        /\ entered.usp = m.usp /\ entered.ssp = m.ssp /\ entered.contexts = m.contexts /\ entered.pc = m.pc
    <2>1. Append(m.taken, vec) \in Seq(Vectors)  BY DEF Machines
    <2>2. [t |-> FALSE, s |-> TRUE, mask |-> level] \in SRs  BY DEF SRs
    <2> QED  BY <2>1, <2>2 DEF Machines
  <1>2. f \in Frames  BY DEF FrameOf, Machines, Frames
  <1>3. f \in Items  BY <1>2 DEF Items
  <1>4. Routine(vec) \in PCs  BY DEF Routine, PCs
  <1>5. m.ssp \in Seq(Items) /\ m.contexts \in Seq(Frames)  BY DEF Machines
  <1>6. <<f>> \o m.ssp \in Seq(Items) /\ <<f>> \o m.contexts \in Seq(Frames)
    BY <1>2, <1>3, <1>5, Pushed
  <1>7. FramesAre(<<f>> \o m.ssp, <<f>> \o m.contexts)  BY <1>2, <1>5, FramePushed
  <1>8. r = IF ssp_odd THEN [entered EXCEPT !.thrown = Runtime]
            ELSE IF vec # "address error" THEN useless_prefetch(pushed)
            ELSE IF pushed.pc.odd THEN [pushed EXCEPT !.thrown = Runtime]
            ELSE [pushed EXCEPT !.ssp = <<Info>> \o @]
    BY DEF do_interrupt_impl
  <1> HIDE DEF r, f
  <1>9. /\ pushed \in Machines /\ pushed.thrown = NoThrow /\ pushed.taken = Append(m.taken, vec)
        /\ pushed.usp = m.usp /\ pushed.ssp = <<f>> \o m.ssp /\ pushed.contexts = <<f>> \o m.contexts
    <2> HIDE DEF entered
    <2> QED  BY <1>1, <1>4, <1>6 DEF Machines
  <1> HIDE DEF pushed
  <1>10. ASSUME ssp_odd PROVE Entered(m, vec, r)
    <2> HIDE DEF entered
    <2>1. r = [entered EXCEPT !.thrown = Runtime]  BY <1>8, <1>10
    <2>2. /\ r \in Machines /\ r.thrown = Runtime /\ r.taken = entered.taken /\ r.usp = entered.usp
          /\ r.ssp = entered.ssp /\ r.contexts = entered.contexts
      BY <1>1, <2>1 DEF Machines
    <2>3. Runtime # NoThrow  BY DEF Runtime, NoThrow
    <2> QED  BY <1>1, <1>10, <2>2, <2>3 DEF Entered
  <1>11. ASSUME ~ssp_odd /\ vec # "address error" PROVE Entered(m, vec, r)
    <2>1. r = IF pushed.pc.odd THEN [pushed EXCEPT !.thrown = Address] ELSE pushed
      BY <1>8, <1>11 DEF useless_prefetch
    <2>2. /\ r \in Machines /\ r.taken = pushed.taken /\ r.usp = pushed.usp
          /\ r.ssp = pushed.ssp /\ r.contexts = pushed.contexts /\ r.pc = pushed.pc
          /\ r.thrown = IF pushed.pc.odd THEN Address ELSE NoThrow
      BY <1>9, <2>1 DEF Machines
    <2>3. r.thrown = NoThrow => ~r.pc.odd  BY <2>2 DEF Address, NoThrow
    <2> QED  BY <1>7, <1>9, <1>11, <2>2, <2>3 DEF Entered, f
  <1>12. ASSUME ~ssp_odd /\ vec = "address error" /\ pushed.pc.odd PROVE Entered(m, vec, r)
    <2>1. r = [pushed EXCEPT !.thrown = Runtime]  BY <1>8, <1>12
    <2>2. /\ r \in Machines /\ r.taken = pushed.taken /\ r.usp = pushed.usp /\ r.thrown = Runtime
          /\ r.ssp = pushed.ssp /\ r.contexts = pushed.contexts
      BY <1>9, <2>1 DEF Machines
    <2>3. Runtime # NoThrow  BY DEF Runtime, NoThrow
    <2> QED  BY <1>7, <1>9, <1>12, <2>2, <2>3 DEF Entered, f
  <1>13. ASSUME ~ssp_odd /\ vec = "address error" /\ ~pushed.pc.odd PROVE Entered(m, vec, r)
    <2>1. r = [pushed EXCEPT !.ssp = <<Info>> \o @]  BY <1>8, <1>13
    <2>2. Info \in Items /\ Info.kind # "frame"  BY DEF Info, Items
    <2>3. <<Info>> \o pushed.ssp \in Seq(Items)  BY <1>6, <1>9, <2>2, Pushed
    <2>4. /\ r \in Machines /\ r.taken = pushed.taken /\ r.usp = pushed.usp
          /\ r.ssp = <<Info>> \o pushed.ssp /\ r.contexts = pushed.contexts /\ r.pc = pushed.pc
      BY <1>9, <2>1, <2>3 DEF Machines
    <2>5. FramesAre(r.ssp, r.contexts)  BY <1>6, <1>7, <1>9, <2>2, <2>4, OtherPushed
    <2> QED  BY <1>9, <1>13, <2>4, <2>5 DEF Entered, f
  <1>14. Entered(m, vec, r)  BY <1>10, <1>11, <1>12, <1>13
  <1> QED  BY <1>14 DEF r

LEMMA Prefetched ==
  ASSUME NEW m \in Machines
  PROVE  LET r == useless_prefetch(m) IN
         /\ r \in Machines /\ r.pc = m.pc /\ r.sr = m.sr /\ r.ssp = m.ssp /\ r.usp = m.usp
         /\ r.taken = m.taken /\ r.contexts = m.contexts
  BY DEF useless_prefetch, Machines

(* RTE has resumed what the newest exception interrupted *)
Resumed(m, r) ==
  /\ m.contexts # <<>> /\ r.contexts = Tail(m.contexts)
  /\ r.pc = m.contexts[1].pc /\ r.sr = m.contexts[1].sr
  /\ Len(r.ssp) = Len(m.ssp) - 1 /\ r.usp = m.usp /\ ~ssp_odd

(* An instruction leaves what has been interrupted, adds itself or resumes it *)
Handled(m, r) ==
  /\ r \in Machines /\ FramesAre(r.ssp, r.contexts)
  /\ \/ r.taken = m.taken /\ r.contexts = m.contexts
     \/ r.taken = Append(m.taken, "trap") /\ Len(r.contexts) >= Len(m.contexts)
     \/ r.taken = m.taken /\ Resumed(m, r)

LEMMA TrapEntered ==
  ASSUME NEW m \in Machines, FramesAre(m.ssp, m.contexts), NEW vec \in Vectors
  PROVE  Entered(m, vec, do_trap(m, vec))
  <1>1. m.sr.mask \in 0 .. 7  BY DEF Machines, SRs
  <1>2. Entered(m, vec, do_interrupt_impl(m, vec, m.sr.mask))  BY <1>1, ExceptionsEntered
  <1> QED  BY <1>2 DEF do_trap

LEMMA TrapHandled ==
  ASSUME NEW m \in Machines, FramesAre(m.ssp, m.contexts)
  PROVE  Handled(m, do_trap(m, "trap"))
  <1> DEFINE r == do_trap(m, "trap")
  <1>1. m.contexts \in Seq(Frames) /\ FrameOf(m) \in Frames
    BY DEF Machines, SRs, FrameOf, Frames
  <1>2. Entered(m, "trap", r)
    <2>1. "trap" \in Vectors  BY DEF Vectors
    <2> QED  BY <2>1, TrapEntered
  <1>3. Len(<<FrameOf(m)>> \o m.contexts) = Len(m.contexts) + 1 /\ Len(m.contexts) \in Nat
    BY <1>1, Pushed
  <1>4. Len(r.contexts) >= Len(m.contexts)
    <2>1. CASE ssp_odd  BY <1>2, <1>3, <2>1 DEF Entered
    <2>2. CASE ~ssp_odd  BY <1>2, <1>3, <2>2 DEF Entered
    <2> QED  BY <2>1, <2>2
  <1> QED  BY <1>2, <1>4 DEF Entered, Handled

LEMMA PrefetchHandled ==
  ASSUME NEW m \in Machines, NEW r \in Machines, Handled(m, r)
  PROVE  Handled(m, useless_prefetch(r))
  <1> DEFINE u == useless_prefetch(r)
  <1>1. /\ u \in Machines /\ u.pc = r.pc /\ u.sr = r.sr /\ u.ssp = r.ssp /\ u.usp = r.usp
        /\ u.taken = r.taken /\ u.contexts = r.contexts
    BY Prefetched
  <1> HIDE DEF u
  <1>2. Handled(m, u)  BY <1>1 DEF Handled, Resumed
  <1> QED  BY <1>2 DEF u

LEMMA PopHandled ==
  ASSUME NEW m \in Machines, FramesAre(m.ssp, m.contexts), NEW kind \in {"pc", "info"}, Holds(m, kind)
  PROVE  /\ Handled(m, Pop(m)) /\ Pop(m).contexts = m.contexts /\ Pop(m).taken = m.taken
         /\ Top(m) \in Items /\ Top(m).kind = kind
  <1>1. m.ssp \in Seq(Items) /\ m.usp \in Seq(Items) /\ m.contexts \in Seq(Frames)  BY DEF Machines
  <1>2. CASE m.sr.s
    <2>1. m.ssp # <<>> /\ m.ssp[1].kind = kind  BY <1>2 DEF Holds
    <2>2. Tail(m.ssp) \in Seq(Items) /\ m.ssp[1] \in Items  BY <1>1, <2>1, PoppedOne
    <2>3. FramesAre(Tail(m.ssp), m.contexts)  BY <1>1, <2>1, OtherPopped
    <2>4. Pop(m) = [m EXCEPT !.ssp = Tail(@)] /\ Top(m) = m.ssp[1]  BY <1>2 DEF Pop, Top
    <2>5. /\ Pop(m) \in Machines /\ Pop(m).ssp = Tail(m.ssp) /\ Pop(m).contexts = m.contexts
          /\ Pop(m).taken = m.taken
      BY <2>2, <2>4 DEF Machines
    <2> QED  BY <2>1, <2>2, <2>3, <2>4, <2>5 DEF Handled
  <1>3. CASE ~m.sr.s
    <2>1. m.usp # <<>> /\ m.usp[1].kind = kind  BY <1>3 DEF Holds
    <2>2. Tail(m.usp) \in Seq(Items) /\ m.usp[1] \in Items  BY <1>1, <2>1, PoppedOne
    <2>4. Pop(m) = [m EXCEPT !.usp = Tail(@)] /\ Top(m) = m.usp[1]  BY <1>3 DEF Pop, Top
    <2>5. /\ Pop(m) \in Machines /\ Pop(m).ssp = m.ssp /\ Pop(m).contexts = m.contexts
          /\ Pop(m).taken = m.taken
      BY <2>2, <2>4 DEF Machines
    <2> QED  BY <2>1, <2>2, <2>4, <2>5 DEF Handled
  <1> QED  BY <1>2, <1>3

LEMMA JSRHandled ==
  ASSUME NEW m \in Machines, FramesAre(m.ssp, m.contexts)
  PROVE  Handled(m, JSR(m))
  <1> DEFINE x == [kind |-> "pc", pc |-> m.pc]
             r == JSR(m)
  <1>1. m.ssp \in Seq(Items) /\ m.usp \in Seq(Items) /\ m.contexts \in Seq(Frames)  BY DEF Machines
  <1>2. x \in Items /\ x.kind # "frame"  BY DEF Items, Machines
  <1>3. <<x>> \o m.ssp \in Seq(Items) /\ <<x>> \o m.usp \in Seq(Items)  BY <1>1, <1>2, Pushed
  <1>4. FramesAre(<<x>> \o m.ssp, m.contexts)  BY <1>1, <1>2, OtherPushed
  <1>5. r = IF StackOdd(m) THEN [m EXCEPT !.thrown = Address]
            ELSE IF m.sr.s THEN [m EXCEPT !.ssp = <<x>> \o @] ELSE [m EXCEPT !.usp = <<x>> \o @]
    BY DEF JSR, Push
  <1> HIDE DEF x, r
  <1>6. r \in Machines /\ r.taken = m.taken /\ r.contexts = m.contexts
    BY <1>3, <1>5 DEF Machines
  <1>7. r.ssp = m.ssp \/ r.ssp = <<x>> \o m.ssp
    BY <1>5 DEF Machines
  <1>8. Handled(m, r)  BY <1>4, <1>6, <1>7 DEF Handled
  <1> QED  BY <1>8 DEF r

LEMMA RTSHandled ==
  ASSUME NEW m \in Machines, FramesAre(m.ssp, m.contexts), Holds(m, "pc")
  PROVE  Handled(m, RTS(m))
  <1> DEFINE p == [Pop(m) EXCEPT !.pc = Top(m).pc]
  <1>1. /\ Handled(m, Pop(m)) /\ Pop(m).contexts = m.contexts /\ Pop(m).taken = m.taken
        /\ Top(m) \in Items /\ Top(m).kind = "pc"
    BY PopHandled
  <1>2. Top(m).pc \in PCs  BY <1>1 DEF Items, Frames
  <1>3. Pop(m) \in Machines /\ FramesAre(Pop(m).ssp, Pop(m).contexts)  BY <1>1 DEF Handled
  <1>4. p \in Machines /\ p.ssp = Pop(m).ssp /\ p.contexts = m.contexts /\ p.taken = m.taken
    BY <1>1, <1>2, <1>3 DEF Machines
  <1>5. RTS(m) = IF StackOdd(m) THEN [m EXCEPT !.thrown = Address] ELSE useless_prefetch(p)
    BY DEF RTS
  <1> HIDE DEF p
  <1>6. Handled(m, p)  BY <1>1, <1>3, <1>4 DEF Handled
  <1>7. Handled(m, useless_prefetch(p))  BY <1>4, <1>6, PrefetchHandled
  <1> DEFINE e == [m EXCEPT !.thrown = Address]
  <1>8. e \in Machines /\ e.ssp = m.ssp /\ e.contexts = m.contexts /\ e.taken = m.taken
    BY DEF Machines
  <1>9. Handled(m, e)
    <2> HIDE DEF e
    <2> QED  BY <1>8 DEF Handled
  <1> QED  BY <1>5, <1>7, <1>9

LEMMA RTEHandled ==
  ASSUME NEW m \in Machines, FramesAre(m.ssp, m.contexts), m.sr.s, Holds(m, "frame")
  PROVE  Handled(m, RTE(m))
  <1> DEFINE p == [Popped(m) EXCEPT !.contexts = Tail(@)]
             e == [m EXCEPT !.thrown = Address]
  <1>1. m.ssp \in Seq(Items) /\ m.contexts \in Seq(Frames)  BY DEF Machines
  <1>2. m.ssp # <<>> /\ m.ssp[1].kind = "frame"  BY DEF Holds
  <1>3. m.contexts # <<>> /\ m.contexts[1] = m.ssp[1] /\ FramesAre(Tail(m.ssp), Tail(m.contexts))
    BY <1>1, <1>2, FramePopped
  <1>4. Tail(m.ssp) \in Seq(Items) /\ Len(Tail(m.ssp)) = Len(m.ssp) - 1  BY <1>1, <1>2, PoppedOne
  <1>5. Tail(m.contexts) \in Seq(Frames) /\ m.contexts[1] \in Frames  BY <1>1, <1>3, PoppedOne
  <1>6. m.ssp[1].pc \in PCs /\ m.ssp[1].sr \in SRs  BY <1>3, <1>5 DEF Frames
  <1>7. Popped(m) = [m EXCEPT !.ssp = Tail(m.ssp), !.pc = m.ssp[1].pc, !.sr = m.ssp[1].sr]
    BY DEF Popped, Pop, Top
  <1>8. p = [m EXCEPT !.ssp = Tail(m.ssp), !.pc = m.ssp[1].pc, !.sr = m.ssp[1].sr,
                      !.contexts = Tail(m.contexts)]
    BY <1>7 DEF Machines
  <1> HIDE DEF p
  <1>9. /\ p \in Machines /\ p.ssp = Tail(m.ssp) /\ p.pc = m.ssp[1].pc /\ p.sr = m.ssp[1].sr
        /\ p.contexts = Tail(m.contexts) /\ p.taken = m.taken /\ p.usp = m.usp
    BY <1>4, <1>5, <1>6, <1>8 DEF Machines
  <1>10. RTE(m) = IF ssp_odd THEN e ELSE useless_prefetch(p)
    BY DEF RTE, StackOdd, p
  <1>11. e \in Machines /\ e.ssp = m.ssp /\ e.contexts = m.contexts /\ e.taken = m.taken
    BY DEF Machines
  <1> HIDE DEF e
  <1>12. Handled(m, e)  BY <1>11 DEF Handled
  <1>13. ASSUME ~ssp_odd PROVE Handled(m, useless_prefetch(p))
    <2>1. Resumed(m, p)  BY <1>3, <1>4, <1>9, <1>13 DEF Resumed
    <2>2. Handled(m, p)  BY <1>3, <1>9, <2>1 DEF Handled
    <2> QED  BY <1>9, <2>2, PrefetchHandled
  <1> QED  BY <1>10, <1>12, <1>13

LEMMA InstructionsHandled ==
  ASSUME NEW m \in Machines, FramesAre(m.ssp, m.contexts), NEW inst \in Ordinary \cup Privileged,
         NEW new \in SRs, Sensible(m, inst), inst \in Privileged => m.sr.s, inst # "illegal"
  PROVE  Handled(m, Handle(m, inst, new))
  <1>1. CASE inst = "plain"
    <2>1. Handle(m, inst, new) = m  BY <1>1 DEF Handle
    <2> QED  BY <2>1 DEF Handled
  <1>2. CASE inst = "move to sr"
    <2> DEFINE r == [m EXCEPT !.sr = new]
    <2>1. Handle(m, inst, new) = useless_prefetch(r)  BY <1>2 DEF Handle
    <2>2. r \in Machines /\ r.ssp = m.ssp /\ r.contexts = m.contexts /\ r.taken = m.taken
      BY DEF Machines
    <2> HIDE DEF r
    <2>3. Handled(m, r)  BY <2>2 DEF Handled
    <2> QED  BY <2>1, <2>2, <2>3, PrefetchHandled
  <1>3. CASE inst = "stop"
    <2> DEFINE r == [m EXCEPT !.sr = new, !.halted = ~m.sr.t]
    <2>1. Handle(m, inst, new) = r  BY <1>3 DEF Handle
    <2>2. r \in Machines /\ r.ssp = m.ssp /\ r.contexts = m.contexts /\ r.taken = m.taken
      BY DEF Machines
    <2> HIDE DEF r
    <2> QED  BY <2>1, <2>2 DEF Handled
  <1>4. CASE inst = "rte"
    <2>1. Handle(m, inst, new) = RTE(m)  BY <1>4 DEF Handle
    <2>2. m.sr.s /\ Holds(m, "frame")  BY <1>4 DEF Sensible, Privileged
    <2> QED  BY <2>1, <2>2, RTEHandled
  <1>5. CASE inst = "trap"
    <2>1. Handle(m, inst, new) = do_trap(m, "trap")  BY <1>5 DEF Handle
    <2> QED  BY <2>1, TrapHandled
  <1>6. CASE inst = "trapv"
    <2>1. Handle(m, inst, new) = useless_prefetch(do_trap(m, "trap"))  BY <1>6 DEF Handle
    <2>2. Handled(m, do_trap(m, "trap"))  BY TrapHandled
    <2>3. do_trap(m, "trap") \in Machines  BY <2>2 DEF Handled
    <2> QED  BY <2>1, <2>2, <2>3, PrefetchHandled
  <1>7. CASE inst = "jsr"
    <2>1. Handle(m, inst, new) = JSR(m)  BY <1>7 DEF Handle
    <2> QED  BY <2>1, JSRHandled
  <1>8. CASE inst = "rts"
    <2>1. Handle(m, inst, new) = RTS(m)  BY <1>8 DEF Handle
    <2>2. Holds(m, "pc")  BY <1>8 DEF Sensible
    <2> QED  BY <2>1, <2>2, RTSHandled
  <1>9. CASE inst = "jump to odd"
    <2> DEFINE r == [m EXCEPT !.pc.odd = TRUE]
    <2>1. Handle(m, inst, new) = r  BY <1>9 DEF Handle
    <2>2. [m.pc EXCEPT !.odd = TRUE] \in PCs  BY DEF Machines, PCs
    <2>3. r \in Machines /\ r.ssp = m.ssp /\ r.contexts = m.contexts /\ r.taken = m.taken
      BY <2>2 DEF Machines
    <2> HIDE DEF r
    <2> QED  BY <2>1, <2>3 DEF Handled
  <1>10. CASE inst = "access odd"
    <2> DEFINE r == [m EXCEPT !.thrown = Address]
    <2>1. Handle(m, inst, new) = r  BY <1>10 DEF Handle
    <2>2. r \in Machines /\ r.ssp = m.ssp /\ r.contexts = m.contexts /\ r.taken = m.taken
      BY DEF Machines
    <2> HIDE DEF r
    <2> QED  BY <2>1, <2>2 DEF Handled
  <1>11. CASE inst = "drop info"
    <2>1. Handle(m, inst, new) = Pop(m)  BY <1>11 DEF Handle
    <2>2. Holds(m, "info")  BY <1>11 DEF Sensible
    <2> QED  BY <2>1, <2>2, PopHandled
  <1> QED  BY <1>1, <1>2, <1>3, <1>4, <1>5, <1>6, <1>7, <1>8, <1>9, <1>10, <1>11 DEF Ordinary, Privileged

CpuInv ==
  /\ pc \in PCs /\ sr \in SRs /\ ssp \in Seq(Items) /\ usp \in Seq(Items)
  /\ ipl \in {0} \cup Levels /\ halted \in BOOLEAN /\ contexts \in Seq(Frames)
  /\ FramesAre(ssp, contexts)

LEMMA CpuInitially == CpuInit => CpuInv
  <1> SUFFICES ASSUME CpuInit PROVE CpuInv  OBVIOUS
  <1>1. pc \in PCs /\ sr \in SRs /\ ipl \in {0} \cup Levels /\ halted \in BOOLEAN
    <2>1. "reset" \in Vectors  BY DEF Vectors
    <2>2. [routine |-> "reset", n |-> 0, odd |-> FALSE] \in PCs  BY <2>1 DEF PCs
    <2>3. [t |-> FALSE, s |-> TRUE, mask |-> 7] \in SRs  BY DEF SRs
    <2> QED  BY <2>2, <2>3 DEF CpuInit
  <1>2. ssp = <<>> /\ usp = <<>> /\ contexts = <<>>  BY DEF CpuInit
  <1>3. <<>> \in Seq(Items) /\ <<>> \in Seq(Frames)  OBVIOUS
  <1> QED  BY <1>1, <1>2, <1>3, NoFrames DEF CpuInv

(* What a step gives: the machine r after exceptions that add to what has been *)
(* interrupted, or after an RTE                                                *)
Leaves(r, level, isExecuted) ==
  /\ r \in Machines /\ FramesAre(r.ssp, r.contexts)
  /\ Becomes(r, level, isExecuted)

LEMMA LeavesInv ==
  ASSUME NEW r, NEW level \in {0} \cup Levels, NEW isExecuted, Leaves(r, level, isExecuted)
  PROVE  CpuInv'
  BY DEF Leaves, Becomes, CpuInv, Machines

(* The machine after the exceptions seq of a step, none resumed *)
Grew(r, seq) ==
  /\ r \in Machines /\ FramesAre(r.ssp, r.contexts) /\ r.taken = seq
  /\ Len(r.contexts) >= Len(contexts)

LEMMA EnteredGrew ==
  ASSUME NEW m \in Machines, NEW seq, Grew(m, seq), NEW vec, NEW r, Entered(m, vec, r)
  PROVE  Grew(r, Append(seq, vec))
  <1>1. m.contexts \in Seq(Frames) /\ FrameOf(m) \in Frames  BY DEF Machines, FrameOf, Frames
  <1>2. Len(<<FrameOf(m)>> \o m.contexts) = Len(m.contexts) + 1 /\ Len(m.contexts) \in Nat
    BY <1>1, Pushed
  <1>3. Len(r.contexts) >= Len(m.contexts)
    <2>1. CASE ssp_odd  BY <1>2, <2>1 DEF Entered
    <2>2. CASE ~ssp_odd  BY <1>2, <2>2 DEF Entered
    <2> QED  BY <2>1, <2>2
  <1> QED  BY <1>2, <1>3 DEF Entered, Grew

(* An exception that comes right after an RTE takes the place of what it resumed *)
LEMMA EnteredResumed ==
  ASSUME NEW m \in Machines, NEW done \in Machines, m.contexts = contexts, Resumed(m, done),
         NEW vec, NEW r, Entered(done, vec, r)
  PROVE  Grew(r, Append(done.taken, vec))
  <1>1. done.contexts \in Seq(Frames) /\ m.contexts \in Seq(Frames) /\ FrameOf(done) \in Frames
    BY DEF Machines, FrameOf, Frames
  <1>2. Len(<<FrameOf(done)>> \o done.contexts) = Len(done.contexts) + 1  BY <1>1, Pushed
  <1>3. Len(done.contexts) = Len(contexts) - 1 /\ Len(contexts) \in Nat  BY <1>1, PoppedOne DEF Resumed
  <1>4. r.contexts = <<FrameOf(done)>> \o done.contexts  BY DEF Entered, Resumed
  <1> QED  BY <1>2, <1>3, <1>4 DEF Entered, Grew

(* A step leaves the machine r *)
LEMMA BecomesInv ==
  ASSUME NEW r \in Machines, FramesAre(r.ssp, r.contexts),
         NEW level \in {0} \cup Levels, NEW isExecuted, Becomes(r, level, isExecuted)
  PROVE  CpuInv' /\ contexts' = r.contexts /\ taken' = r.taken /\ escaped' = r.thrown /\ executed' = isExecuted
  <1>1. /\ pc' = r.pc /\ sr' = r.sr /\ ssp' = r.ssp /\ usp' = r.usp /\ ipl' = level /\ halted' = r.halted
        /\ contexts' = r.contexts /\ taken' = r.taken /\ escaped' = r.thrown /\ executed' = isExecuted
    BY DEF Becomes
  <1>2. /\ r.pc \in PCs /\ r.sr \in SRs /\ r.ssp \in Seq(Items) /\ r.usp \in Seq(Items)
        /\ r.halted \in BOOLEAN /\ r.contexts \in Seq(Frames)
    BY DEF Machines
  <1> QED  BY <1>1, <1>2 DEF CpuInv

(* How a step that resumes nothing ends *)
LEMMA EndsGrew ==
  ASSUME CpuInv, NEW m \in Machines, NEW seq, Grew(m, seq), NEW trace \in BOOLEAN,
         NEW level \in {0} \cup Levels, NEW isExecuted, Ends(m, trace, level, isExecuted)
  PROVE  /\ CpuInv' /\ ResumesStep /\ executed' = isExecuted
         /\ escaped' = NoThrow =>
              /\ m.thrown = NoThrow
              /\ \/ ~m.pc.odd /\ ~trace /\ taken' = seq
                 \/ m.pc.odd /\ taken' = Append(seq, "address error")
                 \/ ~m.pc.odd /\ trace /\ taken' = Append(seq, "trace")
  <1> DEFINE r == IF m.thrown # NoThrow THEN m ELSE Finished(m, trace)
  <1>0. FramesAre(m.ssp, m.contexts)  BY DEF Grew
  <1>1. Becomes(r, level, isExecuted)  BY DEF Ends
  <1>2. \/ m.thrown # NoThrow /\ r = m
        \/ m.thrown = NoThrow /\ m.pc.odd /\ r = do_trap(m, "address error")
        \/ m.thrown = NoThrow /\ ~m.pc.odd /\ trace /\ r = do_trap(m, "trace")
        \/ m.thrown = NoThrow /\ ~m.pc.odd /\ ~trace /\ r = m
    BY DEF Finished
  <1> HIDE DEF r
  <1>3. "address error" \in Vectors /\ "trace" \in Vectors  BY DEF Vectors
  <1>4. ASSUME r = do_trap(m, "address error") PROVE Grew(r, Append(seq, "address error"))
    <2>1. Entered(m, "address error", r)  BY <1>0, <1>3, <1>4, TrapEntered
    <2> QED  BY <2>1, EnteredGrew
  <1>5. ASSUME r = do_trap(m, "trace") PROVE Grew(r, Append(seq, "trace"))
    <2>1. Entered(m, "trace", r)  BY <1>0, <1>3, <1>5, TrapEntered
    <2> QED  BY <2>1, EnteredGrew
  <1>6. PICK some : Grew(r, some)  BY <1>2, <1>4, <1>5
  <1>7. r \in Machines /\ FramesAre(r.ssp, r.contexts) /\ Len(r.contexts) >= Len(contexts)  BY <1>6 DEF Grew
  <1>8. CpuInv' /\ contexts' = r.contexts /\ taken' = r.taken /\ escaped' = r.thrown /\ executed' = isExecuted
    BY <1>1, <1>7, BecomesInv
  <1>9. ResumesStep
    <2>1. Len(contexts) \in Nat /\ Len(contexts') \in Nat  BY <1>8 DEF CpuInv
    <2> QED  BY <1>7, <1>8, <2>1 DEF ResumesStep
  <1>10. ASSUME escaped' = NoThrow
         PROVE  /\ m.thrown = NoThrow
                /\ \/ ~m.pc.odd /\ ~trace /\ taken' = seq
                   \/ m.pc.odd /\ taken' = Append(seq, "address error")
                   \/ ~m.pc.odd /\ trace /\ taken' = Append(seq, "trace")
    BY <1>2, <1>4, <1>5, <1>8, <1>10 DEF Grew
  <1> QED  BY <1>8, <1>9, <1>10

(* A step traces after at most one other exception *)
LEMMA TracedOne ==
  ASSUME NEW x, x # "trace",
         \/ taken' = <<>> \/ taken' = <<x>>
         \/ taken' = <<"trace">> /\ sr.t /\ executed'
         \/ taken' = <<x, "trace">> /\ sr.t /\ (executed' \/ x \in {Level(l) : l \in Levels})
         \/ taken' = <<"address error">>
         \/ taken' = <<x, "address error">>,
         sr.t /\ executed' => taken' # <<>> /\ taken'[Len(taken')] \in {"trace", "address error"}
  PROVE  TracedStep
  <1>1. \A i \in DOMAIN taken' : taken'[i] = "trace" =>
          i = Len(taken') /\ sr.t /\ (executed' \/ taken'[1] \in {Level(l) : l \in Levels})
    <2>1. CASE taken' = <<>>  BY <2>1
    <2>2. CASE taken' = <<x>>
      <3>1. taken'[1] = x /\ DOMAIN taken' = {1}  BY ONLY <2>2, OneItem
      <3> QED  BY <3>1
    <2>3. CASE taken' = <<"trace">> /\ sr.t /\ executed'  BY <2>3
    <2>4. CASE taken' = <<x, "trace">> /\ sr.t /\ (executed' \/ x \in {Level(l) : l \in Levels})
      <3>1. taken'[1] = x /\ taken'[2] = "trace" /\ Len(taken') = 2 /\ DOMAIN taken' = {1, 2}  BY <2>4
      <3> HIDE DEF Level
      <3> QED  BY <2>4, <3>1
    <2>5. CASE taken' = <<"address error">>
      <3>1. taken'[1] = "address error" /\ DOMAIN taken' = {1}  BY ONLY <2>5, OneItem
      <3> QED  BY <3>1
    <2>6. CASE taken' = <<x, "address error">>
      <3>1. taken'[1] = x /\ taken'[2] = "address error" /\ DOMAIN taken' = {1, 2}  BY ONLY <2>6, TwoItems
      <3> QED  BY <3>1
    <2> QED  BY <2>1, <2>2, <2>3, <2>4, <2>5, <2>6
  <1> QED  BY <1>1 DEF TracedStep

StepRight == CpuInv' /\ ResumesStep /\ TracedStep

(* What a step begins with *)
LEMMA StepBegins ==
  ASSUME CpuInv
  PROVE  /\ Machine \in Machines /\ [Machine EXCEPT !.halted = FALSE] \in Machines
         /\ Machine.contexts = contexts /\ Machine.ssp = ssp /\ Machine.taken = <<>> /\ Machine.thrown = NoThrow
         /\ LET m == [Machine EXCEPT !.halted = FALSE] IN
            /\ m.pc = pc /\ m.sr = sr /\ m.ssp = ssp /\ m.usp = usp /\ m.ipl = ipl /\ m.contexts = contexts
            /\ m.taken = <<>> /\ m.thrown = NoThrow
  <1>1. <<>> \in Seq(Vectors)  OBVIOUS
  <1>2. NoThrow \in {NoThrow, Address, Runtime}  OBVIOUS
  <1> QED  BY <1>1, <1>2 DEF CpuInv, Machine, Machines

(* A step that goes straight to an exception *)
LEMMA ExceptionStep ==
  ASSUME CpuInv, NEW m \in Machines, Grew(m, <<>>), NEW vec \in Vectors \ {"trace"}, NEW r, Entered(m, vec, r),
         NEW trace \in BOOLEAN, trace => sr.t /\ vec \in {Level(l) : l \in Levels},
         NEW level \in {0} \cup Levels, Ends(r, trace, level, FALSE)
  PROVE  StepRight
  <1>1. Append(<<>>, vec) = <<vec>> /\ Append(<<vec>>, "trace") = <<vec, "trace">>  BY OneItem, TwoItems
  <1>2. Grew(r, <<vec>>)  BY <1>1, EnteredGrew
  <1>3. r \in Machines /\ (r.thrown = NoThrow => ~r.pc.odd)  BY DEF Entered
  <1>4. /\ CpuInv' /\ ResumesStep /\ executed' = FALSE
        /\ escaped' = NoThrow =>
             /\ r.thrown = NoThrow
             /\ \/ ~r.pc.odd /\ ~trace /\ taken' = <<vec>>
                \/ r.pc.odd /\ taken' = Append(<<vec>>, "address error")
                \/ ~r.pc.odd /\ trace /\ taken' = Append(<<vec>>, "trace")
    BY <1>2, <1>3, EndsGrew
  <1>5. CASE escaped' = NoThrow
    <2>1. \/ taken' = <<vec>>
          \/ taken' = <<vec, "trace">> /\ sr.t /\ (executed' \/ vec \in {Level(l) : l \in Levels})
      BY <1>1, <1>3, <1>4, <1>5
    <2>2. TracedStep
      <3> HIDE DEF Level
      <3> QED  BY <1>4, <2>1, TracedOne
    <2> QED  BY <1>4, <2>2 DEF StepRight
  <1>6. CASE escaped' # NoThrow
    BY <1>4, <1>6 DEF StepRight, TracedStep
  <1> QED  BY <1>5, <1>6

LEMMA LevelsAreVectors ==
  ASSUME NEW l \in 1 .. 7
  PROVE  Level(l) \in Vectors \ {"trace"}
  <1> DEFINE names == <<"level 1", "level 2", "level 3", "level 4", "level 5", "level 6", "level 7">>
  <1>1. l = 1 \/ l = 2 \/ l = 3 \/ l = 4 \/ l = 5 \/ l = 6 \/ l = 7  OBVIOUS
  <1>2. /\ names[1] = "level 1" /\ names[2] = "level 2" /\ names[3] = "level 3" /\ names[4] = "level 4"
        /\ names[5] = "level 5" /\ names[6] = "level 6" /\ names[7] = "level 7"
    OBVIOUS
  <1>3. Level(l) = names[l]  BY DEF Level
  <1> HIDE DEF names
  <1>4. Level(l) \in {"level 1", "level 2", "level 3", "level 4", "level 5", "level 6", "level 7"}
    BY <1>1, <1>2, <1>3
  <1> QED  BY <1>4 DEF Vectors

(* An instruction that was handled ends the step *)
LEMMA HandledStep ==
  ASSUME CpuInv, NEW m \in Machines, m.contexts = contexts, m.ssp = ssp, m.usp = usp, m.taken = <<>>,
         NEW done, Handled(m, done), NEW level \in {0} \cup Levels,
         Ends(Caught(done), sr.t /\ done.thrown # Address, level, done.thrown # Address)
  PROVE  StepRight
  <1> DEFINE T == "trap"
             A == "address error"
  <1>0. done \in Machines /\ FramesAre(done.ssp, done.contexts)  BY DEF Handled
  <1>1. A \in Vectors /\ "trace" \in Vectors /\ T # "trace" /\ sr.t \in BOOLEAN
    BY DEF Vectors, CpuInv, SRs
  <1>2. /\ Append(<<>>, T) = <<T>> /\ Append(<<>>, A) = <<A>> /\ Append(<<>>, "trace") = <<"trace">>
        /\ Append(<<T>>, A) = <<T, A>> /\ Append(<<T>>, "trace") = <<T, "trace">>
    BY OneItem, TwoItems
  <1>3. Len(contexts) \in Nat  BY DEF CpuInv
  <1>4. \/ Grew(done, <<>>) \/ Grew(done, <<T>>)
        \/ done.taken = <<>> /\ Resumed(m, done)
    <2>1. CASE done.taken = m.taken /\ done.contexts = m.contexts  BY <1>0, <1>3, <2>1 DEF Grew
    <2>2. CASE done.taken = Append(m.taken, T) /\ Len(done.contexts) >= Len(m.contexts)
      BY <1>0, <1>2, <2>2 DEF Grew
    <2>3. CASE done.taken = m.taken /\ Resumed(m, done)  BY <2>3
    <2> QED  BY <2>1, <2>2, <2>3 DEF Handled
  <1> HIDE DEF T, A
  <1>5. CASE done.thrown = Address
    <2> DEFINE r == do_trap(done, A)
    <2>1. Entered(done, A, r)  BY <1>0, <1>1, TrapEntered
    <2>2. Caught(done) = r  BY <1>5 DEF Caught, A
    <2>3. r \in Machines /\ (r.thrown = NoThrow => ~r.pc.odd)  BY <2>1 DEF Entered
    <2>4. Ends(r, FALSE, level, FALSE)
      <3>1. (sr.t /\ done.thrown # Address) = FALSE /\ (done.thrown # Address) = FALSE  BY <1>5
      <3> QED  BY <2>2, <3>1
    <2> HIDE DEF r
    <2>5. Grew(r, <<A>>) \/ Grew(r, <<T, A>>)
      <3>1. CASE Grew(done, <<>>)  BY <1>0, <1>2, <2>1, <3>1, EnteredGrew
      <3>2. CASE Grew(done, <<T>>)  BY <1>0, <1>2, <2>1, <3>2, EnteredGrew
      <3>3. CASE done.taken = <<>> /\ Resumed(m, done)
        <4>1. Grew(r, Append(done.taken, A))  BY <1>0, <2>1, <3>3, EnteredResumed
        <4> QED  BY <1>2, <3>3, <4>1
      <3> QED  BY <1>4, <3>1, <3>2, <3>3
    <2>6. ASSUME NEW seq, Grew(r, seq)
          PROVE  CpuInv' /\ ResumesStep /\ executed' = FALSE /\ (escaped' = NoThrow => taken' = seq)
      BY <2>3, <2>4, <2>6, EndsGrew
    <2>7. /\ CpuInv' /\ ResumesStep /\ executed' = FALSE
          /\ escaped' = NoThrow => taken' = <<A>> \/ taken' = <<T, A>>
      BY <2>5, <2>6
    <2>8. TracedStep
      <3>1. CASE escaped' = NoThrow
        <4>1. taken' = <<A>> \/ taken' = <<T, A>>  BY <2>7, <3>1
        <4>2. ~executed'  BY <2>7
        <4>3. taken' = <<"address error">> \/ taken' = <<T, "address error">>  BY <4>1 DEF A
        <4>4. T # "trace"  BY <1>1
        <4>5. sr.t /\ executed' => taken' # <<>> /\ taken'[Len(taken')] \in {"trace", "address error"}  BY <4>2
        <4> QED  BY ONLY <4>3, <4>4, <4>5, TracedOne, Zenon
      <3>2. CASE escaped' # NoThrow  BY <3>2 DEF TracedStep
      <3> QED  BY <3>1, <3>2
    <2> QED  BY <2>7, <2>8 DEF StepRight
  <1>6. ASSUME done.thrown # Address PROVE Ends(done, sr.t, level, TRUE)
    <2>1. Caught(done) = done  BY <1>6 DEF Caught
    <2>2. (sr.t /\ done.thrown # Address) = sr.t /\ (done.thrown # Address) = TRUE  BY <1>1, <1>6
    <2> QED  BY <2>1, <2>2
  <1>7. ASSUME done.thrown # Address, NEW seq \in {<<>>, <<T>>}, Grew(done, seq) PROVE StepRight
    <2>1. /\ CpuInv' /\ ResumesStep /\ executed' = TRUE
          /\ escaped' = NoThrow =>
               \/ ~sr.t /\ taken' = seq
               \/ taken' = Append(seq, A)
               \/ sr.t /\ taken' = Append(seq, "trace")
      BY <1>0, <1>1, <1>6, <1>7, EndsGrew DEF A
    <2>2. CASE escaped' = NoThrow
      <3>1. CASE ~sr.t /\ taken' = seq
        <4>1. taken' = <<>> \/ taken' = <<T>>  BY <1>7, <3>1
        <4> QED  BY <1>1, <2>1, <3>1, <4>1, TracedOne DEF StepRight
      <3>2. CASE taken' = Append(seq, A)
        <4>1. taken' = <<A>> \/ taken' = <<T, A>>  BY <1>2, <1>7, <3>2
        <4>2. taken' # <<>> /\ taken'[Len(taken')] = A  BY ONLY <4>1, OneItem, TwoItems
        <4> QED  BY <1>1, <2>1, <4>1, <4>2, TracedOne DEF StepRight, A
      <3>3. CASE sr.t /\ taken' = Append(seq, "trace")
        <4>1. taken' = <<"trace">> \/ taken' = <<T, "trace">>  BY <1>2, <1>7, <3>3
        <4>2. taken' # <<>> /\ taken'[Len(taken')] = "trace"  BY ONLY <4>1, OneItem, TwoItems
        <4> QED  BY <1>1, <2>1, <3>3, <4>1, <4>2, TracedOne DEF StepRight
      <3> QED  BY <2>1, <2>2, <3>1, <3>2, <3>3
    <2>3. CASE escaped' # NoThrow  BY <2>1, <2>3 DEF StepRight, TracedStep
    <2> QED  BY <2>2, <2>3
  <1>8. ASSUME done.thrown # Address, done.taken = <<>>, Resumed(m, done) PROVE StepRight
    <2> DEFINE r == IF done.thrown # NoThrow THEN done ELSE Finished(done, sr.t)
    <2>1. Becomes(r, level, TRUE)  BY <1>6, <1>8 DEF Ends
    <2>2. \/ r = done /\ (done.thrown = NoThrow => ~sr.t)
          \/ r = do_trap(done, A)
          \/ sr.t /\ r = do_trap(done, "trace")
      BY DEF Finished, A
    <2> HIDE DEF r
    <2>3. ASSUME r = do_trap(done, A) PROVE StepRight
      <3>1. Entered(done, A, r)  BY <1>0, <1>1, <2>3, TrapEntered
      <3>2. Grew(r, <<A>>)
        <4>1. Grew(r, Append(done.taken, A))  BY <1>0, <1>8, <3>1, EnteredResumed
        <4> QED  BY <1>2, <1>8, <4>1
      <3>3. r \in Machines /\ FramesAre(r.ssp, r.contexts) /\ Len(r.contexts) >= Len(contexts) /\ r.taken = <<A>>
        BY <3>2 DEF Grew
      <3>4. CpuInv' /\ contexts' = r.contexts /\ taken' = r.taken  BY <2>1, <3>3, BecomesInv
      <3>5. ResumesStep
        <4>1. Len(contexts) \in Nat /\ Len(contexts') \in Nat  BY <1>3, <3>4 DEF CpuInv
        <4> QED  BY <3>3, <3>4, <4>1 DEF ResumesStep
      <3>6. taken' = <<A>> /\ taken' # <<>> /\ taken'[Len(taken')] = A  BY <3>3, <3>4
      <3> QED  BY <1>1, <3>4, <3>5, <3>6, TracedOne DEF StepRight, A
    <2>4. ASSUME sr.t, r = do_trap(done, "trace") PROVE StepRight
      <3>1. Entered(done, "trace", r)  BY <1>0, <1>1, <2>4, TrapEntered
      <3>2. Grew(r, <<"trace">>)
        <4>1. Grew(r, Append(done.taken, "trace"))  BY <1>0, <1>8, <3>1, EnteredResumed
        <4> QED  BY <1>2, <1>8, <4>1
      <3>3. r \in Machines /\ FramesAre(r.ssp, r.contexts) /\ Len(r.contexts) >= Len(contexts) /\ r.taken = <<"trace">>
        BY <3>2 DEF Grew
      <3>4. CpuInv' /\ contexts' = r.contexts /\ taken' = r.taken /\ executed' = TRUE  BY <2>1, <3>3, BecomesInv
      <3>5. ResumesStep
        <4>1. Len(contexts) \in Nat /\ Len(contexts') \in Nat  BY <1>3, <3>4 DEF CpuInv
        <4> QED  BY <3>3, <3>4, <4>1 DEF ResumesStep
      <3>6. taken' = <<"trace">> /\ taken' # <<>> /\ taken'[Len(taken')] = "trace"  BY <3>3, <3>4
      <3> QED  BY <1>1, <2>4, <3>4, <3>5, <3>6, TracedOne DEF StepRight
    <2>5. ASSUME r = done, done.thrown = NoThrow => ~sr.t PROVE StepRight
      <3>1. /\ CpuInv' /\ contexts' = done.contexts /\ taken' = <<>> /\ escaped' = done.thrown
        BY <1>0, <1>8, <2>1, <2>5, BecomesInv
      <3>2. pc' = done.pc /\ sr' = done.sr /\ ssp' = done.ssp /\ usp' = done.usp  BY <2>1, <2>5 DEF Becomes
      <3>3. Len(ssp) \in Nat  BY DEF CpuInv
      <3>4. ResumesStep  BY <1>8, <3>2, <3>3 DEF ResumesStep, Resumed
      <3>5. TracedStep
        <4>1. CASE escaped' = NoThrow  BY <1>1, <2>5, <3>1, <4>1, TracedOne
        <4>2. CASE escaped' # NoThrow  BY <4>2 DEF TracedStep
        <4> QED  BY <4>1, <4>2
      <3> QED  BY <3>1, <3>4, <3>5 DEF StepRight
    <2> QED  BY <2>2, <2>3, <2>4, <2>5
  <1> QED  BY <1>4, <1>5, <1>7, <1>8

LEMMA StepsAreRight ==
  ASSUME CpuInv, NEW inst \in Ordinary \cup Privileged, NEW new \in SRs, NEW level \in {0} \cup Levels,
         step(inst, new, level)
  PROVE  StepRight
  <1> DEFINE m == [Machine EXCEPT !.halted = FALSE]
             ran == Instruct(m, inst, new)
  <1>1. CASE Waiting
    <2>1. Becomes(Machine, level, FALSE)  BY <1>1 DEF step
    <2>2. Machine \in Machines /\ FramesAre(Machine.ssp, Machine.contexts) /\ Machine.contexts = contexts
      BY StepBegins DEF CpuInv
    <2>3. CpuInv' /\ contexts' = contexts  BY <2>1, <2>2, BecomesInv
    <2>4. ResumesStep
      <3>1. Len(contexts) \in Nat  BY DEF CpuInv
      <3> QED  BY <2>3, <3>1 DEF ResumesStep
    <2>5. TracedStep  BY <2>3 DEF TracedStep
    <2> QED  BY <2>3, <2>4, <2>5 DEF StepRight
  <1>2. /\ m \in Machines /\ m.pc = pc /\ m.sr = sr /\ m.ssp = ssp /\ m.usp = usp /\ m.ipl = ipl
        /\ m.contexts = contexts /\ m.taken = <<>> /\ m.thrown = NoThrow
    BY StepBegins
  <1>3. \/ Waiting
        \/ ipl > sr.mask /\ Ends(do_interrupt(m), sr.t, level, FALSE)
        \/ Ends(do_trap(m, "address error"), FALSE, level, FALSE)
        \/ Sensible(m, inst) /\ Ends(ran.m, sr.t /\ ran.trace, level, ran.executed)
    BY DEF step
  <1>4. FramesAre(m.ssp, m.contexts)  BY <1>2 DEF CpuInv
  <1>5. Grew(m, <<>>)
    <2>1. Len(contexts) \in Nat  BY DEF CpuInv
    <2> QED  BY <1>2, <1>4, <2>1 DEF Grew
  <1>6. sr \in SRs /\ sr.t \in BOOLEAN /\ sr.mask \in 0 .. 7  BY DEF CpuInv, SRs
  <1>7. "address error" \in Vectors \ {"trace"} /\ "privilege violation" \in Vectors \ {"trace"}
        /\ "illegal instruction" \in Vectors \ {"trace"}
    BY DEF Vectors
  <1> HIDE DEF m
  <1>8. ASSUME ipl > sr.mask, Ends(do_interrupt(m), sr.t, level, FALSE) PROVE StepRight
    <2>1. ipl \in Levels  BY <1>6, <1>8 DEF CpuInv
    <2>2. ipl \in 1 .. 7  BY <2>1, CpuAssumption
    <2>3. Level(ipl) \in Vectors \ {"trace"} /\ Level(ipl) \in {Level(l) : l \in Levels}
      BY <2>1, <2>2, LevelsAreVectors
    <2>4. ipl \in 0 .. 7  BY <2>2
    <2>5. Entered(m, Level(ipl), do_interrupt(m))
      <3>1. do_interrupt(m) = do_interrupt_impl(m, Level(ipl), ipl)  BY <1>2 DEF do_interrupt
      <3> HIDE DEF Level
      <3> QED  BY <1>2, <1>4, <2>3, <2>4, <3>1, ExceptionsEntered
    <2> HIDE DEF Level
    <2> QED  BY <1>2, <1>5, <1>6, <1>8, <2>3, <2>5, ExceptionStep
  <1>9. ASSUME NEW vec \in Vectors \ {"trace"}, Ends(do_trap(m, vec), FALSE, level, FALSE) PROVE StepRight
    <2>1. Entered(m, vec, do_trap(m, vec))  BY <1>2, <1>4, TrapEntered
    <2> QED  BY <1>2, <1>5, <1>9, <2>1, ExceptionStep
  <1>10. ASSUME Sensible(m, inst), Ends(ran.m, sr.t /\ ran.trace, level, ran.executed) PROVE StepRight
    <2>1. ASSUME NEW vec, ran = [m |-> do_trap(m, vec), executed |-> FALSE, trace |-> Traces(FALSE)]
          PROVE  Ends(do_trap(m, vec), FALSE, level, FALSE)
      <3>1. ran.m = do_trap(m, vec) /\ ran.executed = FALSE /\ ran.trace = FALSE  BY <2>1 DEF Traces
      <3>2. (sr.t /\ ran.trace) = FALSE  BY <3>1
      <3> HIDE DEF ran
      <3> QED  BY <1>10, <3>1, <3>2
    <2>2. CASE inst \in Privileged /\ ~m.sr.s
      <3>1. ran = [m |-> do_trap(m, "privilege violation"), executed |-> FALSE, trace |-> Traces(FALSE)]
        BY <2>2 DEF Instruct
      <3> QED  BY <1>7, <1>9, <2>1, <3>1
    <2>3. CASE ~(inst \in Privileged /\ ~m.sr.s) /\ inst = "illegal"
      <3>1. ran = [m |-> do_trap(m, "illegal instruction"), executed |-> FALSE, trace |-> Traces(FALSE)]
        BY <2>3 DEF Instruct
      <3> QED  BY <1>7, <1>9, <2>1, <3>1
    <2>4. CASE ~(inst \in Privileged /\ ~m.sr.s) /\ inst # "illegal"
      <3> DEFINE fetched == [m EXCEPT !.pc = Next1(m.pc)]
                 done == Handle(fetched, inst, new)
      <3>1. ran = [m |-> Caught(done), executed |-> done.thrown # Address, trace |-> Traces(done.thrown # Address)]
        BY <2>4 DEF Instruct
      <3>2. Next1(m.pc) \in PCs
        <4>1. m.pc \in PCs /\ RoutineLength \in Nat \ {0}  BY <1>2, CpuAssumption DEF Machines
        <4>2. (m.pc.n + 1) % RoutineLength \in Nat  BY <4>1 DEF PCs
        <4> QED  BY <4>1, <4>2 DEF Next1, PCs
      <3>3. /\ fetched \in Machines /\ fetched.sr = sr /\ fetched.ssp = ssp /\ fetched.usp = usp
            /\ fetched.contexts = contexts /\ fetched.taken = <<>>
        BY <1>2, <3>2 DEF Machines
      <3> HIDE DEF fetched
      <3>4. Sensible(fetched, inst)
        <4>1. m.sr = fetched.sr /\ m.ssp = fetched.ssp /\ m.usp = fetched.usp /\ m.contexts = fetched.contexts
          BY <1>2, <3>3
        <4> QED  BY <1>10, <4>1 DEF Sensible, Holds
      <3>5. inst \in Privileged => fetched.sr.s  BY <1>2, <2>4, <3>3
      <3>6. FramesAre(fetched.ssp, fetched.contexts)  BY <3>3 DEF CpuInv
      <3>7. Handled(fetched, done)  BY <2>4, <3>3, <3>4, <3>5, <3>6, InstructionsHandled
      <3>8. Ends(Caught(done), sr.t /\ done.thrown # Address, level, done.thrown # Address)
        <4>1. /\ ran.m = Caught(done) /\ ran.executed = (done.thrown # Address)
              /\ ran.trace = (done.thrown # Address)
          BY <3>1 DEF Traces
        <4> HIDE DEF ran, done
        <4> QED  BY <1>10, <4>1
      <3> HIDE DEF done
      <3> QED  BY <3>3, <3>7, <3>8, HandledStep
    <2> QED  BY <2>2, <2>3, <2>4
  <1> QED  BY <1>1, <1>3, <1>7, <1>8, <1>9, <1>10

LEMMA MoveStackRight ==
  ASSUME CpuInv, MoveStack
  PROVE  StepRight
  <1>1. UNCHANGED <<pc, sr, ssp, usp, ipl, halted, contexts>>  BY DEF MoveStack
  <1>2. CpuInv'  BY <1>1 DEF CpuInv
  <1>3. Len(contexts) \in Nat  BY DEF CpuInv
  <1> QED  BY <1>1, <1>2, <1>3 DEF StepRight, ResumesStep, TracedStep

LEMMA CpuStepRight ==
  ASSUME CpuInv, [CpuNext]_cpu_vars
  PROVE  CpuInv' /\ [ResumesStep /\ TracedStep]_cpu_vars
  <1>1. CASE AnyStep
    <2>1. PICK level \in {0} \cup Levels :
            \/ \E inst \in Ordinary \cup {"rte"} : step(inst, sr, level)
            \/ \E inst \in {"move to sr", "stop"}, new \in Statuses : step(inst, new, level)
      BY <1>1 DEF AnyStep
    <2>2. sr \in SRs /\ Statuses \subseteq SRs  BY CpuAssumption DEF CpuInv, SRs
    <2>3. /\ Ordinary \cup {"rte"} \subseteq Ordinary \cup Privileged
          /\ {"move to sr", "stop"} \subseteq Ordinary \cup Privileged
      BY DEF Privileged
    <2>4. StepRight  BY <2>1, <2>2, <2>3, StepsAreRight
    <2> QED  BY <2>4 DEF StepRight
  <1>2. CASE MoveStack  BY <1>2, MoveStackRight DEF StepRight
  <1>3. CASE UNCHANGED cpu_vars
    <2>1. CpuInv'  BY <1>3 DEF CpuInv, cpu_vars
    <2> QED  BY <1>3, <2>1
  <1> QED  BY <1>1, <1>2, <1>3 DEF CpuNext

(***************************************************************************)
(* RTE resumes what the newest exception has interrupted, and instructions *)
(* begun with the trace bit set, and only those, are traced once, for      *)
(* every status the guest writes, set of odd vectors and depth of nesting  *)
(* (cpu.cpp: step, do_interrupt_impl, RTE).                                *)
(***************************************************************************)
THEOREM ResumesAndTracesCorrect == CpuSpec => ResumesAndTraces
  <1>1. CpuInit => CpuInv  BY CpuInitially
  <1>2. CpuInv /\ [CpuNext]_cpu_vars => CpuInv'  BY CpuStepRight
  <1>3. CpuInv /\ [CpuNext]_cpu_vars => [ResumesStep /\ TracedStep]_cpu_vars  BY CpuStepRight
  <1> QED  BY <1>1, <1>2, <1>3, PTL DEF CpuSpec, ResumesAndTraces

-----------------------------------------------------------------------------
(* Hunks *)

(* What is computed in steps, each from the last result, exists *)
IsSteps(f, n, a, move) == f[0] = a /\ \A k \in 1 .. n : f[k] = move[k][f[k - 1]]

LEMMA StepsExist ==
  ASSUME NEW m \in Nat, NEW S, NEW a \in S, NEW move \in [1 .. m -> [S -> S]]
  PROVE  \E f \in [0 .. m -> S] : IsSteps(f, m, a, move)
  <1> USE DEF IsSteps
  <1> DEFINE Steps(f, n) == IsSteps(f, n, a, move)
             T == {n \in Nat : n <= m => \E f \in [0 .. n -> S] : Steps(f, n)}
  <1>1. 0 \in T
    <2> DEFINE f == [k \in 0 .. 0 |-> a]
    <2>1. f \in [0 .. 0 -> S] /\ Steps(f, 0)  OBVIOUS
    <2> QED  BY <2>1
  <1>2. ASSUME NEW n \in Nat, n \in T PROVE n + 1 \in T
    <2> SUFFICES ASSUME n + 1 <= m PROVE \E f \in [0 .. n + 1 -> S] : Steps(f, n + 1)
      OBVIOUS
    <2>1. PICK f \in [0 .. n -> S] : Steps(f, n)
      <3>1. n <= m  OBVIOUS
      <3> HIDE DEF Steps
      <3> QED  BY <1>2, <3>1
    <2> DEFINE g == [k \in 0 .. n + 1 |-> IF k = n + 1 THEN move[n + 1][f[n]] ELSE f[k]]
    <2>2. n \in 0 .. n /\ n + 1 \in 1 .. m /\ 0 \in 0 .. n + 1 /\ 0 # n + 1 /\ n + 1 \in 0 .. n + 1  OBVIOUS
    <2>3. \A k \in 0 .. n : k \in 0 .. n + 1 /\ k # n + 1  OBVIOUS
    <2>4. \A k \in 0 .. n : g[k] = f[k]  BY <2>3
    <2>5. g[n + 1] = move[n + 1][f[n]] /\ move[n + 1][f[n]] \in S
      <3>1. f[n] \in S  BY <2>2
      <3> QED  BY <2>2, <3>1
    <2>6. \A k \in 0 .. n + 1 : k = n + 1 \/ k \in 0 .. n  OBVIOUS
    <2>7. g \in [0 .. n + 1 -> S]  BY <2>5, <2>6
    <2> HIDE DEF g
    <2>8. \A k \in 1 .. n : k \in 0 .. n /\ k - 1 \in 0 .. n  OBVIOUS
    <2>9. \A k \in 1 .. n + 1 : k = n + 1 \/ k \in 1 .. n  OBVIOUS
    <2>10. n + 1 - 1 = n  OBVIOUS
    <2>11. Steps(g, n + 1)  BY <2>1, <2>2, <2>4, <2>5, <2>8, <2>9, <2>10
    <2> QED  BY <2>7, <2>11
  <1> HIDE DEF T
  <1>3. m \in T  BY <1>1, <1>2, AllNaturals
  <1> QED  BY <1>3 DEF T

(* A hunk takes at least its own longs and those before it *)
LEMMA AlignedRoom ==
  ASSUME NEW size \in Nat
  PROVE  Aligned(size) \in Int /\ Aligned(size) >= size + 2
  <1> DEFINE x == size + Overhead + HunkPage - 1
             q == x \div HunkPage
  <1>1. x \in Nat /\ HunkPage \in Nat /\ HunkPage > 0 /\ x = size + 2 + HunkPage - 1  BY HunksAssumption DEF Overhead
  <1>2. Aligned(size) = q * HunkPage  BY DEF Aligned
  <1> HIDE DEF x
  <1>3. q \in Int /\ x = HunkPage * q + (x % HunkPage) /\ x % HunkPage \in 0 .. HunkPage - 1
    BY <1>1
  <1> HIDE DEF q
  <1> DEFINE p == q * HunkPage
  <1>4. p \in Int /\ HunkPage * q = p  BY <1>1, <1>3
  <1> HIDE DEF p
  <1>5. p >= size + 2  BY <1>1, <1>3, <1>4
  <1> QED  BY <1>2, <1>4, <1>5 DEF p

LEMMA TableIs ==
  ASSUME table \in HunkTables
  PROVE  /\ HunkCount \in Nat /\ table.table_size \in Nat
         /\ \A i \in 1 .. HunkCount : table.hunks[i].size \in Nat /\ table.hunks[i].chip \in BOOLEAN
  <1>1. table.table_size \in Nat /\ table.hunks \in Seq([size : Nat, chip : BOOLEAN])  BY HunksAssumption
  <1>2. HunkCount \in Nat  BY <1>1 DEF HunkCount
  <1>3. \A i \in 1 .. HunkCount : table.hunks[i] \in [size : Nat, chip : BOOLEAN]
    BY <1>1, ElementOfSeq DEF HunkCount
  <1> QED  BY <1>1, <1>2, <1>3

PlaceStates == [at : Seq(Int), chip : Int, fast : Int]

LEMMA PlaceIs ==
  ASSUME NEW s \in PlaceStates, NEW h, h.size \in Nat, h.chip \in BOOLEAN
  PROVE  /\ PlaceHunk(s, h) \in PlaceStates
         /\ PlaceHunk(s, h).at = Append(s.at, (IF h.chip THEN s.chip ELSE s.fast) + 2)
         /\ PlaceHunk(s, h).chip = IF h.chip THEN s.chip + Aligned(h.size) ELSE s.chip
         /\ PlaceHunk(s, h).fast = IF h.chip THEN s.fast ELSE s.fast + Aligned(h.size)
  <1> DEFINE a == Aligned(h.size)
  <1>1. a \in Int  BY AlignedRoom
  <1>2. s = [at |-> s.at, chip |-> s.chip, fast |-> s.fast] /\ s.at \in Seq(Int) /\ s.chip \in Int /\ s.fast \in Int
    BY DEF PlaceStates
  <1>3. PlaceHunk(s, h) = IF h.chip THEN [s EXCEPT !.at = Append(@, s.chip + 2), !.chip = @ + a]
                      ELSE [s EXCEPT !.at = Append(@, s.fast + 2), !.fast = @ + a]
    BY DEF PlaceHunk, Overhead
  <1> HIDE DEF a
  <1>4. PlaceHunk(s, h) = IF h.chip THEN [at |-> Append(s.at, s.chip + 2), chip |-> s.chip + a, fast |-> s.fast]
                      ELSE [at |-> Append(s.at, s.fast + 2), chip |-> s.chip, fast |-> s.fast + a]
    BY <1>2, <1>3
  <1>5. Append(s.at, s.chip + 2) \in Seq(Int) /\ Append(s.at, s.fast + 2) \in Seq(Int)  BY <1>2
  <1>6. s.chip + a \in Int /\ s.fast + a \in Int  BY <1>1, <1>2
  <1>7. CASE h.chip  BY <1>2, <1>4, <1>5, <1>6, <1>7 DEF a, PlaceStates
  <1>8. CASE ~h.chip  BY <1>2, <1>4, <1>5, <1>6, <1>8 DEF a, PlaceStates
  <1> QED  BY <1>7, <1>8

LEMMA PlacedSteps ==
  ASSUME table \in HunkTables
  PROVE  /\ placed \in [0 .. HunkCount -> PlaceStates]
         /\ placed[0] = [at |-> <<>>, chip |-> ChipStart, fast |-> FastStart]
         /\ \A k \in 1 .. HunkCount : placed[k] = PlaceHunk(placed[k - 1], table.hunks[k])
  <1> DEFINE a == [at |-> <<>>, chip |-> ChipStart, fast |-> FastStart]
             move == [k \in 1 .. HunkCount |-> [s \in PlaceStates |-> PlaceHunk(s, table.hunks[k])]]
  <1>1. a \in PlaceStates  BY HunksAssumption DEF PlaceStates
  <1>2. HunkCount \in Nat  BY TableIs
  <1>3. /\ move \in [1 .. HunkCount -> [PlaceStates -> PlaceStates]]
        /\ \A k \in 1 .. HunkCount, s \in PlaceStates : move[k][s] = PlaceHunk(s, table.hunks[k])
    <2>1. \A k \in 1 .. HunkCount, s \in PlaceStates : PlaceHunk(s, table.hunks[k]) \in PlaceStates
      BY TableIs, PlaceIs
    <2> QED  BY <2>1
  <1> HIDE DEF move, a
  <1>4. PICK f \in [0 .. HunkCount -> PlaceStates] : f[0] = a /\ \A k \in 1 .. HunkCount : f[k] = move[k][f[k - 1]]
    <2>1. \E f \in [0 .. HunkCount -> PlaceStates] : IsSteps(f, HunkCount, a, move)
      BY <1>1, <1>2, <1>3, StepsExist
    <2> QED  BY <2>1 DEF IsSteps
  <1>5. \A k \in 1 .. HunkCount : k # 0 /\ k \in 0 .. HunkCount /\ k - 1 \in 0 .. HunkCount  BY <1>2
  <1>6. \A k \in 0 .. HunkCount : k = 0 \/ k \in 1 .. HunkCount  BY <1>2
  <1>7. \A k \in 0 .. HunkCount : f[k] = IF k = 0 THEN a ELSE PlaceHunk(f[k - 1], table.hunks[k])
    BY <1>3, <1>4, <1>5, <1>6
  <1>8. f = [k \in 0 .. HunkCount |-> IF k = 0 THEN a ELSE PlaceHunk(f[k - 1], table.hunks[k])]
    BY <1>4, <1>7
  <1>9. placed = CHOOSE g : g = [k \in 0 .. HunkCount |-> IF k = 0 THEN a ELSE PlaceHunk(g[k - 1], table.hunks[k])]
    BY DEF placed, a
  <1>10. placed = [k \in 0 .. HunkCount |-> IF k = 0 THEN a ELSE PlaceHunk(placed[k - 1], table.hunks[k])]
    BY <1>8, <1>9
  <1> DEFINE p == placed
  <1>11. p = [k \in 0 .. HunkCount |-> IF k = 0 THEN a ELSE PlaceHunk(p[k - 1], table.hunks[k])]
    BY <1>10
  <1> HIDE DEF p
  <1>12. \A k \in 0 .. HunkCount : p[k] = IF k = 0 THEN a ELSE PlaceHunk(p[k - 1], table.hunks[k])  BY <1>11
  <1>13. p[0] = a  BY <1>2, <1>12
  <1>14. \A k \in 1 .. HunkCount : p[k] = PlaceHunk(p[k - 1], table.hunks[k])  BY <1>5, <1>12
  <1> DEFINE T == {k \in Nat : k <= HunkCount => p[k] \in PlaceStates}
  <1>15. 0 \in T  BY <1>1, <1>13
  <1>16. ASSUME NEW k \in Nat, k \in T PROVE k + 1 \in T
    <2> SUFFICES ASSUME k + 1 <= HunkCount PROVE p[k + 1] \in PlaceStates
      OBVIOUS
    <2>1. k <= HunkCount /\ k + 1 \in 1 .. HunkCount /\ k + 1 - 1 = k  BY <1>2
    <2>2. p[k] \in PlaceStates  BY <1>16, <2>1
    <2>3. p[k + 1] = PlaceHunk(p[k], table.hunks[k + 1])  BY <1>14, <2>1
    <2> QED  BY <2>1, <2>2, <2>3, TableIs, PlaceIs
  <1> HIDE DEF T
  <1>17. \A k \in Nat : k \in T  BY <1>15, <1>16, AllNaturals
  <1>18. \A k \in 0 .. HunkCount : p[k] \in PlaceStates  BY <1>2, <1>17 DEF T
  <1>19. p \in [0 .. HunkCount -> PlaceStates]  BY <1>11, <1>18
  <1> QED  BY <1>13, <1>14, <1>19 DEF p, a

Longs(i) == table.hunks[i].size
InChip(i) == table.hunks[i].chip

(* Up to a hunk, those of a kind lie one after the other *)
PlacedRight(s, n) ==
  /\ Len(s.at) = n /\ s.fast >= FastStart
  /\ \A i \in 1 .. n : /\ s.at[i] + Longs(i) <= (IF InChip(i) THEN s.chip ELSE s.fast)
                       /\ ~InChip(i) => s.at[i] - 2 >= FastStart
  /\ \A i, j \in 1 .. n : i < j /\ InChip(i) = InChip(j) => s.at[i] + Longs(i) <= s.at[j] - 2

LEMMA PlacedRightStep ==
  ASSUME table \in HunkTables, NEW n \in Nat, n + 1 <= HunkCount,
         NEW s \in PlaceStates, PlacedRight(s, n)
  PROVE  PlacedRight(PlaceHunk(s, table.hunks[n + 1]), n + 1)
  <1> DEFINE t == PlaceHunk(s, table.hunks[n + 1])
             new == (IF InChip(n + 1) THEN s.chip ELSE s.fast) + 2
             room == Aligned(Longs(n + 1))
  <1>1. HunkCount \in Nat /\ n + 1 \in 1 .. HunkCount  BY TableIs
  <1>2. /\ \A i \in 1 .. n + 1 : Longs(i) \in Nat /\ InChip(i) \in BOOLEAN
        /\ room \in Int /\ room >= Longs(n + 1) + 2
    <2>1. \A i \in 1 .. n + 1 : i \in 1 .. HunkCount  BY <1>1
    <2>2. \A i \in 1 .. n + 1 : Longs(i) \in Nat /\ InChip(i) \in BOOLEAN  BY <2>1, TableIs DEF Longs, InChip
    <2> QED  BY <2>2, AlignedRoom
  <1>3. s.at \in Seq(Int) /\ s.chip \in Int /\ s.fast \in Int  BY DEF PlaceStates
  <1>4. /\ t.at = Append(s.at, new)
        /\ t.chip = IF InChip(n + 1) THEN s.chip + room ELSE s.chip
        /\ t.fast = IF InChip(n + 1) THEN s.fast ELSE s.fast + room
    BY <1>1, TableIs, PlaceIs DEF InChip, Longs
  <1>5. new \in Int  BY <1>2, <1>3
  <1> HIDE DEF t, new, room
  <1>6. Len(s.at) = n /\ \A i \in 1 .. n : s.at[i] \in Int
    BY <1>3, ElementOfSeq DEF PlacedRight
  <1>7. /\ Len(t.at) = n + 1 /\ t.at[n + 1] = new
        /\ \A i \in 1 .. n : t.at[i] = s.at[i]
    <2>1. \A i \in 1 .. n : Append(s.at, new)[i] = s.at[i]  BY <1>3, <1>5, <1>6, AppendProperties
    <2> QED  BY <1>3, <1>4, <1>5, <1>6, <2>1, AppendProperties
  <1>8. t.chip >= s.chip /\ t.fast >= s.fast /\ t.chip \in Int /\ t.fast \in Int  BY <1>2, <1>3, <1>4
  <1>9. new + Longs(n + 1) <= (IF InChip(n + 1) THEN t.chip ELSE t.fast)
    <2>1. CASE InChip(n + 1)  BY <1>2, <1>3, <1>4, <2>1 DEF new
    <2>2. CASE ~InChip(n + 1)  BY <1>2, <1>3, <1>4, <2>2 DEF new
    <2> QED  BY <2>1, <2>2
  <1>10. FastStart \in Nat  BY HunksAssumption
  <1>11. \A i \in 1 .. n + 1 : i \in 1 .. n \/ i = n + 1  OBVIOUS
  <1>12. ASSUME NEW i \in 1 .. n + 1
         PROVE  /\ t.at[i] + Longs(i) <= (IF InChip(i) THEN t.chip ELSE t.fast)
                /\ ~InChip(i) => t.at[i] - 2 >= FastStart
    <2>1. CASE i = n + 1
      <3>1. ~InChip(i) => new - 2 = s.fast  BY <1>3, <2>1 DEF new
      <3> QED  BY <1>7, <1>9, <2>1, <3>1 DEF PlacedRight
    <2>2. CASE i \in 1 .. n
      <3>1. t.at[i] = s.at[i] /\ s.at[i] \in Int /\ Longs(i) \in Nat  BY <1>2, <1>6, <1>7, <2>2
      <3>2. s.at[i] + Longs(i) <= (IF InChip(i) THEN s.chip ELSE s.fast) /\ (~InChip(i) => s.at[i] - 2 >= FastStart)
        BY <2>2 DEF PlacedRight
      <3>3. CASE InChip(i)  BY <1>3, <1>8, <3>1, <3>2, <3>3
      <3>4. CASE ~InChip(i)  BY <1>3, <1>8, <3>1, <3>2, <3>4
      <3> QED  BY <3>3, <3>4
    <2> QED  BY <1>11, <2>1, <2>2
  <1>13. ASSUME NEW i \in 1 .. n + 1, NEW j \in 1 .. n + 1, i < j, InChip(i) = InChip(j)
         PROVE  t.at[i] + Longs(i) <= t.at[j] - 2
    <2>0. i \in 1 .. n  BY <1>13
    <2>1. t.at[i] = s.at[i] /\ s.at[i] \in Int /\ Longs(i) \in Nat  BY <1>2, <1>6, <1>7, <2>0
    <2>2. CASE j = n + 1
      <3>1. s.at[i] + Longs(i) <= (IF InChip(i) THEN s.chip ELSE s.fast)  BY <2>0 DEF PlacedRight
      <3>2. new - 2 = IF InChip(i) THEN s.chip ELSE s.fast
        <4>1. CASE InChip(n + 1)  BY <1>3, <1>13, <2>2, <4>1 DEF new
        <4>2. CASE ~InChip(n + 1)  BY <1>3, <1>13, <2>2, <4>2 DEF new
        <4> QED  BY <4>1, <4>2
      <3> QED  BY <1>7, <2>1, <2>2, <3>1, <3>2
    <2>3. CASE j \in 1 .. n
      <3>1. t.at[j] = s.at[j]  BY <1>7, <2>3
      <3>2. s.at[i] + Longs(i) <= s.at[j] - 2  BY <1>13, <2>0, <2>3 DEF PlacedRight
      <3> QED  BY <2>1, <3>1, <3>2
    <2> QED  BY <1>11, <2>2, <2>3
  <1>14. t.fast >= FastStart  BY <1>3, <1>8, <1>10 DEF PlacedRight
  <1>15. PlacedRight(t, n + 1)  BY <1>7, <1>12, <1>13, <1>14 DEF PlacedRight
  <1> QED  BY <1>15 DEF t

(* The places of two hunks with what comes before them are apart *)
LEMMA PlacesApart ==
  ASSUME table \in HunkTables
  PROVE  /\ Places.at \in Seq(Int) /\ Len(Places.at) = HunkCount /\ Places.chip \in Int
         /\ \A i \in 1 .. HunkCount : Places.at[i] \in Int /\ Longs(i) \in Nat
         /\ Places.chip <= ChipEnd =>
              \A i, j \in 1 .. HunkCount : i # j =>
                 \/ Places.at[i] + Longs(i) <= Places.at[j] - 2
                 \/ Places.at[j] + Longs(j) <= Places.at[i] - 2
  <1> DEFINE T == {k \in Nat : k <= HunkCount => PlacedRight(placed[k], k)}
  <1>1. HunkCount \in Nat /\ HunkCount \in 0 .. HunkCount  BY TableIs
  <1>2. 0 \in T
    <2>1. placed[0] = [at |-> <<>>, chip |-> ChipStart, fast |-> FastStart] /\ FastStart \in Nat
      BY PlacedSteps, HunksAssumption
    <2> QED  BY <2>1 DEF PlacedRight
  <1>3. ASSUME NEW k \in Nat, k \in T PROVE k + 1 \in T
    <2> SUFFICES ASSUME k + 1 <= HunkCount PROVE PlacedRight(placed[k + 1], k + 1)
      OBVIOUS
    <2>1. k + 1 \in 1 .. HunkCount /\ k \in 0 .. HunkCount /\ k <= HunkCount /\ k + 1 - 1 = k  BY <1>1
    <2>2. placed[k] \in PlaceStates /\ placed[k + 1] = PlaceHunk(placed[k], table.hunks[k + 1])
      BY <2>1, PlacedSteps
    <2>3. PlacedRight(placed[k], k)  BY <1>3, <2>1
    <2> QED  BY <2>2, <2>3, PlacedRightStep
  <1> HIDE DEF T
  <1>4. HunkCount \in T  BY <1>1, <1>2, <1>3, AllNaturals
  <1>5. PlacedRight(Places, HunkCount)  BY <1>1, <1>4 DEF T, Places
  <1>6. Places \in PlaceStates  BY <1>1, PlacedSteps DEF Places
  <1> DEFINE s == Places
  <1>7. PlacedRight(s, HunkCount)  BY <1>5
  <1>8. s.at \in Seq(Int) /\ s.chip \in Int /\ s.fast \in Int  BY <1>6 DEF PlaceStates
  <1> HIDE DEF s
  <1>9. \A i \in 1 .. HunkCount : s.at[i] \in Int /\ Longs(i) \in Nat /\ InChip(i) \in BOOLEAN
    <2>1. \A i \in 1 .. HunkCount : s.at[i] \in Int  BY <1>7, <1>8, ElementOfSeq DEF PlacedRight
    <2> QED  BY <2>1, TableIs DEF Longs, InChip
  <1>10. ASSUME s.chip <= ChipEnd, NEW i \in 1 .. HunkCount, NEW j \in 1 .. HunkCount, i # j
         PROVE  s.at[i] + Longs(i) <= s.at[j] - 2 \/ s.at[j] + Longs(j) <= s.at[i] - 2
    <2>1. CASE InChip(i) = InChip(j)
      <3>1. i < j \/ j < i  BY <1>1, <1>10
      <3> QED  BY <1>7, <2>1, <3>1 DEF PlacedRight
    <2>2. ASSUME NEW k \in 1 .. HunkCount, NEW l \in 1 .. HunkCount, InChip(k), ~InChip(l)
          PROVE  s.at[k] + Longs(k) <= s.at[l] - 2
      <3>1. s.at[k] + Longs(k) <= s.chip /\ s.at[l] - 2 >= FastStart  BY <1>7, <2>2 DEF PlacedRight
      <3>2. s.at[k] \in Int /\ s.at[l] \in Int /\ Longs(k) \in Nat  BY <1>9
      <3>3. ChipEnd \in Nat /\ FastStart \in Nat /\ ChipEnd <= FastStart  BY HunksAssumption
      <3>4. s.chip <= ChipEnd /\ s.chip \in Int  BY <1>8, <1>10
      <3>5. \A a, b, c, d, x \in Int : a + b <= x /\ x <= c /\ c <= d => a + b <= d  OBVIOUS
      <3>6. s.at[k] + Longs(k) <= FastStart  BY <3>1, <3>2, <3>3, <3>4, <3>5
      <3> QED  BY <3>1, <3>2, <3>3, <3>6
    <2>3. InChip(i) \in BOOLEAN /\ InChip(j) \in BOOLEAN  BY <1>9
    <2> QED  BY <2>1, <2>2, <2>3
  <1>11. Len(s.at) = HunkCount  BY <1>7 DEF PlacedRight
  <1> QED  BY <1>8, <1>9, <1>10, <1>11 DEF s

(* Relocations between n hunks *)
Relocs(n) == [hunk : 1 .. n, ofs : Nat, ref : 1 .. n, rel : BOOLEAN]

SumOf(rs, addr, i, o) ==
  CHOOSE sum : sum = [n \in 0 .. Len(rs) |-> IF n = 0 THEN 0 ELSE sum[n - 1] + Term(rs[n], addr, i, o)]

LEMMA AddedIsSum ==
  ASSUME NEW rs, NEW addr, NEW i, NEW o
  PROVE  Added(rs, addr, i, o) = SumOf(rs, addr, i, o)[Len(rs)]
  BY DEF Added, SumOf

LEMMA TermIs ==
  ASSUME NEW m \in Nat, NEW r \in Relocs(m), NEW addr, \A k \in 1 .. m : addr[k] \in Int,
         NEW i \in 1 .. m, NEW o
  PROVE  Term(r, addr, i, o) \in Int
  <1>1. r.ref \in 1 .. m  BY DEF Relocs
  <1>2. addr[r.ref] \in Int /\ addr[i] \in Int  BY <1>1
  <1> QED  BY <1>2 DEF Term

LEMMA SumSteps ==
  ASSUME NEW m \in Nat, NEW rs \in Seq(Relocs(m)), NEW addr, \A k \in 1 .. m : addr[k] \in Int,
         NEW i \in 1 .. m, NEW o
  PROVE  LET f == SumOf(rs, addr, i, o)
         IN  /\ f \in [0 .. Len(rs) -> Int] /\ f[0] = 0
             /\ \A k \in 1 .. Len(rs) : f[k] = f[k - 1] + Term(rs[k], addr, i, o)
  <1> DEFINE l == Len(rs)
             term(k) == Term(rs[k], addr, i, o)
             move == [k \in 1 .. l |-> [s \in Int |-> s + term(k)]]
  <1>1. l \in Nat /\ \A k \in 1 .. l : rs[k] \in Relocs(m)  BY ElementOfSeq
  <1>2. \A k \in 1 .. l : term(k) \in Int  BY <1>1, TermIs
  <1> HIDE DEF l, term
  <1>3. move \in [1 .. l -> [Int -> Int]] /\ \A k \in 1 .. l, s \in Int : move[k][s] = s + term(k)
    BY <1>2
  <1> HIDE DEF move
  <1>4. PICK f \in [0 .. l -> Int] : f[0] = 0 /\ \A k \in 1 .. l : f[k] = move[k][f[k - 1]]
    <2>1. \E f \in [0 .. l -> Int] : IsSteps(f, l, 0, move)
      <3>1. 0 \in Int  OBVIOUS
      <3> QED  BY <1>1, <1>3, <3>1, StepsExist, Zenon
    <2> QED  BY <2>1 DEF IsSteps
  <1>5. \A k \in 1 .. l : k # 0 /\ k \in 0 .. l /\ k - 1 \in 0 .. l  BY <1>1
  <1>6. \A k \in 0 .. l : k = 0 \/ k \in 1 .. l  BY <1>1
  <1>7. \A k \in 0 .. l : f[k] = IF k = 0 THEN 0 ELSE f[k - 1] + term(k)
    BY <1>3, <1>4, <1>5, <1>6
  <1>8. f = [k \in 0 .. l |-> IF k = 0 THEN 0 ELSE f[k - 1] + term(k)]
    BY <1>4, <1>7
  <1> DEFINE p == SumOf(rs, addr, i, o)
  <1>9. p = CHOOSE g : g = [k \in 0 .. l |-> IF k = 0 THEN 0 ELSE g[k - 1] + term(k)]
    BY DEF SumOf, term, l
  <1> HIDE DEF p
  <1>10. p = [k \in 0 .. l |-> IF k = 0 THEN 0 ELSE p[k - 1] + term(k)]
    BY <1>8, <1>9
  <1>11. \A k \in 0 .. l : p[k] = IF k = 0 THEN 0 ELSE p[k - 1] + term(k)  BY <1>10
  <1>12. p[0] = 0  BY <1>1, <1>11
  <1>13. \A k \in 1 .. l : p[k] = p[k - 1] + term(k)  BY <1>5, <1>11
  <1> DEFINE T == {k \in Nat : k <= l => p[k] \in Int}
  <1>14. 0 \in T  BY <1>12
  <1>15. ASSUME NEW k \in Nat, k \in T PROVE k + 1 \in T
    <2> SUFFICES ASSUME k + 1 <= l PROVE p[k + 1] \in Int
      OBVIOUS
    <2>1. k <= l /\ k + 1 \in 1 .. l /\ k + 1 - 1 = k  BY <1>1
    <2>2. p[k] \in Int /\ term(k + 1) \in Int  BY <1>2, <1>15, <2>1
    <2> QED  BY <1>13, <2>1, <2>2
  <1> HIDE DEF T
  <1>16. \A k \in Nat : k \in T  BY <1>14, <1>15, AllNaturals
  <1>17. \A k \in 0 .. l : p[k] \in Int  BY <1>1, <1>16 DEF T
  <1>18. p \in [0 .. l -> Int]  BY <1>10, <1>17
  <1> QED  BY <1>12, <1>13, <1>18 DEF p, term, l

(* One relocation adds its own term; those of other hunks add nothing *)
LEMMA AddedOneMore ==
  ASSUME NEW m \in Nat, NEW rs \in Seq(Relocs(m)), NEW r \in Relocs(m),
         NEW addr, \A k \in 1 .. m : addr[k] \in Int, NEW i \in 1 .. m, NEW o
  PROVE  /\ Added(rs, addr, i, o) \in Int
         /\ Added(Append(rs, r), addr, i, o) = Added(rs, addr, i, o) + Term(r, addr, i, o)
  <1> DEFINE l == Len(rs)
             ss == Append(rs, r)
             p == SumOf(rs, addr, i, o)
             q == SumOf(ss, addr, i, o)
  <1>1. l \in Nat /\ ss \in Seq(Relocs(m)) /\ Len(ss) = l + 1 /\ ss[l + 1] = r /\ \A k \in 1 .. l : ss[k] = rs[k]
    BY AppendProperties
  <1>2. /\ p \in [0 .. l -> Int] /\ p[0] = 0
        /\ \A k \in 1 .. l : p[k] = p[k - 1] + Term(rs[k], addr, i, o)
    BY SumSteps
  <1>3. /\ q \in [0 .. Len(ss) -> Int] /\ q[0] = 0
        /\ \A k \in 1 .. Len(ss) : q[k] = q[k - 1] + Term(ss[k], addr, i, o)
    <2>1. ss \in Seq(Relocs(m))  BY <1>1
    <2> HIDE DEF ss
    <2> QED  BY <2>1, SumSteps
  <1>4. Added(rs, addr, i, o) = p[l] /\ Added(ss, addr, i, o) = q[Len(ss)]  BY AddedIsSum
  <1> HIDE DEF l, ss, p, q
  <1> DEFINE T == {k \in Nat : k <= l => q[k] = p[k]}
  <1>5. 0 \in T  BY <1>2, <1>3
  <1>6. ASSUME NEW k \in Nat, k \in T PROVE k + 1 \in T
    <2> SUFFICES ASSUME k + 1 <= l PROVE q[k + 1] = p[k + 1]
      OBVIOUS
    <2>1. k <= l /\ k + 1 \in 1 .. l /\ k + 1 \in 1 .. Len(ss) /\ k + 1 - 1 = k  BY <1>1
    <2>2. q[k] = p[k] /\ ss[k + 1] = rs[k + 1]  BY <1>1, <1>6, <2>1
    <2>3. q[k + 1] = q[k] + Term(ss[k + 1], addr, i, o) /\ p[k + 1] = p[k] + Term(rs[k + 1], addr, i, o)
      BY <1>2, <1>3, <2>1
    <2> QED  BY <2>2, <2>3
  <1> HIDE DEF T
  <1>7. l \in T  BY <1>1, <1>5, <1>6, AllNaturals
  <1>8. q[l] = p[l] /\ p[l] \in Int
    <2>1. l \in 0 .. l  BY <1>1
    <2> QED  BY <1>1, <1>2, <1>7, <2>1 DEF T
  <1>9. q[l + 1] = q[l] + Term(r, addr, i, o)
    <2>1. l + 1 \in 1 .. Len(ss) /\ l + 1 - 1 = l  BY <1>1
    <2> QED  BY <1>1, <1>3, <2>1
  <1> QED  BY <1>1, <1>4, <1>8, <1>9 DEF ss

LEMMA NothingAdded ==
  ASSUME NEW m \in Nat, NEW rs \in Seq(Relocs(m)), NEW addr, \A k \in 1 .. m : addr[k] \in Int,
         NEW i \in 1 .. m, NEW o, \A k \in 1 .. Len(rs) : rs[k].hunk # i
  PROVE  Added(rs, addr, i, o) = 0
  <1> DEFINE l == Len(rs)
             p == SumOf(rs, addr, i, o)
  <1>1. l \in Nat  OBVIOUS
  <1>2. p[0] = 0 /\ \A k \in 1 .. l : p[k] = p[k - 1] + Term(rs[k], addr, i, o)
    BY SumSteps
  <1>3. Added(rs, addr, i, o) = p[l]  BY AddedIsSum
  <1>4. \A k \in 1 .. l : Term(rs[k], addr, i, o) = 0  BY DEF Term
  <1> HIDE DEF l, p
  <1> DEFINE T == {k \in Nat : k <= l => p[k] = 0}
  <1>5. 0 \in T  BY <1>2
  <1>6. ASSUME NEW k \in Nat, k \in T PROVE k + 1 \in T
    <2> SUFFICES ASSUME k + 1 <= l PROVE p[k + 1] = 0
      OBVIOUS
    <2>1. k <= l /\ k + 1 \in 1 .. l /\ k + 1 - 1 = k  BY <1>1
    <2> QED  BY <1>2, <1>4, <1>6, <2>1
  <1> HIDE DEF T
  <1>7. l \in T  BY <1>1, <1>5, <1>6, AllNaturals
  <1> QED  BY <1>1, <1>3, <1>7 DEF T

Loading == {"between", "hunk", "loaded", "done"}

HunkRight(h, i, at) ==
  /\ h = [type |-> h.type, addr |-> at[i], loaded |-> h.loaded, data |-> h.data]
  /\ h.data \in [0 .. Longs(i) - 1 -> Int]

DataRight(h, i, rs, at) ==
  \A o \in 0 .. Longs(i) - 1 :
    h.data[o] = (IF h.type \in {"code", "data"} /\ o < h.loaded THEN 1 ELSE 0) + Added(rs, at, i, o)

HunksRight(hs, rs) ==
  /\ hs = [i \in 1 .. HunkCount |-> hs[i]] /\ rs \in Seq(Relocs(HunkCount))
  /\ \A i \in 1 .. HunkCount : HunkRight(hs[i], i, Places.at) /\ DataRight(hs[i], i, rs, Places.at)

HunkInv ==
  /\ table \in HunkTables
  /\ load_phase = "table" => table_index = 0 /\ relocations = <<>>
  /\ load_phase \in Loading =>
       Places.chip <= ChipEnd /\ HunkCount <= table.table_size /\ HunksRight(hunks, relocations)
  /\ load_phase \in {"between", "hunk"} =>
       /\ table_index \in Nat /\ table_index + Missed <= HunkCount
       /\ \A k \in 1 .. Len(relocations) : relocations[k].hunk <= table_index + Missed
  /\ load_phase = "done" /\ analyze => memory = written[HunkCount]

(* What follows from the table alone stays the same *)
PlacedFrom(t) ==
  CHOOSE p : p = [n \in 0 .. Len(t.hunks) |->
                    IF n = 0 THEN [at |-> <<>>, chip |-> ChipStart, fast |-> FastStart]
                    ELSE PlaceHunk(p[n - 1], t.hunks[n])]

LEMMA TableStays ==
  ASSUME UNCHANGED table
  PROVE  /\ HunkCount' = HunkCount /\ Places' = Places
         /\ \A hs, rs : HunksRight(hs, rs)' <=> HunksRight(hs, rs)
  <1>1. HunkCount' = HunkCount  BY DEF HunkCount
  <1>2. placed = PlacedFrom(table)  BY DEF placed, PlacedFrom, HunkCount
  <1>3. placed' = PlacedFrom(table')  BY DEF placed, PlacedFrom, HunkCount
  <1>4. Places' = Places  BY <1>1, <1>2, <1>3 DEF Places
  <1> QED  BY <1>1, <1>4 DEF HunksRight, HunkRight, DataRight, Longs

LEMMA AddressesIs ==
  ASSUME table \in HunkTables
  PROVE  Places.at = [i \in 1 .. HunkCount |-> Places.at[i]] /\ \A i \in 1 .. HunkCount : Places.at[i] \in Int
  <1> DEFINE at == Places.at
  <1>1. at \in Seq(Int) /\ Len(at) = HunkCount  BY PlacesApart
  <1>2. \A i \in 1 .. HunkCount : at[i] \in Int  BY PlacesApart
  <1> QED  BY <1>1, <1>2

LEMMA SizeIs ==
  ASSUME NEW i, NEW at, NEW h, HunkRight(h, i, at), Longs(i) \in Nat
  PROVE  Size(h) = Longs(i)
  <1>1. DOMAIN h.data = 0 .. Longs(i) - 1  BY DEF HunkRight
  <1>2. Cardinality(0 .. Longs(i) - 1) = Longs(i)
    <2>1. 0 \in Int /\ Longs(i) - 1 \in Int  OBVIOUS
    <2>2. Cardinality(0 .. Longs(i) - 1) = IF 0 > Longs(i) - 1 THEN 0 ELSE Longs(i) - 1 - 0 + 1
      BY <2>1, FS_Interval
    <2> QED  BY <2>2
  <1> QED  BY <1>1, <1>2 DEF Size

LEMMA ReadTableKeeps ==
  ASSUME HunkInv, read_table
  PROVE  HunkInv'
  <1> DEFINE at == Places.at
             fresh(i) == [type |-> "none", addr |-> at[i], loaded |-> 0, data |-> [o \in 0 .. Longs(i) - 1 |-> 0]]
  <1>1. /\ load_phase = "table" /\ UNCHANGED <<table, table_index, relocations>>
        /\ load_phase' \in {"failed", "between"} /\ relocations = <<>> /\ table_index = 0 /\ table \in HunkTables
        /\ load_phase' = "between" => ~(Places.chip > ChipEnd) /\ ~(HunkCount > table.table_size)
        /\ hunks' = [i \in 1 .. HunkCount |-> fresh(i)]
    BY DEF read_table, HunkInv, Longs
  <1>2. HunkCount \in Nat /\ table.table_size \in Nat  BY <1>1, TableIs
  <1>3. relocations \in Seq(Relocs(HunkCount)) /\ Len(relocations) = 0  BY <1>1
  <1>4. \A i \in 1 .. HunkCount : HunkRight(fresh(i), i, at) /\ DataRight(fresh(i), i, relocations, at)
    <2> SUFFICES ASSUME NEW i \in 1 .. HunkCount
                 PROVE  HunkRight(fresh(i), i, at) /\ DataRight(fresh(i), i, relocations, at)
      OBVIOUS
    <2>1. HunkRight(fresh(i), i, at)  BY DEF HunkRight
    <2>2. \A o : Added(relocations, at, i, o) = 0
      <3>1. \A k \in 1 .. HunkCount : at[k] \in Int  BY <1>1, PlacesApart
      <3>2. \A k \in 1 .. Len(relocations) : relocations[k].hunk # i  BY <1>3
      <3> HIDE DEF at
      <3> QED  BY <1>2, <1>3, <3>1, <3>2, NothingAdded
    <2>3. DataRight(fresh(i), i, relocations, at)  BY <2>2 DEF DataRight
    <2> QED  BY <2>1, <2>3
  <1> HIDE DEF fresh
  <1>5. \A i \in 1 .. HunkCount : hunks'[i] = fresh(i)  BY <1>1
  <1>6. HunksRight(hunks', relocations)  BY <1>1, <1>3, <1>4, <1>5 DEF HunksRight
  <1>7. HunksRight(hunks, relocations)'
    <2>1. HunksRight(hunks', relocations')  BY <1>1, <1>6
    <2> QED  BY <1>1, <2>1, TableStays
  <1>8. HunkCount' = HunkCount /\ Places' = Places  BY <1>1, TableStays
  <1>9. Places.chip \in Int /\ ChipEnd \in Int  BY <1>1, PlacesApart, HunksAssumption
  <1>10. CASE load_phase' = "failed"  BY <1>1, <1>10 DEF HunkInv, Loading
  <1>11. CASE load_phase' = "between"
    <2>1. (Places.chip <= ChipEnd /\ HunkCount <= table.table_size)'  BY <1>1, <1>2, <1>8, <1>9, <1>11
    <2>2. Missed' = 0  BY <1>11 DEF Missed
    <2>3. (table_index \in Nat /\ table_index + Missed <= HunkCount)'  BY <1>1, <1>2, <1>8, <2>2
    <2>4. Len(relocations') = 0  BY <1>1
    <2> QED  BY <1>1, <1>7, <1>11, <2>1, <2>3, <2>4 DEF HunkInv, Loading
  <1> QED  BY <1>1, <1>10, <1>11

(* What holds while the blocks are read *)
LEMMA WhileReading ==
  ASSUME HunkInv, load_phase \in {"between", "hunk"}
  PROVE  /\ table \in HunkTables /\ HunkCount \in Nat /\ table.table_size \in Nat
         /\ Places.chip <= ChipEnd /\ HunkCount <= table.table_size /\ HunksRight(hunks, relocations)
         /\ table_index \in Nat /\ Missed \in {0, 1} /\ table_index + Missed <= HunkCount
         /\ \A k \in 1 .. Len(relocations) : relocations[k].hunk <= table_index + Missed
         /\ \A i \in 1 .. HunkCount : Longs(i) \in Nat /\ Places.at[i] \in Int
  <1>1. table \in HunkTables  BY DEF HunkInv
  <1>2. \A i \in 1 .. HunkCount : Longs(i) \in Nat /\ Places.at[i] \in Int  BY <1>1, PlacesApart
  <1>3. Missed \in {0, 1}  BY DEF Missed
  <1> QED  BY <1>1, <1>2, <1>3, TableIs DEF HunkInv, Loading

(* A step while blocks are read leaves right hunks and the index right *)
LEMMA ReadingGoesOn ==
  ASSUME HunkInv, load_phase \in {"between", "hunk"}, UNCHANGED table,
         HunksRight(hunks', relocations') \/ load_phase' \notin Loading,
         load_phase' \in {"between", "hunk"} =>
           /\ table_index' \in Nat /\ table_index' + Missed' <= HunkCount
           /\ \A k \in 1 .. Len(relocations') : relocations'[k].hunk <= table_index' + Missed',
         load_phase' \notin {"table", "done"}
  PROVE  HunkInv'
  <1>1. HunkCount' = HunkCount /\ Places' = Places  BY TableStays
  <1>2. load_phase' \in Loading => (Places.chip <= ChipEnd /\ HunkCount <= table.table_size)'
    BY <1>1, WhileReading
  <1>3. load_phase' \in Loading => HunksRight(hunks, relocations)'
    BY TableStays
  <1>4. table' \in HunkTables  BY WhileReading
  <1>5. (load_phase \in {"between", "hunk"})' =>
          /\ (table_index \in Nat /\ table_index + Missed <= HunkCount)'
          /\ (\A k \in 1 .. Len(relocations) : relocations[k].hunk <= table_index + Missed)'
    BY <1>1
  <1> QED  BY <1>2, <1>3, <1>4, <1>5 DEF HunkInv, Loading

LEMMA BlockKeeps ==
  ASSUME HunkInv, NEW type \in {"code", "data", "bss"}, NEW longs \in Nat, Block(type, longs)
  PROVE  HunkInv'
  <1> DEFINE at == Places.at
             n == table_index + Missed + 1
             filled == [type |-> type, addr |-> at[n], loaded |-> longs,
                        data |-> [o \in 0 .. Longs(n) - 1 |-> IF type # "bss" /\ o < longs THEN 1 ELSE 0]]
  <1>1. load_phase \in {"between", "hunk"} /\ UNCHANGED <<table, relocations>>  BY DEF Block
  <1>2. CASE table_index + Missed = HunkCount
    <2>1. Then(HunkCount) /\ UNCHANGED hunks  BY <1>2 DEF Block
    <2>2. load_phase' = "loaded"
      <3>1. ~(HunkCount < HunkCount)  BY <1>1, WhileReading
      <3> QED  BY <2>1, <3>1 DEF Then
    <2>3. HunksRight(hunks', relocations')  BY <1>1, <2>1, WhileReading
    <2> QED  BY <1>1, <2>2, <2>3, ReadingGoesOn
  <1>3. CASE table_index + Missed # HunkCount
    <2>1. /\ table_index' = n - 1
          /\ load_phase' \in {"failed", "hunk"}
          /\ hunks' = [hunks EXCEPT ![n] =
               [type |-> type, addr |-> hunks[n].addr, loaded |-> longs,
                data |-> [o \in DOMAIN hunks[n].data |-> IF type # "bss" /\ o < longs THEN 1 ELSE 0]]]
      BY <1>3 DEF Block, LongInFile
    <2>2. n \in 1 .. HunkCount /\ HunkCount \in Nat  BY <1>1, <1>3, WhileReading
    <2>3. /\ hunks = [i \in 1 .. HunkCount |-> hunks[i]] /\ relocations \in Seq(Relocs(HunkCount))
          /\ \A i \in 1 .. HunkCount : /\ HunkRight(hunks[i], i, at) /\ DataRight(hunks[i], i, relocations, at)
                                       /\ Longs(i) \in Nat /\ at[i] \in Int
      BY <1>1, WhileReading DEF HunksRight
    <2> DEFINE h == hunks[n]
               g == [type |-> type, addr |-> h.addr, loaded |-> longs,
                     data |-> [o \in DOMAIN h.data |-> IF type # "bss" /\ o < longs THEN 1 ELSE 0]]
    <2>4. HunkRight(h, n, at)  BY <2>2, <2>3
    <2>5. g = filled
      <3>1. h.addr = at[n] /\ DOMAIN h.data = 0 .. Longs(n) - 1
        BY <2>4 DEF HunkRight
      <3> HIDE DEF h, at, n
      <3> QED  BY <3>1
    <2>6. HunkRight(filled, n, at)  BY DEF HunkRight
    <2>7. \A o : Added(relocations, at, n, o) = 0
      <3>1. \A k \in 1 .. Len(relocations) : relocations[k].hunk # n
        <4>1. \A k \in 1 .. Len(relocations) : relocations[k].hunk <= n - 1 /\ relocations[k].hunk \in Int
          <5>1. \A k \in 1 .. Len(relocations) : relocations[k] \in Relocs(HunkCount)  BY <2>3, ElementOfSeq
          <5>2. \A k \in 1 .. Len(relocations) : relocations[k].hunk \in 1 .. HunkCount  BY <5>1 DEF Relocs
          <5>3. n - 1 = table_index + Missed  BY <1>1, WhileReading
          <5> QED  BY <1>1, <2>2, <5>2, <5>3, WhileReading
        <4> QED  BY <2>2, <4>1
      <3>2. \A k \in 1 .. HunkCount : at[k] \in Int  BY <2>3
      <3> HIDE DEF at, n
      <3> QED  BY <2>2, <2>3, <3>1, <3>2, NothingAdded
    <2>8. DataRight(filled, n, relocations, at)
      <3>1. \A o \in 0 .. Longs(n) - 1 : filled.data[o] = IF type # "bss" /\ o < longs THEN 1 ELSE 0
        OBVIOUS
      <3>2. (type # "bss") <=> (type \in {"code", "data"})  OBVIOUS
      <3>3. filled.type = type /\ filled.loaded = longs  OBVIOUS
      <3> HIDE DEF filled, n
      <3> QED  BY <2>7, <3>1, <3>2, <3>3 DEF DataRight
    <2>9. hunks' = [i \in 1 .. HunkCount |-> IF i = n THEN filled ELSE hunks[i]]
      <3>1. hunks' = [hunks EXCEPT ![n] = g]  BY <2>1
      <3> HIDE DEF g, filled, n, h
      <3> QED  BY <2>2, <2>3, <2>5, <3>1
    <2> HIDE DEF filled, g, h, at, n
    <2>10. HunksRight(hunks', relocations')
      <3>1. relocations' = relocations  BY <1>1
      <3>2. \A i \in 1 .. HunkCount : HunkRight(hunks'[i], i, at) /\ DataRight(hunks'[i], i, relocations, at)
        BY <2>2, <2>3, <2>6, <2>8, <2>9
      <3> QED  BY <2>3, <2>9, <3>1, <3>2 DEF HunksRight, at
    <2>11. load_phase' \in {"between", "hunk"} => Missed' = 1 /\ table_index' = n - 1 /\ n - 1 + 1 = n
      BY <2>1, <2>2 DEF Missed
    <2>12. load_phase' \in {"between", "hunk"} =>
             /\ table_index' \in Nat /\ table_index' + Missed' <= HunkCount
             /\ \A k \in 1 .. Len(relocations') : relocations'[k].hunk <= table_index' + Missed'
      <3>1. \A k \in 1 .. Len(relocations) : relocations[k].hunk <= n
        <4>1. \A k \in 1 .. Len(relocations) : relocations[k] \in Relocs(HunkCount)  BY <2>3, ElementOfSeq
        <4>2. \A k \in 1 .. Len(relocations) : relocations[k].hunk \in Int  BY <4>1 DEF Relocs
        <4>3. n - 1 = table_index + Missed /\ n \in Int  BY <1>1, <2>2, WhileReading DEF n
        <4> QED  BY <1>1, <4>2, <4>3, WhileReading
      <3> QED  BY <1>1, <2>2, <2>11, <3>1
    <2>13. load_phase' \notin {"table", "done"}  BY <2>1
    <2> QED  BY <1>1, <2>10, <2>12, <2>13, ReadingGoesOn
  <1> QED  BY <1>2, <1>3

LEMMA RelocKeeps ==
  ASSUME HunkInv, NEW ref \in 1 .. HunkCount + 1, NEW ofs \in Nat, NEW rel \in BOOLEAN, Reloc(ref, ofs, rel)
  PROVE  HunkInv'
  <1> DEFINE at == Places.at
             n == table_index + 1
             size == Size(hunks[n])
             r == [hunk |-> n, ofs |-> ofs, ref |-> ref, rel |-> rel]
  <1>1. load_phase = "hunk" /\ Missed = 1 /\ UNCHANGED <<table, table_index>>  BY DEF Reloc, Missed
  <1>2. n \in 1 .. HunkCount /\ HunkCount \in Nat /\ table_index \in Nat  BY <1>1, WhileReading
  <1>3. /\ hunks = [i \in 1 .. HunkCount |-> hunks[i]] /\ relocations \in Seq(Relocs(HunkCount))
        /\ \A i \in 1 .. HunkCount : /\ HunkRight(hunks[i], i, at) /\ DataRight(hunks[i], i, relocations, at)
                                     /\ Longs(i) \in Nat /\ at[i] \in Int
    BY <1>1, WhileReading DEF HunksRight
  <1>4. size = Longs(n)  BY <1>2, <1>3, SizeIs
  <1>5. CASE load_phase' # "hunk"
    <2>1. load_phase' \in {"failed", "undefined"}  BY <1>1, <1>5 DEF Reloc
    <2> QED  BY <1>1, <2>1, ReadingGoesOn DEF Loading
  <1>6. CASE load_phase' = "hunk"
    <2>1. /\ ~(ref > HunkCount \/ (size > 0 /\ ofs >= size)) /\ size # 0
          /\ hunks' = [hunks EXCEPT ![n].data[ofs] = @ + hunks[ref].addr - (IF rel THEN hunks[n].addr ELSE 0)]
          /\ relocations' = Append(relocations, r)
      BY <1>6 DEF Reloc
    <2>2. ref \in 1 .. HunkCount /\ ofs \in 0 .. Longs(n) - 1
      <3>1. size \in Nat  BY <1>2, <1>3, <1>4
      <3> HIDE DEF size, n
      <3> QED  BY <1>2, <1>3, <1>4, <2>1, <3>1
    <2>3. r \in Relocs(HunkCount)  BY <1>2, <2>2 DEF Relocs
    <2> DEFINE h == hunks[n]
               d == [h.data EXCEPT ![ofs] = @ + (at[ref] - (IF rel THEN at[n] ELSE 0))]
               g == [type |-> h.type, addr |-> at[n], loaded |-> h.loaded, data |-> d]
    <2>4. /\ h = [type |-> h.type, addr |-> at[n], loaded |-> h.loaded, data |-> h.data]
          /\ h.data \in [0 .. Longs(n) - 1 -> Int] /\ hunks[ref].addr = at[ref] /\ h.addr = at[n]
      BY <1>2, <1>3, <2>2 DEF HunkRight
    <2>5. at[ref] \in Int /\ at[n] \in Int /\ h.data[ofs] \in Int
      <3> HIDE DEF at, n, h
      <3> QED  BY <1>2, <1>3, <2>2, <2>4
    <2>6. hunks' = [hunks EXCEPT ![n] = [h EXCEPT !.data = d]]
      <3>1. h.data[ofs] + at[ref] - (IF rel THEN at[n] ELSE 0) = h.data[ofs] + (at[ref] - (IF rel THEN at[n] ELSE 0))
        <4> HIDE DEF at, n, h
        <4> QED  BY <2>5
      <3>2. hunks' = [hunks EXCEPT ![n] = [hunks[n] EXCEPT !.data = [hunks[n].data EXCEPT ![ofs] =
                        hunks[n].data[ofs] + hunks[ref].addr - (IF rel THEN hunks[n].addr ELSE 0)]]]
        BY <2>1
      <3> HIDE DEF at, n
      <3> QED  BY <2>4, <3>1, <3>2
    <2>7. [h EXCEPT !.data = d] = g
      <3> HIDE DEF at, n, d, h
      <3>1. ASSUME NEW t, NEW a, NEW l, NEW x, h = [type |-> t, addr |-> a, loaded |-> l, data |-> x]
            PROVE  [h EXCEPT !.data = d] = [type |-> t, addr |-> a, loaded |-> l, data |-> d]
        BY <3>1
      <3> QED  BY <2>4, <3>1
    <2>8. hunks' = [i \in 1 .. HunkCount |-> IF i = n THEN g ELSE hunks[i]]
      <3> HIDE DEF g, n, h, d, at
      <3> QED  BY <1>2, <1>3, <2>6, <2>7
    <2>9. /\ d \in [0 .. Longs(n) - 1 -> Int]
          /\ \A o \in 0 .. Longs(n) - 1 :
               d[o] = h.data[o] + (IF o = ofs THEN at[ref] - (IF rel THEN at[n] ELSE 0) ELSE 0)
      <3> DEFINE x == at[ref] - (IF rel THEN at[n] ELSE 0)
                 l == Longs(n) - 1
      <3>1. x \in Int  BY <2>5
      <3>2. h.data \in [0 .. l -> Int] /\ ofs \in 0 .. l  BY <2>2, <2>4
      <3>3. d = [h.data EXCEPT ![ofs] = h.data[ofs] + x]  OBVIOUS
      <3> HIDE DEF h, at, n, x, l, d
      <3>4. \A o \in 0 .. l : h.data[o] \in Int  BY <3>2
      <3>5. h.data[ofs] + x \in Int  BY <3>1, <3>2, <3>4
      <3>6. d = [o \in 0 .. l |-> IF o = ofs THEN h.data[ofs] + x ELSE h.data[o]]  BY <3>2, <3>3
      <3>7. d \in [0 .. l -> Int]  BY <3>4, <3>5, <3>6
      <3>8. \A o \in 0 .. l : d[o] = h.data[o] + (IF o = ofs THEN x ELSE 0)  BY <3>4, <3>6
      <3> QED  BY <3>7, <3>8 DEF x, l
    <2>10. HunkRight(g, n, at)
      <3> HIDE DEF d, h, at, n
      <3> QED  BY <2>9 DEF HunkRight
    <2>11. \A i \in 1 .. HunkCount, o \in Nat :
             /\ Added(relocations, at, i, o) \in Int
             /\ Added(relocations', at, i, o) = Added(relocations, at, i, o) + Term(r, at, i, o)
      <3> SUFFICES ASSUME NEW i \in 1 .. HunkCount, NEW o \in Nat
                   PROVE  /\ Added(relocations, at, i, o) \in Int
                          /\ Added(Append(relocations, r), at, i, o) = Added(relocations, at, i, o) + Term(r, at, i, o)
        BY <2>1
      <3>1. \A k \in 1 .. HunkCount : at[k] \in Int  BY <1>3
      <3>2. relocations \in Seq(Relocs(HunkCount))  BY <1>3
      <3> HIDE DEF at, r
      <3> QED  BY <1>2, <2>3, <3>1, <3>2, AddedOneMore
    <2>12. \A i \in 1 .. HunkCount, o \in Nat :
             Term(r, at, i, o) = IF i = n /\ o = ofs THEN at[ref] - (IF rel THEN at[n] ELSE 0) ELSE 0
      <3> HIDE DEF at, n
      <3> QED  BY DEF Term
    <2>13. DataRight(g, n, relocations', at)
      <3> SUFFICES ASSUME NEW o \in 0 .. Longs(n) - 1
                   PROVE  g.data[o] = (IF g.type \in {"code", "data"} /\ o < g.loaded THEN 1 ELSE 0)
                                        + Added(relocations', at, n, o)
        BY DEF DataRight
      <3>1. o \in Nat  BY <1>2, <1>3
      <3>2. h.data[o] = (IF h.type \in {"code", "data"} /\ o < h.loaded THEN 1 ELSE 0) + Added(relocations, at, n, o)
        BY <1>2, <1>3 DEF DataRight
      <3>3. g.data[o] = h.data[o] + Term(r, at, n, o) /\ g.type = h.type /\ g.loaded = h.loaded
        <4>1. Term(r, at, n, o) = IF o = ofs THEN at[ref] - (IF rel THEN at[n] ELSE 0) ELSE 0
          BY <1>2, <2>12, <3>1
        <4>2. g.data = d /\ g.type = h.type /\ g.loaded = h.loaded  OBVIOUS
        <4> HIDE DEF g, d, h, at, r, n
        <4> QED  BY <2>9, <4>1, <4>2
      <3>4. Term(r, at, n, o) \in Int
        <4> HIDE DEF at, r, n
        <4> QED  BY <1>2, <2>5, <2>12, <3>1
      <3>5. /\ Added(relocations, at, n, o) \in Int
            /\ Added(relocations', at, n, o) = Added(relocations, at, n, o) + Term(r, at, n, o)
        BY <1>2, <2>11, <3>1
      <3> HIDE DEF g, h, d, at, r, n
      <3> DEFINE c == IF h.type \in {"code", "data"} /\ o < h.loaded THEN 1 ELSE 0
      <3>6. c \in Int /\ h.data[o] = c + Added(relocations, at, n, o)  BY <3>2
      <3>7. c = IF g.type \in {"code", "data"} /\ o < g.loaded THEN 1 ELSE 0  BY <3>3
      <3> HIDE DEF c
      <3>8. g.data[o] = c + Added(relocations', at, n, o)  BY <3>3, <3>4, <3>5, <3>6
      <3> QED  BY <3>7, <3>8
    <2>14. \A i \in 1 .. HunkCount : i # n => DataRight(hunks[i], i, relocations', at)
      <3> SUFFICES ASSUME NEW i \in 1 .. HunkCount, i # n, NEW o \in 0 .. Longs(i) - 1
                   PROVE  Added(relocations', at, i, o) = Added(relocations, at, i, o)
        BY <1>3 DEF DataRight
      <3>1. o \in Nat  BY <1>3
      <3>2. Term(r, at, i, o) = 0
        <4> HIDE DEF at, r, n
        <4> QED  BY <2>12, <3>1
      <3> HIDE DEF at, r, n
      <3> QED  BY <2>11, <3>1, <3>2
    <2> HIDE DEF g, h, d, at, n, r, size
    <2>15. HunksRight(hunks', relocations')
      <3>1. relocations' \in Seq(Relocs(HunkCount))  BY <1>3, <2>1, <2>3
      <3>2. \A i \in 1 .. HunkCount : HunkRight(hunks'[i], i, at) /\ DataRight(hunks'[i], i, relocations', at)
        BY <1>2, <1>3, <2>8, <2>10, <2>13, <2>14
      <3> QED  BY <2>8, <3>1, <3>2 DEF HunksRight, at
    <2>16. Missed' = 1 /\ table_index' = table_index  BY <1>1, <1>6 DEF Missed
    <2>17. \A k \in 1 .. Len(relocations') : relocations'[k].hunk <= table_index + 1
      <3>1. \A k \in 1 .. Len(relocations) : relocations[k].hunk <= table_index + 1  BY <1>1, WhileReading
      <3>2. r.hunk = table_index + 1  BY DEF r, n
      <3>3. Len(relocations') = Len(relocations) + 1 /\ Len(relocations) \in Nat
            /\ \A k \in 1 .. Len(relocations) : relocations'[k] = relocations[k]
        BY <1>3, <2>1, <2>3, AppendProperties
      <3>4. relocations'[Len(relocations) + 1] = r  BY <1>3, <2>1, <2>3, AppendProperties
      <3>5. \A k \in 1 .. Len(relocations) + 1 : k \in 1 .. Len(relocations) \/ k = Len(relocations) + 1
        BY <3>3
      <3>6. table_index + 1 <= table_index + 1  BY <1>2
      <3> QED  BY <3>1, <3>2, <3>3, <3>4, <3>5, <3>6
    <2>18. table_index' \in Nat /\ table_index' + Missed' <= HunkCount  BY <1>2, <2>16 DEF n
    <2> QED  BY <1>1, <1>6, <2>15, <2>16, <2>17, <2>18, ReadingGoesOn
  <1> QED  BY <1>5, <1>6

Memories == UNION {[D -> Int] : D \in SUBSET Int}

LEMMA OntoIs ==
  ASSUME NEW f \in Memories, NEW g \in Memories
  PROVE  /\ Onto(f, g) \in Memories /\ DOMAIN Onto(f, g) = DOMAIN f \cup DOMAIN g
         /\ \A x \in DOMAIN f : Onto(f, g)[x] = f[x]
         /\ \A x \in DOMAIN g \ DOMAIN f : Onto(f, g)[x] = g[x]
  <1>1. PICK D \in SUBSET Int : f \in [D -> Int]  BY DEF Memories
  <1>2. PICK E \in SUBSET Int : g \in [E -> Int]  BY DEF Memories
  <1>3. Onto(f, g) = [x \in D \cup E |-> IF x \in D THEN f[x] ELSE g[x]]  BY <1>1, <1>2 DEF Onto
  <1>4. Onto(f, g) \in [D \cup E -> Int]  BY <1>1, <1>2, <1>3
  <1>5. Onto(f, g) \in Memories  BY <1>4 DEF Memories
  <1> QED  BY <1>1, <1>2, <1>3, <1>5

(* What of a hunk is in its segment *)
LEMMA SegmentIs ==
  ASSUME table \in HunkTables, HunksRight(hunks, relocations), NEW i \in 1 .. HunkCount
  PROVE  /\ Segment(i) \in Memories
         /\ DOMAIN Segment(i) = Places.at[i] - 2 .. Places.at[i] + Longs(i) - 1
         /\ Segment(i)[Places.at[i] - 2] = Longs(i) + 2
         /\ Segment(i)[Places.at[i] - 1] = Link(i)
         /\ \A o \in 0 .. Longs(i) - 1 : Segment(i)[Places.at[i] + o] = hunks[i].data[o]
  <1> DEFINE a == Places.at[i]
             l == Longs(i)
             D == a - 2 .. a + l - 1
             h == hunks[i]
  <1>1. a \in Int /\ l \in Nat  BY PlacesApart
  <1>2. HunkRight(h, i, Places.at)  BY DEF HunksRight
  <1>3. h.addr = a /\ h.data \in [0 .. l - 1 -> Int]  BY <1>2 DEF HunkRight
  <1>4. Size(h) = l  BY <1>1, <1>2, SizeIs
  <1>5. Link(i) \in Int
    <2>1. HunkCount \in Nat  BY TableIs
    <2>2. i # HunkCount => i + 1 \in 1 .. HunkCount  BY <2>1
    <2>3. i # HunkCount => hunks[i + 1].addr = Places.at[i + 1] /\ Places.at[i + 1] \in Int
      BY <2>2, PlacesApart DEF HunksRight, HunkRight
    <2> QED  BY <2>3 DEF Link
  <1> DEFINE link == Link(i)
  <1>6. Segment(i) = [x \in h.addr - 2 .. h.addr + Size(h) - 1 |->
                        CASE x = h.addr - 2 -> Size(h) + 2
                          [] x = h.addr - 1 -> link
                          [] OTHER -> h.data[x - h.addr]]
    BY DEF Segment, Overhead
  <1>7. Segment(i) = [x \in D |-> CASE x = a - 2 -> l + 2 [] x = a - 1 -> link [] OTHER -> h.data[x - a]]
    BY <1>3, <1>4, <1>6
  <1>8. link \in Int  BY <1>5
  <1> DEFINE s == Segment(i)
  <1>9. s = [x \in D |-> CASE x = a - 2 -> l + 2 [] x = a - 1 -> link [] OTHER -> h.data[x - a]]  BY <1>7
  <1> HIDE DEF s, link, h, a, l
  <1>10. s = [x \in D |-> IF x = a - 2 THEN l + 2 ELSE IF x = a - 1 THEN link ELSE h.data[x - a]]
    <2>1. a - 2 # a - 1  BY <1>1
    <2>2. \A x \in D : (CASE x = a - 2 -> l + 2 [] x = a - 1 -> link [] OTHER -> h.data[x - a])
                         = IF x = a - 2 THEN l + 2 ELSE IF x = a - 1 THEN link ELSE h.data[x - a]
      BY <2>1
    <2> QED  BY <1>9, <2>2
  <1>11. a - 2 \in D /\ a - 1 \in D /\ a - 1 # a - 2  BY <1>1
  <1>12. \A o \in 0 .. l - 1 : a + o \in D /\ a + o # a - 2 /\ a + o # a - 1 /\ a + o - a = o  BY <1>1
  <1>13. \A x \in D : x # a - 2 /\ x # a - 1 => x - a \in 0 .. l - 1  BY <1>1
  <1>14. s[a - 2] = l + 2 /\ s[a - 1] = link  BY <1>10, <1>11
  <1>15. ASSUME NEW o \in 0 .. l - 1 PROVE s[a + o] = h.data[o]
    <2> DEFINE x == a + o
    <2>1. x \in D /\ x # a - 2 /\ x # a - 1 /\ x - a = o  BY <1>1
    <2> HIDE DEF D, x
    <2>2. s[x] = h.data[x - a]  BY <1>10, <2>1
    <2> QED  BY <2>1, <2>2 DEF x
  <1>16. s \in [D -> Int]
    <2>1. \A x \in D : (IF x = a - 2 THEN l + 2 ELSE IF x = a - 1 THEN link ELSE h.data[x - a]) \in Int
      BY <1>1, <1>3, <1>8, <1>13
    <2> QED  BY <1>10, <2>1
  <1>17. D \in SUBSET Int  BY <1>1
  <1>18. s \in Memories /\ DOMAIN s = D
    <2> HIDE DEF D
    <2> QED  BY <1>16, <1>17 DEF Memories
  <1> QED  BY <1>14, <1>15, <1>18 DEF s, a, l, link, h

WrittenFrom(t, hs) ==
  LET link(i) == IF i = Len(t.hunks) THEN 0 ELSE hs[i + 1].addr - 1
      segment(i) ==
        [a \in hs[i].addr - Overhead .. hs[i].addr + Size(hs[i]) - 1 |->
           CASE a = hs[i].addr - 2 -> Size(hs[i]) + Overhead
             [] a = hs[i].addr - 1 -> link(i)
             [] OTHER -> hs[i].data[a - hs[i].addr]]
  IN  CHOOSE m : m = [n \in 0 .. Len(t.hunks) |-> IF n = 0 THEN <<>> ELSE Onto(segment(n), m[n - 1])]

LEMMA WrittenStays ==
  ASSUME UNCHANGED <<table, hunks>>
  PROVE  written' = written
  <1>1. written = WrittenFrom(table, hunks)
    BY DEF written, WrittenFrom, Segment, Link, HunkCount
  <1>2. written' = WrittenFrom(table', hunks')
    BY DEF written, WrittenFrom, Segment, Link, HunkCount
  <1> QED  BY <1>1, <1>2

LEMMA WrittenSteps ==
  ASSUME table \in HunkTables, HunksRight(hunks, relocations)
  PROVE  /\ written \in [0 .. HunkCount -> Memories]
         /\ \A k \in 1 .. HunkCount : written[k] = Onto(Segment(k), written[k - 1])
  <1> DEFINE l == HunkCount
             move == [k \in 1 .. l |-> [s \in Memories |-> Onto(Segment(k), s)]]
  <1>1. l \in Nat  BY TableIs
  <1>2. <<>> \in Memories
    <2>1. <<>> \in [{} -> Int]  OBVIOUS
    <2> QED  BY <2>1 DEF Memories
  <1> HIDE DEF l
  <1>3. /\ move \in [1 .. l -> [Memories -> Memories]]
        /\ \A k \in 1 .. l, s \in Memories : move[k][s] = Onto(Segment(k), s)
    <2>1. \A k \in 1 .. l, s \in Memories : Onto(Segment(k), s) \in Memories
      BY SegmentIs, OntoIs DEF l
    <2> QED  BY <2>1
  <1> HIDE DEF move
  <1> DEFINE nothing == <<>>
  <1>4. nothing \in Memories  BY <1>2
  <1>5. written = CHOOSE g : g = [k \in 0 .. l |-> IF k = 0 THEN nothing ELSE Onto(Segment(k), g[k - 1])]
    BY DEF written, l
  <1> HIDE DEF nothing
  <1>6. PICK f \in [0 .. l -> Memories] : f[0] = nothing /\ \A k \in 1 .. l : f[k] = move[k][f[k - 1]]
    <2>1. \E f \in [0 .. l -> Memories] : IsSteps(f, l, nothing, move)
      BY <1>1, <1>3, <1>4, StepsExist
    <2> QED  BY <2>1 DEF IsSteps
  <1>7. \A k \in 1 .. l : k # 0 /\ k \in 0 .. l /\ k - 1 \in 0 .. l  BY <1>1
  <1>8. \A k \in 0 .. l : k = 0 \/ k \in 1 .. l  BY <1>1
  <1>9. \A k \in 0 .. l : f[k] = IF k = 0 THEN nothing ELSE Onto(Segment(k), f[k - 1])
    BY <1>3, <1>6, <1>7, <1>8
  <1>10. f = [k \in 0 .. l |-> IF k = 0 THEN nothing ELSE Onto(Segment(k), f[k - 1])]
    BY <1>6, <1>9
  <1> DEFINE p == written
  <1>11. p = [k \in 0 .. l |-> IF k = 0 THEN nothing ELSE Onto(Segment(k), p[k - 1])]
    BY <1>5, <1>10
  <1> HIDE DEF p
  <1>12. \A k \in 0 .. l : p[k] = IF k = 0 THEN nothing ELSE Onto(Segment(k), p[k - 1])  BY <1>11
  <1>13. p[0] = nothing  BY <1>1, <1>12
  <1>14. \A k \in 1 .. l : p[k] = Onto(Segment(k), p[k - 1])  BY <1>7, <1>12
  <1> DEFINE T == {k \in Nat : k <= l => p[k] \in Memories}
  <1>15. 0 \in T  BY <1>4, <1>13
  <1>16. ASSUME NEW k \in Nat, k \in T PROVE k + 1 \in T
    <2> SUFFICES ASSUME k + 1 <= l PROVE p[k + 1] \in Memories
      OBVIOUS
    <2>1. k <= l /\ k + 1 \in 1 .. l /\ k + 1 - 1 = k  BY <1>1
    <2>2. p[k] \in Memories  BY <1>16, <2>1
    <2>3. p[k + 1] = Onto(Segment(k + 1), p[k])  BY <1>14, <2>1
    <2>4. Segment(k + 1) \in Memories  BY <2>1, SegmentIs DEF l
    <2> QED  BY <2>2, <2>3, <2>4, OntoIs
  <1> HIDE DEF T
  <1>17. \A k \in Nat : k \in T  BY <1>15, <1>16, AllNaturals
  <1>18. \A k \in 0 .. l : p[k] \in Memories  BY <1>1, <1>17 DEF T
  <1>19. p \in [0 .. l -> Memories]  BY <1>11, <1>18
  <1> QED  BY <1>14, <1>19 DEF p, l

(* Where the places are apart no segment is written over *)
LEMMA WrittenWhole ==
  ASSUME table \in HunkTables, HunksRight(hunks, relocations), Places.chip <= ChipEnd,
         NEW i \in 1 .. HunkCount, NEW a \in DOMAIN Segment(i)
  PROVE  written[HunkCount][a] = Segment(i)[a]
  <1> DEFINE l == HunkCount
             Kept(k) == a \in DOMAIN written[k] /\ written[k][a] = Segment(i)[a]
             T == {k \in Nat : i <= k /\ k <= l => Kept(k)}
  <1>1. l \in Nat /\ i \in 1 .. l  BY TableIs
  <1>2. \A k \in 1 .. l : Segment(k) \in Memories
    BY SegmentIs
  <1>3. /\ \A k \in 0 .. l : written[k] \in Memories
        /\ \A k \in 1 .. l : written[k] = Onto(Segment(k), written[k - 1])
    BY WrittenSteps
  <1>4. \A k \in 1 .. l : k # i => a \notin DOMAIN Segment(k)
    <2> SUFFICES ASSUME NEW k \in 1 .. l, k # i PROVE a \notin DOMAIN Segment(k)
      OBVIOUS
    <2> DEFINE at == Places.at
    <2>1. at[i] \in Int /\ at[k] \in Int /\ Longs(i) \in Nat /\ Longs(k) \in Nat
          /\ (at[i] + Longs(i) <= at[k] - 2 \/ at[k] + Longs(k) <= at[i] - 2)
      BY PlacesApart
    <2>2. a \in at[i] - 2 .. at[i] + Longs(i) - 1  BY SegmentIs
    <2>3. DOMAIN Segment(k) = at[k] - 2 .. at[k] + Longs(k) - 1  BY SegmentIs
    <2> HIDE DEF at
    <2>4. a \notin at[k] - 2 .. at[k] + Longs(k) - 1  BY <2>1, <2>2
    <2> QED  BY <2>3, <2>4
  <1> HIDE DEF l
  <1>5. 0 \in T  BY <1>1
  <1>6. ASSUME NEW k \in Nat, k \in T PROVE k + 1 \in T
    <2> SUFFICES ASSUME i <= k + 1, k + 1 <= l PROVE Kept(k + 1)
      OBVIOUS
    <2>1. k + 1 \in 1 .. l /\ k \in 0 .. l /\ k + 1 - 1 = k /\ k <= l  BY <1>1
    <2>2. /\ Segment(k + 1) \in Memories /\ written[k] \in Memories
          /\ written[k + 1] = Onto(Segment(k + 1), written[k])
      BY <1>2, <1>3, <2>1
    <2> DEFINE s == Segment(k + 1)
               w == written[k]
               v == written[k + 1]
    <2>3. /\ DOMAIN v = DOMAIN s \cup DOMAIN w
          /\ \A x \in DOMAIN s : v[x] = s[x]
          /\ \A x \in DOMAIN w \ DOMAIN s : v[x] = w[x]
      <3>1. s \in Memories /\ w \in Memories /\ v = Onto(s, w)  BY <2>2
      <3> HIDE DEF s, w, v
      <3> QED  BY <3>1, OntoIs
    <2> HIDE DEF s, w, v
    <2>5. CASE k + 1 = i
      <3>1. Segment(i) = s  BY <2>5 DEF s
      <3>2. a \in DOMAIN s  BY <3>1
      <3> QED  BY <2>3, <3>1, <3>2 DEF v
    <2>4. CASE k + 1 # i
      <3>1. Kept(k)
        <4>1. i <= k  BY <1>1, <2>4
        <4> QED  BY <1>6, <2>1, <4>1
      <3>2. a \notin DOMAIN Segment(k + 1)  BY <1>4, <2>1, <2>4
      <3>3. a \in DOMAIN w /\ a \notin DOMAIN s /\ w[a] = Segment(i)[a]  BY <3>1, <3>2 DEF w, s
      <3> QED  BY <2>3, <3>3 DEF v
    <2> QED  BY <2>4, <2>5
  <1> HIDE DEF T
  <1>7. l \in T  BY <1>1, <1>5, <1>6, AllNaturals
  <1>8. i <= l  BY <1>1
  <1> QED  BY <1>1, <1>7, <1>8 DEF T, l

LEMMA EndKeeps ==
  ASSUME HunkInv, EndOfHunk
  PROVE  HunkInv'
  <1>1. load_phase = "hunk" /\ Missed = 1 /\ UNCHANGED <<table, hunks, relocations>>
        /\ (Then(table_index + 1) \/ Then(table.table_size))
    BY DEF EndOfHunk, Missed
  <1>2. HunksRight(hunks', relocations')  BY <1>1, WhileReading
  <1>3. load_phase' \in {"between", "loaded"}  BY <1>1 DEF Then
  <1>4. load_phase' \in {"between", "hunk"} => Missed' = 0 /\ table_index' = table_index + 1 /\ table_index' < HunkCount
    <2>1. ~(table.table_size < HunkCount)  BY <1>1, WhileReading
    <2>2. load_phase' \in {"between", "hunk"} => table_index' = table_index + 1 /\ table_index' < HunkCount
      BY <1>1, <2>1 DEF Then
    <2> QED  BY <1>3, <2>2 DEF Missed
  <1>5. load_phase' \in {"between", "hunk"} =>
          /\ table_index' \in Nat /\ table_index' + Missed' <= HunkCount
          /\ \A k \in 1 .. Len(relocations') : relocations'[k].hunk <= table_index' + Missed'
    <2> SUFFICES ASSUME load_phase' \in {"between", "hunk"}
                 PROVE  /\ table_index' \in Nat /\ table_index' + Missed' <= HunkCount
                        /\ \A k \in 1 .. Len(relocations') : relocations'[k].hunk <= table_index' + Missed'
      OBVIOUS
    <2>1. table_index \in Nat /\ HunkCount \in Nat  BY <1>1, WhileReading
    <2>2. table_index' + Missed' = table_index + Missed  BY <1>1, <1>4, <2>1
    <2>3. \A k \in 1 .. Len(relocations) : relocations[k].hunk <= table_index + Missed  BY <1>1, WhileReading
    <2> QED  BY <1>1, <1>4, <2>1, <2>2, <2>3
  <1> QED  BY <1>1, <1>2, <1>3, <1>5, ReadingGoesOn

LEMMA OthersKeep ==
  ASSUME HunkInv, EndOfFile \/ Refused \/ WriteHunks \/ Printed \/ UNCHANGED hunk_vars
  PROVE  HunkInv'
  <1>1. CASE EndOfFile
    <2>1. load_phase = "between" /\ load_phase' = "loaded" /\ UNCHANGED <<table, hunks, relocations>>
      BY <1>1 DEF EndOfFile
    <2>2. HunksRight(hunks', relocations')  BY <2>1, WhileReading
    <2> QED  BY <2>1, <2>2, ReadingGoesOn
  <1>2. CASE Refused
    <2>1. load_phase \in {"between", "hunk"} /\ load_phase' = "failed" /\ UNCHANGED table
      BY <1>2 DEF Refused
    <2> QED  BY <2>1, ReadingGoesOn DEF Loading
  <1>3. CASE WriteHunks \/ Printed
    <2>1. /\ load_phase = "loaded" /\ UNCHANGED <<table, hunks, relocations, analyze>>
          /\ load_phase' \in {"done", "failed", "undefined"}
          /\ analyze => memory' = written[HunkCount]
      BY <1>3 DEF WriteHunks, Printed
    <2>2. HunkCount' = HunkCount /\ Places' = Places /\ written' = written
      BY <2>1, TableStays, WrittenStays
    <2>3. HunksRight(hunks, relocations)'
      <3>1. HunksRight(hunks', relocations')  BY <2>1 DEF HunkInv, Loading
      <3> QED  BY <2>1, <3>1, TableStays
    <2>4. (Places.chip <= ChipEnd /\ HunkCount <= table.table_size)'  BY <2>1, <2>2 DEF HunkInv, Loading
    <2>5. table' \in HunkTables  BY <2>1 DEF HunkInv
    <2>6. (load_phase = "done" /\ analyze => memory = written[HunkCount])'  BY <2>1, <2>2
    <2> QED  BY <2>1, <2>3, <2>4, <2>5, <2>6 DEF HunkInv, Loading
  <1>4. CASE UNCHANGED hunk_vars
    <2>1. UNCHANGED <<load_phase, analyze, table, hunks, table_index, memory, relocations>>
      BY <1>4 DEF hunk_vars
    <2>2. HunkCount' = HunkCount /\ Places' = Places /\ written' = written /\ Missed' = Missed
      BY <2>1, TableStays, WrittenStays DEF Missed
    <2>3. load_phase \in Loading => HunksRight(hunks, relocations)'
      <3>1. load_phase \in Loading => HunksRight(hunks', relocations')  BY <2>1 DEF HunkInv
      <3> QED  BY <2>1, <3>1, TableStays
    <2> QED  BY <2>1, <2>2, <2>3 DEF HunkInv
  <1> QED  BY <1>1, <1>2, <1>3, <1>4

LEMMA HunkInvWhole ==
  ASSUME HunkInv
  PROVE  LoadedWhole
  <1> SUFFICES ASSUME load_phase = "done", analyze, NEW i \in 1 .. HunkCount
               PROVE  /\ \A o \in 0 .. Size(hunks[i]) - 1 :
                           memory[hunks[i].addr + o] = InFile(i, o) + Added(relocations, Addresses, i, o)
                      /\ memory[hunks[i].addr - 2] = Size(hunks[i]) + Overhead
                      /\ memory[hunks[i].addr - 1] = IF i = HunkCount THEN 0 ELSE hunks[i + 1].addr - 1
    BY DEF LoadedWhole
  <1> DEFINE a == Places.at[i]
             l == Longs(i)
  <1>1. table \in HunkTables /\ Places.chip <= ChipEnd /\ HunksRight(hunks, relocations) /\ memory = written[HunkCount]
    BY DEF HunkInv, Loading
  <1>2. HunkRight(hunks[i], i, Places.at) /\ DataRight(hunks[i], i, relocations, Places.at)
    BY <1>1 DEF HunksRight
  <1>3. a \in Int /\ l \in Nat  BY <1>1, PlacesApart
  <1>4. hunks[i].addr = a /\ Size(hunks[i]) = l
    <2>1. Size(hunks[i]) = Longs(i)  BY <1>2, <1>3, SizeIs
    <2>2. hunks[i].addr = a  BY <1>2 DEF HunkRight
    <2> QED  BY <2>1, <2>2
  <1>5. Addresses = Places.at
    <2>1. \A k \in 1 .. HunkCount : hunks[k].addr = Places.at[k]  BY <1>1 DEF HunksRight, HunkRight
    <2> QED  BY <1>1, <2>1, AddressesIs DEF Addresses
  <1>6. /\ DOMAIN Segment(i) = a - 2 .. a + l - 1
        /\ Segment(i)[a - 2] = l + 2 /\ Segment(i)[a - 1] = Link(i)
        /\ \A o \in 0 .. l - 1 : Segment(i)[a + o] = hunks[i].data[o]
    BY <1>1, SegmentIs
  <1>7. \A x \in DOMAIN Segment(i) : memory[x] = Segment(i)[x]  BY <1>1, WrittenWhole
  <1>8. \A o \in 0 .. l - 1 : hunks[i].data[o] = InFile(i, o) + Added(relocations, Addresses, i, o)
    BY <1>2, <1>5 DEF DataRight, InFile, LongInFile
  <1> HIDE DEF a, l
  <1>9. a - 2 \in a - 2 .. a + l - 1 /\ a - 1 \in a - 2 .. a + l - 1
        /\ \A o \in 0 .. l - 1 : a + o \in a - 2 .. a + l - 1
    BY <1>3
  <1>10. memory[a - 2] = l + 2 /\ memory[a - 1] = Link(i)  BY <1>6, <1>7, <1>9
  <1>11. \A o \in 0 .. l - 1 : memory[a + o] = hunks[i].data[o]  BY <1>6, <1>7, <1>9
  <1>12. \A o \in 0 .. l - 1 : memory[a + o] = InFile(i, o) + Added(relocations, Addresses, i, o)
    BY <1>8, <1>11
  <1> QED  BY <1>4, <1>10, <1>12 DEF Link, Overhead

(* hunk_file::read_hunk_exe leaves every hunk whole in memory: places are   *)
(* apart, what a block or a relocation changes is the hunk being read, and *)
(* a later block of the same hunk finds no relocation of it.               *)
THEOREM LoadedWholeCorrect == HunkSpec => []LoadedWhole
  <1>1. HunkInit => HunkInv
    BY DEF HunkInit, HunkInv, Loading
  <1>2. HunkInv /\ [HunkNext]_hunk_vars => HunkInv'
    <2> SUFFICES ASSUME HunkInv, [HunkNext]_hunk_vars PROVE HunkInv'
      OBVIOUS
    <2>1. CASE read_table  BY <2>1, ReadTableKeeps
    <2>2. ASSUME NEW type \in {"code", "data", "bss"}, NEW longs \in BlockLengths, Block(type, longs)
          PROVE  HunkInv'
      <3>1. longs \in Nat  BY HunksAssumption
      <3> QED  BY <2>2, <3>1, BlockKeeps
    <2>3. ASSUME NEW ref \in 1 .. HunkCount + 1, NEW ofs \in RelocOffsets, NEW rel \in BOOLEAN, Reloc(ref, ofs, rel)
          PROVE  HunkInv'
      <3>1. ofs \in Nat  BY HunksAssumption
      <3> QED  BY <2>3, <3>1, RelocKeeps
    <2>4. CASE EndOfHunk  BY <2>4, EndKeeps
    <2>5. CASE EndOfFile \/ Refused \/ WriteHunks \/ Printed \/ UNCHANGED hunk_vars  BY <2>5, OthersKeep
    <2> QED  BY <2>1, <2>2, <2>3, <2>4, <2>5 DEF HunkNext
  <1>3. HunkInv => LoadedWhole  BY HunkInvWhole
  <1> QED  BY <1>1, <1>2, <1>3, PTL DEF HunkSpec

=============================================================================
