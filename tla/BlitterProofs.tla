--------------------------- MODULE BlitterProofs ---------------------------
(***************************************************************************)
(* Proofs about Blitter, for any channel sets, sizes, moduli and           *)
(* contention, and for software that programs the blitter when it has      *)
(* stopped.                                                                *)
(***************************************************************************)
EXTENDS Blitter, SequenceTheorems, TLAPS

-----------------------------------------------------------------------------
(* The CPU and the count that makes the blitter give way *)

BlockingInv ==
  /\ bltblockingcpu \in 0 .. 3
  /\ lost \in 0 .. 2
  /\ cpu = "wait" => lost <= bltblockingcpu

LEMMA BlockingInit == Init => BlockingInv
  BY DEF Init, BlockingInv

LEMMA BlockingStep == BlockingInv /\ [Next]_vars => BlockingInv'
  <1> SUFFICES ASSUME BlockingInv, [Next]_vars
               PROVE  BlockingInv'
    OBVIOUS
  <1> USE DEF BlockingInv
  <1>1. CASE OddTick
    BY <1>1 DEF OddTick
  <1>2. ASSUME NEW taken \in BOOLEAN, EvenTick(taken)
        PROVE  BlockingInv'
    <2>1. Blocking \in 0 .. 3 /\ bltblockingcpu <= Blocking
      BY DEF Blocking
    <2>2. bus' = "blitter" => Blocking < 3
      <3> SUFFICES ASSUME bus' = "blitter"
                   PROVE  Blocking < 3
        OBVIOUS
      <3>1. do_blitter(Blocking, TRUE)
        BY <1>2 DEF EvenTick
      <3> QED  BY <3>1 DEF do_blitter
    <2>3. bltblockingcpu' = IF bus' = "free" THEN 0 ELSE Blocking
      BY <1>2 DEF EvenTick, BlockingAfter
    <2>4. /\ cpu' = IF cpu = "run" THEN "run"
                    ELSE IF bus' = "free" THEN "granted" ELSE "wait"
          /\ lost' = IF cpu # "wait" THEN 0
                     ELSE IF bus' = "blitter" /\ "BLITHOG" \notin dmacon /\ lost < 3
                     THEN lost + 1 ELSE lost
      BY <1>2 DEF EvenTick, CpuSeesCycle
    <2>5. CASE cpu = "wait" /\ bus' = "blitter" /\ "BLITHOG" \notin dmacon
      <3>1. Blocking = bltblockingcpu + 1  BY <2>2, <2>5 DEF Blocking
      <3> QED  BY <3>1, <2>2, <2>3, <2>4, <2>5
    <2>6. CASE ~(cpu = "wait" /\ bus' = "blitter" /\ "BLITHOG" \notin dmacon)
      BY <2>1, <2>3, <2>4, <2>6
    <2> QED  BY <2>5, <2>6
  <1>3. CASE Request
    BY <1>3 DEF Request, busVars
  <1>4. CASE Access
    <2>1. cpu' = "run" /\ lost' = lost
      BY <1>4 DEF Access
    <2>2. bltblockingcpu' \in {0, bltblockingcpu}
      BY <1>4 DEF Access, WriteBltsize, blitstart, WriteBltcon0, WriteBltcon1,
                  WriteBltpt, WriteDmacon, OtherAccess, busVars
    <2> QED  BY <2>1, <2>2
  <1>5. CASE UNCHANGED vars
    BY <1>5 DEF vars, busVars
  <1> QED  BY <1>1, <1>2, <1>3, <1>4, <1>5 DEF Next, Tick

(***************************************************************************)
(* Without BLITHOG, the blitter takes at most two cycles from a waiting    *)
(* CPU (bltblockingcpu in do_blitter), whatever software does.             *)
(***************************************************************************)
THEOREM CpuLosesAtMostTwoCorrect == Spec => []CpuLosesAtMostTwo
  <1>1. BlockingInv => CpuLosesAtMostTwo
    BY DEF BlockingInv, CpuLosesAtMostTwo
  <1> QED  BY <1>1, BlockingInit, BlockingStep, PTL DEF Spec
(* A diagram of the channels u: each has one cycle, the others none *)
Serves(d, u) ==
  /\ d \in Seq(Channels \cup {"I"}) /\ Len(d) > 0
  /\ \A c \in Channels : c \in u <=> \E i \in 1 .. Len(d) : d[i] = c
  /\ \A i, k \in 1 .. Len(d) : d[i] = d[k] /\ d[i] # "I" => i = k

LEMMA ChannelSets ==
  SUBSET Channels =
    {{}, {"D"}, {"C"}, {"C", "D"},
     {"B"}, {"B", "D"}, {"B", "C"}, {"B", "C", "D"},
     {"A"}, {"A", "D"}, {"A", "C"}, {"A", "C", "D"},
     {"A", "B"}, {"A", "B", "D"}, {"A", "B", "C"}, {"A", "B", "C", "D"}}
  BY DEF Channels

LEMMA AreaDiagrams ==
  ASSUME NEW u \in SUBSET Channels
  PROVE  Serves(blitcycles(u), u)
  <1>1. CASE u = {}
    <2>1. Serves(<<"I">>, {})  BY DEF Serves, Channels
    <2>2. blitcycles(u) = <<"I">>  BY <1>1 DEF blitcycles
    <2> QED  BY <1>1, <2>1, <2>2
  <1>2. CASE u = {"D"}
    <2>1. Serves(<<"D", "I">>, {"D"})  BY DEF Serves, Channels
    <2>2. blitcycles(u) = <<"D", "I">>  BY <1>2 DEF blitcycles
    <2> QED  BY <1>2, <2>1, <2>2
  <1>3. CASE u = {"C"}
    <2>1. Serves(<<"C", "I">>, {"C"})  BY DEF Serves, Channels
    <2>2. blitcycles(u) = <<"C", "I">>  BY <1>3 DEF blitcycles
    <2> QED  BY <1>3, <2>1, <2>2
  <1>4. CASE u = {"C", "D"}
    <2>1. Serves(<<"C", "D", "I">>, {"C", "D"})  BY DEF Serves, Channels
    <2>2. blitcycles(u) = <<"C", "D", "I">>  BY <1>4 DEF blitcycles
    <2> QED  BY <1>4, <2>1, <2>2
  <1>5. CASE u = {"B"}
    <2>1. Serves(<<"B", "I", "I">>, {"B"})  BY DEF Serves, Channels
    <2>2. blitcycles(u) = <<"B", "I", "I">>  BY <1>5 DEF blitcycles
    <2> QED  BY <1>5, <2>1, <2>2
  <1>6. CASE u = {"B", "D"}
    <2>1. Serves(<<"B", "D", "I">>, {"B", "D"})  BY DEF Serves, Channels
    <2>2. blitcycles(u) = <<"B", "D", "I">>  BY <1>6 DEF blitcycles
    <2> QED  BY <1>6, <2>1, <2>2
  <1>7. CASE u = {"B", "C"}
    <2>1. Serves(<<"B", "C", "I">>, {"B", "C"})  BY DEF Serves, Channels
    <2>2. blitcycles(u) = <<"B", "C", "I">>  BY <1>7 DEF blitcycles
    <2> QED  BY <1>7, <2>1, <2>2
  <1>8. CASE u = {"B", "C", "D"}
    <2>1. Serves(<<"B", "C", "D", "I">>, {"B", "C", "D"})  BY DEF Serves, Channels
    <2>2. blitcycles(u) = <<"B", "C", "D", "I">>  BY <1>8 DEF blitcycles
    <2> QED  BY <1>8, <2>1, <2>2
  <1>9. CASE u = {"A"}
    <2>1. Serves(<<"A", "I">>, {"A"})  BY DEF Serves, Channels
    <2>2. blitcycles(u) = <<"A", "I">>  BY <1>9 DEF blitcycles
    <2> QED  BY <1>9, <2>1, <2>2
  <1>10. CASE u = {"A", "D"}
    <2>1. Serves(<<"A", "D">>, {"A", "D"})  BY DEF Serves, Channels
    <2>2. blitcycles(u) = <<"A", "D">>  BY <1>10 DEF blitcycles
    <2> QED  BY <1>10, <2>1, <2>2
  <1>11. CASE u = {"A", "C"}
    <2>1. Serves(<<"A", "C">>, {"A", "C"})  BY DEF Serves, Channels
    <2>2. blitcycles(u) = <<"A", "C">>  BY <1>11 DEF blitcycles
    <2> QED  BY <1>11, <2>1, <2>2
  <1>12. CASE u = {"A", "C", "D"}
    <2>1. Serves(<<"A", "C", "D">>, {"A", "C", "D"})  BY DEF Serves, Channels
    <2>2. blitcycles(u) = <<"A", "C", "D">>  BY <1>12 DEF blitcycles
    <2> QED  BY <1>12, <2>1, <2>2
  <1>13. CASE u = {"A", "B"}
    <2>1. Serves(<<"A", "B", "I">>, {"A", "B"})  BY DEF Serves, Channels
    <2>2. blitcycles(u) = <<"A", "B", "I">>  BY <1>13 DEF blitcycles
    <2> QED  BY <1>13, <2>1, <2>2
  <1>14. CASE u = {"A", "B", "D"}
    <2>1. Serves(<<"A", "B", "D">>, {"A", "B", "D"})  BY DEF Serves, Channels
    <2>2. blitcycles(u) = <<"A", "B", "D">>  BY <1>14 DEF blitcycles
    <2> QED  BY <1>14, <2>1, <2>2
  <1>15. CASE u = {"A", "B", "C"}
    <2>1. Serves(<<"A", "B", "C">>, {"A", "B", "C"})  BY DEF Serves, Channels
    <2>2. blitcycles(u) = <<"A", "B", "C">>  BY <1>15 DEF blitcycles
    <2> QED  BY <1>15, <2>1, <2>2
  <1>16. CASE u = {"A", "B", "C", "D"}
    <2>1. Serves(<<"A", "B", "C", "D">>, {"A", "B", "C", "D"})  BY DEF Serves, Channels
    <2>2. blitcycles(u) = <<"A", "B", "C", "D">>  BY <1>16 DEF blitcycles
    <2> QED  BY <1>16, <2>1, <2>2
  <1> QED  BY ChannelSets, <1>1, <1>2, <1>3, <1>4, <1>5, <1>6, <1>7, <1>8, <1>9, <1>10, <1>11, <1>12, <1>13, <1>14, <1>15, <1>16

LEMMA FillDiagrams ==
  ASSUME NEW u \in SUBSET Channels
  PROVE  Serves(blitcycles_fill(u), u)
  <1>1. CASE u = {"D"}
    <2>1. Serves(<<"I", "D", "I">>, {"D"})  BY DEF Serves, Channels
    <2>2. blitcycles_fill(u) = <<"I", "D", "I">>  BY <1>1 DEF blitcycles_fill
    <2> QED  BY <1>1, <2>1, <2>2
  <1>2. CASE u = {"B", "D"}
    <2>1. Serves(<<"I", "B", "D", "I">>, {"B", "D"})  BY DEF Serves, Channels
    <2>2. blitcycles_fill(u) = <<"I", "B", "D", "I">>  BY <1>2 DEF blitcycles_fill
    <2> QED  BY <1>2, <2>1, <2>2
  <1>3. CASE u = {"A", "D"}
    <2>1. Serves(<<"A", "D", "I">>, {"A", "D"})  BY DEF Serves, Channels
    <2>2. blitcycles_fill(u) = <<"A", "D", "I">>  BY <1>3 DEF blitcycles_fill
    <2> QED  BY <1>3, <2>1, <2>2
  <1>4. CASE u = {"A", "B", "D"}
    <2>1. Serves(<<"A", "B", "D", "I">>, {"A", "B", "D"})  BY DEF Serves, Channels
    <2>2. blitcycles_fill(u) = <<"A", "B", "D", "I">>  BY <1>4 DEF blitcycles_fill
    <2> QED  BY <1>4, <2>1, <2>2
  <1>5. CASE u \notin {{"D"}, {"B", "D"}, {"A", "D"}, {"A", "B", "D"}}
    BY <1>5, AreaDiagrams DEF blitcycles_fill
  <1> QED  BY <1>1, <1>2, <1>3, <1>4, <1>5

LEMMA Cycles ==
  ASSUME use \in SUBSET Channels
  PROVE  Serves(cycles, use)
  BY AreaDiagrams, FillDiagrams DEF cycles

-----------------------------------------------------------------------------
(* The blit under way *)

Active == blitstate # "stopped"

BlitTypes ==
  /\ use \in SUBSET Channels /\ mode \in {"area", "fill", "line", "onedot"}
  /\ pt \in [Channels -> Int] /\ bltdpt \in Int
  /\ blth \in Nat /\ bltx \in Nat /\ bltcycle \in Nat /\ bltdat \in Nat
  /\ bltdwrite \in BOOLEAN
  /\ blitstate \in {"stopped", "starting", "running", "final"}
  /\ blitdelay \in Nat
  /\ job \in [n : Nat, w : Nat \ {0}, h : Nat, at : [Channels -> Int],
              use : SUBSET Channels, line : BOOLEAN]
  /\ written \in Seq(Int \X Nat)

(* The job is the blit that is programmed, until it has stopped             *)
JobLinked ==
  /\ Active =>
       /\ use = job.use /\ line = job.line /\ bltw = job.w
       /\ job.n > 0
       /\ blth <= job.h
       /\ bltcycle < period
       /\ blth = 0 <=> blitstate = "final"
  /\ blitstate = "starting" =>
       /\ blitdelay > 0
       /\ blth = job.h /\ bltx = 0 /\ bltcycle = 0 /\ ~bltdwrite /\ bltdat = 0
       /\ pt = job.at /\ written = <<>>

JobInv == BlitTypes /\ JobLinked

(* BUSY and the interrupt, of an area one period before the end *)
BusyInv ==
  /\ blitstate \in {"starting", "running"} => finished = 0
  /\ blitstate = "final" => finished = IF job.line THEN 0 ELSE 1
  /\ blitstate = "stopped" => finished = IF job.n > 0 THEN 1 ELSE 0
  /\ "BLTBUSY" \in dmacon <=> finished = 0 /\ job.n > 0

Row == job.h - blth

(* The channel had its cycle in this period *)
Served(c) == \E i \in 1 .. bltcycle : cycles[i] = c

(* Each pointer is where the rectangle's words done so far leave it *)
PointersInv ==
  Active /\ ~job.line =>
    /\ bltx < job.w
    /\ blitstate = "final" => bltx = 0
    /\ \A c \in Channels :
         pt[c] = job.at[c] +
                 (IF c \in job.use
                  THEN Row * (job.w + Mod[c]) + bltx
                       + (IF c # "D" /\ blitstate # "final" /\ Served(c) THEN 1 ELSE 0)
                  ELSE 0)

CopyJob == [w |-> job.w, h |-> job.h, at |-> job.at["D"], dest |-> "D" \in job.use]

(* The results of a rectangle: those computed so far, the one that waits,   *)
(* and those written                                                        *)
CopyResults ==
  /\ Active =>
       /\ bltdat = IF "D" \in job.use THEN Row * job.w + bltx ELSE 0
       /\ bltdwrite <=> bltdat > 0
       /\ bltdwrite => <<bltdpt, bltdat>> = Copy!Word(CopyJob, bltdat)
       /\ Len(written) = IF bltdwrite /\ ~Served("D") THEN bltdat - 1 ELSE bltdat
  /\ \A k \in DOMAIN written : written[k] = Copy!Word(CopyJob, k)

(* The pixels of a line: they are written in order, each once but the last  *)
LineResults ==
  /\ \A i, k \in DOMAIN written :
       i < k => \/ written[i][2] < written[k][2]
                \/ i + 1 = k /\ k = Len(written) /\ blitstate = "stopped"
  /\ Active => \A i \in DOMAIN written : written[i][2] <= bltdat
  /\ blitstate = "running" /\ bltcycle > 1 => \A i \in DOMAIN written : written[i][2] < bltdat

ResultsInv == IF job.line THEN LineResults ELSE CopyResults

-----------------------------------------------------------------------------
(* The kinds of steps, by what they do to the blit *)

(* None of its business *)
Same ==
  /\ UNCHANGED <<conVars, runVars, jobVars>>
  /\ "BLTBUSY" \in dmacon' <=> "BLTBUSY" \in dmacon

(* The registers of the next blit *)
Programs ==
  /\ blitstate = "stopped"
  /\ use' \in SUBSET Channels /\ mode' \in {"area", "fill", "line", "onedot"}
  /\ pt' \in [Channels -> Int]
  /\ UNCHANGED <<bltw, blth, bltx, bltcycle, bltdwrite, bltdpt, bltdat,
                 blitfirst, blitstate, blitdelay, dmacon, jobVars>>

Starts ==
  /\ blitstate = "stopped"
  /\ \E w, h \in Nat \ {0} : <<w, h>> \in Sizes /\ blitstart(w, h)

CountsDown ==
  /\ \/ blitstate = "starting" /\ blitstate' \in {"starting", "running"}
     \/ blitstate \in {"running", "final"} /\ blitstate' = blitstate
  /\ blitdelay' \in Nat /\ (blitstate' = "starting" => blitdelay' > 0)
  /\ UNCHANGED <<conVars, pt, bltw, blth, bltx, bltcycle, bltdwrite, bltdpt,
                 bltdat, blitfirst, dmacon, jobVars>>

Works == blitstate \in {"running", "final"} /\ UNCHANGED <<conVars, job>>

(* The pointers when the channel at hand had its word                       *)
Fetched == IF NeedsBus /\ cycles[bltcycle + 1] \in Sources
           THEN [pt EXCEPT ![cycles[bltcycle + 1]] = @ + 1] ELSE pt

(* A cycle of an area, within a period, at the end of one that is not the   *)
(* last, and at the end of the last                                         *)
AreaWorks ==
  /\ Works /\ ~line
  /\ written' = IF cycles[bltcycle + 1] = "D" /\ bltdwrite
                THEN Append(written, <<bltdpt, bltdat>>) ELSE written
  /\ blitdelay' = blitdelay

AreaWithin ==
  /\ AreaWorks
  /\ bltcycle + 1 < period /\ bltcycle' = bltcycle + 1
  /\ pt' = Fetched
  /\ UNCHANGED <<bltw, blth, bltx, bltdwrite, bltdpt, bltdat, blitstate, dmacon, finished>>

Moved == IF "D" \in use THEN [Fetched EXCEPT !["D"] = @ + 1] ELSE Fetched

AreaResult ==
  /\ AreaWorks
  /\ bltcycle + 1 = period /\ bltcycle' = 0
  /\ blitstate = "running"
  /\ bltdwrite' = (bltdwrite \/ "D" \in use)
  /\ bltdpt' = IF "D" \in use THEN Fetched["D"] ELSE bltdpt
  /\ bltdat' = IF "D" \in use THEN bltdat + 1 ELSE bltdat
  /\ bltw' = bltw
  /\ IF bltx + 1 = bltw
     THEN bltx' = 0 /\ blth' = blth - 1 /\ pt' = AddModulo(Moved)
     ELSE bltx' = bltx + 1 /\ blth' = blth /\ pt' = Moved
  /\ IF bltx + 1 = bltw /\ blth = 1 THEN blitstate' = "final" /\ blitfinished
     ELSE UNCHANGED <<blitstate, dmacon, finished>>

AreaEnds ==
  /\ AreaWorks
  /\ bltcycle + 1 = period /\ bltcycle' = 0
  /\ blitstate = "final" /\ blitstate' = "stopped"
  /\ blth' = 0 /\ pt' = Fetched
  /\ UNCHANGED <<bltx, bltdwrite, bltdpt, bltdat, dmacon, finished>>

(* A cycle of the last period passes without the bus *)
Skips ==
  /\ Works /\ ~line /\ blitstate = "final" /\ cycles[bltcycle + 1] # "D"
  /\ UNCHANGED <<bltx, bltdwrite, bltdpt, bltdat, blitdelay, dmacon, finished, written, pt>>
  /\ IF bltcycle + 1 < period
     THEN bltcycle' = bltcycle + 1 /\ UNCHANGED <<bltw, blth, blitstate>>
     ELSE bltcycle' = bltcycle /\ blth' = 0 /\ blitstate' = "stopped"

(* A cycle of a line: a pixel is computed, nothing is, a row ends, the      *)
(* last one does                                                            *)
LineWorks ==
  /\ Works /\ line
  /\ bltx' = bltx /\ blitdelay' = blitdelay

LineDraw ==
  /\ LineWorks
  /\ bltcycle = 1 /\ bltcycle' = 2 /\ blitstate = "running"
  /\ pt' \in [Channels -> Int] /\ bltdpt' \in Int /\ bltdwrite' \in BOOLEAN
  /\ bltdat' = bltdat + 1
  /\ UNCHANGED <<bltw, blth, blitstate, dmacon, finished, written>>

LinePass ==
  /\ LineWorks
  /\ bltcycle \in 0 .. 2 /\ bltcycle' = bltcycle + 1
  /\ bltcycle = 1 => blitstate = "final"
  /\ UNCHANGED <<pt, bltw, blth, bltdwrite, bltdpt, bltdat, blitstate, dmacon, finished, written>>

LineWrites == written' = IF bltdwrite THEN Append(written, <<bltdpt, bltdat>>) ELSE written

LineRow ==
  /\ LineWorks /\ LineWrites
  /\ bltcycle = 3 /\ bltcycle' = 0 /\ blitstate = "running"
  /\ blth' = blth - 1 /\ blitstate' = (IF blth = 1 THEN "final" ELSE "running")
  /\ UNCHANGED <<pt, bltw, bltdwrite, bltdpt, bltdat, dmacon, finished>>

LineEnds ==
  /\ LineWorks /\ LineWrites
  /\ bltcycle = 3 /\ bltcycle' = 0 /\ blitstate = "final" /\ blitstate' = "stopped"
  /\ pt' \in [Channels -> Int]
  /\ blth' = 0 /\ blitfinished
  /\ UNCHANGED <<bltdwrite, bltdpt, bltdat>>

LineKinds == LineDraw \/ LinePass \/ LineRow \/ LineEnds

AreaKinds == AreaWithin \/ AreaResult \/ AreaEnds \/ Skips

Kinds == Same \/ Programs \/ Starts \/ CountsDown \/ AreaKinds \/ LineKinds

LEMMA ModIncrement ==
  ASSUME NEW p \in Nat, NEW c \in Nat, c < p
  PROVE  (c + 1) % p = IF c + 1 < p THEN c + 1 ELSE 0
  OBVIOUS

LEMMA Period ==
  ASSUME JobInv
  PROVE  period \in Nat \ {0}
  <1>1. cycles \in Seq(Channels \cup {"I"}) /\ Len(cycles) > 0
    BY Cycles DEF JobInv, BlitTypes, Serves
  <1>2. Len(cycles) \in Nat  BY <1>1, LenProperties
  <1> QED  BY <1>1, <1>2 DEF period

LEMMA AreaCycleKinds ==
  ASSUME JobInv, Works, ~line, AreaCycle(NeedsBus)
  PROVE  AreaKinds
  <1>1. bltcycle \in Nat /\ bltcycle < period /\ blitstate \in {"running", "final"}
    BY DEF JobInv, BlitTypes, JobLinked, Active, Works
  <1>2. (bltcycle + 1) % period = IF bltcycle + 1 < period THEN bltcycle + 1 ELSE 0
    BY <1>1, Period, ModIncrement
  <1>3. AreaWorks
    BY DEF AreaCycle, WriteD, AreaWorks
  <1>4. Fetched = IF NeedsBus /\ cycles[bltcycle + 1] \in Sources
                  THEN [pt EXCEPT ![cycles[bltcycle + 1]] = @ + 1] ELSE pt
    BY DEF Fetched
  <1>5. CASE bltcycle + 1 < period
    BY <1>1, <1>2, <1>3, <1>4, <1>5 DEF AreaCycle, AreaWithin, AreaKinds
  <1>6. CASE bltcycle + 1 = period /\ blitstate = "final"
    BY <1>1, <1>2, <1>3, <1>4, <1>6 DEF AreaCycle, blitdone, AreaEnds, AreaKinds
  <1>7. CASE bltcycle + 1 = period /\ blitstate = "running"
    BY <1>1, <1>2, <1>3, <1>4, <1>7 DEF AreaCycle, AreaResult, Moved, AreaKinds
  <1> QED  BY <1>1, <1>5, <1>6, <1>7, Period

LEMMA LineCycleKinds ==
  ASSUME JobInv, Works, line, LineCycle
  PROVE  LineKinds
  <1>1. /\ bltcycle \in 0 .. 3 /\ blitstate \in {"running", "final"}
        /\ pt \in [Channels -> Int]
    <2>1. bltcycle \in Nat /\ pt \in [Channels -> Int]  BY DEF JobInv, BlitTypes
    <2>2. blitstate \in {"running", "final"}  BY DEF Works
    <2>3. bltcycle < period  BY <2>2 DEF JobInv, JobLinked, Active
    <2>4. period = 4  BY DEF period
    <2> QED  BY <2>1, <2>2, <2>3, <2>4
  <1>2. LineWorks /\ bltcycle' = IF bltcycle = 3 THEN 0 ELSE bltcycle + 1
    BY <1>1 DEF LineCycle, LineWorks
  <1>3. CASE bltcycle = 1 /\ blitstate = "running"
    <2>1. pt["D"] \in Int /\ pt["C"] \in Int  BY <1>1 DEF Channels
    <2> QED  BY <1>1, <1>2, <1>3, <2>1 DEF LineCycle, LineDraws, LineKinds, LineDraw
  <1>4. CASE bltcycle \in {0, 2} \/ (bltcycle = 1 /\ blitstate = "final")
    BY <1>1, <1>2, <1>4 DEF LineCycle, LineDraws, LineKinds, LinePass
  <1>5. CASE bltcycle = 3 /\ blitstate = "running"
    BY <1>1, <1>2, <1>5 DEF LineCycle, WriteD, LineWrites, LineKinds, LineRow
  <1>6. CASE bltcycle = 3 /\ blitstate = "final"
    <2>1. [pt EXCEPT !["D"] = pt["C"]] \in [Channels -> Int]
      BY <1>1 DEF Channels
    <2> QED  BY <1>1, <1>2, <1>6, <2>1 DEF LineCycle, WriteD, blitdone, LineWrites, LineKinds, LineEnds
  <1> QED  BY <1>1, <1>3, <1>4, <1>5, <1>6

LEMMA IdleKinds ==
  ASSUME JobInv, IdleAnyCycle, UNCHANGED <<conVars, job>>
  PROVE  Kinds
  <1>1. CASE Stall
    BY <1>1 DEF Stall, Kinds, Same, jobVars
  <1>2. CASE blitstate = "starting" /\ StartDelay
    BY <1>2 DEF StartDelay, Kinds, CountsDown, JobInv, BlitTypes, JobLinked, jobVars
  <1>3. CASE blitstate = "final" /\ ~line /\ SkipsWithoutBus /\ ~Stall
    BY <1>3 DEF IdleAnyCycle, SkipsWithoutBus, blitdone, Kinds, AreaKinds, Skips, Works
  <1> QED  BY <1>1, <1>2, <1>3 DEF IdleAnyCycle, JobInv, BlitTypes

LEMMA OfferKinds ==
  ASSUME JobInv, NEW b \in Nat, NEW dma \in BOOLEAN, do_blitter(b, dma),
         UNCHANGED <<conVars, job>>
  PROVE  Kinds
  <1>1. CASE Stall
    BY <1>1 DEF Stall, Kinds, Same, jobVars
  <1>2. CASE blitstate = "starting" /\ StartDelay
    BY <1>2 DEF StartDelay, Kinds, CountsDown, JobInv, BlitTypes, JobLinked, jobVars
  <1>3. CASE /\ blitstate \in {"running", "final"} /\ blitdelay > 0
             /\ blitdelay' = blitdelay - 1
             /\ UNCHANGED <<pt, bltw, blth, bltx, bltcycle, bltdwrite, bltdpt, bltdat,
                            blitfirst, blitstate, dmacon, finished, written>>
    BY <1>3 DEF Kinds, CountsDown, JobInv, BlitTypes, jobVars
  <1>4. CASE blitstate \in {"running", "final"} /\ ~line /\ AreaCycle(NeedsBus)
    BY <1>4, AreaCycleKinds DEF Kinds, Works
  <1>5. CASE blitstate \in {"running", "final"} /\ line /\ LineCycle
    BY <1>5, LineCycleKinds DEF Kinds, Works
  <1> QED  BY <1>1, <1>2, <1>3, <1>4, <1>5 DEF do_blitter

LEMMA AccessKinds ==
  ASSUME Discipline = "stopped", JobInv, Access
  PROVE  Kinds
  <1> USE BlitterAssumption
  <1>1. MayProgram <=> blitstate = "stopped"
    BY DEF MayProgram
  <1>2. CASE WriteBltsize
    <2>1. PICK s \in Sizes : blitstart(s[1], s[2])
      BY <1>2 DEF WriteBltsize
    <2>2. s[1] \in Nat \ {0} /\ s[2] \in Nat \ {0} /\ <<s[1], s[2]>> \in Sizes
      BY DEF BlitterAssumption
    <2> QED  BY <1>1, <1>2, <2>1, <2>2 DEF WriteBltsize, Kinds, Starts
  <1>3. CASE WriteBltcon0 \/ WriteBltcon1 \/ WriteBltpt
    <2>1. use' \in SUBSET Channels
      BY <1>3 DEF WriteBltcon0, WriteBltcon1, WriteBltpt, conVars, JobInv, BlitTypes, BlitterAssumption
    <2>2. mode' \in {"area", "fill", "line", "onedot"}
      BY <1>3 DEF WriteBltcon0, WriteBltcon1, WriteBltpt, conVars, JobInv, BlitTypes, BlitterAssumption
    <2>3. pt' \in [Channels -> Int]
      BY <1>3 DEF WriteBltcon0, WriteBltcon1, WriteBltpt, runVars, JobInv, BlitTypes
    <2> QED
      BY <1>1, <1>3, <2>1, <2>2, <2>3
      DEF WriteBltcon0, WriteBltcon1, WriteBltpt, runVars, Kinds, Programs
  <1>4. CASE WriteDmacon
    <2>1. "BLTBUSY" \notin DmaBits  BY DEF BlitterAssumption
    <2> QED  BY <1>4, <2>1 DEF WriteDmacon, Kinds, Same
  <1>5. CASE OtherAccess
    BY <1>5 DEF OtherAccess, Kinds, Same
  <1> QED  BY <1>2, <1>3, <1>4, <1>5 DEF Access

LEMMA StepKinds ==
  ASSUME Discipline = "stopped", JobInv, BlockingInv, [Next]_vars
  PROVE  Kinds
  <1>1. CASE OddTick
    BY <1>1, IdleKinds DEF OddTick
  <1>2. ASSUME NEW taken \in BOOLEAN, EvenTick(taken)
        PROVE  Kinds
    <2>1. Blocking \in Nat  BY DEF Blocking, BlockingInv
    <2>2. UNCHANGED <<conVars, job>>  BY <1>2 DEF EvenTick
    <2>3. CASE IdleAnyCycle  BY <2>2, <2>3, IdleKinds
    <2>4. ASSUME NEW dma \in BOOLEAN, do_blitter(Blocking, dma)
          PROVE  Kinds
      BY <2>1, <2>2, <2>4, OfferKinds
    <2> QED  BY <1>2, <2>3, <2>4 DEF EvenTick
  <1>3. CASE Request
    BY <1>3 DEF Request, Kinds, Same
  <1>4. CASE Access
    BY <1>4, AccessKinds
  <1>5. CASE UNCHANGED vars
    BY <1>5 DEF vars, Kinds, Same
  <1> QED  BY <1>1, <1>2, <1>3, <1>4, <1>5 DEF Next, Tick

-----------------------------------------------------------------------------
(* The job is the blit that is under way *)

LEMMA JobInit == Init => JobInv
  <1> SUFFICES ASSUME Init
               PROVE  JobInv
    OBVIOUS
  <1>1. use \in SUBSET Channels /\ mode \in {"area", "fill", "line", "onedot"}
    BY BlitterAssumption DEF Init, BlitterAssumption
  <1>2. pt \in [Channels -> Int] /\ job.n = 0
    BY DEF Init
  <1>3. job \in [n : Nat, w : Nat \ {0}, h : Nat, at : [Channels -> Int],
                 use : SUBSET Channels, line : BOOLEAN]
    BY <1>2 DEF Init
  <1>4. written \in Seq(Int \X Nat)
    BY DEF Init
  <1>5. /\ bltdpt \in Int /\ blth \in Nat /\ bltx \in Nat /\ bltcycle \in Nat
        /\ bltdat \in Nat /\ blitdelay \in Nat
    BY DEF Init
  <1>6. bltdwrite \in BOOLEAN
    BY DEF Init
  <1>7. blitstate = "stopped"
    BY DEF Init
  <1>8. BlitTypes
    BY <1>1, <1>2, <1>3, <1>4, <1>5, <1>6, <1>7 DEF BlitTypes
  <1> QED  BY <1>7, <1>8 DEF JobInv, JobLinked, Active

LEMMA FetchedType ==
  ASSUME BlitTypes
  PROVE  Fetched \in [Channels -> Int]
  BY DEF Fetched, BlitTypes, Sources, Channels

LEMMA AddModuloType ==
  ASSUME NEW p \in [Channels -> Int]
  PROVE  AddModulo(p) \in [Channels -> Int]
  BY BlitterAssumption DEF AddModulo, BlitterAssumption

LEMMA WrittenType ==
  ASSUME BlitTypes,
         \/ written' = written
         \/ written' = Append(written, <<bltdpt, bltdat>>)
  PROVE  written' \in Seq(Int \X Nat)
  <1>1. <<bltdpt, bltdat>> \in Int \X Nat /\ written \in Seq(Int \X Nat)
    BY DEF BlitTypes
  <1>2. Append(written, <<bltdpt, bltdat>>) \in Seq(Int \X Nat)
    BY ONLY <1>1, AppendProperties, SMT
  <1> QED  BY <1>1, <1>2

(* The period and the diagram follow from the configuration *)
LEMMA SameDiagram ==
  ASSUME UNCHANGED conVars
  PROVE  cycles' = cycles /\ period' = period /\ line' = line
  BY DEF conVars, cycles, period, line

LEMMA SameStep ==
  ASSUME JobInv, Same
  PROVE  JobInv'
  <1>1. UNCHANGED <<use, mode, runVars, jobVars>>  BY DEF Same, conVars
  <1>2. BlitTypes'  BY <1>1 DEF JobInv, BlitTypes, runVars, jobVars
  <1>3. period' = period /\ line' = line  BY SameDiagram DEF Same
  <1>4. JobLinked'  BY <1>1, <1>3 DEF JobInv, JobLinked, Active, runVars, jobVars
  <1> QED  BY <1>2, <1>4 DEF JobInv

LEMMA ProgramsStep ==
  ASSUME JobInv, Programs
  PROVE  JobInv'
  <1>1. BlitTypes'  BY DEF Programs, JobInv, BlitTypes, jobVars
  <1>2. blitstate' = "stopped"  BY DEF Programs
  <1>3. JobLinked'  BY <1>2 DEF JobLinked, Active
  <1> QED  BY <1>1, <1>3 DEF JobInv

LEMMA StartsStep ==
  ASSUME JobInv, Starts
  PROVE  JobInv'
  <1>1. PICK w \in Nat \ {0}, h \in Nat \ {0} : blitstart(w, h)
    BY DEF Starts
  <1>2. UNCHANGED conVars /\ UNCHANGED <<use, mode, pt>>
    BY <1>1 DEF blitstart, conVars
  <1>3. /\ bltw' = w /\ blth' = h /\ bltx' = 0 /\ bltcycle' = 0
        /\ bltdpt' = 0 /\ bltdat' = 0 /\ bltdwrite' = FALSE
        /\ blitstate' = "starting" /\ blitdelay' = 2 /\ written' = <<>>
    BY <1>1 DEF blitstart, ResetResult
  <1>4. job' = [n |-> job.n + 1, w |-> w, h |-> h, at |-> pt, use |-> use, line |-> line]
    BY <1>1 DEF blitstart
  <1>5. /\ use \in SUBSET Channels /\ mode \in {"area", "fill", "line", "onedot"}
        /\ pt \in [Channels -> Int] /\ job.n \in Nat
    BY DEF JobInv, BlitTypes
  <1>6. line \in BOOLEAN  BY DEF line
  <1>7. job' \in [n : Nat, w : Nat \ {0}, h : Nat, at : [Channels -> Int],
                  use : SUBSET Channels, line : BOOLEAN]
    BY <1>4, <1>5, <1>6
  <1>8. written' \in Seq(Int \X Nat)  BY <1>3
  <1>9. BlitTypes'
    <2>1. /\ use' \in SUBSET Channels /\ mode' \in {"area", "fill", "line", "onedot"}
          /\ pt' \in [Channels -> Int]
      BY <1>2, <1>5
    <2>2. /\ bltdpt' \in Int /\ blth' \in Nat /\ bltx' \in Nat /\ bltcycle' \in Nat
          /\ bltdat' \in Nat /\ blitdelay' \in Nat
      BY <1>3
    <2>3. bltdwrite' \in BOOLEAN /\ blitstate' \in {"stopped", "starting", "running", "final"}
      BY <1>3
    <2> QED  BY <1>7, <1>8, <2>1, <2>2, <2>3 DEF BlitTypes
  <1>10. period' \in Nat \ {0} /\ line' = line  BY <1>2, Period, SameDiagram
  <1>11. /\ use' = job'.use /\ line' = job'.line /\ bltw' = job'.w /\ job'.n > 0
         /\ blth' = job'.h /\ pt' = job'.at
    BY <1>2, <1>3, <1>4, <1>5, <1>10
  <1>12. JobLinked'
    BY <1>3, <1>10, <1>11 DEF JobLinked, Active
  <1> QED  BY <1>9, <1>12 DEF JobInv

LEMMA CountsDownStep ==
  ASSUME JobInv, CountsDown
  PROVE  JobInv'
  <1>1. UNCHANGED <<use, mode, pt, bltw, blth, bltx, bltcycle, bltdwrite, bltdpt,
                    bltdat, job, written>>
    BY DEF CountsDown, conVars, jobVars
  <1>2. /\ blitdelay' \in Nat /\ (blitstate' = "starting" => blitdelay' > 0)
        /\ \/ blitstate = "starting" /\ blitstate' \in {"starting", "running"}
           \/ blitstate \in {"running", "final"} /\ blitstate' = blitstate
    BY DEF CountsDown
  <1>3. BlitTypes'  BY <1>1, <1>2 DEF JobInv, BlitTypes
  <1>4. period' = period /\ line' = line  BY SameDiagram DEF CountsDown
  <1>5. JobLinked' BY <1>1, <1>2, <1>4 DEF JobInv, BlitTypes, JobLinked, Active
  <1> QED  BY <1>3, <1>5 DEF JobInv

(* What a cycle of the blit at work leaves alone *)
LEMMA WorksStep ==
  ASSUME JobInv, Works
  PROVE  /\ UNCHANGED <<use, mode, job>>
         /\ cycles' = cycles /\ period' = period /\ line' = line
         /\ use = job.use /\ line = job.line /\ bltw = job.w
         /\ job.n > 0 /\ blth <= job.h /\ bltcycle < period
         /\ blth = 0 <=> blitstate = "final"
         /\ period \in Nat \ {0}
  <1>1. Active  BY DEF Works, Active
  <1> QED  BY <1>1, Period, SameDiagram DEF Works, conVars, JobInv, JobLinked

LEMMA AreaWithinStep ==
  ASSUME JobInv, AreaWithin
  PROVE  JobInv'
  <1>1. Works /\ AreaWorks  BY DEF AreaWithin, AreaWorks
  <1>2. pt' \in [Channels -> Int]  BY FetchedType DEF AreaWithin, JobInv
  <1>3. written' \in Seq(Int \X Nat)
    BY WrittenType, <1>1 DEF AreaWorks, JobInv
  <1>4. /\ bltcycle' = bltcycle + 1 /\ bltcycle + 1 < period
        /\ UNCHANGED <<bltw, blth, bltx, bltdwrite, bltdpt, bltdat, blitstate, blitdelay>>
    BY <1>1 DEF AreaWithin, AreaWorks
  <1>5. BlitTypes'
    BY <1>1, <1>2, <1>3, <1>4, WorksStep DEF JobInv, BlitTypes
  <1>6. JobLinked'
    BY <1>1, <1>4, WorksStep DEF JobLinked, Active, Works
  <1> QED  BY <1>5, <1>6 DEF JobInv

LEMMA AreaResultStep ==
  ASSUME JobInv, AreaResult
  PROVE  JobInv'
  <1>1. Works /\ AreaWorks /\ blitstate = "running"  BY DEF AreaResult, AreaWorks
  <1>2. Fetched \in [Channels -> Int]  BY FetchedType DEF JobInv
  <1>3. Moved \in [Channels -> Int]  BY <1>2 DEF Moved, Channels
  <1>4. pt' \in [Channels -> Int]
    BY <1>3, AddModuloType DEF AreaResult
  <1>5. written' \in Seq(Int \X Nat)
    BY WrittenType, <1>1 DEF AreaWorks, JobInv
  <1>6. bltdpt' \in Int /\ bltdat' \in Nat
    BY <1>2 DEF AreaResult, JobInv, BlitTypes, Channels
  <1>7. bltdwrite' \in BOOLEAN
    BY DEF AreaResult, JobInv, BlitTypes
  <1>8. bltcycle' = 0 /\ bltw' = bltw /\ blitdelay' = blitdelay
    BY <1>1 DEF AreaResult, AreaWorks
  <1>9. blth \in Nat /\ bltx \in Nat /\ blth # 0 /\ blth <= job.h
    BY <1>1, WorksStep DEF JobInv, BlitTypes
  <1>10. \/ bltx + 1 = bltw /\ bltx' = 0 /\ blth' = blth - 1
         \/ bltx + 1 # bltw /\ bltx' = bltx + 1 /\ blth' = blth
    BY DEF AreaResult
  <1>11. blitstate' = IF bltx + 1 = bltw /\ blth = 1 THEN "final" ELSE blitstate
    BY DEF AreaResult
  <1>12. /\ bltx' \in Nat /\ blth' \in Nat /\ blth' <= blth
         /\ blitstate' \in {"running", "final"}
         /\ blth' = 0 <=> blitstate' = "final"
    BY <1>1, <1>9, <1>10, <1>11
  <1>13. blitdelay \in Nat /\ job.h \in Nat  BY DEF JobInv, BlitTypes
  <1>14. BlitTypes'
    BY <1>1, <1>4, <1>5, <1>6, <1>7, <1>8, <1>12, <1>13, WorksStep DEF JobInv, BlitTypes
  <1>15. blth' <= job.h  BY <1>9, <1>12, <1>13
  <1>16. JobLinked'
    BY <1>1, <1>8, <1>12, <1>15, WorksStep DEF JobLinked, Active
  <1> QED  BY <1>14, <1>16 DEF JobInv

LEMMA AreaEndsStep ==
  ASSUME JobInv, AreaEnds
  PROVE  JobInv'
  <1>1. Works /\ AreaWorks /\ blitstate' = "stopped"  BY DEF AreaEnds, AreaWorks
  <1>2. pt' \in [Channels -> Int]  BY FetchedType DEF AreaEnds, JobInv
  <1>3. written' \in Seq(Int \X Nat)
    BY WrittenType, <1>1 DEF AreaWorks, JobInv
  <1>4. blth' = 0 /\ bltcycle' = 0 /\ UNCHANGED <<bltx, bltdwrite, bltdpt, bltdat, blitdelay>>
    BY <1>1 DEF AreaEnds, AreaWorks
  <1>5. BlitTypes'
    BY <1>1, <1>2, <1>3, <1>4, WorksStep DEF JobInv, BlitTypes
  <1> QED  BY <1>1, <1>5 DEF JobInv, JobLinked, Active

LEMMA SkipsStep ==
  ASSUME JobInv, Skips
  PROVE  JobInv'
  <1>1. Works  BY DEF Skips
  <1>2. UNCHANGED <<bltx, bltdwrite, bltdpt, bltdat, blitdelay, written, pt>>
    BY DEF Skips
  <1>3. \/ bltcycle + 1 < period /\ bltcycle' = bltcycle + 1 /\ UNCHANGED <<bltw, blth, blitstate>>
        \/ bltcycle' = bltcycle /\ blth' = 0 /\ blitstate' = "stopped"
    BY DEF Skips
  <1>4. BlitTypes'
    BY <1>1, <1>2, <1>3, WorksStep DEF JobInv, BlitTypes
  <1>5. JobLinked'
    BY <1>1, <1>3, WorksStep DEF Works, JobLinked, Active
  <1> QED  BY <1>4, <1>5 DEF JobInv

LEMMA LineStep ==
  ASSUME JobInv, LineKinds
  PROVE  JobInv'
  <1>1. LineWorks /\ Works /\ line  BY DEF LineKinds, LineDraw, LinePass, LineRow, LineEnds, LineWorks
  <1>2. period = 4  BY <1>1 DEF period
  <1>3. bltcycle \in Nat /\ bltcycle' \in 0 .. 3
    BY DEF LineKinds, LineDraw, LinePass, LineRow, LineEnds, JobInv, BlitTypes
  <1>4. written' \in Seq(Int \X Nat)
    <2>1. written' = written \/ written' = Append(written, <<bltdpt, bltdat>>)
      BY DEF LineKinds, LineDraw, LinePass, LineRow, LineEnds, LineWrites
    <2> QED  BY <2>1, WrittenType DEF JobInv
  <1>5. pt' \in [Channels -> Int] /\ bltdpt' \in Int /\ bltdat' \in Nat
    BY DEF LineKinds, LineDraw, LinePass, LineRow, LineEnds, JobInv, BlitTypes
  <1>6. bltdwrite' \in BOOLEAN
    BY DEF LineKinds, LineDraw, LinePass, LineRow, LineEnds, JobInv, BlitTypes
  <1>7. bltx' = bltx /\ blitdelay' = blitdelay  BY <1>1 DEF LineWorks
  <1>8. blth \in Nat /\ job.h \in Nat  BY DEF JobInv, BlitTypes
  <1>9. /\ blth' \in Nat /\ blth' <= blth
        /\ \/ /\ blitstate' \in {"running", "final"} /\ bltw' = bltw
              /\ blth' = 0 <=> blitstate' = "final"
           \/ blitstate' = "stopped"
    <2>1. blth = 0 <=> blitstate = "final"  BY <1>1, WorksStep
    <2>2. blitstate \in {"running", "final"}  BY <1>1 DEF Works
    <2>3. CASE LineDraw  BY <1>8, <2>1, <2>2, <2>3 DEF LineDraw
    <2>4. CASE LinePass  BY <1>8, <2>1, <2>2, <2>4 DEF LinePass
    <2>5. CASE LineRow  BY <1>8, <2>1, <2>2, <2>5 DEF LineRow
    <2>6. CASE LineEnds  BY <1>8, <2>1, <2>2, <2>6 DEF LineEnds
    <2> QED  BY <2>3, <2>4, <2>5, <2>6 DEF LineKinds
  <1>10. /\ UNCHANGED <<use, mode, job>> /\ period' = period /\ line' = line
         /\ use = job.use /\ line = job.line /\ bltw = job.w
         /\ job.n > 0 /\ blth <= job.h
    BY <1>1, WorksStep
  <1>11. BlitTypes'
    <2>1. /\ bltcycle' \in Nat /\ blth' \in Nat
          /\ blitstate' \in {"stopped", "starting", "running", "final"}
      BY <1>3, <1>9
    <2> QED  BY <1>4, <1>5, <1>6, <1>7, <1>9, <1>10, <2>1 DEF JobInv, BlitTypes
  <1>12. JobLinked'
    <2>1. blth' <= job.h /\ bltcycle' < period  BY <1>2, <1>3, <1>8, <1>9, <1>10
    <2> QED  BY <1>9, <1>10, <2>1 DEF JobLinked, Active
  <1> QED  BY <1>11, <1>12 DEF JobInv

LEMMA JobStep ==
  ASSUME JobInv, Kinds
  PROVE  JobInv'
  BY SameStep, ProgramsStep, StartsStep, CountsDownStep, AreaWithinStep,
     AreaResultStep, AreaEndsStep, SkipsStep, LineStep
  DEF Kinds, AreaKinds

-----------------------------------------------------------------------------
(* BUSY and the interrupt *)

LEMMA BusyInit == Init => BusyInv
  BY DEF Init, BusyInv

LEMMA BusyStep ==
  ASSUME JobInv, BusyInv, Kinds
  PROVE  BusyInv'
  <1>1. job.n \in Nat  BY DEF JobInv, BlitTypes
  <1>2. CASE Same
    BY <1>2 DEF Same, conVars, runVars, jobVars, BusyInv
  <1>3. CASE Programs
    BY <1>3 DEF Programs, jobVars, BusyInv
  <1>4. CASE Starts
    <2>1. /\ finished' = 0 /\ dmacon' = dmacon \cup {"BLTBUSY"}
          /\ blitstate' = "starting" /\ job'.n = job.n + 1
      BY <1>4 DEF Starts, blitstart
    <2> QED  BY <1>1, <2>1 DEF BusyInv
  <1>5. CASE CountsDown
    BY <1>5 DEF CountsDown, jobVars, BusyInv
  <1>6. CASE AreaKinds
    <2>1. Works /\ ~line
      BY <1>6 DEF AreaKinds, AreaWithin, AreaResult, AreaEnds, Skips, AreaWorks
    <2>2. job' = job /\ ~job.line /\ job.n > 0  BY <2>1, WorksStep
    <2>3. CASE UNCHANGED <<blitstate, dmacon, finished>>
      BY <2>2, <2>3 DEF BusyInv
    <2>4. CASE blitstate = "final" /\ blitstate' = "stopped" /\ UNCHANGED <<dmacon, finished>>
      BY <2>2, <2>4 DEF BusyInv
    <2>5. CASE blitstate = "running" /\ blitstate' = "final" /\ blitfinished
      BY <2>2, <2>5 DEF BusyInv, blitfinished
    <2> QED  BY <1>6, <2>3, <2>4, <2>5 DEF AreaKinds, AreaWithin, AreaResult, AreaEnds, Skips
  <1>7. CASE LineKinds
    <2>1. Works /\ line
      BY <1>7 DEF LineKinds, LineDraw, LinePass, LineRow, LineEnds, LineWorks
    <2>2. job' = job /\ job.line /\ job.n > 0  BY <2>1, WorksStep
    <2>3. CASE /\ blitstate' \in {"running", "final"} /\ UNCHANGED <<dmacon, finished>>
      <3>1. blitstate \in {"running", "final"}  BY <2>1 DEF Works
      <3> QED  BY <2>2, <2>3, <3>1 DEF BusyInv
    <2>4. CASE LineEnds
      BY <2>2, <2>4 DEF LineEnds, BusyInv, blitfinished
    <2> QED  BY <1>7, <2>1, <2>3, <2>4 DEF LineKinds, LineDraw, LinePass, LineRow, Works
  <1> QED  BY <1>2, <1>3, <1>4, <1>5, <1>6, <1>7 DEF Kinds

-----------------------------------------------------------------------------
(* The pointers *)

LEMMA Distribute ==
  ASSUME NEW a \in Int, NEW b \in Int, NEW c \in Int
  PROVE  /\ (a + 1) * b = a * b + b
         /\ a * (b + c) = a * b + a * c
  OBVIOUS

LEMMA Products ==
  ASSUME NEW a \in Nat, NEW b \in Nat
  PROVE  a * b \in Nat
  OBVIOUS

LEMMA Quotient ==
  ASSUME NEW r \in Nat, NEW w \in Nat \ {0}, NEW x \in Nat, x < w
  PROVE  (r * w + x) \div w = r
  <1>1. r * w \in Nat  BY Products
  <1> QED  BY <1>1

(* In a cycle its channel is served, and was not before; in the whole of a  *)
(* period every channel of the blit is served, and no other                 *)
LEMMA ServedByCycle ==
  ASSUME JobInv, Works, ~line
  PROVE  /\ cycles[bltcycle + 1] \in Channels \cup {"I"}
         /\ \A c \in Channels :
              /\ c = cycles[bltcycle + 1] => c \in job.use /\ ~Served(c)
              /\ bltcycle' = bltcycle + 1
                   => (Served(c)' <=> Served(c) \/ c = cycles[bltcycle + 1])
              /\ bltcycle' = 0 => ~Served(c)'
              /\ bltcycle + 1 = period
                   => (c \in job.use <=> Served(c) \/ c = cycles[bltcycle + 1])
  <1>1. Serves(cycles, use) /\ use = job.use
    BY Cycles, WorksStep DEF JobInv, BlitTypes
  <1>2. cycles' = cycles /\ bltcycle \in Nat /\ bltcycle < period
    BY WorksStep DEF JobInv, BlitTypes
  <1>3. period = Len(cycles) /\ Len(cycles) \in Nat
    BY <1>1 DEF period, Serves
  <1>4. /\ cycles \in Seq(Channels \cup {"I"})
        /\ bltcycle + 1 \in 1 .. Len(cycles)
    BY <1>1, <1>2, <1>3 DEF Serves
  <1>5. cycles[bltcycle + 1] \in Channels \cup {"I"}
    BY <1>4, ElementOfSeq
  <1>6. ASSUME NEW c \in Channels
        PROVE  /\ c = cycles[bltcycle + 1] => c \in job.use /\ ~Served(c)
               /\ bltcycle' = bltcycle + 1
                    => (Served(c)' <=> Served(c) \/ c = cycles[bltcycle + 1])
               /\ bltcycle' = 0 => ~Served(c)'
               /\ bltcycle + 1 = period
                    => (c \in job.use <=> Served(c) \/ c = cycles[bltcycle + 1])
    <2>1. c \in use <=> \E i \in 1 .. Len(cycles) : cycles[i] = c
      BY <1>1 DEF Serves
    <2>2. \A i, k \in 1 .. Len(cycles) : cycles[i] = cycles[k] /\ cycles[i] # "I" => i = k
      BY <1>1 DEF Serves
    <2>3. c # "I"  BY DEF Channels
    <2>4. ASSUME c = cycles[bltcycle + 1]
          PROVE  c \in job.use /\ ~Served(c)
      <3>1. c \in job.use  BY <1>1, <1>4, <2>1, <2>4
      <3>2. ASSUME NEW i \in 1 .. bltcycle, cycles[i] = c
            PROVE  FALSE
        <4>1. i \in 1 .. Len(cycles) /\ i # bltcycle + 1  BY <1>2, <1>3
        <4> QED  BY <1>4, <2>2, <2>3, <2>4, <3>2, <4>1
      <3> QED  BY <3>1, <3>2 DEF Served
    <2>5. ASSUME bltcycle' = bltcycle + 1
          PROVE  Served(c)' <=> Served(c) \/ c = cycles[bltcycle + 1]
      <3>1. Served(c)' <=> \E i \in 1 .. bltcycle + 1 : cycles[i] = c
        BY <1>2, <2>5 DEF Served
      <3>2. 1 .. bltcycle + 1 = (1 .. bltcycle) \cup {bltcycle + 1}
        BY <1>2
      <3> QED  BY <3>1, <3>2 DEF Served
    <2>6. bltcycle' = 0 => ~Served(c)'  BY DEF Served
    <2>7. ASSUME bltcycle + 1 = period
          PROVE  c \in job.use <=> Served(c) \/ c = cycles[bltcycle + 1]
      <3>1. 1 .. Len(cycles) = (1 .. bltcycle) \cup {bltcycle + 1}
        BY <1>2, <1>3, <2>7
      <3> QED  BY <1>1, <2>1, <3>1 DEF Served
    <2> QED  BY <2>4, <2>5, <2>6, <2>7
  <1> QED  BY <1>5, <1>6

LEMMA PointersInit == Init => PointersInv
  BY DEF Init, PointersInv, Active

(* What a cycle fetches, in the last period nothing *)
LEMMA FetchedBy ==
  ASSUME JobInv, Works, ~line, NEW c \in Channels
  PROVE  Fetched[c] = IF c # "D" /\ blitstate # "final" /\ c = cycles[bltcycle + 1]
                      THEN pt[c] + 1 ELSE pt[c]
  <1>1. pt \in [Channels -> Int]  BY DEF JobInv, BlitTypes
  <1>2. CASE cycles[bltcycle + 1] \in Sources /\ blitstate # "final"
    <2>1. NeedsBus  BY <1>2 DEF NeedsBus
    <2>2. cycles[bltcycle + 1] # "D"  BY <1>2 DEF Sources
    <2> QED  BY <1>1, <1>2, <2>1, <2>2 DEF Fetched
  <1>3. CASE cycles[bltcycle + 1] \in Sources /\ blitstate = "final"
    <2>1. ~NeedsBus  BY <1>3 DEF NeedsBus, Sources
    <2> QED  BY <1>3, <2>1 DEF Fetched
  <1>4. CASE cycles[bltcycle + 1] \notin Sources
    BY <1>4 DEF Fetched, Sources, Channels
  <1> QED  BY <1>2, <1>3, <1>4

LEMMA AtTypes ==
  ASSUME JobInv, Active, NEW c \in Channels
  PROVE  /\ Row \in Nat /\ job.w \in Nat \ {0} /\ Mod[c] \in Int
         /\ Row * (job.w + Mod[c]) \in Int
         /\ bltx \in Nat /\ job.at[c] \in Int
  <1>1. Row \in Nat  BY DEF Row, JobInv, BlitTypes, JobLinked
  <1>2. job.w \in Nat \ {0} /\ bltx \in Nat /\ job.at[c] \in Int
    BY DEF JobInv, BlitTypes
  <1>3. Mod[c] \in Int  BY BlitterAssumption DEF BlitterAssumption
  <1>4. Row * (job.w + Mod[c]) \in Int  BY <1>1, <1>2, <1>3
  <1> QED  BY <1>1, <1>2, <1>3, <1>4

LEMMA PointersWithin ==
  ASSUME JobInv, PointersInv, AreaWithin
  PROVE  PointersInv'
  <1>1. Works /\ ~line /\ Active /\ ~job.line
    BY WorksStep DEF AreaWithin, AreaWorks, Works, Active
  <1>2. /\ job' = job /\ bltx' = bltx /\ blitstate' = blitstate /\ Row' = Row
        /\ bltcycle' = bltcycle + 1 /\ pt' = Fetched
    BY DEF AreaWithin, AreaWorks, Works, Row
  <1>3. bltx < job.w /\ (blitstate = "final" => bltx = 0)
    BY <1>1 DEF PointersInv
  <1>4. ASSUME NEW c \in Channels
        PROVE  pt'[c] = job.at[c] +
                 (IF c \in job.use
                  THEN Row * (job.w + Mod[c]) + bltx
                       + (IF c # "D" /\ blitstate # "final" /\ Served(c)' THEN 1 ELSE 0)
                  ELSE 0)
    <2>1. pt[c] = job.at[c] +
                 (IF c \in job.use
                  THEN Row * (job.w + Mod[c]) + bltx
                       + (IF c # "D" /\ blitstate # "final" /\ Served(c) THEN 1 ELSE 0)
                  ELSE 0)
      BY <1>1 DEF PointersInv
    <2>2. /\ c = cycles[bltcycle + 1] => c \in job.use /\ ~Served(c)
          /\ Served(c)' <=> Served(c) \/ c = cycles[bltcycle + 1]
      BY <1>1, <1>2, ServedByCycle
    <2>3. pt'[c] = IF c # "D" /\ blitstate # "final" /\ c = cycles[bltcycle + 1]
                   THEN pt[c] + 1 ELSE pt[c]
      BY <1>1, <1>2, FetchedBy
    <2>4. job.at[c] \in Int /\ Row * (job.w + Mod[c]) \in Int /\ bltx \in Nat
      BY <1>1, AtTypes
    <2>5. CASE c # "D" /\ blitstate # "final" /\ c = cycles[bltcycle + 1]
      BY <2>1, <2>2, <2>3, <2>4, <2>5
    <2>6. CASE ~(c # "D" /\ blitstate # "final" /\ c = cycles[bltcycle + 1])
      BY <2>1, <2>2, <2>3, <2>4, <2>6
    <2> QED  BY <2>5, <2>6
  <1> QED  BY <1>2, <1>3, <1>4 DEF PointersInv

LEMMA PointersResult ==
  ASSUME JobInv, PointersInv, AreaResult
  PROVE  PointersInv'
  <1>1. Works /\ ~line /\ Active /\ ~job.line /\ blitstate = "running"
    BY WorksStep DEF AreaResult, AreaWorks, Works, Active
  <1>2. /\ job' = job /\ bltcycle' = 0 /\ bltcycle + 1 = period
        /\ use = job.use /\ bltw = job.w
    BY <1>1, WorksStep DEF AreaResult
  <1>3. bltx < job.w /\ bltx \in Nat /\ job.w \in Nat \ {0} /\ blth \in Nat /\ blth # 0
    BY <1>1, AtTypes, WorksStep DEF PointersInv, JobInv, BlitTypes, Channels
  <1>4. ASSUME NEW c \in Channels
        PROVE  Moved[c] = job.at[c] +
                 (IF c \in job.use THEN Row * (job.w + Mod[c]) + bltx + 1 ELSE 0)
    <2>1. pt[c] = job.at[c] +
                 (IF c \in job.use
                  THEN Row * (job.w + Mod[c]) + bltx
                       + (IF c # "D" /\ Served(c) THEN 1 ELSE 0)
                  ELSE 0)
      BY <1>1 DEF PointersInv
    <2>2. /\ c = cycles[bltcycle + 1] => c \in job.use /\ ~Served(c)
          /\ c \in job.use <=> Served(c) \/ c = cycles[bltcycle + 1]
      BY <1>1, <1>2, ServedByCycle
    <2>3. Fetched[c] = IF c # "D" /\ c = cycles[bltcycle + 1] THEN pt[c] + 1 ELSE pt[c]
      BY <1>1, FetchedBy
    <2>4. job.at[c] \in Int /\ Row * (job.w + Mod[c]) \in Int /\ bltx \in Nat
      BY <1>1, AtTypes
    <2>5. Fetched \in [Channels -> Int]  BY FetchedType DEF JobInv
    <2>6. CASE c = "D"
      <3>1. Moved[c] = IF c \in job.use THEN Fetched[c] + 1 ELSE Fetched[c]
        BY <1>2, <2>5, <2>6 DEF Moved
      <3> QED  BY <2>1, <2>3, <2>4, <2>6, <3>1
    <2>7. CASE c # "D"
      <3>1. Moved[c] = Fetched[c]
        BY <2>5, <2>7 DEF Moved
      <3>2. CASE c = cycles[bltcycle + 1]
        BY <2>1, <2>2, <2>3, <2>4, <2>7, <3>1, <3>2
      <3>3. CASE c # cycles[bltcycle + 1]
        BY <2>1, <2>2, <2>3, <2>4, <2>7, <3>1, <3>3
      <3> QED  BY <3>2, <3>3
    <2> QED  BY <2>6, <2>7
  <1>5. \A c \in Channels : ~Served(c)'
    BY <1>1, <1>2, ServedByCycle
  <1>6. CASE bltx + 1 = bltw
    <2>1. bltx' = 0 /\ blth' = blth - 1 /\ pt' = AddModulo(Moved)
      BY <1>6 DEF AreaResult
    <2>2. Row' = Row + 1  BY <1>2, <1>3, <2>1 DEF Row, JobInv, BlitTypes
    <2>3. ASSUME NEW c \in Channels
          PROVE  pt'[c] = job.at[c] + (IF c \in job.use THEN (Row + 1) * (job.w + Mod[c]) ELSE 0)
      <3>1. pt'[c] = IF c \in job.use THEN Moved[c] + Mod[c] ELSE Moved[c]
        BY <1>2, <2>1 DEF AddModulo
      <3>2. /\ job.at[c] \in Int /\ Row * (job.w + Mod[c]) \in Int /\ bltx \in Nat
            /\ Mod[c] \in Int /\ Row \in Nat
        BY <1>1, AtTypes
      <3>3. (Row + 1) * (job.w + Mod[c]) = Row * (job.w + Mod[c]) + (job.w + Mod[c])
        <4>1. job.w + Mod[c] \in Int /\ Row \in Int  BY <1>3, <3>2
        <4> QED  BY <4>1, Distribute
      <3>4. job.w = bltx + 1  BY <1>2, <1>6
      <3> QED  BY <1>4, <3>1, <3>2, <3>3, <3>4
    <2>4. ASSUME NEW c \in Channels
          PROVE  (Row + 1) * (job.w + Mod[c]) \in Int
      BY <1>1, AtTypes
    <2> QED  BY <1>2, <1>3, <1>5, <2>1, <2>2, <2>3, <2>4 DEF PointersInv
  <1>7. CASE bltx + 1 # bltw
    <2>1. bltx' = bltx + 1 /\ blth' = blth /\ pt' = Moved /\ blitstate' = blitstate
      BY <1>7 DEF AreaResult
    <2>2. Row' = Row  BY <1>2, <2>1 DEF Row
    <2>3. bltx' < job.w  BY <1>2, <1>3, <1>7, <2>1
    <2>4. ASSUME NEW c \in Channels
          PROVE  pt'[c] = job.at[c] + (IF c \in job.use THEN Row * (job.w + Mod[c]) + bltx' ELSE 0)
      <3>1. Row * (job.w + Mod[c]) \in Int /\ bltx \in Nat  BY <1>1, AtTypes
      <3> QED  BY <1>4, <2>1, <3>1
    <2>5. ASSUME NEW c \in Channels
          PROVE  Row * (job.w + Mod[c]) \in Int
      BY <1>1, AtTypes
    <2> QED  BY <1>1, <1>2, <1>3, <1>5, <2>1, <2>2, <2>3, <2>4, <2>5 DEF PointersInv
  <1> QED  BY <1>6, <1>7

LEMMA PointersStep ==
  ASSUME JobInv, PointersInv, Kinds
  PROVE  PointersInv'
  <1>1. CASE Same
    <2>1. UNCHANGED <<pt, bltx, blth, bltcycle, blitstate, job>> /\ cycles' = cycles
      BY <1>1, SameDiagram DEF Same, runVars, jobVars
    <2> QED  BY <2>1 DEF PointersInv, Active, Row, Served
  <1>2. CASE Programs
    BY <1>2 DEF Programs, PointersInv, Active
  <1>3. CASE Starts
    <2>1. PICK w \in Nat \ {0}, h \in Nat \ {0} : blitstart(w, h)
      BY <1>3 DEF Starts
    <2>2. /\ blth' = h /\ bltx' = 0 /\ bltcycle' = 0 /\ pt' = pt
          /\ blitstate' = "starting" /\ job'.w = w /\ job'.h = h /\ job'.at = pt
      BY <2>1 DEF blitstart
    <2>3. Row' = 0  BY <2>2 DEF Row
    <2>4. ASSUME NEW c \in Channels
          PROVE  Row' * (job'.w + Mod[c]) = 0 /\ ~Served(c)' /\ pt[c] \in Int
      <3>1. Mod[c] \in Int  BY BlitterAssumption DEF BlitterAssumption
      <3>2. pt[c] \in Int  BY DEF JobInv, BlitTypes
      <3>3. ~Served(c)'  BY <2>2 DEF Served
      <3> QED  BY <2>2, <2>3, <3>1, <3>2, <3>3
    <2> QED  BY <2>2, <2>3, <2>4 DEF PointersInv
  <1>4. CASE CountsDown
    <2>1. UNCHANGED <<pt, bltx, blth, bltcycle, job>> /\ cycles' = cycles
      BY <1>4, SameDiagram DEF CountsDown, jobVars
    <2>2. Active /\ (blitstate' = "final" <=> blitstate = "final")
      BY <1>4 DEF CountsDown, Active
    <2> QED  BY <2>1, <2>2 DEF PointersInv, Row, Served
  <1>5. CASE AreaWithin  BY <1>5, PointersWithin
  <1>6. CASE AreaResult  BY <1>6, PointersResult
  <1>7. CASE AreaEnds  BY <1>7 DEF AreaEnds, PointersInv, Active
  <1>8. CASE Skips
    <2>1. Works /\ ~line /\ Active /\ ~job.line /\ job' = job
      BY <1>8, WorksStep DEF Skips, Works, Active
    <2>2. CASE blitstate' = "stopped"  BY <2>2 DEF PointersInv, Active
    <2>3. CASE blitstate' = "final" /\ UNCHANGED <<pt, bltx, blth>>
      BY <1>8, <2>1, <2>3 DEF Skips, PointersInv, Row
    <2> QED  BY <1>8, <2>2, <2>3 DEF Skips
  <1>9. CASE LineKinds
    <2>1. Works /\ line
      BY <1>9 DEF LineKinds, LineDraw, LinePass, LineRow, LineEnds, LineWorks
    <2>2. job' = job /\ job.line  BY <2>1, WorksStep
    <2> QED  BY <2>2 DEF PointersInv
  <1> QED  BY <1>1, <1>2, <1>3, <1>4, <1>5, <1>6, <1>7, <1>8, <1>9 DEF Kinds, AreaKinds

-----------------------------------------------------------------------------
(* The results *)

LEMMA ResultsInit == Init => ResultsInv
  BY DEF Init, ResultsInv, LineResults, CopyResults, Active

(* The result of a period is the next word of the rectangle *)
LEMMA NextWord ==
  ASSUME JobInv, PointersInv, AreaResult, "D" \in job.use,
         bltdat = Row * job.w + bltx
  PROVE  <<Fetched["D"], bltdat + 1>> = Copy!Word(CopyJob, bltdat + 1)
  <1>1. Works /\ ~line /\ Active /\ ~job.line /\ blitstate = "running" /\ "D" \in Channels
    BY WorksStep DEF AreaResult, AreaWorks, Works, Active, Channels
  <1>2. /\ Row \in Nat /\ job.w \in Nat \ {0} /\ Mod["D"] \in Int
        /\ Row * (job.w + Mod["D"]) \in Int /\ bltx \in Nat /\ job.at["D"] \in Int
    BY <1>1, AtTypes
  <1>3. pt["D"] = job.at["D"] + (Row * (job.w + Mod["D"]) + bltx) /\ bltx < job.w
    BY <1>1, <1>2 DEF PointersInv
  <1>4. Fetched["D"] = pt["D"]
    BY <1>1, FetchedBy
  <1>5. Row * job.w \in Nat /\ Row * Mod["D"] \in Int
    BY <1>2, Products
  <1>6. (bltdat + 1) - 1 = Row * job.w + bltx
    BY <1>2, <1>5
  <1>7. ((bltdat + 1) - 1) \div job.w = Row
    BY <1>2, <1>3, <1>6, Quotient
  <1>8. Row * (job.w + Mod["D"]) = Row * job.w + Row * Mod["D"]
    BY <1>2, Distribute
  <1>9. Fetched["D"] = job.at["D"] + ((bltdat + 1) - 1) + (((bltdat + 1) - 1) \div job.w) * Mod["D"]
    <2>1. (((bltdat + 1) - 1) \div job.w) * Mod["D"] = Row * Mod["D"]  BY <1>7
    <2> QED  BY <1>2, <1>3, <1>4, <1>5, <1>6, <1>8, <2>1
  <1> QED  BY <1>9 DEF Copy!Word, CopyJob

(* A word that waits is written in its cycle, and is the next one *)
LEMMA WordWritten ==
  ASSUME JobInv, CopyResults, AreaWorks
  PROVE  /\ Len(written) \in Nat
         /\ \A k \in DOMAIN written' : written'[k] = Copy!Word(CopyJob, k)
         /\ IF cycles[bltcycle + 1] = "D" /\ bltdwrite
            THEN /\ written' = Append(written, Copy!Word(CopyJob, Len(written) + 1))
                 /\ Len(written) = bltdat - 1
                 /\ Len(written') = bltdat
            ELSE written' = written /\ Len(written') = Len(written)
  <1>1. Works /\ ~line /\ Active
    BY DEF AreaWorks, Works, Active
  <1>2. written \in Seq(Int \X Nat) /\ bltdat \in Nat /\ bltdpt \in Int
    BY DEF JobInv, BlitTypes
  <1>3. Len(written) \in Nat /\ DOMAIN written = 1 .. Len(written)
    BY <1>2, LenProperties
  <1>4. CASE cycles[bltcycle + 1] = "D" /\ bltdwrite
    <2>1. written' = Append(written, <<bltdpt, bltdat>>)
      BY <1>4 DEF AreaWorks
    <2>2. ~Served("D")  BY <1>1, <1>4, ServedByCycle DEF Channels
    <2>3. /\ <<bltdpt, bltdat>> = Copy!Word(CopyJob, bltdat)
          /\ Len(written) = bltdat - 1
      BY <1>1, <1>4, <2>2 DEF CopyResults
    <2>4. bltdat = Len(written) + 1  BY <1>2, <1>3, <2>3
    <2>5. <<bltdpt, bltdat>> \in Int \X Nat  BY <1>2
    <2>6. /\ Len(written') = Len(written) + 1
          /\ DOMAIN written' = 1 .. Len(written) + 1
          /\ \A k \in 1 .. Len(written) : written'[k] = written[k]
          /\ written'[Len(written) + 1] = <<bltdpt, bltdat>>
      BY <1>2, <1>3, <2>1, <2>5, AppendProperties
    <2>7. \A k \in DOMAIN written' : written'[k] = Copy!Word(CopyJob, k)
      <3> SUFFICES ASSUME NEW k \in 1 .. Len(written) + 1
                   PROVE  written'[k] = Copy!Word(CopyJob, k)
        BY <2>6
      <3>1. CASE k = Len(written) + 1  BY <2>3, <2>4, <2>6, <3>1
      <3>2. CASE k \in 1 .. Len(written)
        BY <1>3, <2>6, <3>2 DEF CopyResults
      <3> QED  BY <1>3, <3>1, <3>2
    <2> QED  BY <1>2, <1>3, <1>4, <2>1, <2>3, <2>4, <2>6, <2>7
  <1>5. CASE ~(cycles[bltcycle + 1] = "D" /\ bltdwrite)
    <2>1. written' = written  BY <1>5 DEF AreaWorks
    <2> QED  BY <1>3, <1>5, <2>1 DEF CopyResults
  <1> QED  BY <1>4, <1>5

LEMMA ResultsWithin ==
  ASSUME JobInv, CopyResults, AreaWithin
  PROVE  CopyResults'
  <1>1. Works /\ ~line /\ Active /\ AreaWorks
    BY DEF AreaWithin, AreaWorks, Works, Active
  <1>2. /\ job' = job /\ bltx' = bltx /\ blitstate' = blitstate /\ Row' = Row
        /\ bltdat' = bltdat /\ bltdpt' = bltdpt /\ bltdwrite' = bltdwrite
        /\ bltcycle' = bltcycle + 1 /\ CopyJob' = CopyJob
    BY DEF AreaWithin, AreaWorks, Works, Row, CopyJob
  <1>3. /\ Served("D")' <=> Served("D") \/ "D" = cycles[bltcycle + 1]
        /\ "D" = cycles[bltcycle + 1] => ~Served("D")
    BY <1>1, <1>2, ServedByCycle DEF Channels
  <1>4. /\ bltdat = IF "D" \in job.use THEN Row * job.w + bltx ELSE 0
        /\ bltdwrite <=> bltdat > 0
        /\ bltdwrite => <<bltdpt, bltdat>> = Copy!Word(CopyJob, bltdat)
        /\ Len(written) = IF bltdwrite /\ ~Served("D") THEN bltdat - 1 ELSE bltdat
    BY <1>1 DEF CopyResults
  <1>5. /\ \A k \in DOMAIN written' : written'[k] = Copy!Word(CopyJob, k)
        /\ IF cycles[bltcycle + 1] = "D" /\ bltdwrite
           THEN Len(written') = bltdat ELSE Len(written') = Len(written)
    BY <1>1, WordWritten
  <1>6. Len(written') = IF bltdwrite /\ ~Served("D")' THEN bltdat - 1 ELSE bltdat
    BY <1>3, <1>4, <1>5
  <1>7. /\ bltdat' = IF "D" \in job'.use THEN Row' * job'.w + bltx' ELSE 0
        /\ bltdwrite' <=> bltdat' > 0
        /\ bltdwrite' => <<bltdpt', bltdat'>> = Copy!Word(CopyJob', bltdat')
        /\ Len(written') = IF bltdwrite' /\ ~Served("D")' THEN bltdat' - 1 ELSE bltdat'
        /\ \A k \in DOMAIN written' : written'[k] = Copy!Word(CopyJob', k)
    BY <1>2, <1>4, <1>5, <1>6
  <1> QED  BY <1>7 DEF CopyResults

(* At the end of a period nothing waits *)
LEMMA NothingWaits ==
  ASSUME JobInv, CopyResults, AreaWorks, bltcycle + 1 = period
  PROVE  Len(written') = bltdat
  <1>1. Works /\ ~line /\ Active
    BY DEF AreaWorks, Works, Active
  <1>2. "D" \in job.use <=> Served("D") \/ "D" = cycles[bltcycle + 1]
    BY <1>1, ServedByCycle DEF Channels
  <1>3. /\ bltdat = IF "D" \in job.use THEN Row * job.w + bltx ELSE 0
        /\ bltdwrite <=> bltdat > 0
        /\ Len(written) = IF bltdwrite /\ ~Served("D") THEN bltdat - 1 ELSE bltdat
    BY <1>1 DEF CopyResults
  <1>4. IF cycles[bltcycle + 1] = "D" /\ bltdwrite
        THEN Len(written') = bltdat ELSE Len(written') = Len(written)
    BY WordWritten
  <1>5. CASE "D" \in job.use
    BY <1>2, <1>3, <1>4, <1>5
  <1>6. CASE "D" \notin job.use
    <2>1. bltdat = 0 /\ ~bltdwrite  BY <1>3, <1>6
    <2> QED  BY <1>3, <1>4, <2>1
  <1> QED  BY <1>5, <1>6

LEMMA ResultsResult ==
  ASSUME JobInv, PointersInv, CopyResults, AreaResult
  PROVE  CopyResults'
  <1>1. Works /\ ~line /\ Active /\ AreaWorks /\ "D" \in Channels
    BY DEF AreaResult, AreaWorks, Works, Active, Channels
  <1>2. /\ job' = job /\ bltcycle' = 0 /\ CopyJob' = CopyJob
        /\ use = job.use /\ bltw = job.w /\ bltcycle + 1 = period
    BY <1>1, WorksStep DEF AreaResult, CopyJob
  <1>3. /\ Row \in Nat /\ job.w \in Nat \ {0} /\ bltx \in Nat /\ Row * job.w \in Nat
    BY <1>1, AtTypes, Products
  <1>4. /\ bltdat = IF "D" \in job.use THEN Row * job.w + bltx ELSE 0
        /\ bltdwrite <=> bltdat > 0
    BY <1>1 DEF CopyResults
  <1>5. Len(written') = bltdat /\ \A k \in DOMAIN written' : written'[k] = Copy!Word(CopyJob, k)
    BY <1>1, <1>2, NothingWaits, WordWritten
  <1>6. ~Served("D")'  BY <1>1, <1>2, ServedByCycle
  <1>7. Row' * job.w + bltx' = Row * job.w + bltx + 1
    <2>1. blth \in Nat /\ job.h \in Nat  BY DEF JobInv, BlitTypes
    <2>2. CASE bltx + 1 = bltw
      <3>1. bltx' = 0 /\ blth' = blth - 1  BY <2>2 DEF AreaResult
      <3>2. Row' = Row + 1  BY <1>2, <2>1, <3>1 DEF Row
      <3>3. (Row + 1) * job.w = Row * job.w + job.w  BY <1>3, Distribute
      <3> QED  BY <1>2, <1>3, <2>2, <3>1, <3>2, <3>3
    <2>3. CASE bltx + 1 # bltw
      <3>1. bltx' = bltx + 1 /\ blth' = blth  BY <2>3 DEF AreaResult
      <3>2. Row' = Row  BY <1>2, <3>1 DEF Row
      <3> QED  BY <1>3, <3>1, <3>2
    <2> QED  BY <2>2, <2>3
  <1>8. CASE "D" \in job.use
    <2>1. /\ bltdwrite' = TRUE /\ bltdpt' = Fetched["D"] /\ bltdat' = bltdat + 1
      BY <1>2, <1>8 DEF AreaResult
    <2>2. <<bltdpt', bltdat'>> = Copy!Word(CopyJob', bltdat')
      BY <1>2, <1>4, <1>8, <2>1, NextWord
    <2>3. bltdat' = Row' * job.w + bltx' /\ bltdat' > 0 /\ Len(written') = bltdat' - 1
      BY <1>3, <1>4, <1>5, <1>7, <1>8, <2>1
    <2> QED  BY <1>2, <1>5, <1>6, <1>8, <2>1, <2>2, <2>3 DEF CopyResults
  <1>9. CASE "D" \notin job.use
    <2>1. bltdat' = bltdat /\ (bltdwrite' <=> bltdwrite)
      BY <1>2, <1>9 DEF AreaResult
    <2>2. bltdat' = 0 /\ ~bltdwrite' /\ Len(written') = 0
      BY <1>4, <1>5, <1>9, <2>1
    <2> QED  BY <1>2, <1>5, <1>9, <2>2 DEF CopyResults
  <1> QED  BY <1>8, <1>9

LEMMA ResultsSkips ==
  ASSUME JobInv, CopyResults, Skips
  PROVE  CopyResults'
  <1>1. Works /\ ~line /\ Active
    BY DEF Skips, Works, Active
  <1>2. /\ job' = job /\ CopyJob' = CopyJob /\ cycles[bltcycle + 1] # "D"
        /\ UNCHANGED <<bltx, bltdwrite, bltdpt, bltdat, written>>
    BY DEF Skips, Works, CopyJob
  <1>3. CASE blitstate' = "stopped"
    BY <1>2, <1>3 DEF CopyResults, Active
  <1>4. CASE bltcycle' = bltcycle + 1 /\ blth' = blth
    <2>1. Row' = Row  BY <1>2, <1>4 DEF Row
    <2>2. Served("D")' <=> Served("D")
      BY <1>1, <1>2, <1>4, ServedByCycle DEF Channels
    <2> QED  BY <1>1, <1>2, <2>1, <2>2 DEF CopyResults
  <1> QED  BY <1>3, <1>4 DEF Skips

LEMMA LineResultsStep ==
  ASSUME JobInv, LineResults, LineKinds
  PROVE  LineResults'
  <1>1. Works /\ line /\ Active /\ blitstate \in {"running", "final"}
    BY DEF LineKinds, LineDraw, LinePass, LineRow, LineEnds, LineWorks, Works, Active
  <1>2. /\ written \in Seq(Int \X Nat) /\ bltdat \in Nat /\ bltdpt \in Int
        /\ bltcycle \in Nat
    BY DEF JobInv, BlitTypes
  <1>3. /\ Len(written) \in Nat /\ DOMAIN written = 1 .. Len(written)
        /\ \A i \in 1 .. Len(written) : written[i][2] \in Nat
    <2>1. \A i \in 1 .. Len(written) : written[i] \in Int \X Nat
      BY <1>2, ElementOfSeq
    <2> QED  BY <1>2, <2>1, LenProperties
  <1>4. /\ \A i, k \in 1 .. Len(written) : i < k => written[i][2] < written[k][2]
        /\ \A i \in 1 .. Len(written) : written[i][2] <= bltdat
    BY <1>1, <1>3 DEF LineResults
  <1>5. CASE LineDraw
    BY <1>2, <1>3, <1>4, <1>5 DEF LineDraw, LineResults
  <1>6. CASE LinePass
    <2>1. /\ written' = written /\ bltdat' = bltdat /\ blitstate' = blitstate
          /\ bltcycle' = bltcycle + 1
          /\ bltcycle = 1 => blitstate = "final"
      BY <1>6 DEF LinePass
    <2>2. blitstate = "running" /\ bltcycle + 1 > 1
            => \A i \in 1 .. Len(written) : written[i][2] < bltdat
      <3>1. blitstate = "running" /\ bltcycle > 1
              => \A i \in 1 .. Len(written) : written[i][2] < bltdat
        BY <1>3 DEF LineResults
      <3>2. bltcycle \in 0 .. 2  BY <1>6 DEF LinePass
      <3>3. blitstate = "running" /\ bltcycle + 1 > 1 => bltcycle > 1
        BY <2>1, <3>2
      <3> QED  BY <3>1, <3>3
    <2> QED  BY <1>3, <1>4, <2>1, <2>2 DEF LineResults
  <1>7. CASE ~bltdwrite /\ (LineRow \/ LineEnds)
    <2>1. written' = written /\ bltdat' = bltdat /\ bltcycle' = 0
      BY <1>7 DEF LineRow, LineEnds, LineWrites
    <2> QED  BY <1>3, <1>4, <2>1 DEF LineResults
  <1>8. CASE bltdwrite /\ (LineRow \/ LineEnds)
    <2>1. written' = Append(written, <<bltdpt, bltdat>>) /\ bltdat' = bltdat /\ bltcycle' = 0
      BY <1>8 DEF LineRow, LineEnds, LineWrites
    <2>2. <<bltdpt, bltdat>> \in Int \X Nat  BY <1>2
    <2>3. /\ Len(written') = Len(written) + 1
          /\ DOMAIN written' = 1 .. Len(written) + 1
          /\ \A i \in 1 .. Len(written) : written'[i] = written[i]
          /\ written'[Len(written) + 1] = <<bltdpt, bltdat>>
      BY <1>2, <1>3, <2>1, <2>2, AppendProperties
    <2>4. \A i \in DOMAIN written' : written'[i][2] <= bltdat
      BY <1>2, <1>3, <1>4, <2>3
    <2>5. ASSUME NEW i \in DOMAIN written', NEW k \in DOMAIN written', i < k
          PROVE  \/ written'[i][2] < written'[k][2]
                 \/ i + 1 = k /\ k = Len(written') /\ blitstate' = "stopped"
      <3>1. i \in 1 .. Len(written)  BY <1>3, <2>3, <2>5
      <3>2. CASE k \in 1 .. Len(written)
        BY <1>4, <2>3, <2>5, <3>1, <3>2
      <3>3. CASE k = Len(written) + 1 /\ LineRow
        <4>1. written[i][2] < bltdat
          BY <1>3, <3>1, <3>3 DEF LineRow, LineResults
        <4> QED  BY <2>3, <3>1, <3>3, <4>1
      <3>4. CASE k = Len(written) + 1 /\ LineEnds
        <4>1. CASE i = Len(written)  BY <2>3, <3>4, <4>1 DEF LineEnds
        <4>2. CASE i # Len(written)
          <5>1. i < Len(written) /\ Len(written) \in 1 .. Len(written)
            BY <1>3, <3>1, <4>2
          <5>2. written[i][2] < written[Len(written)][2] /\ written[Len(written)][2] <= bltdat
            BY <1>4, <3>1, <5>1
          <5>3. written[i][2] < bltdat
            BY <1>2, <1>3, <3>1, <5>1, <5>2
          <5> QED  BY <2>3, <3>1, <3>4, <5>3
        <4> QED  BY <4>1, <4>2
      <3> QED  BY <1>3, <1>8, <2>3, <3>1, <3>2, <3>3, <3>4
    <2> QED  BY <2>1, <2>4, <2>5 DEF LineResults
  <1> QED  BY <1>5, <1>6, <1>7, <1>8 DEF LineKinds

LEMMA ResultsStep ==
  ASSUME JobInv, PointersInv, ResultsInv, Kinds
  PROVE  ResultsInv'
  <1>1. CASE Same
    <2>1. /\ UNCHANGED <<bltx, blth, bltcycle, blitstate, job, bltdat, bltdpt, bltdwrite, written>>
          /\ cycles' = cycles
      BY <1>1, SameDiagram DEF Same, runVars, jobVars
    <2> QED  BY <2>1 DEF ResultsInv, LineResults, CopyResults, CopyJob, Active, Row, Served
  <1>2. CASE Programs
    <2>1. UNCHANGED <<blitstate, job, written>> /\ blitstate = "stopped"
      BY <1>2 DEF Programs, jobVars
    <2> QED  BY <2>1 DEF ResultsInv, LineResults, CopyResults, CopyJob, Active
  <1>3. CASE Starts
    <2>1. PICK w \in Nat \ {0}, h \in Nat \ {0} : blitstart(w, h)
      BY <1>3 DEF Starts
    <2>2. /\ blth' = h /\ bltx' = 0 /\ bltcycle' = 0 /\ written' = <<>>
          /\ bltdat' = 0 /\ bltdwrite' = FALSE
          /\ blitstate' = "starting" /\ job'.w = w /\ job'.h = h
      BY <2>1 DEF blitstart, ResetResult
    <2>3. Row' = 0 /\ Row' * job'.w + bltx' = 0  BY <2>2 DEF Row
    <2> QED  BY <2>2, <2>3 DEF ResultsInv, LineResults, CopyResults
  <1>4. CASE CountsDown
    <2>1. /\ UNCHANGED <<bltx, blth, bltcycle, job, bltdat, bltdpt, bltdwrite, written>>
          /\ cycles' = cycles
      BY <1>4, SameDiagram DEF CountsDown, jobVars
    <2>2. Active /\ (blitstate' = "running" => blitstate = "running" \/ bltcycle = 0)
      BY <1>4 DEF CountsDown, Active, JobInv, JobLinked
    <2> QED  BY <2>1, <2>2 DEF ResultsInv, LineResults, CopyResults, CopyJob, Active, Row, Served
  <1>5. CASE AreaKinds
    <2>1. Works /\ ~line
      BY <1>5 DEF AreaKinds, AreaWithin, AreaResult, AreaEnds, Skips, AreaWorks
    <2>2. job' = job /\ ~job.line  BY <2>1, WorksStep
    <2>3. CASE AreaEnds
      <3>1. AreaWorks /\ CopyJob' = CopyJob /\ blitstate' = "stopped"
        BY <2>2, <2>3 DEF AreaEnds, CopyJob
      <3> QED  BY <2>2, <3>1, WordWritten DEF ResultsInv, CopyResults, Active
    <2> QED  BY <1>5, <2>2, <2>3, ResultsWithin, ResultsResult, ResultsSkips DEF AreaKinds, ResultsInv
  <1>6. CASE LineKinds
    <2>1. Works /\ line
      BY <1>6 DEF LineKinds, LineDraw, LinePass, LineRow, LineEnds, LineWorks
    <2>2. job' = job /\ job.line  BY <2>1, WorksStep
    <2> QED  BY <1>6, <2>2, LineResultsStep DEF ResultsInv
  <1> QED  BY <1>1, <1>2, <1>3, <1>4, <1>5, <1>6 DEF Kinds

-----------------------------------------------------------------------------
(* The theorems *)

BlitInv == BlockingInv /\ JobInv /\ BusyInv /\ PointersInv /\ ResultsInv

LEMMA BlitInvStep ==
  ASSUME Discipline = "stopped", BlitInv, [Next]_vars
  PROVE  BlitInv' /\ Kinds
  BY BlockingStep, StepKinds, JobStep, BusyStep, PointersStep, ResultsStep DEF BlitInv

LEMMA BlitInvHolds ==
  ASSUME Discipline = "stopped"
  PROVE  Spec => []BlitInv
  <1>1. Init => BlitInv
    BY BlockingInit, JobInit, BusyInit, PointersInit, ResultsInit DEF BlitInv
  <1>2. BlitInv /\ [Next]_vars => BlitInv'
    BY BlitInvStep
  <1> QED  BY <1>1, <1>2, PTL DEF Spec

(***************************************************************************)
(* When software programs the blitter only once it has stopped, each blit  *)
(* is finished by one interrupt, with BUSY set until then, and a line      *)
(* writes no pixel twice but its last (blitfinished, do_blitter_line).     *)
(***************************************************************************)
THEOREM EachOnceCorrect ==
  ASSUME Discipline = "stopped"
  PROVE  Spec => []EachOnce
  <1>1. ASSUME BlitInv
        PROVE  EachOnce
    <2>1. OneInterruptPerBlit
      <3>1. blitstate \in {"stopped", "starting", "running", "final"}
        BY <1>1 DEF BlitInv, JobInv, BlitTypes
      <3> QED  BY <1>1, <3>1 DEF BlitInv, BusyInv, OneInterruptPerBlit
    <2>2. OnlyLastPixelRepeats
      <3>1. /\ Active => line = job.line
            /\ blitstate = "stopped" \/ Active
        BY <1>1 DEF BlitInv, JobInv, JobLinked, Active
      <3>2. written \in Seq(Int \X Nat) /\ Len(written) \in Nat
            /\ DOMAIN written = 1 .. Len(written)
        BY <1>1, LenProperties DEF BlitInv, JobInv, BlitTypes
      <3>3. \A i \in DOMAIN written : written[i][2] \in Nat
        <4>1. \A i \in 1 .. Len(written) : written[i] \in Int \X Nat
          BY <3>2, ElementOfSeq
        <4> QED  BY <3>2, <4>1
      <3>4. CASE job.line
        <4>1. LineResults  BY <1>1, <3>4 DEF BlitInv, ResultsInv
        <4> QED  BY <3>3, <4>1 DEF LineResults, OnlyLastPixelRepeats
      <3>5. CASE ~job.line
        <4>1. CopyResults  BY <1>1, <3>5 DEF BlitInv, ResultsInv
        <4>2. \A i \in DOMAIN written : written[i][2] = i
          BY <4>1 DEF CopyResults, Copy!Word
        <4>3. \A i, k \in DOMAIN written : i < k => written[i] # written[k]
          BY <3>2, <4>2
        <4> QED  BY <4>3 DEF OnlyLastPixelRepeats
      <3> QED  BY <3>4, <3>5
    <2> QED  BY <2>1, <2>2 DEF EachOnce
  <1> QED  BY <1>1, BlitInvHolds, PTL

LEMMA PointersEnd ==
  ASSUME BlitInv, Kinds, blitstate # "stopped", blitstate' = "stopped", ~line
  PROVE  pt' = [c \in Channels |->
                  job.at[c] + (IF c \in job.use
                               THEN job.h * (job.w + Mod[c]) ELSE 0)]
  <1>1. (AreaEnds \/ Skips) /\ JobInv /\ PointersInv
    BY DEF BlitInv, Kinds, Same, runVars, Programs, Starts, CountsDown, AreaKinds, AreaWithin,
           AreaResult, LineKinds, LineDraw, LinePass, LineRow, LineEnds, LineWorks
  <1>2. Works /\ Active /\ blitstate = "final"
    BY <1>1 DEF AreaEnds, Skips, AreaWorks, Works, Active
  <1>3. ~job.line /\ blth = 0 /\ pt \in [Channels -> Int]
    BY <1>1, <1>2, WorksStep DEF JobInv, BlitTypes
  <1>4. Row = job.h /\ bltx = 0
    BY <1>1, <1>2, <1>3 DEF Row, PointersInv, JobInv, BlitTypes
  <1>5. pt' \in [Channels -> Int] /\ \A c \in Channels : pt'[c] = pt[c]
    <2>1. CASE AreaEnds
      <3>1. pt' = Fetched  BY <2>1 DEF AreaEnds
      <3> QED  BY <1>1, <1>2, <3>1, FetchedBy, FetchedType DEF JobInv
    <2>2. CASE Skips
      BY <1>3, <2>2 DEF Skips
    <2> QED  BY <1>1, <2>1, <2>2
  <1>6. ASSUME NEW c \in Channels
        PROVE  pt'[c] = job.at[c] + (IF c \in job.use THEN job.h * (job.w + Mod[c]) ELSE 0)
    <2>1. pt[c] = job.at[c] +
                  (IF c \in job.use THEN job.h * (job.w + Mod[c]) + 0 + 0 ELSE 0)
      BY <1>1, <1>2, <1>3, <1>4 DEF PointersInv
    <2>2. job.h * (job.w + Mod[c]) \in Int  BY <1>1, <1>2, <1>4, AtTypes
    <2> QED  BY <1>5, <2>1, <2>2
  <1> QED  BY <1>5, <1>6

(***************************************************************************)
(* Under the same discipline a rectangular blit that ends has moved each   *)
(* enabled pointer just past its rectangle and left the others alone, for  *)
(* any channels, size, moduli and contention (do_blitter, blitdone).       *)
(***************************************************************************)
THEOREM PointersAtEndCorrect ==
  ASSUME Discipline = "stopped"
  PROVE  Spec => PointersAtEnd
  <1>1. BlitInv /\ [Next]_vars =>
          [blitstate # "stopped" /\ blitstate' = "stopped" /\ ~line
             => pt' = [c \in Channels |->
                         job.at[c] + (IF c \in job.use
                                      THEN job.h * (job.w + Mod[c]) ELSE 0)]]_vars
    BY BlitInvStep, PointersEnd
  <1> QED  BY <1>1, BlitInvHolds, PTL DEF Spec, PointersAtEnd

(* Of the words of the rectangle, those of the rows done and of this one    *)
(* are computed                                                             *)
LEMMA WithinTotal ==
  ASSUME JobInv, PointersInv, Active, ~job.line
  PROVE  /\ Row * job.w + bltx <= job.w * job.h
         /\ blitstate = "final" => Row * job.w + bltx = job.w * job.h
  <1>1. /\ Row \in Nat /\ job.w \in Nat \ {0} /\ bltx \in Nat /\ bltx < job.w
        /\ Row * job.w \in Nat
    BY AtTypes, Products DEF Channels, PointersInv
  <1>2. /\ job.h \in Nat /\ blth \in Nat /\ blth <= job.h
        /\ blth = 0 <=> blitstate = "final"
        /\ blitstate = "final" => bltx = 0
    BY DEF JobInv, JobLinked, BlitTypes, PointersInv
  <1>3. CASE blitstate = "final"
    BY <1>1, <1>2, <1>3 DEF Row
  <1>4. CASE blitstate # "final"
    <2>1. Row + 1 <= job.h  BY <1>2, <1>4 DEF Row
    <2>2. (Row + 1) * job.w <= job.h * job.w  BY <1>1, <1>2, <2>1
    <2>3. (Row + 1) * job.w = Row * job.w + job.w
      <3>1. Row \in Int /\ job.w \in Int  BY <1>1
      <3> QED  BY <3>1, Distribute
    <2>4. job.h * job.w = job.w * job.h /\ job.h * job.w \in Nat  BY <1>1, <1>2
    <2> QED  BY <1>1, <1>4, <2>2, <2>3, <2>4
  <1> QED  BY <1>3, <1>4

(* A word that waits is one of the rectangle *)
LEMMA WordOfRectangle ==
  ASSUME JobInv, PointersInv, CopyResults, Active, ~job.line
  PROVE  /\ bltdwrite => "D" \in job.use /\ bltdat <= job.w * job.h
         /\ blitstate = "final" => bltdat = IF "D" \in job.use THEN job.w * job.h ELSE 0
  <1>1. /\ bltdat = IF "D" \in job.use THEN Row * job.w + bltx ELSE 0
        /\ bltdwrite <=> bltdat > 0
    BY DEF CopyResults
  <1> QED  BY <1>1, WithinTotal

LEMMA CopyInit == Init => Copy!Init
  BY DEF Init, Copy!Init

(* A cycle of a rectangle writes the next word or none *)
LEMMA CopyWorks ==
  ASSUME JobInv, PointersInv, CopyResults, AreaWorks, ~job.line, job' = job,
         blitstate' # "stopped"
  PROVE  [Copy!Next]_(Copy!vars)
  <1>1. Works /\ Active
    BY DEF AreaWorks, Works, Active
  <1>2. CASE written' = written
    BY <1>1, <1>2 DEF Copy!vars, Active
  <1>3. CASE written' # written
    <2>1. cycles[bltcycle + 1] = "D" /\ bltdwrite
      BY <1>3 DEF AreaWorks
    <2>2. /\ written' = Append(written, Copy!Word(CopyJob, Len(written) + 1))
          /\ Len(written) = bltdat - 1
      BY <2>1, WordWritten
    <2>3. "D" \in job.use /\ bltdat <= job.w * job.h
      BY <1>1, <2>1, WordOfRectangle
    <2>4. bltdat \in Nat /\ job.w * job.h \in Nat
      BY Products DEF JobInv, BlitTypes
    <2>5. Len(written) < job.w * job.h  BY <2>2, <2>3, <2>4
    <2>6. Copy!WriteWord
      BY <1>1, <2>2, <2>3, <2>5 DEF Copy!WriteWord, Copy!Total, CopyJob, Active
    <2> QED  BY <2>6 DEF Copy!Next
  <1> QED  BY <1>2, <1>3

LEMMA CopyEnds ==
  ASSUME JobInv, PointersInv, CopyResults, AreaEnds, ~job.line, job' = job
  PROVE  Copy!Next
  <1>1. AreaWorks /\ Works /\ Active /\ blitstate = "final" /\ blitstate' = "stopped"
        /\ bltcycle + 1 = period
    BY DEF AreaEnds, AreaWorks, Works, Active
  <1>2. Len(written') = bltdat  BY <1>1, NothingWaits
  <1>3. bltdat = IF "D" \in job.use THEN job.w * job.h ELSE 0
    BY <1>1, WordOfRectangle
  <1>4. \/ written' = written
        \/ written' = Append(written, Copy!Word(CopyJob, Len(written) + 1))
    BY <1>1, WordWritten
  <1>5. Copy!Finish
    BY <1>1, <1>2, <1>3, <1>4 DEF Copy!Finish, Copy!Total, CopyJob, Active
  <1> QED  BY <1>5 DEF Copy!Next

LEMMA CopySkips ==
  ASSUME JobInv, PointersInv, CopyResults, Skips, ~job.line, job' = job
  PROVE  [Copy!Next]_(Copy!vars)
  <1>1. Works /\ ~line /\ Active /\ blitstate = "final" /\ written' = written
        /\ cycles[bltcycle + 1] # "D"
    BY DEF Skips, Works, Active
  <1>2. CASE blitstate' = blitstate
    BY <1>1, <1>2 DEF Copy!vars
  <1>3. CASE bltcycle + 1 = period /\ blitstate' = "stopped"
    <2>1. "D" \in job.use => Served("D")
      BY <1>1, <1>3, ServedByCycle DEF Channels
    <2>2. bltdat = IF "D" \in job.use THEN job.w * job.h ELSE 0
      BY <1>1, WordOfRectangle
    <2>3. /\ bltdwrite => "D" \in job.use
          /\ Len(written) = IF bltdwrite /\ ~Served("D") THEN bltdat - 1 ELSE bltdat
      BY <1>1, WordOfRectangle DEF CopyResults
    <2>4. Len(written) = bltdat  BY <2>1, <2>3
    <2>5. Copy!Finish
      BY <1>1, <1>3, <2>2, <2>4 DEF Copy!Finish, Copy!Total, Active
    <2> QED  BY <2>5 DEF Copy!Next
  <1>4. bltcycle + 1 < period \/ bltcycle + 1 = period
    BY <1>1, WorksStep DEF JobInv, BlitTypes
  <1> QED  BY <1>2, <1>3, <1>4 DEF Skips

LEMMA CopyStep ==
  ASSUME BlitInv, Kinds
  PROVE  [Copy!Next]_(Copy!vars)
  <1>1. JobInv /\ PointersInv /\ ResultsInv  BY DEF BlitInv
  <1>2. CASE Same
    BY <1>2 DEF Same, runVars, jobVars, Copy!vars
  <1>3. CASE Programs
    BY <1>3 DEF Programs, jobVars, Copy!vars
  <1>4. CASE Starts
    <2>1. PICK w \in Nat \ {0}, h \in Nat \ {0} : <<w, h>> \in Sizes /\ blitstart(w, h)
      BY <1>4 DEF Starts
    <2>2. /\ blitstate = "stopped" /\ blitstate' = "starting" /\ written' = <<>>
          /\ job'.w = w /\ job'.h = h
      BY <1>4, <2>1 DEF Starts, blitstart
    <2>3. CASE job'.line
      BY <2>2, <2>3 DEF Copy!Next, Copy!DrawLine
    <2>4. CASE ~job'.line
      BY <2>1, <2>2, <2>4 DEF Copy!Next, Copy!Start
    <2> QED  BY <2>3, <2>4
  <1>5. CASE CountsDown
    BY <1>5 DEF CountsDown, jobVars, Copy!vars
  <1>6. CASE AreaKinds
    <2>1. Works /\ ~line
      BY <1>6 DEF AreaKinds, AreaWithin, AreaResult, AreaEnds, Skips, AreaWorks
    <2>2. job' = job /\ ~job.line /\ CopyResults
      BY <1>1, <2>1, WorksStep DEF ResultsInv
    <2>3. CASE AreaWithin \/ AreaResult
      <3>1. AreaWorks /\ blitstate' # "stopped"
        BY <2>3 DEF AreaWithin, AreaResult, AreaWorks, Works
      <3> QED  BY <1>1, <2>2, <3>1, CopyWorks
    <2>4. CASE AreaEnds  BY <1>1, <2>2, <2>4, CopyEnds
    <2>5. CASE Skips  BY <1>1, <2>2, <2>5, CopySkips
    <2> QED  BY <1>6, <2>3, <2>4, <2>5 DEF AreaKinds
  <1>7. CASE LineKinds
    <2>1. Works /\ line
      BY <1>7 DEF LineKinds, LineDraw, LinePass, LineRow, LineEnds, LineWorks
    <2>2. job' = job /\ job.line  BY <1>1, <2>1, WorksStep
    <2> QED  BY <2>2 DEF Copy!vars
  <1> QED  BY <1>2, <1>3, <1>4, <1>5, <1>6, <1>7 DEF Kinds

(***************************************************************************)
(* Under the same discipline every rectangular blit implements BlitCopy:   *)
(* each word of the destination rectangle is written once, in order, at    *)
(* its address, and before the blitter stops, whoever takes the bus.       *)
(***************************************************************************)
THEOREM CopySpecCorrect ==
  ASSUME Discipline = "stopped"
  PROVE  Spec => CopySpec
  <1>1. BlitInv /\ [Next]_vars => [Copy!Next]_(Copy!vars)
    BY BlitInvStep, CopyStep
  <1> QED  BY <1>1, CopyInit, BlitInvHolds, PTL DEF Spec, CopySpec, Copy!Spec
=============================================================================
