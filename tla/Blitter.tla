------------------------------ MODULE Blitter ------------------------------
(***************************************************************************)
(* The blitter of custom.cpp, the bus arbitration it takes part in, and    *)
(* the CPU that competes with it for free cycles (amiga::on_memory_access).*)
(*                                                                         *)
(* Tick is one call of custom_handler::impl::step; every other call is a   *)
(* colour clock.  The DMA channels with a higher priority than the blitter *)
(* are reduced to the slots they take.  Data are reduced to the order in   *)
(* which they are produced: bltdat[3] holds the number of the word it was  *)
(* computed for.  Pointers and moduli count words.                         *)
(***************************************************************************)
EXTENDS Integers, Sequences, FiniteSets

CONSTANTS
  Uses,        (* the channel sets software enables: subsets of Channels  *)
  Modes,       (* "area", "fill", "line", "onedot": the BLTCON1 modes     *)
  Sizes,       (* the sizes <<width, height>> software writes             *)
  Mod,         (* modulo of each channel, in words                        *)
  DmaBits,     (* the DMACON bits software changes                        *)
  Discipline,  (* when software programs the blitter: once it is          *)
               (* "stopped", or once "busy" is clear                      *)
  MaxBlits,    (* bound on the number of BLTSIZE writes                   *)
  Slots,       (* length of the repeating pattern of bus slots            *)
  Contended    (* the slots a higher priority channel may take            *)

Channels == {"A", "B", "C", "D"}
Sources == {"A", "B", "C"}

ASSUME BlitterAssumption ==
  /\ Uses \subseteq SUBSET Channels
  /\ Modes \subseteq {"area", "fill", "line", "onedot"}
  /\ Sizes \subseteq (Nat \ {0}) \X (Nat \ {0})
  /\ Mod \in [Channels -> Int]
  /\ DmaBits \subseteq {"MASTER", "BLITTER", "BLITHOG"}
  /\ Discipline \in {"stopped", "busy"}
  /\ MaxBlits \in Nat
  /\ Slots \in Nat \ {0} /\ Contended \subseteq 0 .. Slots - 1

VARIABLES
  use, mode,           (* BLTCON0, BLTCON1                                *)
  pt,                  (* [Channels -> Int]: bltpt                        *)
  bltw, blth, bltx,    (* size of the blit and position in the line       *)
  bltcycle,            (* position in the cycle diagram                   *)
  bltdwrite,           (* a result waits in bltdat[3]                     *)
  bltdpt, bltdat,      (* its address and its number                      *)
  blitfirst,           (* line mode: no pixel drawn yet                   *)
  blitstate,           (* "stopped", "starting", "running", "final"       *)
  blitdelay,           (* idle steps left before the first cycle          *)
  dmacon,              (* DMACON bits set, BUSY among them                *)
  bltblockingcpu,      (* colour clocks the CPU has waited for            *)
  odd,                 (* hpos & 1                                        *)
  slot,                (* position in the pattern of bus slots            *)
  bus,                 (* who had the last cycle; "free": nobody          *)
  cpu,                 (* "run", "addr": passing the address, "wait": for *)
                       (* a free cycle, "granted"                         *)
  lost,                (* history: cycles the blitter took from this wait *)
  job,                 (* history: the blit as it was started             *)
  written,             (* history: D words written by this blit           *)
  finished             (* history: calls of blitfinished for this blit    *)

conVars == <<use, mode>>
jobVars == <<job, written, finished>>
runVars == <<pt, bltw, blth, bltx, bltcycle, bltdwrite, bltdpt, bltdat,
             blitfirst, blitstate, blitdelay>>
busVars == <<bltblockingcpu, odd, slot, bus>>
vars == <<conVars, runVars, dmacon, busVars, cpu, lost, jobVars>>

line == mode \in {"line", "onedot"}

-----------------------------------------------------------------------------
(* The cycle diagrams: which channel each cycle of a period serves *)

blitcycles(u) ==
  CASE u = {}                   -> <<"I">>
    [] u = {"D"}                -> <<"D", "I">>
    [] u = {"C"}                -> <<"C", "I">>
    [] u = {"C", "D"}           -> <<"C", "D", "I">>
    [] u = {"B"}                -> <<"B", "I", "I">>
    [] u = {"B", "D"}           -> <<"B", "D", "I">>
    [] u = {"B", "C"}           -> <<"B", "C", "I">>
    [] u = {"B", "C", "D"}      -> <<"B", "C", "D", "I">>
    [] u = {"A"}                -> <<"A", "I">>
    [] u = {"A", "D"}           -> <<"A", "D">>
    [] u = {"A", "C"}           -> <<"A", "C">>
    [] u = {"A", "C", "D"}      -> <<"A", "C", "D">>
    [] u = {"A", "B"}           -> <<"A", "B", "I">>
    [] u = {"A", "B", "D"}      -> <<"A", "B", "D">>
    [] u = {"A", "B", "C"}      -> <<"A", "B", "C">>
    [] u = {"A", "B", "C", "D"} -> <<"A", "B", "C", "D">>

blitcycles_fill(u) ==
  CASE u = {"D"}           -> <<"I", "D", "I">>
    [] u = {"B", "D"}      -> <<"I", "B", "D", "I">>
    [] u = {"A", "D"}      -> <<"A", "D", "I">>
    [] u = {"A", "B", "D"} -> <<"A", "B", "D", "I">>
    [] OTHER               -> blitcycles(u)

cycles == IF mode = "fill" THEN blitcycles_fill(use) ELSE blitcycles(use)
period == IF line THEN 4 ELSE Len(cycles)

-----------------------------------------------------------------------------
(* Parts of the handlers *)

(* blitdone, on the C pointer as it is after the cycle *)
blitdone(ptc) ==
  /\ blitstate' = "stopped"
  /\ bltw' = 0 /\ blth' = 0
  /\ pt' = IF line THEN [ptc EXCEPT !["D"] = ptc["C"]] ELSE ptc

(* Mutant: BUSY stays set *)
blitfinishedBusy == UNCHANGED dmacon /\ finished' = finished + 1

(* blitfinished: BUSY is cleared and the interrupt requested *)
blitfinished ==
  /\ dmacon' = dmacon \ {"BLTBUSY"}
  /\ finished' = finished + 1

(* check_blit_start_delay *)
StartDelay ==
  /\ IF blitdelay = 1
     THEN blitstate' = "running" /\ blitdelay' = 2
     ELSE blitdelay' = blitdelay - 1 /\ UNCHANGED blitstate
  /\ UNCHANGED <<pt, bltw, blth, bltx, bltcycle, bltdwrite, bltdpt, bltdat,
                 blitfirst, dmacon, finished, written>>

Stall == UNCHANGED <<runVars, dmacon, finished, written>>

(* Mutant: the modulo of channels that are off is added too *)
AddModuloAll(p) == [c \in Channels |-> p[c] + Mod[c]]

(* At the end of a line the enabled pointers skip their modulo *)
AddModulo(p) == [c \in Channels |-> IF c \in use THEN p[c] + Mod[c] ELSE p[c]]

(* Mutant: the last row of a line is not drawn *)
LineDrawsShort == blth > 1

(* The last period of a line computes no pixel *)
LineDraws == blitstate # "final"

(* The cycles of the last period that pass without a free bus *)
SkipsWithoutBus == cycles[bltcycle + 1] # "D"

(* chip_write of the waiting result *)
WriteD == written' = Append(written, <<bltdpt, bltdat>>)

(***************************************************************************)
(* One cycle of a rectangular blit (the second half of do_blitter), with   *)
(* the bus if acc.  The end of a period computes the next result, whose    *)
(* write waits for the D cycle of the period after it.                     *)
(***************************************************************************)
AreaCycle(acc) ==
  LET c == cycles[bltcycle + 1]
      pt1 == IF acc /\ c \in Sources THEN [pt EXCEPT ![c] = @ + 1] ELSE pt
      dest == "D" \in use
      pt2 == IF dest THEN [pt1 EXCEPT !["D"] = @ + 1] ELSE pt1
      eol == bltx + 1 = bltw
      last == eol /\ blth = 1
  IN  /\ IF c = "D" /\ bltdwrite THEN WriteD ELSE UNCHANGED written
      /\ bltcycle' = (bltcycle + 1) % period
      /\ UNCHANGED <<blitfirst, blitdelay>>
      /\ \/ /\ bltcycle + 1 < period
            /\ pt' = pt1
            /\ UNCHANGED <<bltw, blth, bltx, bltdwrite, bltdpt, bltdat,
                           blitstate, dmacon, finished>>
         \/ /\ bltcycle + 1 = period /\ blitstate = "final"
            /\ blitdone(pt1)
            /\ UNCHANGED <<bltx, bltdwrite, bltdpt, bltdat, dmacon, finished>>
         \/ /\ bltcycle + 1 = period /\ blitstate # "final"
            /\ bltdwrite' = (bltdwrite \/ dest)
            /\ bltdpt' = IF dest THEN pt1["D"] ELSE bltdpt
            /\ bltdat' = IF dest THEN bltdat + 1 ELSE bltdat
            /\ bltx' = IF eol THEN 0 ELSE bltx + 1
            /\ blth' = IF eol THEN blth - 1 ELSE blth
            /\ pt' = IF eol THEN AddModulo(pt2) ELSE pt2
            /\ UNCHANGED bltw
            /\ IF last THEN blitstate' = "final" /\ blitfinished
               ELSE UNCHANGED <<blitstate, dmacon, finished>>

(***************************************************************************)
(* One cycle of a line (do_blitter_line).  Whether the pixel is written    *)
(* (ONEDOT) and where the line goes next are data: the first pixel of a    *)
(* line is always written, and the C pointer may stay or move.             *)
(***************************************************************************)
LineCycle ==
  /\ UNCHANGED <<bltx, blitdelay>>
  /\ bltcycle' = (bltcycle + 1) % 4
  /\ IF bltcycle = 3 /\ bltdwrite THEN WriteD ELSE UNCHANGED written
  /\ \/ /\ bltcycle = 1 /\ LineDraws
        /\ bltdpt' = IF blitfirst THEN pt["D"] ELSE pt["C"]
        /\ bltdat' = bltdat + 1
        /\ blitfirst' = FALSE
        /\ \E dot \in BOOLEAN, move \in {0, 1} :
             /\ mode = "line" \/ blitfirst => dot
             /\ bltdwrite' = dot
             /\ pt' = [pt EXCEPT !["C"] = @ + move]
        /\ UNCHANGED <<bltw, blth, blitstate, dmacon, finished>>
     \/ /\ bltcycle \in {0, 2} \/ (bltcycle = 1 /\ ~LineDraws)
        /\ UNCHANGED <<pt, bltw, blth, bltdwrite, bltdpt, bltdat, blitfirst,
                       blitstate, dmacon, finished>>
     \/ /\ bltcycle = 3
        /\ UNCHANGED <<bltdwrite, bltdpt, bltdat, blitfirst>>
        /\ IF blitstate = "final" THEN blitdone(pt) /\ blitfinished
           ELSE /\ blth' = blth - 1
                /\ blitstate' = IF blth = 1 THEN "final" ELSE blitstate
                /\ UNCHANGED <<pt, bltw, dmacon, finished>>

(* Does the cycle at hand need the bus? *)
NeedsBus ==
  IF line
  THEN \/ bltcycle = 1 /\ LineDraws
       \/ bltcycle = 3 /\ bltdwrite
  ELSE LET c == cycles[bltcycle + 1]
       IN  \/ c \in Sources /\ blitstate # "final"
           \/ c = "D" /\ bltdwrite

(***************************************************************************)
(* do_blitter: the blitter is offered a cycle.  It leaves a cycle it needs *)
(* to the CPU when the CPU has waited for three.  dma: it took the cycle.  *)
(***************************************************************************)
do_blitter(blocking, dma) ==
  \/ blitstate = "stopped" /\ ~dma /\ Stall
  \/ blitstate = "starting" /\ ~dma /\ StartDelay
  \/ /\ blitstate \in {"running", "final"} /\ blitdelay > 0 /\ ~dma
     /\ blitdelay' = blitdelay - 1
     /\ UNCHANGED <<pt, bltw, blth, bltx, bltcycle, bltdwrite, bltdpt, bltdat,
                    blitfirst, blitstate, dmacon, finished, written>>
  \/ /\ blitstate \in {"running", "final"} /\ blitdelay = 0
     /\ \/ NeedsBus /\ blocking >= 3 /\ ~dma /\ Stall
        \/ /\ NeedsBus => blocking < 3
           /\ dma = NeedsBus
           /\ IF line THEN LineCycle ELSE AreaCycle(dma)

(***************************************************************************)
(* check_blit_idle_any_cycle: a step that did not offer the blitter a      *)
(* cycle still counts down its start, and skips the cycles of the last     *)
(* period other than D.                                                    *)
(***************************************************************************)
IdleAnyCycle ==
  \/ /\ dmacon \cap {"MASTER", "BLITTER"} = {} \/ blitstate = "stopped"
     /\ Stall
  \/ /\ dmacon \cap {"MASTER", "BLITTER"} # {} /\ blitstate = "starting"
     /\ StartDelay
  \/ /\ dmacon \cap {"MASTER", "BLITTER"} # {} /\ blitstate \in {"running", "final"}
     /\ IF line \/ blitstate = "running" \/ ~SkipsWithoutBus THEN Stall
        ELSE /\ UNCHANGED <<bltx, bltdwrite, bltdpt, bltdat, blitfirst,
                            blitdelay, dmacon, finished, written>>
             /\ IF bltcycle + 1 < period
                THEN bltcycle' = bltcycle + 1
                     /\ UNCHANGED <<pt, bltw, blth, blitstate>>
                ELSE blitdone(pt) /\ UNCHANGED bltcycle

-----------------------------------------------------------------------------
(* One call of step.  A step with odd hpos is no bus cycle.  taken: a      *)
(* higher priority channel has the cycle.                                  *)

OddTick ==
  /\ odd /\ odd' = FALSE
  /\ bus' = "none"
  /\ IdleAnyCycle
  /\ UNCHANGED <<conVars, bltblockingcpu, slot, cpu, lost, job>>

(* Mutants: the count is not capped; it heeds BLITHOG the wrong way round *)
BlockingUncapped ==
  IF cpu = "wait" /\ "BLITHOG" \notin dmacon THEN bltblockingcpu + 1
  ELSE bltblockingcpu
BlockingInverted ==
  IF cpu = "wait" /\ "BLITHOG" \in dmacon /\ bltblockingcpu < 3
  THEN bltblockingcpu + 1 ELSE bltblockingcpu

(* The count of colour clocks the CPU has waited *)
Blocking ==
  IF cpu = "wait" /\ "BLITHOG" \notin dmacon /\ bltblockingcpu < 3
  THEN bltblockingcpu + 1 ELSE bltblockingcpu

(* Mutant: a free cycle does not reset the count *)
BlockingKept(b) == b

(* It is reset by a free cycle, whoever uses it *)
BlockingAfter(b) == IF bus' = "free" THEN 0 ELSE b

(* Mutant: the result of the step before is looked at *)
CpuSeesCycleStale ==
  /\ cpu' = IF cpu = "run" THEN "run"
            ELSE IF bus = "free" THEN "granted" ELSE "wait"
  /\ lost' = 0

(* on_memory_access: the address takes one colour clock, free or not, and  *)
(* the first free one, that one included, ends the wait                    *)
CpuSeesCycle ==
  /\ cpu' = IF cpu = "run" THEN "run"
            ELSE IF bus' = "free" THEN "granted" ELSE "wait"
  /\ lost' = IF cpu # "wait" THEN 0
             ELSE IF bus' = "blitter" /\ "BLITHOG" \notin dmacon /\ lost < 3
             THEN lost + 1 ELSE lost

EvenTick(taken) ==
  /\ ~odd /\ odd' = TRUE
  /\ slot' = (slot + 1) % Slots
  /\ IF "MASTER" \notin dmacon THEN bus' = "free" /\ IdleAnyCycle
     ELSE IF taken THEN bus' = "other" /\ IdleAnyCycle
     ELSE \E dma \in BOOLEAN :
            /\ bus' = IF dma THEN "blitter" ELSE "free"
            /\ do_blitter(Blocking, dma)
  /\ bltblockingcpu' = BlockingAfter(Blocking)
  /\ CpuSeesCycle
  /\ UNCHANGED <<conVars, job>>

(* on_memory_access blocks the program until the access is done *)
Tick ==
  /\ cpu # "granted"
  /\ OddTick \/ \E taken \in {t \in BOOLEAN : t => slot \in Contended} :
                  EvenTick(taken)

-----------------------------------------------------------------------------
(* The CPU *)

(* An access starts when hpos is odd ("Align with CCK") *)
Request ==
  /\ cpu = "run" /\ odd /\ cpu' = "addr"
  /\ UNCHANGED <<conVars, runVars, dmacon, busVars, lost, jobVars>>

(* When software programs the blitter *)
MayProgram ==
  IF Discipline = "stopped" THEN blitstate = "stopped"
  ELSE "BLTBUSY" \notin dmacon

(* Mutant: the result of the blit before still waits *)
ResetResultNot == bltdpt' = 0 /\ bltdat' = 0 /\ UNCHANGED bltdwrite

(* blitstart forgets a result that waits; numbering starts again *)
ResetResult == bltdpt' = 0 /\ bltdat' = 0 /\ bltdwrite' = FALSE

(* blitstart: a write of BLTSIZE *)
blitstart(w, h) ==
  /\ bltw' = w /\ blth' = h /\ bltx' = 0
  /\ dmacon' = dmacon \cup {"BLTBUSY"}
  /\ bltcycle' = 0
  /\ ResetResult
  /\ blitstate' = "starting" /\ blitdelay' = 2
  /\ bltblockingcpu' = 0
  /\ blitfirst' = TRUE
  /\ job' = [n |-> job.n + 1, w |-> w, h |-> h, at |-> pt, use |-> use,
             line |-> line]
  /\ written' = <<>> /\ finished' = 0
  /\ UNCHANGED <<conVars, pt, odd, slot, bus>>

WriteBltsize ==
  /\ MayProgram /\ job.n < MaxBlits
  /\ \E s \in Sizes : blitstart(s[1], s[2])

WriteBltcon0 ==
  /\ MayProgram
  /\ \E u \in Uses : use' = u
  /\ UNCHANGED <<mode, runVars, dmacon, busVars, jobVars>>

WriteBltcon1 ==
  /\ MayProgram
  /\ \E m \in Modes : mode' = m
  /\ UNCHANGED <<use, runVars, dmacon, busVars, jobVars>>

(* BLTxPTH and BLTxPTL: the pointer is set back to the same place *)
WriteBltpt ==
  /\ MayProgram
  /\ \E c \in Channels : pt' = [pt EXCEPT ![c] = 0]
  /\ UNCHANGED <<conVars, bltw, blth, bltx, bltcycle, bltdwrite, bltdpt,
                 bltdat, blitfirst, blitstate, blitdelay, dmacon, busVars,
                 jobVars>>

(* DMACON: BLTBUSY cannot be written *)
WriteDmacon ==
  /\ \E b \in DmaBits, set \in BOOLEAN :
       dmacon' = IF set THEN dmacon \cup {b} ELSE dmacon \ {b}
  /\ UNCHANGED <<conVars, runVars, busVars, jobVars>>

(* Any other access, a read of DMACONR for one *)
OtherAccess == UNCHANGED <<conVars, runVars, dmacon, busVars, jobVars>>

Access ==
  /\ cpu = "granted" /\ cpu' = "run"
  /\ \/ WriteBltsize \/ WriteBltcon0 \/ WriteBltcon1 \/ WriteBltpt
     \/ WriteDmacon \/ OtherAccess
  /\ UNCHANGED lost

Init ==
  /\ use \in Uses /\ mode \in Modes
  /\ pt = [c \in Channels |-> 0]
  /\ bltw = 0 /\ blth = 0 /\ bltx = 0 /\ bltcycle = 0
  /\ bltdwrite = FALSE /\ bltdpt = 0 /\ bltdat = 0 /\ blitfirst = FALSE
  /\ blitstate = "stopped" /\ blitdelay = 0
  /\ dmacon = {"MASTER", "BLITTER"}
  /\ bltblockingcpu = 0 /\ odd = FALSE /\ slot = 0 /\ bus = "none"
  /\ cpu = "run" /\ lost = 0
  /\ job = [n |-> 0, w |-> 1, h |-> 0, at |-> pt, use |-> {}, line |-> FALSE]
  /\ written = <<>> /\ finished = 0

Next == Tick \/ Request \/ Access

Spec == Init /\ [][Next]_vars

(***************************************************************************)
(* The emulator keeps stepping, and a granted access is made by the code   *)
(* that waited for it.  The CPU need not use the bus at all.  That the     *)
(* channels of higher priority leave some cycles is in Contended: outside  *)
(* the display window no bitplane is fetched.                              *)
(***************************************************************************)
Fairness == WF_vars(Tick) /\ WF_vars(Access)

FairSpec == Spec /\ Fairness

-----------------------------------------------------------------------------
TypeOK ==
  /\ use \in Uses /\ mode \in Modes
  /\ pt \in [Channels -> Int]
  /\ {bltw, blth, bltx, bltcycle, bltdat} \subseteq Nat
  /\ {bltdwrite, blitfirst, odd} \subseteq BOOLEAN
  /\ bltdpt \in Int
  /\ blitstate \in {"stopped", "starting", "running", "final"}
  /\ blitdelay \in 0 .. 2
  /\ dmacon \subseteq {"MASTER", "BLITTER", "BLITHOG", "BLTBUSY"}
  /\ bltblockingcpu \in 0 .. 3
  /\ slot \in 0 .. Slots - 1
  /\ bus \in {"none", "free", "blitter", "other"}
  /\ cpu \in {"run", "addr", "wait", "granted"}
  /\ lost \in 0 .. 3
  /\ finished \in 0 .. 2

(***************************************************************************)
(* A rectangular blit that ends has moved every enabled pointer just past  *)
(* its rectangle and left the others alone: each word of each channel had  *)
(* exactly one cycle, however the bus was shared and the DMA switched.     *)
(***************************************************************************)
PointersAtEnd ==
  [][blitstate # "stopped" /\ blitstate' = "stopped" /\ ~line
       => pt' = [c \in Channels |->
                   job.at[c] + (IF c \in job.use
                                THEN job.h * (job.w + Mod[c]) ELSE 0)]]_vars

(***************************************************************************)
(* BUSY is set from BLTSIZE to the single blitfinished of the blit, which  *)
(* comes before the blitter stops: no blit ends without its interrupt, and *)
(* none has two.                                                           *)
(***************************************************************************)
OneInterruptPerBlit ==
  /\ finished <= 1
  /\ "BLTBUSY" \in dmacon <=> (finished = 0 /\ job.n > 0)
  /\ blitstate = "stopped" /\ job.n > 0 => finished = 1

(***************************************************************************)
(* Without BLITHOG, the blitter takes at most two cycles from a waiting    *)
(* CPU, whatever it was doing and whoever else takes cycles in between.    *)
(***************************************************************************)
CpuLosesAtMostTwo == lost <= 2

(***************************************************************************)
(* A line writes its last pixel again in its last period, to the same      *)
(* address and with the same result, and writes no other pixel twice.      *)
(***************************************************************************)
OnlyLastPixelRepeats ==
  line => \A i, k \in DOMAIN written :
            i < k /\ written[i] = written[k]
              => /\ k = i + 1 /\ k = Len(written)
                 /\ blitstate \in {"final", "stopped"}

(***************************************************************************)
(* A rectangular blit started on a stopped blitter writes what BlitCopy    *)
(* says: no result is lost, repeated or misplaced at the end of a line,    *)
(* in the last period, or when other channels or the CPU take the bus.     *)
(***************************************************************************)
Copy == INSTANCE BlitCopy WITH
          Mod <- Mod["D"],
          job <- [w |-> job.w, h |-> job.h, at |-> job.at["D"],
                  dest |-> "D" \in job.use],
          active <- blitstate # "stopped" /\ ~job.line,
          out <- IF job.line THEN <<>> ELSE written
CopySpec == Copy!Spec

(***************************************************************************)
(* A blit, once started, ends, although the CPU may ask for every cycle.   *)
(***************************************************************************)
BlitEnds == blitstate # "stopped" ~> blitstate = "stopped"

(***************************************************************************)
(* The CPU gets the bus although the blitter comes first, even when        *)
(* BLITHOG lets the blitter keep it for the whole blit.                    *)
(***************************************************************************)
CpuGetsBus == cpu = "wait" ~> cpu = "granted"

(* Neither starves the other *)
BothGetOn == BlitEnds /\ CpuGetsBus

(* The interrupt and each pixel of a line but the last come once *)
EachOnce == OneInterruptPerBlit /\ OnlyLastPixelRepeats

=============================================================================
