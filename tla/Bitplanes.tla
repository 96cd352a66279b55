----------------------------- MODULE Bitplanes -----------------------------
(***************************************************************************)
(* A line of the display (custom.cpp): which colour clocks fetch bitplane  *)
(* data, where the pointers end, and how the words reach the shift         *)
(* registers.  A step is a lores pixel, half a colour clock.  The line is  *)
(* short: DDFSTRT is raised to MinStart and DDFSTOP lowered to MaxStop as  *)
(* the code's are to $18 and $D8.  Registers stay as they are on the line. *)
(***************************************************************************)
EXTENDS Integers

CONSTANTS MinStart, MaxStop, LineEnd, Starts, Stops, PlaneCounts, Scrolls, Modulo

ASSUME BitplanesAssumption ==
  /\ MinStart \in Nat /\ MaxStop \in Nat /\ LineEnd \in Nat /\ Starts \subseteq Nat /\ Stops \subseteq Nat
  /\ PlaneCounts \subseteq 0 .. 7 /\ Scrolls \subseteq Nat /\ Modulo \in Int

VARIABLES
  regs,                (* [ddfstrt, ddfstop, hires, bpu, scroll]           *)
  hpos,
  ddfst, ddfcycle, ddfend,
  fetched_words, bplpt, (* [plane -> words fetched, the pointer]          *)
  bpl1dat_written, bpldata_avail,
  latched,             (* data sets made available                         *)
  shown                (* sets taken by the odd and the even planes        *)

bitplane_vars == <<regs, hpos, ddfst, ddfcycle, ddfend, fetched_words, bplpt,
                   bpl1dat_written, bpldata_avail, latched, shown>>

Planes == 0 .. 5
Sets == {"odd", "even"}
nbpls == IF regs.bpu = 7 THEN 4 ELSE regs.bpu
colclock == hpos \div 2
cck_tick == hpos % 2 = 0
fetch_first == IF regs.ddfstrt < MinStart THEN MinStart ELSE regs.ddfstrt
fetch_last == IF regs.ddfstop > MaxStop THEN MaxStop ELSE regs.ddfstop

lores_bpl_sched == <<0, 4, 6, 2, 0, 3, 5, 1>>
hires_bpl_sched == <<4, 3, 2, 1, 4, 3, 2, 1>>
Scheduled(cycle) == (IF regs.hires THEN hires_bpl_sched ELSE lores_bpl_sched)[(cycle % 8) + 1] - 1

-----------------------------------------------------------------------------
(* The fetch of one colour clock *)
State ==
  IF ddfst = "before_ddfstrt" /\ colclock = fetch_first THEN "active"
  ELSE IF ddfst = "active" /\ colclock = fetch_last THEN "ddfstop_passed"
  ELSE IF ddfst = "ddfstop_passed" /\ ddfcycle = ddfend THEN "stopped" ELSE ddfst

Cycle == IF ddfst # State /\ State = "active" THEN 0 ELSE ddfcycle
FinalFrom == IF ddfst # State /\ State = "active" THEN 0 ELSE ddfend

(* Mutant: the last of the fetches begins where DDFSTOP is met *)
AlignsNever(cycle) == TRUE

Aligned(cycle) == cycle % 8 = 0

Final == IF State = "ddfstop_passed" /\ FinalFrom = 0 /\ Aligned(Cycle) THEN Cycle + 8 ELSE FinalFrom
AddsModulo == Final # 0 /\ (~regs.hires \/ Cycle % 8 > 3)

BitplaneFetch ==
  LET plane == Scheduled(Cycle)
      fetching == State \in {"active", "ddfstop_passed"}
      fetched == fetching /\ plane \in 0 .. nbpls - 1
  IN  /\ ddfst' = State
      /\ ddfcycle' = IF fetching THEN Cycle + 1 ELSE Cycle
      /\ ddfend' = IF fetching THEN Final ELSE FinalFrom
      /\ fetched_words' = [p \in Planes |-> IF fetched /\ p = plane THEN fetched_words[p] + 1 ELSE fetched_words[p]]
      /\ bplpt' = [p \in Planes |-> IF fetched /\ p = plane
                                    THEN bplpt[p] + 1 + (IF AddsModulo THEN Modulo ELSE 0) ELSE bplpt[p]]
      /\ bpl1dat_written' = (fetched /\ plane = 0)

(* The data registers and the shift registers; they come before the fetch  *)
(* Mutant: hires words are taken as seldom as lores ones *)
MaskLores == 16

Mask == IF regs.hires THEN 8 ELSE 16
Due(s) == hpos % Mask = regs.scroll[s] % Mask

Available == IF cck_tick /\ bpl1dat_written THEN Sets ELSE bpldata_avail

Pixels ==
  /\ latched' = IF cck_tick /\ bpl1dat_written THEN latched + 1 ELSE latched
  /\ bpldata_avail' = {s \in Available : ~Due(s)}
  /\ shown' = [s \in Sets |-> IF Due(s) /\ s \in Available THEN shown[s] + 1 ELSE shown[s]]

BitplaneStep ==
  /\ hpos < 2 * LineEnd
  /\ hpos' = hpos + 1 /\ UNCHANGED regs
  /\ Pixels
  /\ IF cck_tick /\ regs.bpu > 0 THEN BitplaneFetch
     ELSE UNCHANGED <<ddfst, ddfcycle, ddfend, fetched_words, bplpt, bpl1dat_written>>

BitplaneInit ==
  /\ regs \in [ddfstrt : Starts, ddfstop : Stops, hires : BOOLEAN, bpu : PlaneCounts, scroll : [Sets -> Scrolls]]
  /\ hpos = 0 /\ ddfst = "before_ddfstrt" /\ ddfcycle = 0 /\ ddfend = 0
  /\ fetched_words = [p \in Planes |-> 0] /\ bplpt = [p \in Planes |-> 0]
  /\ bpl1dat_written = FALSE /\ bpldata_avail = {} /\ latched = 0
  /\ shown = [s \in Sets |-> 0]

BitplaneSpec == BitplaneInit /\ [][BitplaneStep]_bitplane_vars

-----------------------------------------------------------------------------
(* The manual's count of words for a line: DDFSTRT and DDFSTOP are 8 clocks *)
(* apart for each word but one                                             *)
Units == ((fetch_last - fetch_first + 7) \div 8) + 1
LineWords == Units * (IF regs.hires THEN 2 ELSE 1)

(***************************************************************************)
(* When a line's fetch is over every plane in use has the manual's number  *)
(* of words and its modulo once, and the others have none: lores or hires  *)
(* (with four planes at most),                                             *)
(* with DDFSTOP at or between the ends of a fetch.                         *)
(***************************************************************************)
LineFetched ==
  ddfst = "stopped" =>
    \A p \in Planes :
      IF p < (IF regs.hires /\ nbpls > 4 THEN 4 ELSE nbpls) 
        THEN fetched_words[p] = LineWords /\ bplpt[p] = LineWords + Modulo
      ELSE fetched_words[p] = 0 /\ bplpt[p] = 0

(***************************************************************************)
(* Every set of words reaches the odd and the even planes' shift registers *)
(* once, for every scroll, before the next set arrives.                    *)
(***************************************************************************)
SetsShownOnce ==
  \A s \in Sets :
    shown[s] = latched - (IF s \in bpldata_avail THEN 1 ELSE 0)

(* A line's words are fetched as the manual says and shown once *)
LineShown == LineFetched /\ SetsShownOnce
=============================================================================
