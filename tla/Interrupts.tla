----------------------------- MODULE Interrupts -----------------------------
(***************************************************************************)
(* The interrupt path of the emulated machine: the interrupt control       *)
(* registers of the two CIAs (cia.cpp), Paula's INTENA/INTREQ with the     *)
(* delayed requests and the IPL pipeline (custom.cpp), and the part of the *)
(* CPU that samples the IPL, takes interrupts and sleeps in STOP (cpu.cpp, *)
(* main.cpp).                                                              *)
(*                                                                         *)
(* Time advances by CustomStep, one call of custom_handler::step.  CPU     *)
(* instructions interleave with it at any point: do_all_custom_cylces      *)
(* brings the custom chips up to date before every bus access and before   *)
(* every sample of the IPL, and how many steps that is depends on the      *)
(* instruction.  Timers, TOD, the keyboard and the drives are reduced to   *)
(* what they call, trigger_int; the DMA engines to the requests they make. *)
(***************************************************************************)
EXTENDS Integers, FiniteSets

CONSTANTS
  Cias,       (* the CIAs modelled, a subset of {"A", "B"}               *)
  IcrBits,    (* the CIA interrupt sources modelled (TA, TB, SP, ...)    *)
  Ints,       (* the Paula interrupts modelled, among DOMAIN ipl         *)
  Masks,      (* the interrupt masks software loads into SR              *)
  EClock,     (* custom steps per CIA step; 10 in the code               *)
  CiaDelay,   (* cia_int_delay; 16 in the code                           *)
  BlitDelay,  (* delay of a blitter interrupt; 8 + 2 in the code         *)
  IplDelay    (* value loaded into ipl_delay; 2 in the code              *)

(* Level of each Paula interrupt, the table in calc_ipl *)
ipl == [ TBE  |-> 1, DSKBLK |-> 1, SOFTINT |-> 1, PORTS |-> 2, COPER |-> 3,
         VERTB |-> 3, BLIT |-> 3, AUD0 |-> 4, AUD1 |-> 4, AUD2 |-> 4,
         AUD3 |-> 4, RBF |-> 5, DSKSYNC |-> 5, EXTER |-> 6 ]

(* The Paula input each CIA drives *)
CiaInt == [ A |-> "PORTS", B |-> "EXTER" ]

ASSUME ConstAssumption ==
  /\ Cias \subseteq {"A", "B"}
  /\ Ints \subseteq DOMAIN ipl
  /\ \A c \in Cias : CiaInt[c] \in Ints
  /\ Masks \subseteq 0 .. 7
  /\ EClock \in Nat \ {0}
  /\ CiaDelay \in Nat \ {0}
  /\ BlitDelay \in Nat \ {0}
  /\ IplDelay \in Nat \ {0}

VARIABLES
  icrmask,      (* [Cias -> SUBSET IcrBits]: enabled sources              *)
  icrdata,      (* [Cias -> SUBSET IcrBits]: latched sources              *)
  ir,           (* [Cias -> BOOLEAN]: the IR bit of icrdata               *)
  intena,       (* enabled Paula interrupts                               *)
  inten,        (* the master enable bit of INTENA                        *)
  intreq,       (* requested Paula interrupts                             *)
  int_delay,    (* [Ints -> Nat]: steps until the request is posted       *)
  ipl_current,  (* the IPL on the CPU's pins                              *)
  ipl_pending,  (* the IPL on its way there                               *)
  ipl_delay,    (* steps until ipl_pending becomes ipl_current            *)
  eclock_cycle, (* phase of the E clock                                   *)
  cpu_ipl,      (* cpu_state.ipl: the IPL of the last sample              *)
  sr_ipl,       (* interrupt mask in SR                                   *)
  stopped,      (* the CPU executed STOP                                  *)
  settled,      (* history: steps for which calc_ipl has not changed      *)
  spurious      (* history: requests posted for a CIA since its IR was    *)
                (* last set, while IR is clear                            *)

ciaVars   == <<icrmask, icrdata, ir>>
paulaVars == <<intena, inten, intreq>>
iplVars   == <<ipl_current, ipl_pending, ipl_delay>>
cpuVars   == <<cpu_ipl, sr_ipl, stopped>>
vars == <<ciaVars, paulaVars, int_delay, iplVars, eclock_cycle, cpuVars,
          settled, spurious>>

(* settled saturates here: twice the pipeline and the step that samples it *)
SettleTime == 2 * IplDelay + 1

-----------------------------------------------------------------------------
(* Helpers *)

(* calc_ipl: the level of the highest numbered active request; levels grow *)
(* with the bit number, so it is the highest level                         *)
LevelOf(enable, master, request) ==
  LET levels == {ipl[i] : i \in enable \cap request}
  IN  IF ~master \/ levels = {} THEN 0
      ELSE CHOOSE l \in levels : \A k \in levels : k <= l

calc_ipl == LevelOf(intena, inten, intreq)

(* Mutant: a delay already running starts again *)
interrupt_again(d, is, n) == [i \in Ints |-> IF i \in is THEN n ELSE d[i]]

(* interrupt_with_delay of each interrupt in is, on a delay table d: a     *)
(* delay already running is kept                                           *)
interrupt_with_delay(d, is, n) ==
  [i \in Ints |-> IF i \in is /\ d[i] = 0 THEN n ELSE d[i]]

(* Mutant: a latched source raises the line although it is masked *)
irq_of_data(up) == {CiaInt[c] : c \in {k \in Cias : up[k] \/ icrdata[k] # {}}}

(* active_irq_mask: the lines of the CIAs whose IR is set *)
active_irq_mask(up) == {CiaInt[c] : c \in {k \in Cias : up[k]}}

(* One tick of the delayed interrupts *)
Expired(d) == {i \in Ints : d[i] = 1}
CountDownUnchecked(d) == [i \in Ints |-> d[i] - 1]   (* mutant *)
CountDown(d) == [i \in Ints |-> IF d[i] = 0 THEN 0 ELSE d[i] - 1]

(* Mutant: the level is looked at first, so a change never gets through *)
IplStepSwapped(l) ==
  CASE l # ipl_current -> /\ ipl_pending' = l /\ ipl_delay' = IplDelay
                          /\ UNCHANGED ipl_current
    [] l = ipl_current /\ ipl_delay > 0 ->
         /\ ipl_delay' = ipl_delay - 1
         /\ ipl_current' = IF ipl_delay = 1 THEN ipl_pending ELSE ipl_current
         /\ UNCHANGED ipl_pending
    [] OTHER -> UNCHANGED iplVars

(* The IPL pipeline for a level l: a change is latched, then shown after   *)
(* IplDelay steps; while one is on its way Paula's level is not looked at  *)
IplStep(l) ==
  CASE ipl_delay > 0 ->
         /\ ipl_delay' = ipl_delay - 1
         /\ ipl_current' = IF ipl_delay = 1 THEN ipl_pending ELSE ipl_current
         /\ UNCHANGED ipl_pending
    [] ipl_delay = 0 /\ l # ipl_current ->
         /\ ipl_pending' = l
         /\ ipl_delay' = IplDelay
         /\ UNCHANGED ipl_current
    [] OTHER -> UNCHANGED iplVars

(* History of the level: reset when it changes, counted by custom steps *)
Settle(n) == settled' = IF calc_ipl' # calc_ipl THEN 0
                        ELSE IF settled + n > SettleTime THEN SettleTime
                        ELSE settled + n

-----------------------------------------------------------------------------
Init ==
  /\ icrmask = [c \in Cias |-> {}]
  /\ icrdata = [c \in Cias |-> {}]
  /\ ir = [c \in Cias |-> FALSE]
  /\ intena = {} /\ inten = FALSE /\ intreq = {}
  /\ int_delay = [i \in Ints |-> 0]
  /\ ipl_current = 0 /\ ipl_pending = 0 /\ ipl_delay = 0
  /\ eclock_cycle = 0
  /\ cpu_ipl = 0 /\ sr_ipl = 7 /\ stopped = FALSE
  /\ settled = 0
  /\ spurious = [c \in Cias |-> 0]

(***************************************************************************)
(* One call of custom_handler::impl::step.  The DMA engines may request    *)
(* posted interrupts at once, and the blitter a delayed one, before the    *)
(* delays are counted; the CIAs step on every EClock-th call and raise the *)
(* sources in raised; the end of a field posts VERTB last.                 *)
(***************************************************************************)
CustomStep(now, blit, raised, vblank) ==
  LET d0 == interrupt_with_delay(int_delay, IF blit THEN {"BLIT"} ELSE {},
                                 BlitDelay)
      d1 == CountDown(d0)
      req1 == intreq \cup now \cup Expired(d0)
      eclock == eclock_cycle + 1 = EClock
      up(c) == eclock /\ raised[c] \cap icrmask[c] # {}
      irq == active_irq_mask([c \in Cias |-> ir[c] \/ up(c)]) \ req1
  IN  /\ int_delay' = IF eclock THEN interrupt_with_delay(d1, irq, CiaDelay)
                      ELSE d1
      /\ intreq' = req1 \cup (IF vblank THEN {"VERTB"} ELSE {})
      /\ IplStep(LevelOf(intena, inten, req1))
      /\ eclock_cycle' = IF eclock THEN 0 ELSE eclock_cycle + 1
      /\ icrdata' = [c \in Cias |-> IF eclock THEN icrdata[c] \cup raised[c]
                                    ELSE icrdata[c]]
      /\ ir' = [c \in Cias |-> ir[c] \/ up(c)]
      /\ spurious' = [c \in Cias |->
                        IF ir'[c] THEN 0
                        ELSE IF CiaInt[c] \in Expired(d0) /\ spurious[c] < 2
                        THEN spurious[c] + 1
                        ELSE spurious[c]]
      /\ UNCHANGED <<icrmask, intena, inten, cpuVars>>
      /\ Settle(1)

(* Instants of the custom chips: requests they can post in one step *)
Step ==
  \E now \in SUBSET (Ints \cap {"DSKBLK", "DSKSYNC", "AUD0"}),
     blit \in {b \in BOOLEAN : b => "BLIT" \in Ints},
     raised \in [Cias -> SUBSET IcrBits],
     vblank \in {b \in BOOLEAN : b => "VERTB" \in Ints} :
       CustomStep(now, blit, raised, vblank)

-----------------------------------------------------------------------------
(* Register accesses, by the CPU or (INTREQ, INTENA) by the copper *)

(* write_u16 of INTREQ: set or clear the given requests *)
WriteIntreq(set, bits) ==
  /\ intreq' = IF set THEN intreq \cup bits ELSE intreq \ bits
  /\ UNCHANGED <<ciaVars, intena, inten, int_delay, iplVars, eclock_cycle,
                 spurious>>
  /\ Settle(0)

(* write_u16 of INTENA: as INTREQ, and the master bit *)
WriteIntena(set, bits, master) ==
  /\ intena' = IF set THEN intena \cup bits ELSE intena \ bits
  /\ inten' = IF master THEN set ELSE inten
  /\ UNCHANGED <<ciaVars, intreq, int_delay, iplVars, eclock_cycle, spurious>>
  /\ Settle(0)

(* handle_read of ICR: everything is cleared by the read *)
ReadIcr(c) ==
  /\ icrdata' = [icrdata EXCEPT ![c] = {}]
  /\ ir' = [ir EXCEPT ![c] = FALSE]
  /\ UNCHANGED <<icrmask, paulaVars, int_delay, iplVars, eclock_cycle,
                 spurious>>
  /\ Settle(0)

(* handle_write of ICR: only the mask; a source already latched does not   *)
(* raise IR when it is enabled afterwards                                  *)
WriteIcr(c, set, bits) ==
  /\ icrmask' = [icrmask EXCEPT ![c] = IF set THEN @ \cup bits ELSE @ \ bits]
  /\ UNCHANGED <<icrdata, ir, paulaVars, int_delay, iplVars, eclock_cycle,
                 spurious>>
  /\ Settle(0)

(* An instruction that touches none of these registers *)
NoAccess == UNCHANGED <<ciaVars, paulaVars, int_delay, iplVars, eclock_cycle,
                        settled, spurious>>

Access ==
  \/ \E set \in BOOLEAN, i \in Ints : WriteIntreq(set, {i})
  \/ \E set \in BOOLEAN, i \in Ints : WriteIntena(set, {i}, FALSE)
  \/ \E set \in BOOLEAN : WriteIntena(set, {}, TRUE)
  \/ \E c \in Cias : ReadIcr(c)
  \/ \E c \in Cias, set \in BOOLEAN, b \in IcrBits : WriteIcr(c, set, {b})

CopperAccess ==
  /\ UNCHANGED cpuVars
  /\ \/ \E set \in BOOLEAN, i \in Ints : WriteIntreq(set, {i})
     \/ \E set \in BOOLEAN, i \in Ints : WriteIntena(set, {i}, FALSE)

-----------------------------------------------------------------------------
(* The CPU: m68000::step *)

(* poll_ipl: every instruction samples the pins once *)
poll_ipl == cpu_ipl' = ipl_current

Interruptible == cpu_ipl > sr_ipl

(* Awake, or woken: STOP ends as soon as a sample saw any level at all *)
Runs == ~stopped \/ cpu_ipl # 0

(* do_interrupt: the mask is raised to the level being served *)
TakeInterrupt ==
  /\ Runs /\ Interruptible
  /\ sr_ipl' = cpu_ipl
  /\ stopped' = FALSE
  /\ poll_ipl
  /\ NoAccess

(* An instruction with an access to the interrupt registers, or with none *)
ExecAccess ==
  /\ Runs /\ ~Interruptible
  /\ stopped' = FALSE
  /\ poll_ipl
  /\ UNCHANGED sr_ipl
  /\ Access \/ NoAccess

(* Instructions that load SR: RTE, MOVE to SR, and STOP *)
LoadSr(m, stop) ==
  /\ Runs /\ ~Interruptible
  /\ sr_ipl' = m
  /\ stopped' = stop
  /\ poll_ipl
  /\ NoAccess

ExecSr == \E m \in Masks, stop \in BOOLEAN : LoadSr(m, stop)

(* Mutant: the stopped CPU does not sample *)
SleepDeaf ==
  /\ stopped /\ cpu_ipl = 0
  /\ UNCHANGED cpuVars
  /\ NoAccess

(* A step of the stopped CPU only samples the pins *)
Sleep ==
  /\ stopped /\ cpu_ipl = 0
  /\ poll_ipl
  /\ UNCHANGED <<sr_ipl, stopped>>
  /\ NoAccess

CpuStep == TakeInterrupt \/ ExecAccess \/ ExecSr \/ Sleep

Next == Step \/ CopperAccess \/ CpuStep

(***************************************************************************)
(* amiga::run alternates cpu.step with the custom steps that catch up with *)
(* it (or, while the CPU is stopped, runs custom steps alone and then      *)
(* calls cpu.step again), so neither is left out forever.                  *)
(***************************************************************************)
Fairness == WF_vars(Step) /\ WF_vars(CpuStep)

Spec == Init /\ [][Next]_vars
FairSpec == Spec /\ Fairness

-----------------------------------------------------------------------------
TypeOK ==
  /\ icrmask \in [Cias -> SUBSET IcrBits]
  /\ icrdata \in [Cias -> SUBSET IcrBits]
  /\ ir \in [Cias -> BOOLEAN]
  /\ intena \in SUBSET Ints
  /\ inten \in BOOLEAN
  /\ intreq \in SUBSET Ints
  /\ int_delay \in [Ints -> Nat]
  /\ ipl_current \in 0 .. 6
  /\ ipl_pending \in 0 .. 6
  /\ ipl_delay \in 0 .. IplDelay
  /\ eclock_cycle \in 0 .. EClock - 1
  /\ cpu_ipl \in 0 .. 6
  /\ sr_ipl \in 0 .. 7
  /\ stopped \in BOOLEAN
  /\ settled \in 0 .. SettleTime
  /\ spurious \in [Cias -> 0 .. 2]

(***************************************************************************)
(* A level that Paula holds for twice the pipeline delay and one step is   *)
(* on the CPU's pins, whatever levels came and went before: a change that  *)
(* is not looked at while another is on its way is not lost.               *)
(***************************************************************************)
IplSettles == settled = SettleTime => ipl_current = calc_ipl

(***************************************************************************)
(* Reading ICR between the request and its posting leaves at most one      *)
(* request without a cause: the countdown in flight when ICR was read.     *)
(***************************************************************************)
AtMostOneSpurious == \A c \in Cias : spurious[c] <= 1

(***************************************************************************)
(* An interrupt raised by a CIA reaches INTREQ, unless software reads ICR  *)
(* first, even if software keeps clearing INTREQ and although the CIA is   *)
(* polled more often than its delay takes.                                 *)
(***************************************************************************)
CiaReachesIntreq ==
  \A c \in Cias : ir[c] ~> (CiaInt[c] \in intreq \/ ~ir[c])

(***************************************************************************)
(* A request that stays enabled and above the CPU's mask is taken: the CPU *)
(* cannot run, or sleep in STOP, past it for ever.                         *)
(***************************************************************************)
EventuallyTaken ==
  \A l \in {ipl[i] : i \in Ints} : ~ <>[](calc_ipl = l /\ sr_ipl < l)

=============================================================================
