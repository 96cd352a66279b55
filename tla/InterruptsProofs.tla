-------------------------- MODULE InterruptsProofs --------------------------
(***************************************************************************)
(* Proofs about Interrupts, for every choice of the constants.             *)
(***************************************************************************)
EXTENDS Interrupts, TLAPS

(* A non-empty set of levels has a greatest element. *)
LEMMA MaxLevel ==
  ASSUME NEW S \in SUBSET (1 .. 6), S # {}
  PROVE  \E l \in S : \A k \in S : k <= l
  <1>1. CASE 6 \in S  BY <1>1
  <1>2. CASE 6 \notin S /\ 5 \in S  BY <1>2
  <1>3. CASE 6 \notin S /\ 5 \notin S /\ 4 \in S  BY <1>3
  <1>4. CASE 6 \notin S /\ 5 \notin S /\ 4 \notin S /\ 3 \in S  BY <1>4
  <1>5. CASE 6 \notin S /\ 5 \notin S /\ 4 \notin S /\ 3 \notin S /\ 2 \in S
    BY <1>5
  <1>6. CASE 6 \notin S /\ 5 \notin S /\ 4 \notin S /\ 3 \notin S /\ 2 \notin S
    <2>1. \A k \in S : k = 1  BY <1>6
    <2>2. 1 \in S  BY <2>1
    <2> QED  BY <2>1, <2>2
  <1> QED  BY <1>1, <1>2, <1>3, <1>4, <1>5, <1>6

(* Every interrupt has a level from 1 to 6. *)
LEMMA IplRange == ASSUME NEW i \in Ints PROVE ipl[i] \in 1 .. 6
  BY ConstAssumption DEF ipl

(* What calc_ipl returns: 0, or the highest level of an active request. *)
LEMMA LevelOfMax ==
  ASSUME NEW e \in SUBSET Ints, NEW m \in BOOLEAN, NEW r \in SUBSET Ints
  PROVE  /\ LevelOf(e, m, r) \in 0 .. 6
         /\ m => \A i \in e \cap r : ipl[i] <= LevelOf(e, m, r)
         /\ LevelOf(e, m, r) # 0
              => m /\ \E i \in e \cap r : LevelOf(e, m, r) = ipl[i]
  <1> DEFINE levels == {ipl[i] : i \in e \cap r}
             top == CHOOSE l \in levels : \A k \in levels : k <= l
  <1>1. levels \in SUBSET (1 .. 6)  BY IplRange
  <1>2. CASE ~m \/ levels = {}  BY <1>2 DEF LevelOf
  <1>3. CASE m /\ levels # {}
    <2>1. top \in levels /\ \A k \in levels : k <= top
      BY <1>1, <1>3, MaxLevel
    <2>2. LevelOf(e, m, r) = top  BY <1>3 DEF LevelOf
    <2> QED  BY <2>1, <2>2, <1>1, <1>3
  <1> QED  BY <1>2, <1>3

(* Posting more requests never lowers the level. *)
LEMMA LevelMonotone ==
  ASSUME NEW e \in SUBSET Ints, NEW m \in BOOLEAN,
         NEW r \in SUBSET Ints, NEW q \in SUBSET Ints, r \subseteq q
  PROVE  LevelOf(e, m, r) <= LevelOf(e, m, q)
  <1> DEFINE a == LevelOf(e, m, r)
             b == LevelOf(e, m, q)
  <1>1. a \in 0 .. 6 /\ b \in 0 .. 6  BY LevelOfMax
  <1>2. CASE a = 0  BY <1>1, <1>2
  <1>3. CASE a # 0
    <2>1. PICK i \in e \cap r : a = ipl[i]  BY <1>3, LevelOfMax
    <2>2. m  BY <1>3, LevelOfMax
    <2>3. ipl[i] <= b  BY <2>1, <2>2, LevelOfMax
    <2> QED  BY <2>1, <2>3
  <1> QED  BY <1>2, <1>3

-----------------------------------------------------------------------------
(* The level after a step, from the types of the registers after it. *)
LEMMA CalcIplType == TypeOK => calc_ipl \in 0 .. 6
  BY LevelOfMax DEF TypeOK, calc_ipl

(* Settle keeps the history within its bounds. *)
LEMMA SettleType ==
  ASSUME TypeOK, NEW n \in {0, 1}, Settle(n)
  PROVE  settled' \in 0 .. SettleTime
  BY ConstAssumption DEF TypeOK, Settle, SettleTime

(* The pipeline keeps its types whatever level it is shown. *)
LEMMA IplStepType ==
  ASSUME TypeOK, NEW l \in 0 .. 6, IplStep(l)
  PROVE  /\ ipl_current' \in 0 .. 6
         /\ ipl_pending' \in 0 .. 6
         /\ ipl_delay' \in 0 .. IplDelay
  BY ConstAssumption DEF TypeOK, IplStep, iplVars


(* One call of custom_handler::step preserves the types. *)
LEMMA CustomStepType ==
  ASSUME TypeOK,
         NEW now \in SUBSET Ints,
         NEW blit \in {b \in BOOLEAN : b => "BLIT" \in Ints},
         NEW raised \in [Cias -> SUBSET IcrBits],
         NEW vblank \in {b \in BOOLEAN : b => "VERTB" \in Ints},
         CustomStep(now, blit, raised, vblank)
  PROVE  TypeOK'
  <1> DEFINE d0 == interrupt_with_delay(int_delay,
                                        IF blit THEN {"BLIT"} ELSE {}, BlitDelay)
             req1 == intreq \cup now \cup Expired(d0)
  <1> USE ConstAssumption
  <1>1. d0 \in [Ints -> Nat]
    BY DEF TypeOK, interrupt_with_delay
  <1>2. CountDown(d0) \in [Ints -> Nat]
    BY <1>1 DEF CountDown
  <1>3. req1 \in SUBSET Ints
    BY DEF TypeOK, Expired
  <1>4. LevelOf(intena, inten, req1) \in 0 .. 6
    BY <1>3, LevelOfMax DEF TypeOK
  <1>5. /\ ipl_current' \in 0 .. 6
        /\ ipl_pending' \in 0 .. 6
        /\ ipl_delay' \in 0 .. IplDelay
    BY <1>4, IplStepType DEF CustomStep
  <1>6. int_delay' \in [Ints -> Nat]
    <2>1. \A is : interrupt_with_delay(CountDown(d0), is, CiaDelay) \in [Ints -> Nat]
      BY <1>2 DEF interrupt_with_delay
    <2>2. \E is : \/ int_delay' = interrupt_with_delay(CountDown(d0), is, CiaDelay)
                 \/ int_delay' = CountDown(d0)
      BY DEF CustomStep
    <2> QED  BY <1>2, <2>1, <2>2
  <1>7. intreq' \in SUBSET Ints
    BY <1>3 DEF CustomStep
  <1>8. settled' \in 0 .. SettleTime
    BY SettleType DEF CustomStep
  <1>9. eclock_cycle' \in 0 .. EClock - 1
    BY DEF CustomStep, TypeOK
  <1>10. icrdata' \in [Cias -> SUBSET IcrBits]
    BY DEF CustomStep, TypeOK
  <1>11. ir' \in [Cias -> BOOLEAN]
    BY DEF CustomStep, TypeOK
  <1>12. spurious' \in [Cias -> 0 .. 2]
    BY DEF CustomStep, TypeOK
  <1>13. UNCHANGED <<icrmask, intena, inten, cpuVars>>
    BY DEF CustomStep
  <1> QED
    BY <1>5, <1>6, <1>7, <1>8, <1>9, <1>10, <1>11, <1>12, <1>13
    DEF TypeOK, cpuVars

(* What an access to the registers leaves: the types of all but the CPU. *)
LEMMA AccessType ==
  ASSUME TypeOK,
         cpu_ipl' \in 0 .. 6, sr_ipl' \in 0 .. 7, stopped' \in BOOLEAN,
         Access \/ NoAccess
  PROVE  TypeOK'
  <1> USE ConstAssumption
  <1>1. ASSUME NEW set \in BOOLEAN, NEW bits \in SUBSET Ints,
               WriteIntreq(set, bits)
        PROVE  TypeOK'
    <2>1. settled' \in 0 .. SettleTime  BY <1>1, SettleType DEF WriteIntreq
    <2> QED  BY <1>1, <2>1 DEF WriteIntreq, TypeOK, ciaVars, iplVars
  <1>2. ASSUME NEW set \in BOOLEAN, NEW bits \in SUBSET Ints,
               NEW master \in BOOLEAN, WriteIntena(set, bits, master)
        PROVE  TypeOK'
    <2>1. settled' \in 0 .. SettleTime  BY <1>2, SettleType DEF WriteIntena
    <2> QED  BY <1>2, <2>1 DEF WriteIntena, TypeOK, ciaVars, iplVars
  <1>3. ASSUME NEW c \in Cias, ReadIcr(c)
        PROVE  TypeOK'
    <2>1. settled' \in 0 .. SettleTime  BY <1>3, SettleType DEF ReadIcr
    <2> QED  BY <1>3, <2>1 DEF ReadIcr, TypeOK, paulaVars, iplVars
  <1>4. ASSUME NEW c \in Cias, NEW set \in BOOLEAN, NEW b \in IcrBits,
               WriteIcr(c, set, {b})
        PROVE  TypeOK'
    <2>1. settled' \in 0 .. SettleTime  BY <1>4, SettleType DEF WriteIcr
    <2> QED  BY <1>4, <2>1 DEF WriteIcr, TypeOK, paulaVars, iplVars
  <1>5. CASE NoAccess
    BY <1>5 DEF NoAccess, TypeOK, ciaVars, paulaVars, iplVars
  <1> QED  BY <1>1, <1>2, <1>3, <1>4, <1>5 DEF Access

(* A step of the CPU changes its own registers within their types. *)
LEMMA CpuStepCases ==
  ASSUME TypeOK, CpuStep
  PROVE  /\ Access \/ NoAccess
         /\ cpu_ipl' \in 0 .. 6 /\ sr_ipl' \in 0 .. 7 /\ stopped' \in BOOLEAN
  <1>1. CASE TakeInterrupt
    <2>1. NoAccess  BY <1>1 DEF TakeInterrupt
    <2>2. cpu_ipl' = ipl_current /\ sr_ipl' = cpu_ipl /\ stopped' = FALSE
      BY <1>1 DEF TakeInterrupt, poll_ipl
    <2>3. cpu_ipl' \in 0 .. 6 /\ sr_ipl' \in 0 .. 7  BY <2>2 DEF TypeOK
    <2> QED  BY <2>1, <2>2, <2>3
  <1>2. CASE ExecAccess
    BY <1>2 DEF ExecAccess, poll_ipl, TypeOK
  <1>3. CASE ExecSr
    BY <1>3, ConstAssumption DEF ExecSr, LoadSr, poll_ipl, TypeOK
  <1>4. CASE Sleep
    BY <1>4 DEF Sleep, poll_ipl, TypeOK
  <1> QED  BY <1>1, <1>2, <1>3, <1>4 DEF CpuStep

(* A write by the copper is an access that leaves the CPU alone. *)
LEMMA CopperCases ==
  ASSUME TypeOK, CopperAccess
  PROVE  /\ Access
         /\ cpu_ipl' \in 0 .. 6 /\ sr_ipl' \in 0 .. 7 /\ stopped' \in BOOLEAN
  BY DEF CopperAccess, Access, TypeOK, cpuVars

(* Types are preserved by every step. *)
LEMMA TypeInductive == TypeOK /\ [Next]_vars => TypeOK'
  <1> SUFFICES ASSUME TypeOK, [Next]_vars PROVE TypeOK'
    OBVIOUS
  <1>1. CASE Step
    BY <1>1, CustomStepType DEF Step
  <1>2. CASE CopperAccess
    BY <1>2, CopperCases, AccessType
  <1>3. CASE CpuStep
    BY <1>3, CpuStepCases, AccessType
  <1>4. CASE UNCHANGED vars
    BY <1>4 DEF vars, TypeOK, ciaVars, paulaVars, iplVars, cpuVars
  <1> QED  BY <1>1, <1>2, <1>3, <1>4 DEF Next

(* The registers, the pipeline and the CPU keep their types. *)
THEOREM TypeCorrect == Spec => []TypeOK
  <1>1. ASSUME Init PROVE TypeOK
    <2>1. 0 \in 0 .. IplDelay /\ 0 \in 0 .. SettleTime /\ 0 \in 0 .. EClock - 1
      BY ConstAssumption DEF SettleTime
    <2>2. /\ icrmask \in [Cias -> SUBSET IcrBits]
          /\ icrdata \in [Cias -> SUBSET IcrBits]
          /\ ir \in [Cias -> BOOLEAN]
          /\ int_delay \in [Ints -> Nat]
          /\ spurious \in [Cias -> 0 .. 2]
      BY <1>1 DEF Init
    <2>3. /\ intena \in SUBSET Ints /\ intreq \in SUBSET Ints
          /\ ipl_current \in 0 .. 6 /\ ipl_pending \in 0 .. 6
          /\ cpu_ipl \in 0 .. 6 /\ sr_ipl \in 0 .. 7
          /\ ipl_delay \in 0 .. IplDelay /\ settled \in 0 .. SettleTime
          /\ eclock_cycle \in 0 .. EClock - 1
      BY <1>1, <2>1 DEF Init
    <2>4. inten \in BOOLEAN /\ stopped \in BOOLEAN
      BY <1>1 DEF Init
    <2> QED  BY <2>2, <2>3, <2>4 DEF TypeOK
  <1> QED  BY <1>1, TypeInductive, PTL DEF Spec

-----------------------------------------------------------------------------
(***************************************************************************)
(* The pipeline: a level on its way was Paula's level IplDelay - ipl_delay *)
(* steps ago, and a wrong level on the pins is at most one pipeline and    *)
(* one step old when nothing else is on its way.                           *)
(***************************************************************************)
PipelineInv ==
  /\ ipl_delay = 0 => ipl_current = calc_ipl \/ settled <= IplDelay
  /\ ipl_delay > 0 =>
       /\ ipl_pending = calc_ipl \/ settled + ipl_delay <= IplDelay
       /\ ipl_current = calc_ipl \/ settled + ipl_delay <= SettleTime

(* A CIA with IR set owes no request; once it is clear, the one that may   *)
(* have been in flight is the only one posted.                             *)
SpuriousInv ==
  \A c \in Cias :
    /\ ir[c] => spurious[c] = 0
    /\ spurious[c] = 0 \/ (spurious[c] = 1 /\ int_delay[CiaInt[c]] = 0)

(* Register accesses disturb the pipeline only by changing the level, which *)
(* resets its history.                                                      *)
LEMMA PipelineAccess ==
  ASSUME TypeOK, TypeOK', PipelineInv, UNCHANGED iplVars,
         Settle(0) \/ UNCHANGED <<settled, paulaVars>>
  PROVE  PipelineInv'
  <1> USE ConstAssumption
  <1>1. CASE Settle(0) /\ calc_ipl' # calc_ipl
    BY <1>1 DEF PipelineInv, Settle, iplVars, TypeOK, SettleTime
  <1>2. CASE Settle(0) /\ calc_ipl' = calc_ipl
    <2>1. settled' = settled  BY <1>2 DEF Settle, TypeOK, SettleTime
    <2> QED  BY <1>2, <2>1 DEF PipelineInv, iplVars, SettleTime
  <1>3. CASE UNCHANGED <<settled, paulaVars>>
    <2>1. calc_ipl' = calc_ipl  BY <1>3 DEF calc_ipl, LevelOf, paulaVars
    <2> QED  BY <1>3, <2>1 DEF PipelineInv, iplVars, SettleTime
  <1> QED  BY <1>1, <1>2, <1>3

(* One step of the pipeline, shown a level between the one before the step *)
(* and the one after it.                                                   *)
LEMMA PipelineStep ==
  ASSUME TypeOK, TypeOK', PipelineInv, Settle(1), NEW l \in 0 .. 6,
         IplStep(l), calc_ipl <= l, l <= calc_ipl'
  PROVE  PipelineInv'
  <1> USE ConstAssumption
  <1>1. calc_ipl \in 0 .. 6 /\ calc_ipl' \in 0 .. 6
    BY CalcIplType, LevelOfMax DEF TypeOK, calc_ipl
  <1>2. CASE ipl_delay > 0
    BY <1>1, <1>2 DEF PipelineInv, IplStep, Settle, SettleTime, TypeOK
  <1>3. CASE ipl_delay = 0 /\ l # ipl_current
    BY <1>1, <1>3 DEF PipelineInv, IplStep, Settle, SettleTime, TypeOK
  <1>4. CASE ipl_delay = 0 /\ l = ipl_current
    BY <1>1, <1>4 DEF PipelineInv, IplStep, Settle, SettleTime, TypeOK, iplVars
  <1> QED  BY <1>2, <1>3, <1>4 DEF TypeOK

(* The pipeline invariant is preserved by every step. *)
LEMMA PipelineInductive == TypeOK /\ TypeOK' /\ PipelineInv /\ [Next]_vars
                           => PipelineInv'
  <1> SUFFICES ASSUME TypeOK, TypeOK', PipelineInv, [Next]_vars
               PROVE  PipelineInv'
    OBVIOUS
  <1>1. CASE Step
    <2>1. PICK now \in SUBSET Ints,
               blit \in BOOLEAN,
               raised \in [Cias -> SUBSET IcrBits],
               vblank \in BOOLEAN :
               CustomStep(now, blit, raised, vblank)
      BY <1>1 DEF Step
    <2> DEFINE d0 == interrupt_with_delay(int_delay,
                                        IF blit THEN {"BLIT"} ELSE {}, BlitDelay)
               req1 == intreq \cup now \cup Expired(d0)
    <2>2. /\ intreq \subseteq req1 /\ req1 \in SUBSET Ints
          /\ req1 \subseteq intreq'
          /\ intena' = intena /\ inten' = inten
          /\ IplStep(LevelOf(intena, inten, req1))
          /\ Settle(1)
      BY <2>1 DEF CustomStep, TypeOK, Expired
    <2>3. /\ calc_ipl <= LevelOf(intena, inten, req1)
          /\ LevelOf(intena, inten, req1) <= LevelOf(intena, inten, intreq')
          /\ LevelOf(intena, inten, req1) \in 0 .. 6
      BY <2>2, LevelMonotone, LevelOfMax DEF TypeOK, calc_ipl
    <2>4. calc_ipl' = LevelOf(intena, inten, intreq')
      BY <2>2 DEF calc_ipl, LevelOf
    <2> QED  BY <2>2, <2>3, <2>4, PipelineStep
  <1>2. ASSUME Access \/ NoAccess
        PROVE  /\ UNCHANGED iplVars
               /\ Settle(0) \/ UNCHANGED <<settled, paulaVars>>
    BY <1>2 DEF Access, NoAccess, WriteIntreq, WriteIntena, ReadIcr, WriteIcr
  <1>3. CASE CopperAccess \/ CpuStep
    BY <1>2, <1>3, CopperCases, CpuStepCases, PipelineAccess
  <1>4. CASE UNCHANGED vars
    BY <1>4, PipelineAccess DEF vars
  <1> QED  BY <1>1, <1>3, <1>4 DEF Next

(***************************************************************************)
(* A level held long enough is on the CPU's pins, whatever the length of   *)
(* the pipeline and whatever levels came before.                           *)
(***************************************************************************)
THEOREM IplSettlesCorrect == Spec => []IplSettles
  <1>1. Init => PipelineInv
    BY ConstAssumption DEF Init, PipelineInv
  <1>2. TypeOK /\ PipelineInv => IplSettles
    BY ConstAssumption DEF TypeOK, PipelineInv, IplSettles, SettleTime
  <1> QED
    BY <1>1, <1>2, PipelineInductive, TypeCorrect, PTL DEF Spec

(* A custom step posts a request without a cause only when none was posted *)
(* before and none is in flight afterwards.                                *)
LEMMA SpuriousStep ==
  ASSUME TypeOK, SpuriousInv,
         NEW now \in SUBSET Ints, NEW blit \in BOOLEAN,
         NEW raised \in [Cias -> SUBSET IcrBits], NEW vblank \in BOOLEAN,
         CustomStep(now, blit, raised, vblank)
  PROVE  SpuriousInv'
  <1> SUFFICES ASSUME NEW c \in Cias
               PROVE  /\ ir'[c] => spurious'[c] = 0
                      /\ \/ spurious'[c] = 0
                         \/ spurious'[c] = 1 /\ int_delay'[CiaInt[c]] = 0
    BY DEF SpuriousInv
  <1> USE ConstAssumption
  <1> DEFINE i == CiaInt[c]
             d0 == interrupt_with_delay(int_delay,
                                        IF blit THEN {"BLIT"} ELSE {}, BlitDelay)
             d1 == CountDown(d0)
             up(k) == eclock_cycle + 1 = EClock /\ raised[k] \cap icrmask[k] # {}
             irq == active_irq_mask([k \in Cias |-> ir[k] \/ up(k)])
                      \ (intreq \cup now \cup Expired(d0))
  <1>1. i \in Ints /\ i # "BLIT"
    BY DEF CiaInt
  <1>2. d0[i] = int_delay[i] /\ d0[i] \in Nat
    BY <1>1 DEF interrupt_with_delay, TypeOK
  <1>3. ir'[c] = (ir[c] \/ up(c))
    BY DEF CustomStep
  <1>4. spurious'[c] = IF ir'[c] THEN 0
                       ELSE IF i \in Expired(d0) /\ spurious[c] < 2
                       THEN spurious[c] + 1 ELSE spurious[c]
    BY DEF CustomStep
  <1>5. CASE ir'[c]  BY <1>4, <1>5
  <1>6. CASE ~ir'[c]
    <2>1. \A k \in Cias : CiaInt[k] = i => k = c
      BY DEF CiaInt
    <2>2. i \notin irq
      BY <1>3, <1>6, <2>1 DEF active_irq_mask
    <2>3. int_delay'[i] = d1[i]
      <3>1. int_delay' = IF eclock_cycle + 1 = EClock
                         THEN interrupt_with_delay(d1, irq, CiaDelay) ELSE d1
        BY DEF CustomStep
      <3> QED  BY <1>1, <2>2, <3>1 DEF interrupt_with_delay
    <2>4. d1[i] = IF int_delay[i] = 0 THEN 0 ELSE int_delay[i] - 1
      BY <1>1, <1>2 DEF CountDown
    <2>5. i \in Expired(d0) <=> int_delay[i] = 1
      BY <1>1, <1>2 DEF Expired
    <2>6. spurious[c] = 0 \/ (spurious[c] = 1 /\ int_delay[i] = 0)
      BY DEF SpuriousInv
    <2> QED  BY <1>2, <1>4, <1>6, <2>3, <2>4, <2>5, <2>6
  <1> QED  BY <1>5, <1>6

(* Register accesses post nothing and raise no IR. *)
LEMMA SpuriousAccess ==
  ASSUME TypeOK, SpuriousInv, Access \/ NoAccess
  PROVE  SpuriousInv'
  <1>1. UNCHANGED <<int_delay, spurious>>
    BY DEF Access, NoAccess, WriteIntreq, WriteIntena, ReadIcr, WriteIcr
  <1>2. \A c \in Cias : ir'[c] => ir[c]
    BY DEF Access, NoAccess, WriteIntreq, WriteIntena, ReadIcr, WriteIcr,
           ciaVars, TypeOK
  <1> QED  BY <1>1, <1>2 DEF SpuriousInv

(***************************************************************************)
(* However short or long the CIA delay is, reading ICR while a request is  *)
(* in flight leaves at most one interrupt without a cause.                 *)
(***************************************************************************)
THEOREM AtMostOneSpuriousCorrect == Spec => []AtMostOneSpurious
  <1>1. Init => SpuriousInv
    BY DEF Init, SpuriousInv
  <1>2. TypeOK /\ SpuriousInv /\ [Next]_vars => SpuriousInv'
    <2> SUFFICES ASSUME TypeOK, SpuriousInv, [Next]_vars PROVE SpuriousInv'
      OBVIOUS
    <2>1. CASE Step  BY <2>1, SpuriousStep DEF Step
    <2>2. CASE CopperAccess \/ CpuStep
      BY <2>2, CopperCases, CpuStepCases, SpuriousAccess
    <2>3. CASE UNCHANGED vars
      BY <2>3 DEF vars, SpuriousInv, ciaVars
    <2> QED  BY <2>1, <2>2, <2>3 DEF Next
  <1>3. SpuriousInv => AtMostOneSpurious
    BY DEF SpuriousInv, AtMostOneSpurious
  <1> QED  BY <1>1, <1>2, <1>3, TypeCorrect, PTL DEF Spec
=============================================================================
