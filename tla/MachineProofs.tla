---------------------------- MODULE MachineProofs ---------------------------
(***************************************************************************)
(* Proofs about the devices of the machine.                                *)
(*                                                                         *)
(* Cia: for any number base of the registers, any ring whose indices wrap  *)
(* at a multiple of its size, and a guest that may write every register at *)
(* any time.                                                               *)
(*                                                                         *)
(* Copper: it executes its lists whole (CopperList), for any program whose *)
(* lists have an end, and for any beam.                                    *)
(*                                                                         *)
(* Floppy: a transfer is exact and no sector is misplaced, for any drives, *)
(* disks and speed, whatever the guest writes to the registers meanwhile.  *)
(*                                                                         *)
(* Sprites and Bitplanes: a field's lines of data and a line's words are   *)
(* complete, for any positions, display window, planes, scroll and modulo. *)
(***************************************************************************)
EXTENDS Cia, Copper, Floppy, Bitplanes, Sprites, WellFoundedInduction, SequenceTheorems, TLAPS

-----------------------------------------------------------------------------
(* Division *)

LEMMA Divides ==
  ASSUME NEW l \in Nat, l > 0, NEW n \in Int, NEW q \in Int, NEW r \in 0 .. l - 1, n = l * q + r
  PROVE  n \div l = q /\ n % l = r
  <1> DEFINE p == n \div l
             m == n % l
  <1>1. p \in Int /\ m \in 0 .. l - 1 /\ n = l * p + m
    OBVIOUS
  <1> HIDE DEF p, m
  <1>2. ~(q < p)
    <2> SUFFICES ASSUME q + 1 <= p  PROVE FALSE
      BY <1>1
    <2>1. l * (q + 1) <= l * p
      BY <1>1
    <2>2. l * (q + 1) = l * q + l
      OBVIOUS
    <2> QED  BY <1>1, <2>1, <2>2
  <1>3. ~(p < q)
    <2> SUFFICES ASSUME p + 1 <= q  PROVE FALSE
      BY <1>1
    <2>1. l * (p + 1) <= l * q
      BY <1>1
    <2>2. l * (p + 1) = l * p + l
      BY <1>1
    <2> QED  BY <1>1, <2>1, <2>2
  <1>4. p = q
    BY <1>1, <1>2, <1>3
  <1>5. m = r
    BY <1>1, <1>4
  <1> QED  BY <1>4, <1>5 DEF p, m

LEMMA Splits ==
  ASSUME NEW l \in Nat, l > 0, NEW n \in Int
  PROVE  n \div l \in Int /\ n % l \in 0 .. l - 1 /\ n = l * (n \div l) + (n % l)
  <1> DEFINE p == n \div l
             m == n % l
  <1>1. p \in Int /\ m \in 0 .. l - 1 /\ n = l * p + m
    OBVIOUS
  <1> QED  BY <1>1

LEMMA ShiftedMod ==
  ASSUME NEW l \in Nat, l > 0, NEW n \in Int, NEW k \in Int
  PROVE  (n + l * k) % l = n % l
  <1> DEFINE p == n \div l
             m == n % l
  <1>1. p \in Int /\ m \in 0 .. l - 1 /\ n = l * p + m
    BY Splits
  <1> HIDE DEF p, m
  <1>2. n + l * k = l * (p + k) + m
    BY <1>1
  <1>3. (n + l * k) % l = m
    BY <1>1, <1>2, Divides
  <1> QED  BY <1>3 DEF m

LEMMA Wrapped ==
  ASSUME NEW l \in Nat, l > 0, NEW n \in 0 .. 2 * l - 1
  PROVE  n % l = IF n < l THEN n ELSE n - l
  <1>1. CASE n < l
    <2>1. n = l * 0 + n  OBVIOUS
    <2> QED  BY <1>1, <2>1, Divides
  <1>2. CASE n >= l
    <2>1. n = l * 1 + (n - l)  OBVIOUS
    <2> QED  BY <1>2, <2>1, Divides
  <1> QED  BY <1>1, <1>2

-----------------------------------------------------------------------------
(* The digits of a register pair and of the time of day *)

Values == 0 .. TimerMod - 1

LEMMA ValuesBound == TimerMod \in Nat /\ TimerMod > 0 /\ 0 \in Values
  <1>1. Digit * Digit \in Nat /\ Digit * Digit > 0
    BY CiaAssumption
  <1> QED  BY <1>1 DEF TimerMod, Values

LEMMA LowWritten ==
  ASSUME NEW v \in Values, NEW d \in Digits
  PROVE  WithLow(v, d) \in Values
  <1> DEFINE q == v \div Digit
             r == v % Digit
  <1>1. Digit \in Nat /\ Digit > 0 /\ v \in Int /\ 0 <= v /\ v < Digit * Digit /\ d \in 0 .. Digit - 1
    BY CiaAssumption, ValuesBound DEF Values, Digits, TimerMod
  <1>2. q \in Int /\ r \in 0 .. Digit - 1 /\ v = Digit * q + r
    BY <1>1, Splits
  <1> HIDE DEF q, r
  <1>3. 0 <= q /\ q + 1 <= Digit
    <2>1. ~(q <= -1)
      <3> SUFFICES ASSUME q <= -1  PROVE FALSE
        OBVIOUS
      <3>1. Digit * q <= -Digit  BY <1>1, <1>2
      <3> QED  BY <1>1, <1>2, <3>1
    <2>2. ~(q >= Digit)
      <3> SUFFICES ASSUME q >= Digit  PROVE FALSE
        OBVIOUS
      <3>1. Digit * q >= Digit * Digit  BY <1>1, <1>2
      <3> QED  BY <1>1, <1>2, <3>1
    <2> QED  BY <1>1, <1>2, <2>1, <2>2
  <1>4. 0 <= Digit * q /\ Digit * q + Digit <= Digit * Digit
    <2>1. 0 <= Digit * q  BY <1>1, <1>2, <1>3
    <2>2. Digit * (q + 1) <= Digit * Digit  BY <1>1, <1>2, <1>3
    <2>3. Digit * (q + 1) = Digit * q + Digit  BY <1>1, <1>2
    <2> QED  BY <2>1, <2>2, <2>3
  <1>5. WithLow(v, d) = Digit * q + d
    BY <1>1, <1>2 DEF WithLow, Low, r
  <1> QED  BY <1>1, <1>2, <1>4, <1>5 DEF Values, TimerMod

LEMMA MidWritten ==
  ASSUME NEW v \in Values, NEW d \in Digits
  PROVE  WithMid(v, d) \in Values
  <1> DEFINE q == v \div Digit
             r == v % Digit
  <1>1. Digit \in Nat /\ Digit > 0 /\ v \in Int /\ 0 <= v /\ v < Digit * Digit /\ d \in 0 .. Digit - 1
    BY CiaAssumption, ValuesBound DEF Values, Digits, TimerMod
  <1>2. q \in Int /\ r \in 0 .. Digit - 1 /\ v = Digit * q + r
    BY <1>1, Splits
  <1>3. Mid(v) = q % Digit
    BY DEF Mid
  <1> HIDE DEF q, r
  <1>4. 0 <= q /\ q < Digit
    <2>1. ~(q <= -1)
      <3> SUFFICES ASSUME q <= -1  PROVE FALSE
        OBVIOUS
      <3>1. Digit * q <= -Digit  BY <1>1, <1>2
      <3> QED  BY <1>1, <1>2, <3>1
    <2>2. ~(q >= Digit)
      <3> SUFFICES ASSUME q >= Digit  PROVE FALSE
        OBVIOUS
      <3>1. Digit * q >= Digit * Digit  BY <1>1, <1>2
      <3> QED  BY <1>1, <1>2, <3>1
    <2> QED  BY <1>1, <1>2, <2>1, <2>2
  <1>5. Mid(v) = q
    <2>1. q \in 0 .. 2 * Digit - 1  BY <1>1, <1>2, <1>4
    <2> QED  BY <1>1, <1>3, <1>4, <2>1, Wrapped
  <1>6. WithMid(v, d) = Digit * d + r
    <2>1. WithMid(v, d) = v + (d - q) * Digit  BY <1>5 DEF WithMid
    <2>2. (d - q) * Digit = Digit * d - Digit * q  BY <1>1, <1>2
    <2> QED  BY <1>1, <1>2, <2>1, <2>2
  <1>7. 0 <= Digit * d /\ Digit * d + Digit <= Digit * Digit
    <2>1. Digit * (d + 1) <= Digit * Digit  BY <1>1
    <2>2. Digit * (d + 1) = Digit * d + Digit  BY <1>1
    <2> QED  BY <1>1, <2>1, <2>2
  <1>8. Digit * d \in Int  BY <1>1
  <1> QED  BY <1>1, <1>2, <1>6, <1>7, <1>8 DEF Values, TimerMod

-----------------------------------------------------------------------------
(* A running timer is due after its delay and the ticks of its value        *)

TimerTypes ==
  /\ start \in [Timers -> BOOLEAN] /\ runmode \in [Timers -> BOOLEAN]
  /\ timer_val \in [Timers -> Values] /\ timer_latch \in [Timers -> Values]
  /\ start_delay \in [Timers -> Nat] /\ due \in [Timers -> Int]

DueInv ==
  \A t \in Timers : due[t] = IF start[t] THEN start_delay[t] + Ticks(timer_val[t]) ELSE Off

TimerInv == TimerTypes /\ DueInv

LEMMA TimerInit == CiaInit => TimerInv
  BY ValuesBound DEF CiaInit, TimerInv, TimerTypes, DueInv, Off

LEMMA CountsDown ==
  ASSUME NEW v \in Values
  PROVE  LET w == (v - 1) % TimerMod
         IN  /\ w \in Values /\ Ticks(v) \in Nat /\ Ticks(v) >= 1
             /\ w = 0 <=> Ticks(v) = 1
             /\ w # 0 => Ticks(w) = Ticks(v) - 1
  <1> DEFINE w == (v - 1) % TimerMod
  <1>1. TimerMod \in Nat /\ TimerMod > 0 /\ v \in 0 .. TimerMod - 1
    BY ValuesBound DEF Values
  <1>2. w = IF v = 0 THEN TimerMod - 1 ELSE v - 1
    <2>1. CASE v = 0
      <3>1. v - 1 = TimerMod * (-1) + (TimerMod - 1)  BY <1>1, <2>1
      <3>2. TimerMod - 1 \in 0 .. TimerMod - 1  BY <1>1
      <3>3. (v - 1) % TimerMod = TimerMod - 1  BY <1>1, <3>1, <3>2, Divides
      <3> QED  BY <2>1, <3>3
    <2>2. CASE v # 0
      <3>1. v - 1 \in 0 .. 2 * TimerMod - 1 /\ v - 1 < TimerMod  BY <1>1, <2>2
      <3>2. (v - 1) % TimerMod = v - 1  BY <1>1, <3>1, Wrapped
      <3> QED  BY <2>2, <3>2
    <2> QED  BY <2>1, <2>2
  <1> HIDE DEF w
  <1>3. /\ w \in Values /\ Ticks(v) \in Nat /\ Ticks(v) >= 1
        /\ w = 0 <=> Ticks(v) = 1
        /\ w # 0 => Ticks(w) = Ticks(v) - 1
    BY <1>1, <1>2 DEF Ticks, Values
  <1> QED  BY <1>3 DEF w

(* One turn of step() *)
LEMMA TimerTurn ==
  ASSUME TimerInv, TimersTick, NEW t \in Timers
  PROVE  /\ Ticked(t).fires <=> due[t] = 1
         /\ start'[t] \in BOOLEAN /\ timer_val'[t] \in Values
         /\ start_delay'[t] \in Nat /\ due'[t] \in Int
         /\ due'[t] = IF start'[t] THEN start_delay'[t] + Ticks(timer_val'[t]) ELSE Off
  <1> DEFINE v == timer_val[t]
             w == (v - 1) % TimerMod
  <1>1. /\ start[t] \in BOOLEAN /\ runmode[t] \in BOOLEAN /\ v \in Values /\ timer_latch[t] \in Values
        /\ start_delay[t] \in Nat /\ due[t] \in Int
        /\ due[t] = IF start[t] THEN start_delay[t] + Ticks(v) ELSE Off
    BY DEF TimerInv, TimerTypes, DueInv
  <1>2. /\ w \in Values /\ Ticks(v) \in Nat /\ Ticks(v) >= 1
        /\ w = 0 <=> Ticks(v) = 1
        /\ w # 0 => Ticks(w) = Ticks(v) - 1
    BY <1>1, CountsDown
  <1>3. Ticks(timer_latch[t]) \in Nat /\ Ticks(timer_latch[t]) >= 1
    BY <1>1, CountsDown
  <1>4. Ticked(t) =
          IF ~start[t] THEN [start |-> FALSE, val |-> v, delay |-> start_delay[t], fires |-> FALSE]
          ELSE IF start_delay[t] # 0
          THEN [start |-> TRUE, val |-> v, delay |-> start_delay[t] - 1, fires |-> FALSE]
          ELSE [start |-> w # 0 \/ ~runmode[t], val |-> IF w = 0 THEN timer_latch[t] ELSE w,
                delay |-> start_delay[t], fires |-> w = 0]
    BY DEF Ticked, Counts
  <1>5. /\ start'[t] = Ticked(t).start /\ timer_val'[t] = Ticked(t).val
        /\ start_delay'[t] = Ticked(t).delay /\ due'[t] = DueAfterTick(t)
    BY DEF TimersTick
  <1> DEFINE s1 == start'[t]
             v1 == timer_val'[t]
             y1 == start_delay'[t]
             d1 == due'[t]
             fires == Ticked(t).fires
             delay == start_delay[t]
             d == due[t]
             Good == /\ fires <=> d = 1
                     /\ s1 \in BOOLEAN /\ v1 \in Values /\ y1 \in Nat /\ d1 \in Int
                     /\ d1 = IF s1 THEN y1 + Ticks(v1) ELSE Off
  <1>6. CASE ~start[t]
    <2>1. d = Off /\ d1 = Off
      BY <1>1, <1>5, <1>6 DEF DueAfterTick
    <2>2. s1 = FALSE /\ v1 = v /\ y1 = delay /\ fires = FALSE
      BY <1>4, <1>5, <1>6
    <2>3. v \in Values /\ delay \in Nat
      BY <1>1
    <2> HIDE DEF v, w, s1, v1, y1, d1, fires, delay, d
    <2>4. d # 1 /\ d1 \in Int
      BY <2>1 DEF Off
    <2>5. Good  BY <2>1, <2>2, <2>3, <2>4
    <2> QED  BY <2>5 DEF s1, v1, y1, d1, fires, d
  <1>7. CASE start[t] /\ start_delay[t] # 0
    <2>1. d = delay + Ticks(v) /\ delay \in Nat /\ delay # 0 /\ v \in Values /\ Ticks(v) \in Nat /\ Ticks(v) >= 1
      BY <1>1, <1>2, <1>7
    <2>2. s1 = TRUE /\ v1 = v /\ y1 = delay - 1 /\ fires = FALSE
      BY <1>4, <1>5, <1>7
    <2>3. d > 1
      BY <2>1
    <2>4. d1 = d - 1
      BY <1>5, <2>1, <2>3 DEF DueAfterTick, Off
    <2> HIDE DEF v, w, s1, v1, y1, d1, fires, delay, d
    <2>5. d # 1 /\ d1 \in Int /\ y1 \in Nat /\ d1 = y1 + Ticks(v1)
      BY <2>1, <2>2, <2>3, <2>4
    <2>6. Good  BY <2>1, <2>2, <2>5
    <2> QED  BY <2>6 DEF s1, v1, y1, d1, fires, d
  <1>8. CASE start[t] /\ start_delay[t] = 0
    <2>1. d = Ticks(v)
      BY <1>1, <1>2, <1>8
    <2>2. /\ s1 = (w # 0 \/ ~runmode[t]) /\ v1 = (IF w = 0 THEN timer_latch[t] ELSE w)
          /\ y1 = 0 /\ fires = (w = 0)
      BY <1>4, <1>5, <1>8
    <2>3. d1 = IF d = 1 THEN (IF runmode[t] THEN Off ELSE Ticks(timer_latch[t])) ELSE d - 1
      BY <1>2, <1>5, <2>1 DEF DueAfterTick, Off
    <2>4. w \in Values /\ w \in Int /\ runmode[t] \in BOOLEAN /\ timer_latch[t] \in Values
      BY <1>1, <1>2, ValuesBound DEF Values
    <2> HIDE DEF v, w, s1, v1, y1, d1, fires, delay, d
    <2>5. fires <=> d = 1
      BY <1>2, <2>1, <2>2
    <2>6. CASE w = 0 /\ runmode[t]
      <3>1. d = 1 /\ d1 = Off /\ s1 = FALSE /\ v1 = timer_latch[t]
        BY <1>2, <2>1, <2>2, <2>3, <2>6
      <3>2. Good  BY <2>2, <2>4, <2>5, <3>1 DEF Off
      <3> QED  BY <3>2 DEF s1, v1, y1, d1, fires, d
    <2>7. CASE w = 0 /\ ~runmode[t]
      <3>1. d = 1 /\ d1 = Ticks(timer_latch[t]) /\ s1 = TRUE /\ v1 = timer_latch[t]
        BY <1>2, <2>1, <2>2, <2>3, <2>7
      <3>2. d1 \in Int /\ d1 = y1 + Ticks(v1)
        BY <1>3, <2>2, <3>1
      <3>3. Good  BY <2>2, <2>4, <2>5, <3>1, <3>2
      <3> QED  BY <3>3 DEF s1, v1, y1, d1, fires, d
    <2>8. CASE w # 0
      <3>1. d # 1 /\ d1 = d - 1 /\ s1 = TRUE /\ v1 = w
        BY <1>2, <2>1, <2>2, <2>3, <2>8
      <3>2. d1 \in Int /\ d1 = y1 + Ticks(v1)
        BY <1>2, <2>1, <2>2, <2>8, <3>1
      <3>3. Good  BY <2>2, <2>4, <2>5, <3>1, <3>2
      <3> QED  BY <3>3 DEF s1, v1, y1, d1, fires, d
    <2> QED  BY <2>6, <2>7, <2>8
  <1> QED  BY <1>1, <1>6, <1>7, <1>8

LEMMA TickKeeps ==
  ASSUME TimerInv, TimersTick
  PROVE  TimerInv'
  <1>1. /\ start' = [t \in Timers |-> Ticked(t).start]
        /\ timer_val' = [t \in Timers |-> Ticked(t).val]
        /\ start_delay' = [t \in Timers |-> Ticked(t).delay]
        /\ due' = [t \in Timers |-> DueAfterTick(t)]
        /\ UNCHANGED <<runmode, timer_latch>>
    BY DEF TimersTick
  <1>2. \A t \in Timers :
          /\ start'[t] \in BOOLEAN /\ timer_val'[t] \in Values
          /\ start_delay'[t] \in Nat /\ due'[t] \in Int
          /\ due'[t] = IF start'[t] THEN start_delay'[t] + Ticks(timer_val'[t]) ELSE Off
    BY TimerTurn
  <1>3. start' \in [Timers -> BOOLEAN] /\ timer_val' \in [Timers -> Values]
    BY <1>1, <1>2
  <1>4. start_delay' \in [Timers -> Nat] /\ due' \in [Timers -> Int]
    BY <1>1, <1>2
  <1>5. TimerTypes'
    BY <1>1, <1>3, <1>4 DEF TimerInv, TimerTypes, Values
  <1>6. DueInv'
    BY <1>2 DEF DueInv
  <1> QED  BY <1>5, <1>6 DEF TimerInv

(* The registers *)
LEMMA LowKeeps ==
  ASSUME TimerInv, NEW t \in Timers, NEW d \in Digits, WriteTimerLow(t, d)
  PROVE  TimerInv'
  <1>1. /\ timer_latch' = [timer_latch EXCEPT ![t] = WithLow(@, d)]
        /\ UNCHANGED <<start, runmode, timer_val, start_delay, due>>
    BY DEF WriteTimerLow
  <1>2. timer_latch[t] \in Values
    BY DEF TimerInv, TimerTypes
  <1>3. WithLow(timer_latch[t], d) \in Values
    BY <1>2, LowWritten
  <1>4. TimerTypes'
    BY <1>1, <1>3 DEF TimerInv, TimerTypes, Values
  <1>5. DueInv'
    BY <1>1 DEF TimerInv, DueInv
  <1> QED  BY <1>4, <1>5 DEF TimerInv

LEMMA HighKeeps ==
  ASSUME TimerInv, NEW t \in Timers, NEW d \in Digits, WriteTimerHigh(t, d)
  PROVE  TimerInv'
  <1> DEFINE latch == WithMid(timer_latch[t], d)
             delay == cia_start_delay + 1
  <1>1. /\ timer_latch' = [timer_latch EXCEPT ![t] = latch]
        /\ timer_val' = [timer_val EXCEPT ![t] = IF runmode[t] \/ ~start[t] THEN latch ELSE @]
        /\ IF runmode[t]
           THEN /\ start' = [start EXCEPT ![t] = TRUE]
                /\ start_delay' = [start_delay EXCEPT ![t] = delay]
                /\ due' = [due EXCEPT ![t] = delay + Ticks(latch)]
           ELSE UNCHANGED <<start, start_delay, due>>
        /\ UNCHANGED runmode
    BY DEF WriteTimerHigh
  <1>2. timer_latch[t] \in Values
    BY DEF TimerInv, TimerTypes
  <1>3. latch \in Values
    BY <1>2, MidWritten
  <1>4. delay \in Nat /\ Ticks(latch) \in Nat
    BY <1>3, CountsDown DEF cia_start_delay
  <1> HIDE DEF latch, delay
  <1>5. TimerTypes'
    <2>1. timer_latch' \in [Timers -> Values] /\ timer_val' \in [Timers -> Values]
      BY <1>1, <1>3 DEF TimerInv, TimerTypes
    <2>2. start' \in [Timers -> BOOLEAN] /\ start_delay' \in [Timers -> Nat]
      BY <1>1, <1>4 DEF TimerInv, TimerTypes
    <2>3. delay + Ticks(latch) \in Int
      BY <1>4
    <2>4. due' \in [Timers -> Int]
      BY <1>1, <2>3 DEF TimerInv, TimerTypes
    <2> QED  BY <1>1, <2>1, <2>2, <2>4 DEF TimerInv, TimerTypes, Values
  <1>6. DueInv'
    <2> SUFFICES ASSUME NEW u \in Timers
                 PROVE  due'[u] = IF start'[u] THEN start_delay'[u] + Ticks(timer_val'[u]) ELSE Off
      BY DEF DueInv
    <2>1. due[u] = IF start[u] THEN start_delay[u] + Ticks(timer_val[u]) ELSE Off
      BY DEF TimerInv, DueInv
    <2>2. CASE u # t
      BY <1>1, <2>1, <2>2 DEF TimerInv, TimerTypes
    <2>3. CASE u = t /\ runmode[t]
      BY <1>1, <2>3 DEF TimerInv, TimerTypes
    <2>4. CASE u = t /\ ~runmode[t]
      BY <1>1, <2>1, <2>4 DEF TimerInv, TimerTypes
    <2> QED  BY <2>2, <2>3, <2>4
  <1> QED  BY <1>5, <1>6 DEF TimerInv

LEMMA ControlKeeps ==
  ASSUME TimerInv, NEW t \in Timers, NEW on \in BOOLEAN, NEW oneshot \in BOOLEAN,
         NEW load \in BOOLEAN, NEW bit \in BOOLEAN, WriteControl(t, on, oneshot, load, bit)
  PROVE  TimerInv'
  <1> DEFINE value == IF load THEN timer_latch[t] ELSE timer_val[t]
  <1>1. /\ timer_val' = [timer_val EXCEPT ![t] = value]
        /\ start_delay' = [start_delay EXCEPT ![t] = IF on /\ ~start[t] THEN cia_start_delay ELSE @]
        /\ start' = [start EXCEPT ![t] = on] /\ runmode' = [runmode EXCEPT ![t] = oneshot]
        /\ due' = [due EXCEPT ![t] =
                     IF ~on THEN Off
                     ELSE IF ~start[t] THEN cia_start_delay + Ticks(value)
                     ELSE IF load THEN start_delay[t] + Ticks(value) ELSE @]
        /\ UNCHANGED timer_latch
    BY DEF WriteControl
  <1>2. value \in Values
    BY DEF TimerInv, TimerTypes
  <1>3. Ticks(value) \in Nat
    BY <1>2, CountsDown
  <1>4. ~load => value = timer_val[t]
    OBVIOUS
  <1> HIDE DEF value
  <1>5. TimerTypes'
    <2>1. timer_val' \in [Timers -> Values]
      BY <1>1, <1>2 DEF TimerInv, TimerTypes
    <2>2. start' \in [Timers -> BOOLEAN] /\ runmode' \in [Timers -> BOOLEAN]
      BY <1>1 DEF TimerInv, TimerTypes
    <2>3. start_delay' \in [Timers -> Nat]
      BY <1>1 DEF TimerInv, TimerTypes, cia_start_delay
    <2>4. due' \in [Timers -> Int]
      BY <1>1, <1>3 DEF TimerInv, TimerTypes, cia_start_delay, Off
    <2> QED  BY <1>1, <2>1, <2>2, <2>3, <2>4 DEF TimerInv, TimerTypes, Values
  <1>6. DueInv'
    <2> SUFFICES ASSUME NEW u \in Timers
                 PROVE  due'[u] = IF start'[u] THEN start_delay'[u] + Ticks(timer_val'[u]) ELSE Off
      BY DEF DueInv
    <2>1. due[u] = IF start[u] THEN start_delay[u] + Ticks(timer_val[u]) ELSE Off
      BY DEF TimerInv, DueInv
    <2>2. CASE u # t
      BY <1>1, <2>1, <2>2 DEF TimerInv, TimerTypes
    <2>3. CASE u = t /\ ~on
      BY <1>1, <2>3 DEF TimerInv, TimerTypes
    <2>4. CASE u = t /\ on /\ ~start[t]
      BY <1>1, <2>4 DEF TimerInv, TimerTypes
    <2>5. CASE u = t /\ on /\ start[t]
      BY <1>1, <1>4, <2>1, <2>5 DEF TimerInv, TimerTypes
    <2> QED  BY <2>2, <2>3, <2>4, <2>5
  <1> QED  BY <1>5, <1>6 DEF TimerInv

-----------------------------------------------------------------------------
(* While hi, mid and lo are read, the latch holds the time asked for        *)

Times == 0 .. TodMod - 1

TodInv ==
  /\ counter \in Int /\ counter_latch \in Int /\ tod_asked \in Times
  /\ tod_read \in Seq(Int) /\ Len(tod_read) \in 0 .. 3
  /\ Len(tod_read) \in 1 .. 2 => counter_latch = tod_asked
  /\ Len(tod_read) >= 1 => tod_read[1] = High(tod_asked)
  /\ Len(tod_read) >= 2 => tod_read[2] = Mid(tod_asked)
  /\ Len(tod_read) >= 3 => tod_read[3] = Low(tod_asked)

LEMMA TimesBound == TodMod \in Nat /\ TodMod > 0 /\ TodMod = Digit * (Digit * Digit) /\ 0 \in Times
  <1>1. Digit \in Nat /\ Digit > 0
    BY CiaAssumption
  <1>2. Digit * Digit \in Nat /\ Digit * Digit > 0
    BY <1>1
  <1>3. Digit * Digit * Digit \in Nat /\ Digit * Digit * Digit > 0
    BY <1>1, <1>2
  <1>4. Digit * Digit * Digit = Digit * (Digit * Digit)
    BY <1>1
  <1> QED  BY <1>3, <1>4 DEF TodMod, Times

LEMMA TodInit == CiaInit => TodInv
  BY TimesBound DEF CiaInit, TodInv, NoLatch

LEMMA DigitsOf ==
  ASSUME NEW v \in Int
  PROVE  /\ Low(v) \in Int /\ Mid(v) \in Int /\ High(v) \in Int
         /\ Digit * Digit \in Nat /\ Digit * Digit > 0
  <1>1. Digit \in Nat /\ Digit > 0
    BY CiaAssumption
  <1>2. Digit * Digit \in Nat /\ Digit * Digit > 0
    BY <1>1
  <1>3. v \div Digit \in Int /\ v \div (Digit * Digit) \in Int
    BY <1>1, <1>2, Splits
  <1>4. Low(v) \in Int
    BY <1>1, Splits DEF Low
  <1>5. Mid(v) \in Int
    BY <1>1, <1>3, Splits DEF Mid
  <1>6. High(v) \in Int
    BY <1>1, <1>3, Splits DEF High
  <1> QED  BY <1>2, <1>4, <1>5, <1>6

LEMMA DigitsWritten ==
  ASSUME NEW v \in Int, NEW d \in Int
  PROVE  WithLow(v, d) \in Int /\ WithMid(v, d) \in Int /\ WithHigh(v, d) \in Int
  <1> DEFINE a == Low(v)
             b == Mid(v)
             c == High(v)
  <1>1. a \in Int /\ b \in Int /\ c \in Int /\ Digit \in Int
    BY DigitsOf, CiaAssumption
  <1>2. WithLow(v, d) = v - a + d /\ WithMid(v, d) = v + (d - b) * Digit
        /\ WithHigh(v, d) = v + (d - c) * Digit * Digit
    BY DEF WithLow, WithMid, WithHigh
  <1> HIDE DEF a, b, c
  <1>3. (d - b) * Digit \in Int
    BY <1>1
  <1>4. (d - c) * Digit \in Int
    BY <1>1
  <1>5. ((d - c) * Digit) * Digit \in Int
    BY <1>1, <1>4
  <1> QED  BY <1>1, <1>2, <1>3, <1>5

(* The high digit is that of the time shown: the counter's own top digit    *)
(* is cut off by both                                                       *)
LEMMA HighShown ==
  ASSUME NEW v \in Int
  PROVE  v % TodMod \in Times /\ High(v) = High(v % TodMod)
  <1> DEFINE E == Digit * Digit
             m == v % TodMod
             k == v \div TodMod
  <1>1. Digit \in Nat /\ Digit > 0 /\ E \in Nat /\ E > 0
    BY CiaAssumption, DigitsOf
  <1>2. TodMod \in Nat /\ TodMod > 0 /\ TodMod = Digit * E
    BY TimesBound
  <1>3. k \in Int /\ m \in 0 .. TodMod - 1 /\ v = TodMod * k + m
    BY <1>2, Splits
  <1> HIDE DEF m, k
  <1> DEFINE q == m \div E
             r == m % E
  <1>4. q \in Int /\ r \in 0 .. E - 1 /\ m = E * q + r
    BY <1>1, <1>2, <1>3, Splits
  <1>5. High(v) = (v \div E) % Digit /\ High(m) = q % Digit
    BY DEF High
  <1> HIDE DEF E, q, r
  <1>6. v = E * (q + Digit * k) + r
    <2>1. v = (Digit * E) * k + (E * q + r)
      BY <1>2, <1>3, <1>4
    <2>2. (Digit * E) * k = E * (Digit * k)
      BY <1>1, <1>3
    <2>3. E * (q + Digit * k) = E * q + E * (Digit * k)
      BY <1>1, <1>3, <1>4
    <2> QED  BY <1>1, <1>3, <1>4, <2>1, <2>2, <2>3
  <1>7. v \div E = q + Digit * k
    <2>1. q + Digit * k \in Int
      BY <1>1, <1>3, <1>4
    <2> QED  BY <1>1, <1>4, <1>6, <2>1, Divides
  <1>8. (q + Digit * k) % Digit = q % Digit
    BY <1>1, <1>3, <1>4, ShiftedMod
  <1>9. High(v) = High(m)
    BY <1>5, <1>7, <1>8
  <1> QED  BY <1>3, <1>9 DEF m, Times

(* The three digits of a time are the time *)
LEMMA TimeOfDigits ==
  ASSUME NEW v \in Times
  PROVE  v = (High(v) * Digit + Mid(v)) * Digit + Low(v)
  <1> DEFINE E == Digit * Digit
             p == v \div Digit
             r == v % Digit
             q == p \div Digit
             m == p % Digit
  <1>1. Digit \in Nat /\ Digit > 0 /\ E \in Nat /\ E > 0 /\ v \in Int /\ 0 <= v /\ v < Digit * E
    BY CiaAssumption, TimesBound, DigitsOf DEF Times
  <1>2. p \in Int /\ r \in 0 .. Digit - 1 /\ v = Digit * p + r
    BY <1>1, Splits
  <1>3. q \in Int /\ m \in 0 .. Digit - 1 /\ p = Digit * q + m
    BY <1>1, <1>2, Splits
  <1>4. Low(v) = r /\ Mid(v) = m /\ High(v) = (v \div E) % Digit
    BY DEF Low, Mid, High
  <1>5. E = Digit * Digit
    OBVIOUS
  <1> HIDE DEF E, p, q, r, m
  <1>6. v = E * q + (Digit * m + r)
    <2>1. v = Digit * (Digit * q + m) + r
      BY <1>2, <1>3
    <2>2. Digit * (Digit * q + m) = Digit * (Digit * q) + Digit * m
      BY <1>1, <1>3
    <2>3. Digit * (Digit * q) = E * q
      BY <1>1, <1>3, <1>5
    <2>4. Digit * m \in Int
      BY <1>1, <1>3
    <2> QED  BY <1>1, <1>2, <1>3, <2>1, <2>2, <2>3, <2>4
  <1>7. Digit * m + r \in 0 .. E - 1
    <2>1. Digit * m \in Int /\ 0 <= Digit * m
      BY <1>1, <1>3
    <2>2. Digit * (m + 1) <= Digit * Digit
      BY <1>1, <1>3
    <2>3. Digit * (m + 1) = Digit * m + Digit
      BY <1>1, <1>3
    <2> QED  BY <1>1, <1>2, <1>5, <2>1, <2>2, <2>3
  <1>8. v \div E = q
    BY <1>1, <1>3, <1>6, <1>7, Divides
  <1>9. q \in 0 .. Digit - 1
    <2>1. ~(q <= -1)
      <3> SUFFICES ASSUME q <= -1  PROVE FALSE
        OBVIOUS
      <3>1. E * q <= -E  BY <1>1, <1>3
      <3> QED  BY <1>1, <1>3, <1>6, <1>7, <3>1
    <2>2. ~(q >= Digit)
      <3> SUFFICES ASSUME q >= Digit  PROVE FALSE
        OBVIOUS
      <3>1. E * q >= E * Digit  BY <1>1, <1>3
      <3>2. E * Digit = Digit * E  BY <1>1
      <3> QED  BY <1>1, <1>3, <1>6, <1>7, <3>1, <3>2
    <2> QED  BY <1>1, <1>3, <2>1, <2>2
  <1>10. q % Digit = q
    <2>1. q \in 0 .. 2 * Digit - 1 /\ q < Digit
      BY <1>1, <1>9
    <2> QED  BY <1>1, <2>1, Wrapped
  <1>11. (q * Digit + m) * Digit = E * q + Digit * m
    <2>1. (q * Digit + m) * Digit = (q * Digit) * Digit + m * Digit
      BY <1>1, <1>3
    <2>2. (q * Digit) * Digit = E * q
      BY <1>1, <1>3, <1>5
    <2>3. m * Digit = Digit * m
      BY <1>1, <1>3
    <2> QED  BY <2>1, <2>2, <2>3
  <1>12. E * q \in Int /\ Digit * m \in Int
    BY <1>1, <1>3
  <1> QED  BY <1>2, <1>4, <1>6, <1>8, <1>10, <1>11, <1>12

LEMMA ReadsKeep ==
  ASSUME TodInv, ReadTodHigh \/ ReadTodMid \/ ReadTodLow
  PROVE  TodInv'
  <1>1. CASE ReadTodHigh
    <2>1. /\ counter' = counter /\ counter_latch' = counter % TodMod
          /\ tod_read' = <<High(counter)>> /\ tod_asked' = counter % TodMod
      BY <1>1 DEF ReadTodHigh
    <2>2. counter \in Int
      BY DEF TodInv
    <2>3. counter % TodMod \in Times /\ High(counter) = High(counter % TodMod) /\ High(counter) \in Int
      BY <2>2, HighShown, DigitsOf
    <2>4. counter % TodMod \in Int
      BY <2>3, TimesBound DEF Times
    <2>5. tod_read' \in Seq(Int) /\ Len(tod_read') = 1 /\ tod_read'[1] = High(counter)
      BY <2>1, <2>3
    <2>6. Times' = Times /\ High(tod_asked)' = High(tod_asked')
      BY DEF Times, High
    <2> QED  BY <2>1, <2>2, <2>3, <2>4, <2>5, <2>6 DEF TodInv
  <1>2. CASE ReadTodMid
    <2>1. /\ Len(tod_read) = 1 /\ tod_read' = Append(tod_read, Mid(Shown))
          /\ UNCHANGED <<counter, counter_latch, tod_asked>>
      BY <1>2 DEF ReadTodMid
    <2>2. Shown = tod_asked /\ tod_asked \in Int
      BY <2>1, TimesBound DEF TodInv, Shown, NoLatch, Times
    <2>3. Mid(tod_asked) \in Int
      BY <2>2, DigitsOf
    <2>4. tod_read \in Seq(Int) /\ tod_read[1] = High(tod_asked)
      BY <2>1 DEF TodInv
    <2>5. /\ tod_read' \in Seq(Int) /\ Len(tod_read') = 2
          /\ tod_read'[1] = High(tod_asked) /\ tod_read'[2] = Mid(tod_asked)
      <3> DEFINE e == Mid(tod_asked)
      <3>1. tod_read' = Append(tod_read, e) /\ e \in Int
        BY <2>1, <2>2, <2>3
      <3> HIDE DEF e
      <3>2. /\ Append(tod_read, e) \in Seq(Int) /\ Len(Append(tod_read, e)) = Len(tod_read) + 1
            /\ \A i \in 1 .. Len(tod_read) : Append(tod_read, e)[i] = tod_read[i]
            /\ Append(tod_read, e)[Len(tod_read) + 1] = e
        BY <2>4, <3>1, AppendProperties
      <3> QED  BY <2>1, <2>4, <3>1, <3>2 DEF e
    <2>6. Times' = Times /\ High(tod_asked)' = High(tod_asked') /\ Mid(tod_asked)' = Mid(tod_asked')
      BY DEF Times, High, Mid
    <2> QED  BY <2>1, <2>5, <2>6 DEF TodInv
  <1>3. CASE ReadTodLow
    <2>1. /\ tod_read' = IF Len(tod_read) = 2 THEN Append(tod_read, Low(Shown)) ELSE <<>>
          /\ counter_latch' = NoLatch /\ UNCHANGED <<counter, tod_asked>>
      BY <1>3 DEF ReadTodLow
    <2>2. CASE Len(tod_read) = 2
      <3>1. Shown = tod_asked /\ tod_asked \in Int
        BY <2>2, TimesBound DEF TodInv, Shown, NoLatch, Times
      <3>2. Low(tod_asked) \in Int
        BY <3>1, DigitsOf
      <3>3. tod_read \in Seq(Int) /\ tod_read[1] = High(tod_asked) /\ tod_read[2] = Mid(tod_asked)
        BY <2>2 DEF TodInv
      <3>4. /\ tod_read' \in Seq(Int) /\ Len(tod_read') = 3
            /\ tod_read'[1] = High(tod_asked) /\ tod_read'[2] = Mid(tod_asked)
            /\ tod_read'[3] = Low(tod_asked)
        <4> DEFINE e == Low(tod_asked)
        <4>1. tod_read' = Append(tod_read, e) /\ e \in Int
          BY <2>1, <2>2, <3>1, <3>2
        <4> HIDE DEF e
        <4>2. /\ Append(tod_read, e) \in Seq(Int) /\ Len(Append(tod_read, e)) = Len(tod_read) + 1
              /\ \A i \in 1 .. Len(tod_read) : Append(tod_read, e)[i] = tod_read[i]
              /\ Append(tod_read, e)[Len(tod_read) + 1] = e
          BY <3>3, <4>1, AppendProperties
        <4> QED  BY <2>2, <3>3, <4>1, <4>2 DEF e
      <3> QED  BY <2>1, <3>4 DEF TodInv, Times, High, Mid, Low, NoLatch
    <2>3. CASE Len(tod_read) # 2
      <3>1. tod_read' = <<>>
        BY <2>1, <2>3
      <3> QED  BY <2>1, <3>1 DEF TodInv, Times, NoLatch
    <2> QED  BY <2>2, <2>3
  <1> QED  BY <1>1, <1>2, <1>3

(* Whatever else happens leaves the latch and what was read alone           *)
LEMMA TodUnread ==
  ASSUME TodInv, counter' \in Int,
         \/ UNCHANGED <<counter_latch, tod_read, tod_asked>>
         \/ tod_read' = <<>> /\ counter_latch' = NoLatch /\ UNCHANGED tod_asked
  PROVE  TodInv'
  <1>1. CASE UNCHANGED <<counter_latch, tod_read, tod_asked>>
    BY <1>1 DEF TodInv, Times, High, Mid, Low
  <1>2. CASE tod_read' = <<>> /\ counter_latch' = NoLatch /\ UNCHANGED tod_asked
    BY <1>2 DEF TodInv, Times, NoLatch
  <1> QED  BY <1>1, <1>2

LEMMA TodShown == TodInv => TodSnapshot
  <1> SUFFICES ASSUME TodInv, Len(tod_read) = 3
               PROVE  tod_asked = (tod_read[1] * Digit + tod_read[2]) * Digit + tod_read[3]
    BY DEF TodSnapshot
  <1>1. /\ tod_asked \in Times /\ tod_read[1] = High(tod_asked) /\ tod_read[2] = Mid(tod_asked)
        /\ tod_read[3] = Low(tod_asked)
    BY DEF TodInv
  <1> QED  BY <1>1, TimeOfDigits

-----------------------------------------------------------------------------
(* The ring: between tail and head, also over the end of the indices, lie   *)
(* the keys that were typed and not yet sent                                *)

Sent == Keys \cup {0}

LEMMA RingMod ==
  ASSUME NEW x \in Int, NEW c \in Int
  PROVE  ((x % IndexMod) + c) % BufferSize = (x + c) % BufferSize
  <1> DEFINE k == IndexMod \div BufferSize
             p == x \div IndexMod
             m == x % IndexMod
  <1>1. /\ BufferSize \in Nat /\ BufferSize > 0 /\ IndexMod \in Nat /\ IndexMod > 0
        /\ IndexMod % BufferSize = 0
    BY CiaAssumption
  <1>2. k \in Int /\ IndexMod = BufferSize * k
    BY <1>1, Splits
  <1>3. p \in Int /\ m \in Int /\ x = IndexMod * p + m
    BY <1>1, Splits
  <1> HIDE DEF k, p, m
  <1>4. x + c = (m + c) + BufferSize * (k * p)
    <2>1. IndexMod * p = BufferSize * (k * p)
      BY <1>1, <1>2, <1>3
    <2>2. IndexMod * p \in Int
      BY <1>1, <1>3
    <2> QED  BY <1>3, <2>1, <2>2
  <1>5. ((m + c) + BufferSize * (k * p)) % BufferSize = (m + c) % BufferSize
    <2>1. m + c \in Int /\ k * p \in Int
      BY <1>2, <1>3
    <2> QED  BY <1>1, <2>1, ShiftedMod
  <1> QED  BY <1>4, <1>5 DEF m

LEMMA SlotsDiffer ==
  ASSUME NEW x \in Int, NEW d \in 1 .. BufferSize - 1
  PROVE  x % BufferSize # (x + d) % BufferSize
  <1> DEFINE p == x \div BufferSize
             m == x % BufferSize
  <1>1. BufferSize \in Nat /\ BufferSize > 0
    BY CiaAssumption
  <1>2. p \in Int /\ m \in 0 .. BufferSize - 1 /\ x = BufferSize * p + m
    BY <1>1, Splits
  <1> HIDE DEF p, m
  <1>3. CASE m + d < BufferSize
    <2>1. x + d = BufferSize * p + (m + d) /\ m + d \in 0 .. BufferSize - 1 /\ x + d \in Int
      BY <1>1, <1>2, <1>3
    <2>2. (x + d) % BufferSize = m + d
      BY <1>1, <1>2, <2>1, Divides
    <2> QED  BY <1>2, <2>2 DEF m
  <1>4. CASE m + d >= BufferSize
    <2>1. BufferSize * (p + 1) = BufferSize * p + BufferSize /\ BufferSize * p \in Int
      BY <1>1, <1>2
    <2>2. /\ x + d = BufferSize * (p + 1) + (m + d - BufferSize)
          /\ m + d - BufferSize \in 0 .. BufferSize - 1 /\ x + d \in Int /\ p + 1 \in Int
      BY <1>1, <1>2, <1>4, <2>1
    <2>3. (x + d) % BufferSize = m + d - BufferSize
      BY <1>1, <2>2, Divides
    <2>4. m + d - BufferSize # m
      BY <1>1, <1>2
    <2> QED  BY <2>3, <2>4 DEF m
  <1> QED  BY <1>1, <1>2, <1>3, <1>4

LEMMA WaitingIs ==
  ASSUME NEW h \in 0 .. IndexMod - 1, NEW l \in 0 .. IndexMod - 1
  PROVE  (h - l) % IndexMod = IF h >= l THEN h - l ELSE h - l + IndexMod
  <1>1. IndexMod \in Nat /\ IndexMod > 0
    BY CiaAssumption
  <1>2. CASE h >= l
    <2>1. h - l \in 0 .. 2 * IndexMod - 1 /\ h - l < IndexMod
      BY <1>1, <1>2
    <2> QED  BY <1>1, <1>2, <2>1, Wrapped
  <1>3. CASE h < l
    <2>1. /\ h - l = IndexMod * (-1) + (h - l + IndexMod) /\ h - l \in Int
          /\ h - l + IndexMod \in 0 .. IndexMod - 1
      BY <1>1, <1>3
    <2>2. (h - l) % IndexMod = h - l + IndexMod
      BY <1>1, <2>1, Divides
    <2> QED  BY <1>3, <2>2
  <1> QED  BY <1>2, <1>3

LEMMA NextIndex ==
  ASSUME NEW h \in 0 .. IndexMod - 1
  PROVE  (h + 1) % IndexMod = IF h + 1 < IndexMod THEN h + 1 ELSE 0
  <1>1. IndexMod \in Nat /\ IndexMod > 0 /\ h + 1 \in 0 .. 2 * IndexMod - 1
    BY CiaAssumption
  <1> QED  BY <1>1, Wrapped

(* The keys that wait in a ring of content b, between l and h               *)
Slot(l, i) == (l + i - 1) % BufferSize

RingIndex(h) == h \in 0 .. IndexMod - 1

Rings == [0 .. BufferSize - 1 -> Sent]

LEMMA RingIs ==
  ASSUME NEW h, NEW l, NEW b \in Rings, RingIndex(h), RingIndex(l)
  PROVE  LET w == (h - l) % IndexMod
             q == [i \in 1 .. w |-> b[((l + i - 1) % IndexMod) % BufferSize]]
         IN  /\ w \in 0 .. IndexMod - 1 /\ q \in Seq(Sent) /\ Len(q) = w
             /\ \A i \in 1 .. w : q[i] = b[Slot(l, i)] /\ Slot(l, i) \in 0 .. BufferSize - 1
  <1> DEFINE w == (h - l) % IndexMod
             q == [i \in 1 .. w |-> b[((l + i - 1) % IndexMod) % BufferSize]]
  <1>1. /\ h \in 0 .. IndexMod - 1 /\ l \in 0 .. IndexMod - 1
        /\ IndexMod \in Nat /\ BufferSize \in Nat /\ BufferSize > 0
        /\ b \in [0 .. BufferSize - 1 -> Sent]
    BY CiaAssumption DEF RingIndex, Rings
  <1>2. w \in 0 .. IndexMod - 1
    BY <1>1, WaitingIs
  <1> HIDE DEF w
  <1>3. ASSUME NEW i \in 1 .. w
        PROVE  /\ b[((l + i - 1) % IndexMod) % BufferSize] = b[Slot(l, i)]
               /\ Slot(l, i) \in 0 .. BufferSize - 1 /\ b[Slot(l, i)] \in Sent
    <2> DEFINE x == l + i - 1
    <2>1. x \in Int
      BY <1>1, <1>2
    <2> HIDE DEF x
    <2>2. ((x % IndexMod) + 0) % BufferSize = (x + 0) % BufferSize
      BY <2>1, RingMod
    <2>3. x % IndexMod \in Int
      BY <1>1, <2>1
    <2>4. (x % IndexMod) % BufferSize = x % BufferSize
      BY <2>1, <2>2, <2>3
    <2>5. x % BufferSize \in 0 .. BufferSize - 1
      BY <1>1, <2>1, Splits
    <2> QED  BY <1>1, <2>4, <2>5 DEF x, Slot
  <1>4. \A i \in 1 .. w : q[i] = b[Slot(l, i)] /\ Slot(l, i) \in 0 .. BufferSize - 1 /\ q[i] \in Sent
    BY <1>3
  <1>5. q = [i \in 1 .. w |-> q[i]]
    OBVIOUS
  <1> HIDE DEF q
  <1>6. q \in [1 .. w -> Sent]
    BY <1>4, <1>5
  <1>7. w \in Nat
    BY <1>2
  <1>8. q \in Seq(Sent) /\ Len(q) = w
    BY <1>6, <1>7, IsASeq, LenProperties
  <1> QED  BY <1>2, <1>4, <1>8 DEF q, w

RingInv == RingIndex(head) /\ RingIndex(tail) /\ buffer \in Rings

LEMMA QueuedIs ==
  ASSUME RingInv
  PROVE  /\ Waiting \in 0 .. IndexMod - 1 /\ Queued \in Seq(Sent) /\ Len(Queued) = Waiting
         /\ \A i \in 1 .. Waiting :
              Queued[i] = buffer[Slot(tail, i)] /\ Slot(tail, i) \in 0 .. BufferSize - 1
  BY RingIs DEF RingInv, Waiting, Queued

LEMMA NewQueuedIs ==
  ASSUME RingInv'
  PROVE  /\ Waiting' \in 0 .. IndexMod - 1 /\ Queued' \in Seq(Sent) /\ Len(Queued') = Waiting'
         /\ \A i \in 1 .. Waiting' :
              Queued'[i] = buffer'[Slot(tail', i)] /\ Slot(tail', i) \in 0 .. BufferSize - 1
  <1>1. RingIndex(head') /\ RingIndex(tail') /\ buffer' \in Rings
    BY DEF RingInv, RingIndex, Rings, Sent
  <1> QED  BY <1>1, RingIs DEF Waiting, Queued

KeyInv ==
  RingInv /\ Waiting <= BufferSize /\ received \in Seq(Sent) /\ typed = received \o Queued

LEMMA AppendConcat ==
  ASSUME NEW s \in Seq(Sent), NEW q \in Seq(Sent), NEW e \in Sent
  PROVE  Append(s \o q, e) = s \o Append(q, e)
  <1>1. Append(s \o q, e) = (s \o q) \o <<e>>
    BY AppendIsConcat, ConcatProperties
  <1>2. (s \o q) \o <<e>> = s \o (q \o <<e>>)
    BY ConcatAssociative
  <1>3. q \o <<e>> = Append(q, e)
    BY AppendIsConcat
  <1> QED  BY <1>1, <1>2, <1>3

LEMMA MoveFirst ==
  ASSUME NEW s \in Seq(Sent), NEW q \in Seq(Sent), NEW r \in Seq(Sent),
         Len(q) = Len(r) + 1, \A i \in 1 .. Len(r) : r[i] = q[i + 1]
  PROVE  s \o q = Append(s, q[1]) \o r
  <1>1. q # <<>> /\ q[1] \in Sent
    BY ElementOfSeq, LenProperties
  <1>2. Tail(q) \in Seq(Sent) /\ Len(Tail(q)) = Len(r) /\ \A i \in 1 .. Len(r) : Tail(q)[i] = q[i + 1]
    BY <1>1, HeadTailProperties, LenProperties
  <1>3. Tail(q) = r
    BY <1>2, SeqEqual
  <1>4. q = <<q[1]>> \o r
    <2> DEFINE e == q[1]
    <2>1. <<e>> \in Seq(Sent) /\ Len(<<e>>) = 1 /\ <<e>>[1] = e
      BY <1>1
    <2> HIDE DEF e
    <2> DEFINE u == <<e>>
    <2>2. u \in Seq(Sent) /\ Len(u) = 1 /\ u[1] = e
      BY <2>1
    <2> HIDE DEF u
    <2>3. /\ u \o r \in Seq(Sent) /\ Len(u \o r) = Len(u) + Len(r)
          /\ \A i \in 1 .. Len(u) + Len(r) : (u \o r)[i] = IF i <= Len(u) THEN u[i] ELSE r[i - Len(u)]
      BY <2>2, ConcatProperties
    <2>4. Len(r) \in Nat
      BY LenProperties
    <2>5. ASSUME NEW i \in 1 .. Len(q)
          PROVE  q[i] = (u \o r)[i]
      <3>1. i \in 1 .. Len(u) + Len(r) /\ i \in Int
        BY <2>2, <2>4
      <3>2. (u \o r)[i] = IF i <= Len(u) THEN u[i] ELSE r[i - Len(u)]
        BY <2>3, <3>1
      <3>3. CASE i = 1
        BY <2>2, <3>2, <3>3 DEF e
      <3>4. CASE i # 1
        <4>1. (u \o r)[i] = r[i - 1] /\ i - 1 \in 1 .. Len(r)
          BY <2>2, <2>4, <3>1, <3>2, <3>4
        <4>2. r[i - 1] = q[(i - 1) + 1]
          BY <4>1
        <4>3. (i - 1) + 1 = i
          BY <3>1
        <4> QED  BY <4>1, <4>2, <4>3
      <3> QED  BY <3>3, <3>4
    <2>6. q = u \o r
      BY <2>2, <2>3, <2>4, <2>5, SeqEqual
    <2> QED  BY <2>6 DEF u, e
  <1>5. s \o (<<q[1]>> \o r) = (s \o <<q[1]>>) \o r
    <2>1. <<q[1]>> \in Seq(Sent)
      BY <1>1
    <2> QED  BY <2>1, ConcatAssociative
  <1>6. Append(s, q[1]) = s \o <<q[1]>>
    BY <1>1, AppendIsConcat
  <1> QED  BY <1>4, <1>5, <1>6

LEMMA KeyEmpty ==
  ASSUME head' = 0, tail' = 0, typed' = <<>>, received' = <<>>, buffer' \in Rings
  PROVE  KeyInv'
  <1>1. IndexMod \in Nat /\ IndexMod > 0 /\ BufferSize > 0 /\ BufferSize \in Nat
    BY CiaAssumption
  <1>2. (0 - 0) % IndexMod = 0
    BY <1>1, WaitingIs
  <1>3. Waiting' = 0
    BY <1>2 DEF Waiting
  <1>4. Queued' = <<>>
    BY <1>3 DEF Queued
  <1>5. RingInv'
    BY <1>1 DEF RingInv, RingIndex, Rings, Sent
  <1>6. received' \in Seq(Sent) /\ received' \o Queued' = <<>>
    BY <1>4, ConcatEmptySeq, EmptySeq
  <1>7. Waiting' <= BufferSize
    BY <1>1, <1>3
  <1> QED  BY <1>5, <1>6, <1>7 DEF KeyInv, Sent

LEMMA KeyInit == CiaInit => KeyInv
  <1> SUFFICES ASSUME CiaInit  PROVE KeyInv
    OBVIOUS
  <1>1. IndexMod \in Nat /\ IndexMod > 0 /\ BufferSize > 0 /\ BufferSize \in Nat
    BY CiaAssumption
  <1>2. (0 - 0) % IndexMod = 0
    BY <1>1, WaitingIs
  <1>3. /\ head = 0 /\ tail = 0 /\ typed = <<>> /\ received = <<>>
        /\ buffer = [i \in 0 .. BufferSize - 1 |-> 0]
    BY DEF CiaInit
  <1>4. Waiting = 0
    BY <1>2, <1>3 DEF Waiting
  <1>5. Queued = <<>>
    BY <1>4 DEF Queued
  <1>6. RingInv
    BY <1>1, <1>3 DEF RingInv, RingIndex, Rings, Sent
  <1>7. received \in Seq(Sent) /\ received \o Queued = <<>>
    BY <1>3, <1>5, ConcatEmptySeq, EmptySeq
  <1> QED  BY <1>1, <1>3, <1>4, <1>6, <1>7 DEF KeyInv

LEMMA EventKeeps ==
  ASSUME KeyInv, NEW key \in Keys, keyboard_event(key)
  PROVE  KeyInv'
  <1>1. UNCHANGED <<tail, received>>
    BY DEF keyboard_event
  <1>2. CASE Overrun
    <2>1. UNCHANGED <<buffer, head, typed>>
      BY <1>2 DEF keyboard_event
    <2> QED  BY <1>1, <2>1 DEF KeyInv, RingInv, RingIndex, Rings, Waiting, Queued, Sent
  <1>3. CASE ~Overrun
    <2> DEFINE B == 0 .. BufferSize - 1
               place == head % BufferSize
               w == Waiting
    <2>1. /\ buffer' = [buffer EXCEPT ![place] = key]
          /\ head' = (head + 1) % IndexMod /\ typed' = Append(typed, key)
      BY <1>3 DEF keyboard_event
    <2>2. /\ head \in 0 .. IndexMod - 1 /\ tail \in 0 .. IndexMod - 1 /\ buffer \in [B -> Sent]
          /\ IndexMod \in Nat /\ BufferSize \in Nat /\ BufferSize > 0 /\ IndexMod > BufferSize
      BY CiaAssumption DEF KeyInv, RingInv, RingIndex, Rings
    <2>3. place \in B
      BY <2>2, Splits
    <2>4. /\ Waiting \in 0 .. IndexMod - 1 /\ Queued \in Seq(Sent) /\ Len(Queued) = Waiting
          /\ \A i \in 1 .. Waiting : Queued[i] = buffer[Slot(tail, i)] /\ Slot(tail, i) \in B
      BY QueuedIs DEF KeyInv
    <2>5. w \in 0 .. BufferSize - 1
      BY <1>3, <2>2, <2>4 DEF Overrun
    <2>6. Waiting = IF head >= tail THEN head - tail ELSE head - tail + IndexMod
      BY <2>2, WaitingIs DEF Waiting
    <2>7. head' = IF head + 1 < IndexMod THEN head + 1 ELSE 0
      BY <2>1, <2>2, NextIndex
    <2>8. head' \in 0 .. IndexMod - 1 /\ tail' \in 0 .. IndexMod - 1
      BY <1>1, <2>2, <2>7
    <2>9. Waiting' = IF head' >= tail' THEN head' - tail' ELSE head' - tail' + IndexMod
      BY <2>8, WaitingIs DEF Waiting
    <2>10. Waiting' = w + 1
      BY <1>1, <2>2, <2>5, <2>6, <2>7, <2>9
    <2>11. place = (tail + w) % BufferSize
      <3>1. head - tail \in Int /\ tail \in Int
        BY <2>2
      <3>2. (((head - tail) % IndexMod) + tail) % BufferSize = ((head - tail) + tail) % BufferSize
        BY <3>1, RingMod
      <3>3. (head - tail) + tail = head /\ w + tail = tail + w
        BY <2>2, <2>5
      <3>4. w = (head - tail) % IndexMod
        BY DEF Waiting
      <3> QED  BY <3>2, <3>3, <3>4
    <2>12. buffer' \in [B -> Sent]
      BY <2>1, <2>2, <2>3 DEF Sent
    <2>13. RingInv'
      BY <2>8, <2>12 DEF RingInv, RingIndex, Rings, Sent
    <2> HIDE DEF place, w
    <2>14. /\ Queued' \in Seq(Sent) /\ Len(Queued') = w + 1
           /\ \A i \in 1 .. w + 1 : Queued'[i] = buffer'[Slot(tail, i)] /\ Slot(tail, i) \in B
      BY <1>1, <2>10, <2>13, NewQueuedIs
    <2>15. ASSUME NEW i \in 1 .. w
           PROVE  Queued'[i] = Queued[i]
      <3> DEFINE x == tail + i - 1
                 d == w - (i - 1)
      <3>1. x \in Int /\ d \in 1 .. BufferSize - 1 /\ x + d = tail + w /\ i \in 1 .. w + 1
        <4>1. tail \in Int /\ w \in Int /\ i \in Int /\ 1 <= i /\ i <= w /\ w <= BufferSize - 1
          BY <2>2, <2>5
        <4> QED  BY <2>2, <4>1
      <3>2. Slot(tail, i) = x % BufferSize
        BY DEF Slot
      <3> HIDE DEF x, d
      <3>3. Slot(tail, i) # place
        BY <2>11, <3>1, <3>2, SlotsDiffer
      <3>4. Slot(tail, i) \in B /\ Queued'[i] = buffer'[Slot(tail, i)]
        BY <2>14, <3>1
      <3>5. buffer'[Slot(tail, i)] = buffer[Slot(tail, i)]
        BY <2>1, <2>2, <3>3, <3>4
      <3>6. Queued[i] = buffer[Slot(tail, i)]
        BY <2>4 DEF w
      <3> QED  BY <3>4, <3>5, <3>6
    <2>16. Queued'[w + 1] = key
      <3>1. Slot(tail, w + 1) = place
        <4>1. tail + (w + 1) - 1 = tail + w
          BY <2>2, <2>5
        <4> QED  BY <2>11, <4>1 DEF Slot
      <3>2. w + 1 \in 1 .. w + 1
        BY <2>5
      <3>3. Queued'[w + 1] = buffer'[place]
        BY <2>14, <3>1, <3>2
      <3> QED  BY <2>1, <2>2, <2>3, <3>3
    <2>17. Queued' = Append(Queued, key)
      <3> DEFINE q == Append(Queued, key)
      <3>1. key \in Sent /\ Len(Queued) = w
        BY <2>4 DEF Sent, w
      <3>2. /\ q \in Seq(Sent) /\ Len(q) = w + 1 /\ q[w + 1] = key
            /\ \A i \in 1 .. w : q[i] = Queued[i]
        BY <2>4, <3>1, AppendProperties
      <3> HIDE DEF q
      <3>3. \A i \in 1 .. w + 1 : Queued'[i] = q[i]
        <4>1. \A i \in 1 .. w + 1 : i \in 1 .. w \/ i = w + 1
          BY <2>5
        <4> QED  BY <2>15, <2>16, <3>2, <4>1
      <3>4. Queued' = q
        BY <2>14, <3>2, <3>3, SeqEqual
      <3> QED  BY <3>4 DEF q
    <2>18. typed' = received' \o Queued'
      <3>1. received \in Seq(Sent) /\ typed = received \o Queued /\ key \in Sent
        BY DEF KeyInv, Sent
      <3>2. Append(received \o Queued, key) = received \o Append(Queued, key)
        BY <2>4, <3>1, AppendConcat
      <3> QED  BY <1>1, <2>1, <2>17, <3>1, <3>2
    <2>19. Waiting' <= BufferSize /\ received' \in Seq(Sent)
      BY <1>1, <2>2, <2>5, <2>10 DEF KeyInv
    <2> QED  BY <2>13, <2>18, <2>19 DEF KeyInv, Sent
  <1> QED  BY <1>2, <1>3

LEMMA StepKeeps ==
  ASSUME KeyInv, KeyboardStep, UNCHANGED <<buffer, head, typed>>
  PROVE  KeyInv'
  <1>1. CASE ~KeySent
    <2>1. UNCHANGED <<tail, received>>
      BY <1>1 DEF KeyboardStep
    <2> QED  BY <2>1 DEF KeyInv, RingInv, RingIndex, Rings, Waiting, Queued, Sent
  <1>2. CASE KeySent
    <2> DEFINE B == 0 .. BufferSize - 1
               w == Waiting
    <2>1. /\ tail' = (tail + 1) % IndexMod
          /\ received' = Append(received, buffer[tail % BufferSize])
      BY <1>2 DEF KeyboardStep
    <2>2. /\ head \in 0 .. IndexMod - 1 /\ tail \in 0 .. IndexMod - 1 /\ buffer \in [B -> Sent]
          /\ IndexMod \in Nat /\ BufferSize \in Nat /\ BufferSize > 0 /\ head # tail
          /\ Waiting <= BufferSize
      BY <1>2, CiaAssumption DEF KeyInv, RingInv, RingIndex, Rings, KeySent
    <2>3. /\ Waiting \in 0 .. IndexMod - 1 /\ Queued \in Seq(Sent) /\ Len(Queued) = Waiting
          /\ \A i \in 1 .. Waiting : Queued[i] = buffer[Slot(tail, i)] /\ Slot(tail, i) \in B
      BY QueuedIs DEF KeyInv
    <2>4. Waiting = IF head >= tail THEN head - tail ELSE head - tail + IndexMod
      BY <2>2, WaitingIs DEF Waiting
    <2>5. tail' = IF tail + 1 < IndexMod THEN tail + 1 ELSE 0
      BY <2>1, <2>2, NextIndex
    <2>6. head' \in 0 .. IndexMod - 1 /\ tail' \in 0 .. IndexMod - 1
      BY <2>2, <2>5
    <2>7. Waiting' = IF head' >= tail' THEN head' - tail' ELSE head' - tail' + IndexMod
      BY <2>6, WaitingIs DEF Waiting
    <2>8. w \in Nat /\ w >= 1 /\ Waiting' = w - 1
      BY <2>2, <2>4, <2>5, <2>7
    <2>9. RingInv'
      BY <2>2, <2>6 DEF RingInv, RingIndex, Rings, Sent
    <2> HIDE DEF w
    <2>10. /\ Queued' \in Seq(Sent) /\ Len(Queued') = w - 1
           /\ \A i \in 1 .. w - 1 : Queued'[i] = buffer[Slot(tail', i)]
      BY <2>8, <2>9, NewQueuedIs
    <2>11. ASSUME NEW i \in 1 .. w - 1
           PROVE  Queued'[i] = Queued[i + 1]
      <3>1. i + 1 \in 1 .. Waiting /\ tail \in Int /\ i \in Int
        BY <2>2, <2>8 DEF w
      <3>2. Slot(tail', i) = Slot(tail, i + 1)
        <4>1. (((tail + 1) % IndexMod) + (i - 1)) % BufferSize = ((tail + 1) + (i - 1)) % BufferSize
          BY <3>1, RingMod
        <4>2. tail' \in Int
          BY <2>6
        <4>3. tail' + i - 1 = tail' + (i - 1) /\ tail + (i + 1) - 1 = (tail + 1) + (i - 1)
          BY <3>1, <4>2
        <4> QED  BY <2>1, <4>1, <4>3 DEF Slot
      <3> QED  BY <2>3, <2>10, <3>1, <3>2
    <2>12. Queued[1] = buffer[tail % BufferSize]
      <3>1. 1 \in 1 .. Waiting /\ tail + 1 - 1 = tail
        BY <2>2, <2>8 DEF w
      <3> QED  BY <2>3, <3>1 DEF Slot
    <2>13. received \o Queued = Append(received, Queued[1]) \o Queued'
      <3>1. Len(Queued) = Len(Queued') + 1
        BY <2>3, <2>8, <2>10 DEF w
      <3>2. \A i \in 1 .. Len(Queued') : Queued'[i] = Queued[i + 1]
        BY <2>10, <2>11
      <3>3. received \in Seq(Sent)
        BY DEF KeyInv
      <3> QED  BY <2>3, <2>10, <3>1, <3>2, <3>3, MoveFirst
    <2>14. typed' = received' \o Queued'
      BY <2>1, <2>12, <2>13 DEF KeyInv
    <2>15. received' \in Seq(Sent)
      <3>1. tail % BufferSize \in B
        BY <2>2, Splits
      <3>2. buffer[tail % BufferSize] \in Sent
        BY <2>2, <3>1
      <3>3. received \in Seq(Sent)
        BY DEF KeyInv
      <3> QED  BY <2>1, <3>2, <3>3, AppendProperties
    <2>16. Waiting' <= BufferSize
      BY <2>2, <2>8 DEF w
    <2> QED  BY <2>9, <2>14, <2>15, <2>16 DEF KeyInv, Sent
  <1> QED  BY <1>1, <1>2

-----------------------------------------------------------------------------
(* All of a CIA *)

CiaInv == TimerInv /\ TodInv /\ KeyInv

LEMMA TimersAlone ==
  ASSUME TimerInv, UNCHANGED timer
  PROVE  TimerInv'
  BY DEF TimerInv, TimerTypes, DueInv, Values, timer

LEMMA TodAlone ==
  ASSUME TodInv, UNCHANGED <<counter, counter_latch, tod_read, tod_asked>>
  PROVE  TodInv'
  <1>1. counter' \in Int
    BY DEF TodInv
  <1> QED  BY <1>1, TodUnread

LEMMA KeysAlone ==
  ASSUME KeyInv, UNCHANGED <<buffer, head, tail, typed, received>>
  PROVE  KeyInv'
  BY DEF KeyInv, RingInv, RingIndex, Rings, Waiting, Queued, Sent

LEMMA ResetKeeps ==
  ASSUME CiaInv, reset
  PROVE  CiaInv'
  <1>1. TimerInv'
    BY ValuesBound DEF reset, TimerInv, TimerTypes, DueInv, Off, Values
  <1>2. TodInv'
    <2>1. counter' \in Int /\ tod_read' = <<>> /\ counter_latch' = NoLatch /\ UNCHANGED tod_asked
      BY DEF reset
    <2> QED  BY <2>1, TodUnread DEF CiaInv
  <1>3. KeyInv'
    <2>1. head' = 0 /\ tail' = 0 /\ typed' = <<>> /\ received' = <<>> /\ buffer' \in Rings
      BY DEF reset, CiaInv, KeyInv, RingInv
    <2> QED  BY <2>1, KeyEmpty
  <1> QED  BY <1>1, <1>2, <1>3 DEF CiaInv

LEMMA WritesKeep ==
  ASSUME CiaInv, NEW t \in Timers,
         \/ \E d \in Digits : WriteTimerLow(t, d) \/ WriteTimerHigh(t, d)
         \/ \E on, oneshot, load, bit \in BOOLEAN : WriteControl(t, on, oneshot, load, bit)
  PROVE  CiaInv'
  <1>1. TimerInv'
    BY LowKeeps, HighKeeps, ControlKeeps DEF CiaInv
  <1>2. UNCHANGED <<counter, counter_latch, tod_read, tod_asked, buffer, head, tail, typed, received>>
    BY DEF WriteTimerLow, WriteTimerHigh, WriteControl, tod, keyboard
  <1> QED  BY <1>1, <1>2, TodAlone, KeysAlone DEF CiaInv

LEMMA TodKeeps ==
  ASSUME CiaInv,
         \/ increment_tod_counter
         \/ ReadTodHigh \/ ReadTodMid \/ ReadTodLow
         \/ \E d \in Digits : WriteTod(WithLow, d) \/ WriteTod(WithMid, d) \/ WriteTod(WithHigh, d)
  PROVE  CiaInv'
  <1>1. UNCHANGED <<timer, keyboard>>
    BY DEF increment_tod_counter, ReadTodHigh, ReadTodMid, ReadTodLow, WriteTod
  <1>2. TodInv'
    <2>1. CASE increment_tod_counter
      <3>1. UNCHANGED <<counter_latch, tod_read, tod_asked>> /\ counter' = (counter + 1) % CounterMod
        BY <2>1 DEF increment_tod_counter
      <3>2. CounterMod \in Nat /\ CounterMod > 0
        BY TimesBound, CiaAssumption DEF CounterMod
      <3>3. counter + 1 \in Int
        BY DEF CiaInv, TodInv
      <3>4. counter' \in Int
        BY <3>1, <3>2, <3>3, Splits
      <3> QED  BY <3>1, <3>4, TodUnread DEF CiaInv
    <2>2. CASE ReadTodHigh \/ ReadTodMid \/ ReadTodLow
      BY <2>2, ReadsKeep DEF CiaInv
    <2>3. ASSUME NEW d \in Digits, WriteTod(WithLow, d) \/ WriteTod(WithMid, d) \/ WriteTod(WithHigh, d)
          PROVE  TodInv'
      <3>1. /\ UNCHANGED <<counter_latch, tod_read, tod_asked>>
            /\ counter' \in {counter, WithLow(counter, d), WithMid(counter, d), WithHigh(counter, d)}
        BY <2>3 DEF WriteTod
      <3>2. counter \in Int /\ d \in Int /\ Digit \in Int
        BY CiaAssumption DEF CiaInv, TodInv, Digits
      <3>3. WithLow(counter, d) \in Int /\ WithMid(counter, d) \in Int /\ WithHigh(counter, d) \in Int
        BY <3>2, DigitsWritten
      <3>4. counter' \in Int
        BY <3>1, <3>2, <3>3
      <3> QED  BY <3>1, <3>4, TodUnread DEF CiaInv
    <2> QED  BY <2>1, <2>2, <2>3
  <1> QED  BY <1>1, <1>2, TimersAlone, KeysAlone DEF CiaInv, keyboard

LEMMA CiaStep == CiaInv /\ [CiaNext(Timers, TRUE, Keys)]_cia => CiaInv'
  <1> SUFFICES ASSUME CiaInv, [CiaNext(Timers, TRUE, Keys)]_cia
               PROVE  CiaInv'
    OBVIOUS
  <1>1. CASE step
    <2>1. TimersTick /\ KeyboardStep /\ UNCHANGED <<buffer, head, typed, tod>>
      BY <1>1 DEF step
    <2> QED  BY <2>1, TickKeeps, StepKeeps, TodAlone DEF CiaInv, tod
  <1>2. CASE reset
    BY <1>2, ResetKeeps
  <1>3. CASE \E t \in Timers :
               \/ \E d \in Digits : WriteTimerLow(t, d) \/ WriteTimerHigh(t, d)
               \/ \E on, oneshot, load, bit \in BOOLEAN : WriteControl(t, on, oneshot, load, bit)
    BY <1>3, WritesKeep
  <1>4. CASE \/ increment_tod_counter
             \/ ReadTodHigh \/ ReadTodMid \/ ReadTodLow
             \/ \E d \in Digits : WriteTod(WithLow, d) \/ WriteTod(WithMid, d) \/ WriteTod(WithHigh, d)
    BY <1>4, TodKeeps
  <1>5. CASE \E t \in Timers, bit \in BOOLEAN : WriteControl(t, FALSE, FALSE, FALSE, bit)
    BY <1>5, WritesKeep
  <1>6. CASE \E key \in Keys : keyboard_event(key) \/ WriteSdr(key)
    <2> PICK key \in Keys : keyboard_event(key) \/ WriteSdr(key)
      BY <1>6
    <2>1. UNCHANGED <<timer, tod>>
      BY DEF keyboard_event, WriteSdr
    <2>2. CASE keyboard_event(key)
      BY <2>1, <2>2, EventKeeps, TimersAlone, TodAlone DEF CiaInv, tod
    <2>3. CASE WriteSdr(key)
      <3>1. UNCHANGED <<buffer, head, tail, typed, received>>
        BY <2>3 DEF WriteSdr
      <3> QED  BY <2>1, <3>1, KeysAlone, TimersAlone, TodAlone DEF CiaInv, tod
    <2> QED  BY <2>2, <2>3
  <1>7. CASE UNCHANGED cia
    BY <1>7, TimersAlone, TodAlone, KeysAlone DEF cia, tod, keyboard, CiaInv
  <1> QED  BY <1>1, <1>2, <1>3, <1>4, <1>5, <1>6, <1>7 DEF CiaNext, Timers

-----------------------------------------------------------------------------
LEMMA OnlyStepFires ==
  [CiaNext(Timers, TRUE, Keys)]_cia /\ ~(UNCHANGED cia) => step \/ fired' \cap Timers = {}
  <1>1. {"ALRM"} \cap Timers = {}
    BY DEF Timers
  <1> QED  BY <1>1 DEF CiaNext, reset, WriteTimerLow, WriteTimerHigh, WriteControl, increment_tod_counter,
              ReadTodHigh, ReadTodMid, ReadTodLow, WriteTod, keyboard_event, WriteSdr

LEMMA StepFiresDue ==
  ASSUME CiaInv, step, NEW t \in Timers
  PROVE  t \in fired' <=> due[t] = 1
  <1>1. TimersTick /\ fired' = {u \in Timers : Ticked(u).fires} \cup {c \in {"SP"} : KeySent}
    BY DEF step
  <1>2. t # "SP"
    BY DEF Timers
  <1>3. t \in fired' <=> Ticked(t).fires
    BY <1>1, <1>2
  <1> QED  BY <1>1, <1>3, TimerTurn DEF CiaInv

LEMMA Fires == CiaInv /\ [CiaNext(Timers, TRUE, Keys)]_cia => [FiresOnTime]_cia
  <1> SUFFICES ASSUME CiaInv, [CiaNext(Timers, TRUE, Keys)]_cia, ~(UNCHANGED cia), NEW t \in Timers
               PROVE  t \in fired' <=> (due[t] = 1 /\ step)
    BY DEF FiresOnTime
  <1>1. CASE step
    BY <1>1, StepFiresDue
  <1>2. CASE ~step
    BY <1>2, OnlyStepFires
  <1> QED  BY <1>1, <1>2

(* Timers, clock and ring, in every reachable state                        *)
LEMMA CiaInvariant == CiaSpec => []CiaInv
  <1>1. CiaInit => CiaInv
    BY TimerInit, TodInit, KeyInit DEF CiaInv
  <1> QED  BY <1>1, CiaStep, PTL DEF CiaSpec

(***************************************************************************)
(* Reading hi, mid and lo of the clock gives the time at which hi was      *)
(* read, whatever happens between the reads (counter_latch in cia.cpp);    *)
(* and the keyboard's ring sends every key it accepted once and in order,  *)
(* also when its 8-bit indices wrap.                                       *)
(***************************************************************************)
THEOREM CiaKeepsOrderCorrect == CiaSpec => []CiaKeepsOrder
  <1>1. CiaInv => CiaKeepsOrder
    BY TodShown DEF CiaInv, KeyInv, KeysInOrder, CiaKeepsOrder
  <1> QED  BY <1>1, CiaInvariant, PTL

(***************************************************************************)
(* A timer underflows exactly when its value and start delay have passed   *)
(* since it was started, loaded or last underflowed (step() and the writes *)
(* to CRA, CRB, TxLO and TxHI), whatever is written meanwhile.             *)
(***************************************************************************)
THEOREM TimerOnTimeCorrect == CiaSpec => TimerOnTime
  <1>1. CiaInv /\ [CiaNext(Timers, TRUE, Keys)]_cia => [FiresOnTime]_cia
    BY Fires
  <1> QED  BY <1>1, CiaInvariant, PTL DEF CiaSpec, TimerOnTime

-----------------------------------------------------------------------------
(* The copper *)
ExecVars == <<Executing, copper_skip_next, copwrite, coplc, cdang, beam, busy>>

States == {"halted", "vblank", "read_inst", "need_free_cycle", "wait", "skip", "jmp_delay1", "jmp_delay2"}

(* The instruction whose words are fetched is the one before the pointer:   *)
(* half of it in copper_inst after one word, all of it after both           *)
HalfFetched ==
  \E i \in DOMAIN Program : copper_pt = 2 * i + 1 /\ copper_inst = Program[i]

WholeFetched(ops) ==
  \E i \in DOMAIN Program : copper_pt = 2 * i + 2 /\ copper_inst = Program[i] /\ Program[i].op \in ops

AtInstruction == \E i \in DOMAIN Program : copper_pt = 2 * i

PointerInv ==
  /\ copstate \in {"jmp_delay1", "jmp_delay2"} => copper_inst_ofs = 0 /\ AtInstruction
  /\ copstate = "read_inst" =>
       (copper_inst_ofs = 0 /\ AtInstruction) \/ (copper_inst_ofs = 1 /\ HalfFetched)
  /\ copstate = "need_free_cycle" => WholeFetched({"wait", "skip"})
  /\ copstate = "wait" => WholeFetched({"wait"})
  /\ copstate = "skip" => WholeFetched({"skip"})

GuestInv ==
  /\ coplc \in [1 .. 2 -> Lists]
  /\ beam.h \in Int /\ beam.len = LineLength
  /\ beam = [v |-> beam.v, h |-> beam.h, len |-> beam.len]

CopperInv == copstate \in States /\ PointerInv /\ GuestInv

LEMMA CopperInvInit == CopperInit => CopperInv
  <1> SUFFICES ASSUME CopperInit  PROVE CopperInv
    OBVIOUS
  <1>1. (CHOOSE l \in Lists : TRUE) \in Lists
    BY CopperAssumption
  <1>2. GuestInv
    BY <1>1, CopperAssumption DEF CopperInit, GuestInv
  <1> QED  BY <1>2 DEF CopperInit, CopperInv, PointerInv, States

-----------------------------------------------------------------------------
(* The words of an instruction *)

LEMMA AtListStart ==
  ASSUME GuestInv, NEW i \in 1 .. 2
  PROVE  coplc[i] \in DOMAIN Program
  BY CopperAssumption DEF GuestInv

LEMMA FetchedIs ==
  ASSUME NEW i \in DOMAIN Program, copper_pt = 2 * i + 1, copper_inst = Program[i]
  PROVE  Fetched = Program[i]
  <1>1. copper_pt \div 2 = i
    BY CopperAssumption
  <1>2. Program[i] \in Instructions
    BY CopperAssumption
  <1> QED  BY <1>1, <1>2 DEF Fetched, Instructions

LEMMA JumpKeeps ==
  ASSUME GuestInv, NEW i \in 1 .. 2, copjmp(i)
  PROVE  /\ copstate' \in States /\ PointerInv'
         /\ Executing' = coplc[i]
  <1>1. coplc[i] \in DOMAIN Program /\ coplc[i] \in Nat
    BY AtListStart, CopperAssumption
  <1>2. copper_inst_ofs' = 0 /\ copper_pt' = 2 * coplc[i] /\ copstate' = "jmp_delay1"
    BY DEF copjmp, FetchedAfterJump
  <1>3. AtInstruction'
    BY <1>1, <1>2 DEF AtInstruction
  <1> QED  BY <1>1, <1>2, <1>3 DEF PointerInv, States, Executing

-----------------------------------------------------------------------------
(* A step of the copper, of the beam and of the guest: what it keeps and    *)
(* what it is to the one who wrote the list                                 *)

Promised == L!Execute \/ L!Jump \/ L!Beam \/ L!Guest \/ UNCHANGED ExecVars

LEMMA VblankKeeps ==
  ASSUME CopperInv, VblankSlot, Others
  PROVE  CopperInv' /\ Promised
  <1>1. coplc[1] \in DOMAIN Program /\ coplc[1] \in Nat
    BY AtListStart, CopperAssumption DEF CopperInv
  <1>2. /\ copstate = "vblank" /\ copstate' = "read_inst" /\ copper_pt' = 2 * coplc[1]
        /\ copper_inst_ofs' = 0 /\ copper_skip_next' = FALSE
        /\ UNCHANGED <<copwrite, coplc, cdang, beam, busy>>
    BY DEF VblankSlot, Others
  <1>3. AtInstruction'
    BY <1>1, <1>2 DEF AtInstruction
  <1>4. CopperInv'
    BY <1>2, <1>3 DEF CopperInv, PointerInv, GuestInv, States
  <1>5. Executing = -2 /\ Executing' = coplc[1]
    BY <1>1, <1>2 DEF Executing
  <1>6. L!Execute
    BY <1>2, <1>5 DEF L!Execute, L!Start, L!Reload
  <1> QED  BY <1>4, <1>6 DEF Promised

LEMMA FirstKeeps ==
  ASSUME CopperInv, FirstWord, Others
  PROVE  CopperInv' /\ Promised
  <1>1. /\ copstate = "read_inst" /\ copper_inst_ofs = 0 /\ copper_inst' = Program[copper_pt \div 2]
        /\ copper_inst_ofs' = 1 /\ copper_pt' = copper_pt + 1
        /\ UNCHANGED <<copstate, copper_skip_next, copwrite, coplc, cdang, beam, busy>>
    BY DEF FirstWord, Others
  <1>2. PICK i \in DOMAIN Program : copper_pt = 2 * i
    BY <1>1 DEF CopperInv, PointerInv, AtInstruction
  <1>3. i \in Nat /\ copper_pt \div 2 = i
    BY <1>2, CopperAssumption
  <1>4. HalfFetched'
    BY <1>1, <1>2, <1>3 DEF HalfFetched
  <1>5. CopperInv'
    BY <1>1, <1>4 DEF CopperInv, PointerInv, GuestInv, States
  <1>6. Executing' = Executing
    BY <1>1, <1>2, <1>3 DEF Executing
  <1> QED  BY <1>1, <1>5, <1>6 DEF Promised, ExecVars

LEMMA SecondKeeps ==
  ASSUME CopperInv, SecondWord, Others
  PROVE  CopperInv' /\ Promised
  <1>1. /\ copstate = "read_inst" /\ copper_inst_ofs = 1 /\ copper_inst' = Fetched
        /\ UNCHANGED <<coplc, cdang, beam, busy>>
    BY DEF SecondWord, Others
  <1>2. PICK i \in DOMAIN Program : copper_pt = 2 * i + 1 /\ copper_inst = Program[i]
    BY <1>1 DEF CopperInv, PointerInv, HalfFetched
  <1>3. i \in Nat /\ Fetched = Program[i] /\ Program[i] \in Instructions
    BY <1>2, FetchedIs, CopperAssumption
  <1>4. Executing = i
    BY <1>1, <1>2, <1>3 DEF Executing
  <1>5. GuestInv'
    BY <1>1 DEF CopperInv, GuestInv
  <1>6. CASE Program[i].op \in {"wait", "skip"}
    <2>1. /\ copper_inst_ofs' = 2 /\ copper_pt' = 2 * i + 2 /\ copstate' = "need_free_cycle"
          /\ UNCHANGED <<copper_skip_next, copwrite>>
      BY <1>2, <1>3, <1>6 DEF SecondWord
    <2>2. WholeFetched({"wait", "skip"})'
      BY <1>1, <1>3, <1>6, <2>1 DEF WholeFetched
    <2>3. CopperInv'
      BY <1>5, <2>1, <2>2 DEF CopperInv, PointerInv, States
    <2>4. Executing' = i
      BY <1>3, <2>1 DEF Executing
    <2> QED  BY <1>1, <1>4, <2>1, <2>3, <2>4 DEF Promised, ExecVars
  <1>7. CASE Program[i].op = "end"
    <2>1. copstate' = "halted" /\ UNCHANGED <<copper_skip_next, copwrite>>
      BY <1>3, <1>7 DEF SecondWord
    <2>2. CopperInv'
      BY <1>5, <2>1 DEF CopperInv, PointerInv, States
    <2>3. Executing' = -1
      BY <2>1 DEF Executing
    <2>4. L!End
      BY <1>4, <1>7, <2>1, <2>3 DEF L!End, L!Halted
    <2> QED  BY <1>1, <2>2, <2>4 DEF Promised, L!Execute
  <1>8. CASE Program[i].op = "move" /\ ~L!Allowed(Program[i].reg)
    <2>1. copstate' = "halted" /\ UNCHANGED <<copper_skip_next, copwrite>>
      BY <1>3, <1>8 DEF SecondWord
    <2>2. CopperInv'
      BY <1>5, <2>1 DEF CopperInv, PointerInv, States
    <2>3. Executing' = -1
      BY <2>1 DEF Executing
    <2>4. L!Move
      BY <1>4, <1>8, <2>1, <2>3 DEF L!Move, L!Halted
    <2> QED  BY <1>1, <2>2, <2>4 DEF Promised, L!Execute
  <1>9. CASE Program[i].op = "move" /\ L!Allowed(Program[i].reg)
    <2>1. /\ copper_skip_next' = FALSE /\ copwrite' = L!Effect(Program[i])
          /\ IF ~copper_skip_next /\ Program[i].reg = "COPJMP1" THEN copjmp(1)
             ELSE IF ~copper_skip_next /\ Program[i].reg = "COPJMP2" THEN copjmp(2)
             ELSE copper_inst_ofs' = 0 /\ copper_pt' = copper_pt + 1 /\ UNCHANGED copstate
      BY <1>3, <1>9 DEF SecondWord
    <2>2. /\ copstate' \in States /\ PointerInv'
          /\ Executing' = L!Target(Program[i], i + 1)
      <3>1. CASE ~copper_skip_next /\ Program[i].reg = "COPJMP1"
        <4>1. copjmp(1)  BY <2>1, <3>1
        <4>2. copstate' \in States /\ PointerInv' /\ Executing' = coplc[1]
          BY <4>1, JumpKeeps DEF CopperInv
        <4> QED  BY <4>2, <3>1 DEF L!Target
      <3>2. CASE ~copper_skip_next /\ Program[i].reg = "COPJMP2"
        <4>1. copjmp(2)  BY <2>1, <3>2
        <4>2. copstate' \in States /\ PointerInv' /\ Executing' = coplc[2]
          BY <4>1, JumpKeeps DEF CopperInv
        <4> QED  BY <4>2, <3>2 DEF L!Target
      <3>3. CASE copper_skip_next \/ Program[i].reg \notin {"COPJMP1", "COPJMP2"}
        <4>1. copper_inst_ofs' = 0 /\ copper_pt' = 2 * (i + 1) /\ copstate' = "read_inst"
          BY <1>1, <1>2, <1>3, <2>1, <3>3
        <4>2. i + 1 \in DOMAIN Program
          BY <1>9, CopperAssumption
        <4>3. AtInstruction'
          BY <4>1, <4>2 DEF AtInstruction
        <4>4. Executing' = i + 1
          BY <1>3, <4>1 DEF Executing
        <4> QED  BY <3>3, <4>1, <4>3, <4>4 DEF PointerInv, States, L!Target
      <3> QED  BY <3>1, <3>2, <3>3
    <2>3. CopperInv'
      BY <1>5, <2>2 DEF CopperInv
    <2>4. L!Move
      BY <1>4, <1>9, <2>1, <2>2 DEF L!Move
    <2> QED  BY <1>1, <2>3, <2>4 DEF Promised, L!Execute
  <1> QED  BY <1>3, <1>6, <1>7, <1>8, <1>9 DEF Instructions

LEMMA NeedFreeKeeps ==
  ASSUME CopperInv, NeedFreeCycle, Others
  PROVE  CopperInv' /\ Promised
  <1>1. /\ copstate = "need_free_cycle" /\ copstate' = copper_inst.op
        /\ UNCHANGED <<copper_pt, copper_inst, copper_inst_ofs, copper_skip_next, copwrite,
                       coplc, cdang, beam, busy>>
    BY DEF NeedFreeCycle, Others
  <1>2. PICK i \in DOMAIN Program :
          copper_pt = 2 * i + 2 /\ copper_inst = Program[i] /\ Program[i].op \in {"wait", "skip"}
    BY <1>1 DEF CopperInv, PointerInv, WholeFetched
  <1>3. WholeFetched({copstate})' /\ copstate' \in {"wait", "skip"}
    BY <1>1, <1>2 DEF WholeFetched
  <1>4. CopperInv'
    BY <1>1, <1>3 DEF CopperInv, PointerInv, GuestInv, States
  <1>5. Executing' = Executing
    BY <1>1, <1>3 DEF Executing
  <1> QED  BY <1>1, <1>4, <1>5 DEF Promised, ExecVars

LEMMA DelayKeeps ==
  ASSUME CopperInv, JumpDelay1 \/ JumpDelay2, Others
  PROVE  CopperInv' /\ Promised
  <1>1. /\ \/ copstate = "jmp_delay1" /\ copstate' = "jmp_delay2"
           \/ copstate = "jmp_delay2" /\ copstate' = "read_inst"
        /\ UNCHANGED <<copper_pt, copper_inst, copper_inst_ofs, copper_skip_next, copwrite,
                       coplc, cdang, beam, busy>>
    BY DEF JumpDelay1, JumpDelay2, Others
  <1>2. copper_inst_ofs = 0 /\ AtInstruction /\ AtInstruction'
    BY <1>1 DEF CopperInv, PointerInv, AtInstruction
  <1>3. CopperInv'
    BY <1>1, <1>2 DEF CopperInv, PointerInv, GuestInv, States
  <1>4. PICK i \in DOMAIN Program : copper_pt = 2 * i
    BY <1>2 DEF AtInstruction
  <1>5. i \in Nat
    BY CopperAssumption
  <1>6. Executing' = Executing
    BY <1>1, <1>2, <1>4, <1>5 DEF Executing
  <1> QED  BY <1>1, <1>3, <1>6 DEF Promised, ExecVars

LEMMA CompareKeeps ==
  ASSUME CopperInv, Compare, Others
  PROVE  CopperInv' /\ Promised
  <1>1. /\ copstate \in {"wait", "skip"}
        /\ UNCHANGED <<copper_pt, copper_inst, copwrite, coplc, cdang, beam, busy>>
    BY DEF Compare, Others
  <1>2. PICK i \in DOMAIN Program :
          copper_pt = 2 * i + 2 /\ copper_inst = Program[i] /\ Program[i].op = copstate
    BY <1>1 DEF CopperInv, PointerInv, WholeFetched
  <1>3. i \in Nat /\ i + 1 \in DOMAIN Program
    BY <1>1, <1>2, CopperAssumption
  <1>4. Executing = i
    BY <1>1, <1>2, <1>3 DEF Executing
  <1>5. CASE copstate = "skip" \/ L!reached(Program[i])
    <2>1. /\ copper_inst_ofs' = 0 /\ copstate' = "read_inst"
          /\ copper_skip_next' = (copstate = "skip" /\ L!reached(Program[i]))
      BY <1>2, <1>5 DEF Compare
    <2>2. copper_pt' = 2 * (i + 1)
      BY <1>1, <1>2, <1>3
    <2>3. AtInstruction'
      BY <1>3, <2>2 DEF AtInstruction
    <2>4. CopperInv'
      BY <1>1, <2>1, <2>3 DEF CopperInv, PointerInv, GuestInv, States
    <2>5. Executing' = i + 1
      BY <1>3, <2>1, <2>2 DEF Executing
    <2>6. L!reached(Program[i]) \in BOOLEAN
      BY DEF L!reached
    <2>7. L!Wait \/ L!Skip
      <3>1. CASE copstate = "skip"
        <4>1. L!Skip
          BY <1>1, <1>2, <1>4, <2>1, <2>5, <2>6, <3>1 DEF L!Skip
        <4> QED  BY <4>1
      <3>2. CASE copstate = "wait"
        <4>1. L!Wait
          BY <1>1, <1>2, <1>4, <1>5, <2>1, <2>5, <3>2 DEF L!Wait
        <4> QED  BY <4>1
      <3> QED  BY <1>1, <3>1, <3>2
    <2> QED  BY <1>1, <2>4, <2>7 DEF Promised, L!Execute
  <1>6. CASE ~(copstate = "skip" \/ L!reached(Program[i]))
    <2>1. UNCHANGED <<copper_inst_ofs, copper_skip_next, copstate>>
      BY <1>2, <1>6 DEF Compare
    <2>2. WholeFetched({copstate})'
      BY <1>1, <1>2, <2>1 DEF WholeFetched
    <2>3. CopperInv'
      BY <1>1, <2>1, <2>2 DEF CopperInv, PointerInv, GuestInv, States
    <2>4. Executing' = Executing
      BY <1>1, <2>1 DEF Executing
    <2> QED  BY <1>1, <2>1, <2>3, <2>4 DEF Promised, ExecVars
  <1> QED  BY <1>5, <1>6

LEMMA BeamKeeps ==
  ASSUME CopperInv, advance_beam
  PROVE  CopperInv' /\ Promised
  <1> DEFINE line == beam.h + 1 = beam.len
             field == line /\ beam.v + 1 = Lines
  <1>1. /\ beam' = [beam EXCEPT !.h = IF line THEN 0 ELSE @ + 1,
                                !.v = IF field THEN 0 ELSE IF line THEN @ + 1 ELSE @]
        /\ copstate' = IF field THEN "vblank" ELSE copstate
        /\ UNCHANGED <<copper_pt, copper_inst, copper_inst_ofs, copper_skip_next, copwrite,
                       coplc, cdang, busy>>
    BY DEF advance_beam
  <1>2. beam.h \in Int /\ beam.len = LineLength /\ LineLength \in Nat /\ LineLength > 1
    BY CopperAssumption DEF CopperInv, GuestInv
  <1>3. /\ beam'.h = (IF line THEN 0 ELSE beam.h + 1) /\ beam'.len = beam.len
        /\ field => beam'.v = 0
        /\ beam' = [v |-> beam'.v, h |-> beam'.h, len |-> beam'.len]
    BY <1>1 DEF CopperInv, GuestInv
  <1>4. beam' # beam /\ beam'.h \in Int
    BY <1>2, <1>3
  <1>5. GuestInv'
    BY <1>1, <1>2, <1>3, <1>4 DEF CopperInv, GuestInv
  <1>6. CASE field
    <2>1. copstate' = "vblank" /\ Executing' = -2
      BY <1>1, <1>6 DEF Executing
    <2>2. CopperInv'
      BY <1>5, <2>1 DEF CopperInv, PointerInv, States
    <2>3. L!Beam
      BY <1>1, <1>3, <1>4, <1>6, <2>1 DEF L!Beam, L!Reload
    <2> QED  BY <2>2, <2>3 DEF Promised
  <1>7. CASE ~field
    <2>1. UNCHANGED <<copstate, copper_pt, copper_inst, copper_inst_ofs>>
      BY <1>1, <1>7
    <2>2. PointerInv' /\ Executing' = Executing
      BY <2>1 DEF CopperInv, PointerInv, AtInstruction, HalfFetched, WholeFetched, Executing
    <2>3. CopperInv'
      BY <1>5, <2>1, <2>2 DEF CopperInv
    <2>4. L!Beam
      BY <1>1, <1>4, <2>2 DEF L!Beam
    <2> QED  BY <2>3, <2>4 DEF Promised
  <1> QED  BY <1>6, <1>7

LEMMA JumpKept ==
  ASSUME CopperInv, NEW i \in 1 .. 2, WriteCopjmp(i)
  PROVE  CopperInv' /\ Promised
  <1>1. copjmp(i) /\ UNCHANGED <<copper_inst, copper_skip_next, copwrite, coplc, cdang, beam, busy>>
    BY DEF WriteCopjmp, Others
  <1>2. copstate' \in States /\ PointerInv' /\ Executing' = coplc[i]
    BY <1>1, JumpKeeps DEF CopperInv
  <1>3. CopperInv'
    BY <1>1, <1>2 DEF CopperInv, GuestInv
  <1>4. L!Jump
    BY <1>1, <1>2 DEF L!Jump
  <1> QED  BY <1>3, <1>4 DEF Promised

LEMMA GuestKeeps ==
  ASSUME CopperInv,
         \/ \E i \in 1 .. 2, list \in Lists : WriteCoplc(i, list)
         \/ \E on \in BOOLEAN : WriteCopcon(on)
         \/ BlitterChanges
  PROVE  CopperInv' /\ Promised
  <1>1. UNCHANGED <<copstate, copper_pt, copper_inst, copper_inst_ofs, copper_skip_next, copwrite, beam>>
    BY DEF WriteCoplc, WriteCopcon, BlitterChanges
  <1>2. coplc' \in [1 .. 2 -> Lists]
    BY DEF WriteCoplc, WriteCopcon, BlitterChanges, CopperInv, GuestInv
  <1>3. Executing' = Executing /\ PointerInv'
    BY <1>1 DEF CopperInv, PointerInv, AtInstruction, HalfFetched, WholeFetched, Executing
  <1>4. CopperInv'
    BY <1>1, <1>2, <1>3 DEF CopperInv, GuestInv
  <1>5. L!Guest \/ UNCHANGED ExecVars
    BY <1>1, <1>3 DEF L!Guest, ExecVars
  <1> QED  BY <1>4, <1>5 DEF Promised

LEMMA CopperStep == CopperInv /\ [CopperNext]_copper_vars => CopperInv' /\ Promised
  <1> SUFFICES ASSUME CopperInv, [CopperNext]_copper_vars
               PROVE  CopperInv' /\ Promised
    OBVIOUS
  <1>1. CASE do_copper
    BY <1>1, VblankKeeps, FirstKeeps, SecondKeeps, NeedFreeKeeps, DelayKeeps, CompareKeeps
       DEF do_copper
  <1>2. CASE advance_beam
    BY <1>2, BeamKeeps
  <1>3. CASE \E i \in 1 .. 2 : WriteCopjmp(i)
    BY <1>3, JumpKept
  <1>4. CASE \/ \E i \in 1 .. 2, list \in Lists : WriteCoplc(i, list)
             \/ \E on \in BOOLEAN : WriteCopcon(on)
             \/ BlitterChanges
    BY <1>4, GuestKeeps
  <1>5. CASE UNCHANGED copper_vars
    BY <1>5 DEF copper_vars, CopperInv, PointerInv, GuestInv, AtInstruction, HalfFetched,
                WholeFetched, Executing, Promised, ExecVars
  <1> QED  BY <1>1, <1>2, <1>3, <1>4, <1>5 DEF CopperNext

-----------------------------------------------------------------------------
LEMMA ListStarts == CopperInit => L!ListInit
  <1> SUFFICES ASSUME CopperInit  PROVE L!ListInit
    OBVIOUS
  <1>1. Executing = -1
    BY DEF CopperInit, Executing
  <1> QED  BY <1>1 DEF CopperInit, L!ListInit, L!Halted

(***************************************************************************)
(* The copper implements CopperList: whatever cycle a jump or a field      *)
(* hits, and whatever the guest writes meanwhile, a list is executed one   *)
(* whole instruction after the other.                                      *)
(***************************************************************************)
THEOREM ListSpecCorrect == CopperSpec => ListSpec
  <1>1. CopperInit => CopperInv
    BY CopperInvInit
  <1>2. CopperInv /\ [CopperNext]_copper_vars => CopperInv'
    BY CopperStep
  <1>3. CopperSpec => []CopperInv
    BY <1>1, <1>2, PTL DEF CopperSpec
  <1>4. CopperInv /\ [CopperNext]_copper_vars =>
          [L!Execute \/ L!Jump \/ L!Beam \/ L!Guest]_(L!list_vars)
    BY CopperStep DEF Promised, ExecVars, L!list_vars
  <1> QED  BY <1>3, <1>4, ListStarts, PTL DEF CopperSpec, ListSpec, L!Spec
-----------------------------------------------------------------------------
(* The words on a track and where they come from *)

SectorData == [disk : Disks \cup {"guest"}, track : Nat, sec : Secs]
MfmWords == {Sync, Gap} \cup {Data(v.track, v.sec, v) : v \in SectorData}
Places == 0 .. TrackWords - 1

LEMMA WordsOfTrack == TrackWords \in Nat /\ TrackWords > 0 /\ 0 \in Places /\ Sectors \in Nat \ {0}
  BY FloppyAssumption DEF TrackWords, Places

LEMMA WordKinds ==
  ASSUME NEW w \in MfmWords, w.is = "data"
  PROVE  w.from \in SectorData /\ w.track = w.from.track /\ w.sec = w.from.sec
  BY DEF MfmWords, Data, Sync, Gap

(* A set of naturals that is not empty has a least element *)
LEMMA LeastExists ==
  ASSUME NEW S, S \subseteq Nat, S # {}
  PROVE  \E i \in S : \A j \in S : i <= j
  <1> DEFINE less == OpToRel(<, Nat)
  <1>1. IsWellFoundedOn(less, Nat)  BY NatLessThanWellFounded
  <1>2. \A x, y \in Nat : x < y => <<x, y>> \in less  BY DEF OpToRel
  <1> HIDE DEF less
  <1>3. PICK x \in S : \A y \in S : ~ (<<y, x>> \in less)
    BY <1>1, WFMin
  <1>4. ASSUME NEW j \in S PROVE x <= j
    <2>1. ~ (<<j, x>> \in less) /\ j \in Nat /\ x \in Nat  BY <1>3
    <2>2. ~ (j < x)  BY <1>2, <2>1
    <2> QED  BY <2>1, <2>2
  <1> QED  BY <1>3, <1>4

(* A place moved on in two steps, both around the track *)
LEMMA Around ==
  ASSUME NEW a \in Int, NEW b \in Int
  PROVE  ((a % TrackWords) + b) % TrackWords = (a + b) % TrackWords
  <1> DEFINE q == a \div TrackWords
             r == a % TrackWords
  <1>1. q \in Int /\ r \in Places /\ a = TrackWords * q + r
    BY WordsOfTrack, Splits DEF Places
  <1> HIDE DEF q, r
  <1>2. a + b = (r + b) + TrackWords * q /\ r \in Int
    BY <1>1, WordsOfTrack DEF Places
  <1>3. (a + b) % TrackWords = (r + b) % TrackWords
    <2>1. r + b \in Int  BY <1>2
    <2>2. ((r + b) + TrackWords * q) % TrackWords = (r + b) % TrackWords
      BY <2>1, <1>1, WordsOfTrack, ShiftedMod
    <2> QED  BY <2>2, <1>2
  <1> QED  BY <1>1, <1>3 DEF r

LEMMA ModPlace == ASSUME NEW a \in Int PROVE a % TrackWords \in Places
  BY WordsOfTrack, Splits DEF Places

LEMMA AtPlace == ASSUME NEW i \in Places PROVE i % TrackWords = i
  <1>1. i = TrackWords * 0 + i  BY WordsOfTrack DEF Places
  <1> QED  BY <1>1, WordsOfTrack, Divides DEF Places

(* Every word of a track is a sync word, the gap or a sector's data, good if *)
(* the sectors are                                                           *)
LEMMA FormattedGood ==
  ASSUME NEW track \in Nat, NEW from \in [Secs -> SectorData],
         \A s \in Secs : from[s].track = track /\ from[s].sec = s
  PROVE  Formatted(track, from) \in [Places -> MfmWords]
  <1> SUFFICES ASSUME NEW w \in Places, w # TrackWords - 1, w % 2 # 0
               PROVE  Data(track, w \div 2, from[w \div 2]) \in MfmWords
    BY DEF Formatted, MfmWords, Places
  <1>1. w \div 2 \in Secs
    BY WordsOfTrack DEF Places, TrackWords, Secs
  <1>2. from[w \div 2] \in SectorData /\ from[w \div 2].track = track /\ from[w \div 2].sec = w \div 2
    BY <1>1
  <1> QED  BY <1>2 DEF MfmWords

LEMMA MemoryGood == Memory \in [Places -> MfmWords]
  <1> DEFINE from == [s \in Secs |-> [disk |-> "guest", track |-> Image, sec |-> s]]
  <1>1. from \in [Secs -> SectorData] /\ Image \in Nat
    BY FloppyAssumption DEF SectorData
  <1>2. \A s \in Secs : from[s].track = Image /\ from[s].sec = s
    OBVIOUS
  <1> HIDE DEF from
  <1>3. Formatted(Image, from) \in [Places -> MfmWords]
    BY <1>1, <1>2, FormattedGood
  <1> QED  BY <1>3 DEF Memory, from

LEMMA RotatedGood ==
  ASSUME NEW words \in [Places -> MfmWords], \E i \in Places : words[i] = Sync
  PROVE  Rotated(words) \in [Places -> MfmWords]
  <1> DEFINE SyncAt(i) == words[i] = Sync /\ \A j \in 0 .. i - 1 : words[j] # Sync
             first == CHOOSE i \in DOMAIN words : SyncAt(i)
             S == {i \in Places : words[i] = Sync}
  <1>1. PICK m \in S : \A j \in S : m <= j
    <2>1. S \subseteq Nat /\ S # {}  BY DEF Places
    <2> HIDE DEF S
    <2> QED  BY <2>1, LeastExists
  <1>2. m \in DOMAIN words /\ SyncAt(m)
    <2>1. ASSUME NEW j \in 0 .. m - 1 PROVE words[j] # Sync
      <3>1. j \in Places /\ j < m  BY WordsOfTrack, <1>1 DEF Places
      <3>2. j \notin S
        <4> SUFFICES ASSUME j \in S PROVE FALSE  OBVIOUS
        <4>1. m <= j  BY <1>1
        <4> QED  BY <4>1, <3>1 DEF Places
      <3> QED  BY <3>1, <3>2
    <2> QED  BY <1>1, <2>1
  <1>3. first \in Places
    <2> HIDE DEF SyncAt
    <2>1. first \in DOMAIN words  BY <1>2
    <2> QED  BY <2>1
  <1>4. Rotated(words) = [i \in Places |-> words[(first + i) % TrackWords]]
    BY DEF Rotated, Places
  <1> HIDE DEF first
  <1>5. \A i \in Places : (first + i) % TrackWords \in Places
    BY <1>3, ModPlace, WordsOfTrack DEF Places
  <1> QED  BY <1>4, <1>5

-----------------------------------------------------------------------------
(* The invariant *)

DrivesRight ==
  drive \in [Drives -> [motor : BOOLEAN, side : BOOLEAN, seek_dir : BOOLEAN, cyl : Nat, data : Disks \cup {NoDisk}]]

TracksOf(d) == 0 .. 2 * Cylinders[d] - 1

SectorsRight ==
  /\ DOMAIN content = Disks
  /\ \A d \in Disks : content[d] \in [TracksOf(d) -> [Secs -> SectorData]]
  /\ SectorsKeepTheirPlace

WordsRight == mfm_track \in [Places -> MfmWords] /\ mfm_pos \in Places /\ moved \in Seq(MfmWords)

LenRight ==
  /\ dsklen \in LenValues /\ dsklen_act \in {dsklen, NoTransfer}
  /\ dskpos \in Nat /\ dskwait \in Nat
  /\ dsklen_act.on => dskpos = Len(moved) /\ dskpos <= dsklen_act.n

(* What was read are neighbours, from the word behind p on; mfm_pos is at the next *)
Follows(p) ==
  /\ mfm_pos = (p + Len(moved) + 1) % TrackWords
  /\ \A i \in 1 .. Len(moved) : moved[i] = At(p + i)

(* Nothing is read before the drive gave a track, and after its sync word  *)
(* if WORDSYNC asks for one.                                               *)
ReadRight ==
  dsklen_act.on /\ ~dsklen_act.write /\ steady =>
    /\ moved # <<>> => dskread /\ (wordsync => dsksync_passed)
    /\ dsksync_passed => dskread
    /\ \E p \in Places : Follows(p) /\ (wordsync /\ dsksync_passed => At(p) = Sync)

FloppyInv == DrivesRight /\ SectorsRight /\ WordsRight /\ LenRight /\ ReadRight /\ TransferExact

LEMMA LenKinds ==
  ASSUME NEW v \in LenValues
  PROVE  v.n \in Nat /\ (v = NoTransfer \/ v.on) /\ (v.on \/ ~v.on) /\ ~NoTransfer.on /\ NoTransfer.n = 0
  <1>1. ~NoTransfer.on /\ NoTransfer.n = 0  BY DEF NoTransfer
  <1>2. CASE v = NoTransfer  BY <1>1, <1>2
  <1>3. CASE v # NoTransfer
    <2>1. v \in [on : {TRUE}, write : BOOLEAN, n : Lengths]  BY <1>3 DEF LenValues
    <2>2. v.on = TRUE /\ v.n \in Lengths  BY <2>1, Zenon
    <2> QED  BY <2>2, <1>1, FloppyAssumption
  <1> QED  BY <1>2, <1>3

LEMMA FloppyStarts == FloppyInit => FloppyInv
  <1> SUFFICES ASSUME FloppyInit PROVE FloppyInv
    OBVIOUS
  <1> USE DEF FloppyInit
  <1>1. DrivesRight
    <2> DEFINE AtRest == [motor : {FALSE}, side : {FALSE}, seek_dir : {FALSE}, cyl : {0}, data : {NoDisk}]
    <2>1. drive \in [Drives -> AtRest]
      OBVIOUS
    <2>2. AtRest \subseteq [motor : BOOLEAN, side : BOOLEAN, seek_dir : BOOLEAN, cyl : Nat, data : Disks \cup {NoDisk}]
      <3>1. {FALSE} \subseteq BOOLEAN /\ {0} \subseteq Nat /\ {NoDisk} \subseteq Disks \cup {NoDisk}
        OBVIOUS
      <3> QED  BY <3>1, Zenon
    <2> HIDE DEF AtRest
    <2> QED  BY <2>1, <2>2 DEF DrivesRight
  <1>2. SectorsRight
    <2>1. ASSUME NEW d \in Disks
          PROVE  /\ content[d] \in [TracksOf(d) -> [Secs -> SectorData]]
                 /\ \A t \in DOMAIN content[d] : \A s \in Secs : content[d][t][s].track = t /\ content[d][t][s].sec = s
      <3>1. content[d] = [t \in TracksOf(d) |-> [s \in Secs |-> [disk |-> d, track |-> t, sec |-> s]]]
        BY DEF TracksOf
      <3>2. \A t \in TracksOf(d) : t \in Nat
        BY FloppyAssumption DEF TracksOf
      <3> QED  BY <3>1, <3>2 DEF SectorData
    <2> QED  BY <2>1 DEF SectorsRight, SectorsKeepTheirPlace
  <1>3. WordsRight
    BY WordsOfTrack DEF WordsRight, MfmWords, Places
  <1>4. LenRight /\ ReadRight /\ TransferExact
    BY DEF LenRight, ReadRight, TransferExact, LenValues, NoTransfer
  <1> QED  BY <1>1, <1>2, <1>3, <1>4 DEF FloppyInv

-----------------------------------------------------------------------------
(* The drives and the registers *)

LEMMA DrivenRight ==
  ASSUME NEW d \in [motor : BOOLEAN, side : BOOLEAN, seek_dir : BOOLEAN, cyl : Nat, data : Disks \cup {NoDisk}],
         NEW n, NEW before, NEW after \in PortValues
  PROVE  Driven(d, n, before, after) \in
           [motor : BOOLEAN, side : BOOLEAN, seek_dir : BOOLEAN, cyl : Nat, data : Disks \cup {NoDisk}]
  <1> DEFINE D == [motor : BOOLEAN, side : BOOLEAN, seek_dir : BOOLEAN, cyl : Nat, data : Disks \cup {NoDisk}]
             motored == IF n \notin before.sel THEN set_motor(d, after.motor) ELSE d
             faced == set_side_dir(motored, after.side, after.dir)
  <1>1. after.motor \in BOOLEAN /\ after.side \in BOOLEAN /\ after.dir \in BOOLEAN
    BY FloppyAssumption
  <1>2. motored \in D
    BY <1>1 DEF set_motor
  <1>3. faced \in D
    <2> HIDE DEF motored
    <2> QED  BY <1>1, <1>2 DEF set_side_dir
  <1>4. dir_step(faced) \in D
    <2> HIDE DEF faced
    <2> QED  BY <1>3 DEF dir_step
  <1> QED  BY <1>3, <1>4 DEF Driven

LEMMA DrivesKept ==
  ASSUME DrivesRight,
         \/ \E after \in PortValues : recalc_disk(after)
         \/ \E n \in Drives, d \in Disks \cup {NoDisk} : insert_disk(n, d)
  PROVE  DrivesRight'
  <1>1. CASE \E after \in PortValues : recalc_disk(after)
    <2>1. PICK after \in PortValues : recalc_disk(after)
      BY <1>1
    <2> QED  BY <2>1, DrivenRight DEF DrivesRight, recalc_disk
  <1>2. CASE \E n \in Drives, d \in Disks \cup {NoDisk} : insert_disk(n, d)
    BY <1>2 DEF DrivesRight, insert_disk
  <1> QED  BY <1>1, <1>2

(* A step that leaves the transfer alone and raises nothing *)
LEMMA TransferLeft ==
  ASSUME FloppyInv, UNCHANGED dma, irq' = {}, wordsync' = wordsync \/ ~steady', steady' => steady
  PROVE  WordsRight' /\ LenRight' /\ ReadRight' /\ TransferExact'
  <1> USE DEF dma
  <1>1. WordsRight' /\ LenRight'
    BY DEF FloppyInv, WordsRight, LenRight
  <1>2. ReadRight'
    <2> SUFFICES ASSUME dsklen_act.on, ~dsklen_act.write, steady'
                 PROVE  ReadRight'
      BY DEF ReadRight
    <2>1. wordsync' = wordsync /\ steady
      OBVIOUS
    <2> QED  BY <2>1 DEF FloppyInv, ReadRight, Follows, At
  <1>3. TransferExact'
    BY DEF FloppyInv, TransferExact
  <1> QED  BY <1>1, <1>2, <1>3

LEMMA SectorsLeft ==
  ASSUME SectorsRight, UNCHANGED content
  PROVE  SectorsRight'
  BY DEF SectorsRight, SectorsKeepTheirPlace

LEMMA FaultKeeps ==
  ASSUME FloppyInv, NEW why, Faulty(why)
  PROVE  FloppyInv'
  <1>1. WordsRight' /\ LenRight' /\ ReadRight' /\ TransferExact'
    BY TransferLeft DEF Faulty
  <1>2. DrivesRight' /\ SectorsRight'
    BY SectorsLeft DEF FloppyInv, DrivesRight, Faulty
  <1> QED  BY <1>1, <1>2 DEF FloppyInv

(* Every place is just behind another *)
LEMMA PlaceBefore ==
  ASSUME NEW q \in Places
  PROVE  \E p \in Places : q = (p + 0 + 1) % TrackWords
  <1>1. CASE q = 0
    <2>1. TrackWords - 1 \in Places /\ TrackWords - 1 + 0 + 1 = TrackWords * 1 + 0
      BY WordsOfTrack DEF Places
    <2> QED  BY <2>1, <1>1, WordsOfTrack, Divides
  <1>2. CASE q # 0
    <2>1. q - 1 \in Places /\ q - 1 + 0 + 1 = q
      BY <1>2, WordsOfTrack DEF Places
    <2> QED  BY <2>1, AtPlace
  <1> QED  BY <1>1, <1>2

LEMMA WriteDsklenKeeps ==
  ASSUME FloppyInv, NEW val \in LenValues, WriteDsklen(val)
  PROVE  FloppyInv'
  <1> USE DEF WriteDsklen, PosAfterWrite
  <1>1. DrivesRight' /\ SectorsRight'
    BY SectorsLeft DEF FloppyInv, DrivesRight
  <1>2. WordsRight'
    BY DEF FloppyInv, WordsRight
  <1>3. LenRight'
    BY LenKinds DEF LenRight
  <1>4. ReadRight'
    <2>1. mfm_pos \in Places
      BY DEF FloppyInv, WordsRight
    <2>2. PICK p \in Places : mfm_pos = (p + 0 + 1) % TrackWords
      BY <2>1, PlaceBefore
    <2>3. Follows(p)'
      BY <2>2 DEF Follows
    <2> QED  BY <2>3 DEF ReadRight
  <1>5. TransferExact'
    BY LenKinds DEF TransferExact, LenRight, FloppyInv
  <1> QED  BY <1>1, <1>2, <1>3, <1>4, <1>5 DEF FloppyInv

-----------------------------------------------------------------------------
(* Reading *)

LEMMA ActiveIsOne ==
  ASSUME ActiveFault = NoFault
  PROVE  Active \in Drives
  <1>1. \E n \in Drives : port.sel = {n}
    BY DEF ActiveFault, NoFault
  <1> QED  BY <1>1 DEF Active

LEMMA ReadTrackKeeps ==
  ASSUME FloppyInv, ReadTrack, dsklen_act.on, ~dskread
  PROVE  FloppyInv'
  <1> DEFINE d == drive[Active]
  <1>1. CASE ActiveFault # NoFault
    <2>1. Faulty(ActiveFault)  BY <1>1 DEF ReadTrack
    <2> QED  BY <2>1, FaultKeeps
  <1>2. CASE ~d.motor
    <2>1. Faulty(ActiveFault) \/ Faulty("Reading while motor is not on")  BY <1>2 DEF ReadTrack
    <2> QED  BY <2>1, FaultKeeps
  <1>3. CASE d.data # NoDisk /\ tracknum(d) \notin DOMAIN content[d.data]
    <2>1. \E why : Faulty(why)  BY <1>3 DEF ReadTrack
    <2> QED  BY <2>1, FaultKeeps
  <1>4. CASE /\ ActiveFault = NoFault /\ d.motor
             /\ ~(d.data # NoDisk /\ tracknum(d) \notin DOMAIN content[d.data])
    <2>1. /\ mfm_track' = IF d.data = NoDisk THEN mfm_track
                          ELSE Formatted(tracknum(d), content[d.data][tracknum(d)])
          /\ mfm_pos' = IF dsklen_act.n >= TrackWords - 1 THEN 0 ELSE mfm_pos
          /\ dskread' = TRUE /\ dskwait' = 0
          /\ irq' = {} /\ fault' = NoFault
          /\ UNCHANGED <<port, drive, content, dsklen, dsklen_act, dskpos, dsksync_passed, wordsync, moved, steady>>
      BY <1>4 DEF ReadTrack
    <2>2. DrivesRight' /\ SectorsRight'
      BY <2>1, SectorsLeft DEF FloppyInv, DrivesRight
    <2>3. mfm_track' \in [Places -> MfmWords]
      <3>1. CASE d.data = NoDisk
        BY <3>1, <2>1 DEF FloppyInv, WordsRight
      <3>2. CASE d.data # NoDisk
        <4>1. d.data \in Disks
          BY <3>2, <1>4, ActiveIsOne DEF FloppyInv, DrivesRight
        <4>2. PICK t : t = tracknum(d)  OBVIOUS
        <4>3. PICK from : from = content[d.data][t]  OBVIOUS
        <4>4. t \in TracksOf(d.data) /\ t \in DOMAIN content[d.data]
          BY <4>1, <4>2, <3>2, <1>4 DEF FloppyInv, SectorsRight
        <4>5. t \in Nat /\ from \in [Secs -> SectorData]
          BY <4>1, <4>3, <4>4, FloppyAssumption DEF FloppyInv, SectorsRight, TracksOf
        <4>6. \A s \in Secs : from[s].track = t /\ from[s].sec = s
          BY <4>1, <4>3, <4>4 DEF FloppyInv, SectorsRight, SectorsKeepTheirPlace
        <4>7. mfm_track' = Formatted(t, from)
          BY <2>1, <3>2, <4>2, <4>3
        <4> QED  BY <4>5, <4>6, <4>7, FormattedGood
      <3> QED  BY <3>1, <3>2
    <2>4. WordsRight' /\ mfm_pos' \in Places
      BY <2>1, <2>3, WordsOfTrack DEF FloppyInv, WordsRight
    <2>5. LenRight'
      BY <2>1 DEF FloppyInv, LenRight
    <2>6. ReadRight'
      <3> SUFFICES ASSUME dsklen_act.on, ~dsklen_act.write, steady
                   PROVE  ReadRight'
        BY <2>1 DEF ReadRight
      <3>1. moved = <<>> /\ ~dsksync_passed
        BY DEF FloppyInv, ReadRight
      <3>2. PICK p \in Places : mfm_pos' = (p + 0 + 1) % TrackWords
        BY <2>4, PlaceBefore
      <3>3. Follows(p)'
        BY <2>1, <3>1, <3>2 DEF Follows
      <3> QED  BY <2>1, <3>1, <3>3 DEF ReadRight
    <2>7. TransferExact'
      BY <2>1 DEF FloppyInv, TransferExact
    <2> QED  BY <2>2, <2>4, <2>5, <2>6, <2>7 DEF FloppyInv
  <1> QED  BY <1>1, <1>2, <1>3, <1>4

(* The search for a sync word goes once around the track *)
LEMMA NextSyncIs ==
  ASSUME mfm_pos \in Places, NEW i \in Places, mfm_track[i] = Sync
  PROVE  NextSync \in Nat /\ At(NextSync) = Sync
  <1> DEFINE S == {j \in mfm_pos .. mfm_pos + TrackWords - 1 : At(j) = Sync}
             Found(j) == At(j) = Sync /\ \A k \in mfm_pos .. j - 1 : At(k) # Sync
  <1>1. S # {}
    <2>1. CASE mfm_pos <= i
      <3>1. i \in mfm_pos .. mfm_pos + TrackWords - 1 /\ At(i) = Sync
        BY <2>1, AtPlace, WordsOfTrack DEF Places, At
      <3> QED  BY <3>1
    <2>2. CASE i < mfm_pos
      <3>1. i + TrackWords = TrackWords * 1 + i /\ i + TrackWords \in Int
        BY WordsOfTrack DEF Places
      <3>2. (i + TrackWords) % TrackWords = i
        BY <3>1, WordsOfTrack, Divides DEF Places
      <3>3. i + TrackWords \in mfm_pos .. mfm_pos + TrackWords - 1 /\ At(i + TrackWords) = Sync
        BY <2>2, <3>2, WordsOfTrack DEF Places, At
      <3> QED  BY <3>3
    <2> QED  BY <2>1, <2>2 DEF Places
  <1>2. S \subseteq Nat
    BY WordsOfTrack DEF Places
  <1>3. PICK m \in S : \A j \in S : m <= j
    <2> HIDE DEF S
    <2> QED  BY <1>1, <1>2, LeastExists
  <1>4. m \in mfm_pos .. mfm_pos + TrackWords - 1 /\ Found(m)
    <2>1. ASSUME NEW k \in mfm_pos .. m - 1 PROVE At(k) # Sync
      <3> SUFFICES ASSUME At(k) = Sync PROVE FALSE
        OBVIOUS
      <3>1. k \in S /\ k < m
        BY <1>3, WordsOfTrack DEF Places
      <3>2. m <= k
        BY <1>3, <3>1
      <3> QED  BY <3>1, <3>2, <1>2
    <2> QED  BY <1>3, <2>1
  <1>5. NextSync \in mfm_pos .. mfm_pos + TrackWords - 1 /\ Found(NextSync)
    <2>1. NextSync = CHOOSE j \in mfm_pos .. mfm_pos + TrackWords - 1 : Found(j)
      BY DEF NextSync
    <2> HIDE DEF Found
    <2> QED  BY <2>1, <1>4
  <1> QED  BY <1>5, WordsOfTrack DEF Places

LEMMA FindSyncKeeps ==
  ASSUME FloppyInv, FindSync, dsklen_act.on, dskread, ~dsksync_passed, wordsync
  PROVE  FloppyInv'
  <1>1. CASE \A i \in DOMAIN mfm_track : mfm_track[i] # Sync
    <2>1. Faulty("Sync word not found?")  BY <1>1 DEF FindSync
    <2> QED  BY <2>1, FaultKeeps
  <1>2. CASE \E i \in DOMAIN mfm_track : mfm_track[i] = Sync
    <2>1. /\ mfm_pos' = (NextSync + 1) % TrackWords
          /\ dsksync_passed' = TRUE /\ dskwait' = SyncWait
          /\ irq' = {"DSKSYNC"} /\ fault' = NoFault
          /\ UNCHANGED <<port, drive, content, dsklen, dsklen_act, dskpos, dskread, wordsync, mfm_track, moved, steady>>
      BY <1>2 DEF FindSync
    <2>2. DrivesRight' /\ SectorsRight'
      BY <2>1, SectorsLeft DEF FloppyInv, DrivesRight
    <2>3. NextSync \in Nat /\ At(NextSync) = Sync
      BY <1>2, NextSyncIs DEF FloppyInv, WordsRight
    <2>4. WordsRight'
      <3>1. NextSync + 1 \in Int  BY <2>3
      <3> QED  BY <2>1, <3>1, ModPlace DEF FloppyInv, WordsRight
    <2>5. LenRight'
      BY <2>1, FloppyAssumption DEF FloppyInv, LenRight
    <2>6. ReadRight'
      <3> SUFFICES ASSUME dsklen_act.on, ~dsklen_act.write, steady
                   PROVE  ReadRight'
        BY <2>1 DEF ReadRight
      <3>1. moved = <<>>
        BY DEF FloppyInv, ReadRight
      <3>2. PICK p : p = NextSync % TrackWords  OBVIOUS
      <3>3. p \in Places /\ p % TrackWords = p
        BY <2>3, <3>2, ModPlace, AtPlace
      <3>4. At(p)' = Sync
        BY <2>1, <2>3, <3>2, <3>3 DEF At
      <3>5. mfm_pos' = (p + 0 + 1) % TrackWords
        <4>1. (p + 1) % TrackWords = (NextSync + 1) % TrackWords
          BY <2>3, <3>2, Around
        <4>2. p + 0 + 1 = p + 1  BY <3>3, WordsOfTrack DEF Places
        <4> QED  BY <4>1, <4>2, <2>1
      <3>6. Follows(p)'
        BY <2>1, <3>1, <3>5 DEF Follows
      <3> QED  BY <2>1, <3>1, <3>3, <3>4, <3>6 DEF ReadRight
    <2>7. TransferExact'
      BY <2>1 DEF FloppyInv, TransferExact
    <2> QED  BY <2>2, <2>4, <2>5, <2>6, <2>7 DEF FloppyInv
  <1> QED  BY <1>1, <1>2

LEMMA ShareFits ==
  ASSUME NEW n \in Nat, dskpos \in Nat, dskpos <= n
  PROVE  Share(n) \in Nat /\ dskpos + Share(n) <= n /\ (dskpos + Share(n) >= n => dskpos + Share(n) = n)
  BY FloppyAssumption DEF Share

LEMMA ReadWordsKeeps ==
  ASSUME FloppyInv, ReadWords, dsklen_act.on, ~dsklen_act.write, dskread, dsksync_passed \/ ~wordsync
  PROVE  FloppyInv'
  <1>1. PICK n : n = dsklen_act.n  OBVIOUS
  <1>2. dsklen_act = dsklen /\ dsklen \in LenValues /\ n \in Nat /\ ~NoTransfer.on
    BY <1>1, LenKinds DEF FloppyInv, LenRight
  <1>3. dskpos \in Nat /\ dskpos = Len(moved) /\ dskpos <= n /\ moved \in Seq(MfmWords)
    BY <1>1 DEF FloppyInv, LenRight, WordsRight
  <1>4. PICK k : k = Share(n)  OBVIOUS
  <1>5. k \in Nat /\ dskpos + k <= n
    BY <1>2, <1>3, <1>4, ShareFits
  <1>6. /\ moved' = moved \o [i \in 1 .. k |-> At(mfm_pos + i - 1)]
        /\ mfm_pos' = (mfm_pos + k) % TrackWords
        /\ dskpos' = dskpos + k
        /\ irq' = IF dskpos + k = n THEN {"DSKBLK"} ELSE {}
        /\ dsklen_act' = IF dskpos + k = n THEN NoTransfer ELSE dsklen_act
        /\ UNCHANGED <<port, drive, content, dsklen, dskread, dsksync_passed, dskwait, wordsync, mfm_track, steady>>
    BY <1>1, <1>4 DEF ReadWords, Ends, Done
  <1>7. DrivesRight' /\ SectorsRight'
    BY <1>6, SectorsLeft DEF FloppyInv, DrivesRight
  <1>8. PICK more : more = [i \in 1 .. k |-> At(mfm_pos + i - 1)]  OBVIOUS
  <1>9. more \in Seq(MfmWords) /\ Len(more) = k
    <2>1. \A i \in 1 .. k : At(mfm_pos + i - 1) \in MfmWords
      <3>1. \A i \in 1 .. k : mfm_pos + i - 1 \in Int
        BY WordsOfTrack DEF FloppyInv, WordsRight, Places
      <3> QED  BY <3>1, ModPlace DEF FloppyInv, WordsRight, At
    <2> QED  BY <2>1, <1>5, <1>8
  <1>10. moved' \in Seq(MfmWords) /\ Len(moved') = dskpos + k
    <2>1. moved' = moved \o more  BY <1>6, <1>8
    <2> QED  BY <2>1, <1>3, <1>9, ConcatProperties
  <1>11. WordsRight'
    <2>1. mfm_pos + k \in Int  BY <1>5, WordsOfTrack DEF FloppyInv, WordsRight, Places
    <2> QED  BY <1>6, <1>10, <2>1, ModPlace DEF FloppyInv, WordsRight
  <1>12. LenRight'
    BY <1>1, <1>2, <1>3, <1>5, <1>6, <1>10 DEF FloppyInv, LenRight
  <1>13. ASSUME steady
         PROVE  \E p \in Places : Follows(p)' /\ (wordsync => At(p)' = Sync)
    <2>1. PICK p \in Places : Follows(p) /\ (wordsync => At(p) = Sync)
      BY <1>13 DEF FloppyInv, ReadRight
    <2>2. p \in Nat /\ Len(moved) \in Nat /\ mfm_pos = (p + Len(moved) + 1) % TrackWords
      BY <2>1, <1>3, WordsOfTrack DEF Places, Follows
    <2>3. \A i \in Int : (mfm_pos + i) % TrackWords = (p + Len(moved) + 1 + i) % TrackWords
      BY <2>2, Around
    <2>4. mfm_pos' = (p + Len(moved') + 1) % TrackWords
      <3>1. p + Len(moved) + 1 + k = p + Len(moved') + 1
        BY <1>3, <1>5, <1>10, <2>2
      <3> QED  BY <1>5, <1>6, <2>3, <3>1
    <2>5. ASSUME NEW i \in 1 .. Len(moved') PROVE moved'[i] = At(p + i)
      <3>1. CASE i <= Len(moved)
        BY <3>1, <1>3, <1>6, <1>8, <1>9, <2>1 DEF Follows
      <3>2. CASE i > Len(moved)
        <4>1. PICK j : j = i - Len(moved)  OBVIOUS
        <4>2. j \in 1 .. k /\ moved'[i] = more[j]
          BY <3>2, <4>1, <1>3, <1>5, <1>6, <1>8, <1>9, <1>10
        <4>3. more[j] = At(mfm_pos + j - 1)
          BY <4>2, <1>8
        <4>4. (mfm_pos + j - 1) % TrackWords = (p + i) % TrackWords
          <5>1. j - 1 \in Int /\ mfm_pos + (j - 1) = mfm_pos + j - 1 /\ p + Len(moved) + 1 + (j - 1) = p + i
            BY <4>1, <4>2, <2>2, <1>10, <1>3, <1>5, WordsOfTrack DEF FloppyInv, WordsRight, Places
          <5>2. (mfm_pos + (j - 1)) % TrackWords = (p + Len(moved) + 1 + (j - 1)) % TrackWords
            BY <5>1, <2>3
          <5> QED  BY <5>1, <5>2
        <4> QED  BY <4>2, <4>3, <4>4 DEF At
      <3> QED  BY <3>1, <3>2, <1>3, <1>10
    <2>6. \A i : At(i)' = At(i)
      BY <1>6 DEF At
    <2> QED  BY <2>1, <2>4, <2>5, <2>6, <1>6 DEF Follows
  <1>14. ReadRight'
    <2> SUFFICES ASSUME steady PROVE ReadRight'
      BY <1>6 DEF ReadRight
    <2> QED  BY <1>6, <1>13 DEF ReadRight
  <1>15. TransferExact'
    <2>1. dsklen_act'.on => Len(moved') <= dsklen'.n
      BY <1>1, <1>2, <1>3, <1>5, <1>6, <1>10
    <2>2. ASSUME "DSKBLK" \in irq'
          PROVE  Len(moved') = dsklen'.n /\ ~dsklen_act'.on
      BY <2>2, <1>1, <1>2, <1>6, <1>10
    <2>3. ASSUME "DSKBLK" \in irq', steady'
          PROVE  \E p \in Places : /\ \A i \in 1 .. Len(moved') : moved'[i] = At(p + i)'
                                   /\ wordsync' => At(p)' = Sync
      BY <2>3, <1>6, <1>13 DEF Follows
    <2> QED  BY <2>1, <2>2, <2>3 DEF TransferExact, Places
  <1> QED  BY <1>7, <1>11, <1>12, <1>14, <1>15 DEF FloppyInv

-----------------------------------------------------------------------------
(* Writing *)

(* Whatever was written on a track, a sector gets data of its own or keeps its *)
LEMMA WrittenInPlace ==
  ASSUME SectorsRight, NEW d, NEW words \in [Places -> MfmWords], \E i \in Places : words[i] = Sync,
         write_mfm_track(d, words)
  PROVE  SectorsRight'
  <1> DEFINE track == tracknum(d)
             rotated == Rotated(words)
             new == {w \in {rotated[2 * s + 1] : s \in Stored(rotated, track)} : track \in DOMAIN content[d.data]}
             Sector == [t \in DOMAIN content[d.data] |-> [s \in Secs |->
                          IF t # track \/ \A w \in new : w.sec # s THEN content[d.data][t][s]
                          ELSE (CHOOSE w \in new : w.sec = s).from]]
  <1>1. content' = [content EXCEPT ![d.data] = Sector]
    BY DEF write_mfm_track
  <1>2. new = {w \in {rotated[2 * s + 1] : s \in Stored(rotated, track)} : track \in DOMAIN content[d.data]}
    OBVIOUS
  <1>3. rotated \in [Places -> MfmWords]
    BY RotatedGood
  <1> HIDE DEF track, rotated, new
  <1>4. Sector = [t \in DOMAIN content[d.data] |-> [s \in Secs |->
                    IF t # track \/ \A w \in new : w.sec # s THEN content[d.data][t][s]
                    ELSE (CHOOSE w \in new : w.sec = s).from]]
    OBVIOUS
  <1> HIDE DEF Sector
  <1>5. ASSUME NEW w \in new
        PROVE  w.from \in SectorData /\ w.from.track = track /\ w.from.sec = w.sec
    <2>1. PICK s \in Stored(rotated, track) : w = rotated[2 * s + 1]
      BY <1>2
    <2>2. s \in Secs /\ ~Bad(rotated, track, s)
      BY <2>1 DEF Stored, Secs
    <2>3. w.is = "data" /\ w.track = track
      BY <2>1, <2>2 DEF Bad, Belongs
    <2>4. w \in MfmWords
      BY <2>1, <2>2, <1>3, WordsOfTrack DEF Secs, Places, TrackWords
    <2> QED  BY <2>3, <2>4, WordKinds
  <1>6. ASSUME d.data \in Disks, NEW t \in TracksOf(d.data), NEW s \in Secs
        PROVE  Sector[t][s] \in SectorData /\ Sector[t][s].track = t /\ Sector[t][s].sec = s
    <2>1. t \in DOMAIN content[d.data]
      BY <1>6 DEF SectorsRight
    <2>2. Sector[t][s] = IF t # track \/ \A w \in new : w.sec # s THEN content[d.data][t][s]
                         ELSE (CHOOSE w \in new : w.sec = s).from
      BY <1>4, <2>1
    <2>3. CASE t # track \/ \A w \in new : w.sec # s
      BY <2>3, <2>2, <2>1, <1>6 DEF SectorsRight, SectorsKeepTheirPlace
    <2>4. CASE t = track /\ \E w \in new : w.sec = s
      <3>1. PICK w : w = CHOOSE x \in new : x.sec = s  OBVIOUS
      <3>2. w \in new /\ w.sec = s  BY <2>4, <3>1
      <3> QED  BY <2>4, <2>2, <3>1, <3>2, <1>5
    <2> QED  BY <2>3, <2>4
  <1>7. ASSUME NEW e \in Disks
        PROVE  /\ content'[e] \in [TracksOf(e) -> [Secs -> SectorData]]
               /\ \A t \in TracksOf(e) : \A s \in Secs : content'[e][t][s].track = t /\ content'[e][t][s].sec = s
    <2>1. CASE e # d.data
      <3>1. content'[e] = content[e]  BY <2>1, <1>1 DEF SectorsRight
      <3> QED  BY <3>1 DEF SectorsRight, SectorsKeepTheirPlace
    <2>2. CASE e = d.data
      <3>1. content'[e] = Sector  BY <2>2, <1>1 DEF SectorsRight
      <3>2. Sector = [t \in TracksOf(e) |-> [s \in Secs |-> Sector[t][s]]]
        BY <1>4, <2>2 DEF SectorsRight
      <3> QED  BY <3>1, <3>2, <1>6, <2>2
    <2> QED  BY <2>1, <2>2
  <1>8. DOMAIN content' = Disks
    BY <1>1 DEF SectorsRight
  <1> QED  BY <1>7, <1>8 DEF SectorsRight, SectorsKeepTheirPlace

LEMMA WriteWordsKeeps ==
  ASSUME FloppyInv, WriteWords, dsklen_act.on, dsklen_act.write
  PROVE  FloppyInv'
  <1> DEFINE n == dsklen_act.n
             k == Share(n)
             words == [i \in DOMAIN mfm_track |->
                         IF \E j \in 0 .. k - 1 : (dskpos + j) % TrackWords = i THEN Memory[i] ELSE mfm_track[i]]
             more == [i \in 1 .. k |-> words[(dskpos + i - 1) % TrackWords]]
             d == drive[Active]
             Refused(why) == fault' = why /\ irq' = {} /\ dskpos' = n /\ UNCHANGED <<dsklen_act, content>>
  <1>1. dsklen_act.n = n
    OBVIOUS
  <1>2. /\ mfm_track' = words
        /\ moved' = moved \o more
        /\ UNCHANGED <<port, drive, dsklen, dskread, dsksync_passed, dskwait, wordsync, mfm_pos, steady>>
    BY DEF WriteWords
  <1>3. IF dskpos + k < n THEN dskpos' = dskpos + k /\ irq' = {} /\ fault' = NoFault /\ UNCHANGED <<dsklen_act, content>>
         ELSE IF ActiveFault # NoFault THEN Refused(ActiveFault)
         ELSE IF ~d.motor THEN Refused("Reading while motor is not on")
         ELSE IF d.data = NoDisk THEN Refused("Writing with no disk in drive")
         ELSE IF d.data \in Extended THEN Refused("Writing to extended ADF file not supported yet")
         ELSE IF \A i \in DOMAIN words : words[i] # Sync THEN Refused("no sync word found in written MFM data")
         ELSE /\ write_mfm_track(d, words)
              /\ IF fault' = NoFault THEN Ends(n, n) ELSE dskpos' = n /\ irq' = {} /\ UNCHANGED dsklen_act
    BY DEF WriteWords
  <1>4. words = [i \in DOMAIN mfm_track |->
                    IF \E j \in 0 .. k - 1 : (dskpos + j) % TrackWords = i THEN Memory[i] ELSE mfm_track[i]]
    OBVIOUS
  <1> HIDE DEF n, k, words, d
  <1>5. dsklen_act = dsklen /\ dsklen \in LenValues /\ n \in Nat /\ ~NoTransfer.on
    BY <1>1, LenKinds DEF FloppyInv, LenRight
  <1>6. dskpos \in Nat /\ dskpos = Len(moved) /\ dskpos <= n /\ moved \in Seq(MfmWords)
    BY <1>1 DEF FloppyInv, LenRight, WordsRight
  <1>7. k \in Nat /\ dskpos + k <= n /\ (~(dskpos + k < n) => dskpos + k = n)
    BY <1>5, <1>6, ShareFits DEF k
  <1>8. words \in [Places -> MfmWords]
    BY <1>4, MemoryGood DEF FloppyInv, WordsRight
  <1>9. more \in Seq(MfmWords) /\ Len(more) = k
    <2>1. \A i \in 1 .. k : words[(dskpos + i - 1) % TrackWords] \in MfmWords
      <3>1. \A i \in 1 .. k : dskpos + i - 1 \in Int  BY <1>6
      <3> QED  BY <3>1, <1>8, ModPlace
    <2> QED  BY <2>1, <1>7
  <1>10. moved' \in Seq(MfmWords) /\ Len(moved') = dskpos + k
    <2> HIDE DEF more
    <2> QED  BY <1>6, <1>2, <1>9, ConcatProperties
  <1>11. WordsRight' /\ DrivesRight'
    BY <1>8, <1>2, <1>10 DEF FloppyInv, WordsRight, DrivesRight
  (* The words asked for have been moved and the drive took them, or not *)
  <1>12. \/ dskpos + k < n /\ dskpos' = dskpos + k /\ irq' = {} /\ UNCHANGED <<dsklen_act, content>>
         \/ /\ dskpos + k = n /\ dskpos' = n
            /\ \/ irq' = {} /\ UNCHANGED <<dsklen_act, content>>
               \/ /\ \E i \in DOMAIN words : words[i] = Sync
                  /\ write_mfm_track(d, words)
                  /\ (irq' = {"DSKBLK"} /\ dsklen_act' = NoTransfer) \/ (irq' = {} /\ dsklen_act' = dsklen_act)
    <2>1. CASE dskpos + k < n
      BY <1>3, <2>1
    <2>2. CASE ~(dskpos + k < n) /\ \E why : Refused(why)
      BY <2>2, <1>7
    <2>3. CASE ~(dskpos + k < n) /\ ~\E why : Refused(why)
      <3>1. /\ ~\A i \in DOMAIN words : words[i] # Sync
            /\ write_mfm_track(d, words)
            /\ IF fault' = NoFault THEN Ends(n, n) ELSE dskpos' = n /\ irq' = {} /\ UNCHANGED dsklen_act
        <4> HIDE DEF Refused
        <4> QED  BY <1>3, <2>3
      <3>2. dskpos' = n /\ ((irq' = {"DSKBLK"} /\ dsklen_act' = NoTransfer) \/ (irq' = {} /\ dsklen_act' = dsklen_act))
        <4>1. CASE fault' = NoFault  BY <4>1, <3>1 DEF Ends, Done
        <4>2. CASE fault' # NoFault  BY <4>2, <3>1
        <4> QED  BY <4>1, <4>2
      <3> QED  BY <2>3, <3>1, <3>2, <1>7
    <2> QED  BY <2>1, <2>2, <2>3
  <1>13. SectorsRight'
    <2>1. CASE UNCHANGED content
      BY <2>1, SectorsLeft DEF FloppyInv
    <2>2. CASE (\E i \in DOMAIN words : words[i] = Sync) /\ write_mfm_track(d, words)
      BY <2>2, <1>8, WrittenInPlace DEF FloppyInv
    <2> QED  BY <1>12, <2>1, <2>2
  <1>14. LenRight'
    BY <1>1, <1>5, <1>6, <1>7, <1>2, <1>10, <1>12 DEF FloppyInv, LenRight
  <1>15. ReadRight'
    BY <1>5, <1>12 DEF ReadRight
  <1>16. TransferExact'
    <2>1. dsklen_act'.on => Len(moved') <= dsklen'.n
      BY <1>1, <1>5, <1>6, <1>7, <1>2, <1>10, <1>12
    <2>2. "DSKBLK" \in irq' => Len(moved') = dsklen'.n /\ ~dsklen_act'.on /\ dsklen'.write
      BY <1>1, <1>5, <1>6, <1>7, <1>2, <1>10, <1>12
    <2> QED  BY <2>1, <2>2 DEF TransferExact
  <1> QED  BY <1>11, <1>13, <1>14, <1>15, <1>16 DEF FloppyInv

-----------------------------------------------------------------------------
(* Every step *)

LEMMA WaitKeeps ==
  ASSUME FloppyInv, dskwait > 0, dskwait' = dskwait - 1, irq' = {},
         UNCHANGED <<port, drive, content, dsklen, dsklen_act, dskpos, dskread, dsksync_passed,
                     wordsync, mfm_track, mfm_pos, moved, steady>>
  PROVE  FloppyInv'
  <1>1. DrivesRight' /\ SectorsRight'
    BY SectorsLeft DEF FloppyInv, DrivesRight
  <1>2. WordsRight' /\ LenRight'
    BY DEF FloppyInv, WordsRight, LenRight
  <1>3. ReadRight' /\ TransferExact'
    BY DEF FloppyInv, ReadRight, TransferExact, Follows, At
  <1> QED  BY <1>1, <1>2, <1>3 DEF FloppyInv

LEMMA DmaKeeps ==
  ASSUME FloppyInv, do_disk_dma
  PROVE  FloppyInv'
  <1>1. dsklen_act.on
    BY DEF do_disk_dma
  <1>2. CASE dskwait > 0
    BY <1>2, WaitKeeps DEF do_disk_dma
  <1>3. CASE ~(dskwait > 0) /\ dsklen_act.n = 0
    <2>1. Faulty("nwords > 0")  BY <1>3 DEF do_disk_dma
    <2> QED  BY <2>1, FaultKeeps
  <1>4. CASE ~(dskwait > 0) /\ dsklen_act.n # 0 /\ dsklen_act.write
    BY <1>1, <1>4, WriteWordsKeeps DEF do_disk_dma
  <1>5. CASE ~(dskwait > 0) /\ dsklen_act.n # 0 /\ ~dsklen_act.write /\ ~dskread
    BY <1>1, <1>5, ReadTrackKeeps DEF do_disk_dma
  <1>6. CASE ~(dskwait > 0) /\ dsklen_act.n # 0 /\ ~dsklen_act.write /\ dskread /\ ~dsksync_passed /\ wordsync
    BY <1>1, <1>6, FindSyncKeeps DEF do_disk_dma
  <1>7. CASE ~(dskwait > 0) /\ dsklen_act.n # 0 /\ ~dsklen_act.write /\ dskread /\ (dsksync_passed \/ ~wordsync)
    BY <1>1, <1>7, ReadWordsKeeps DEF do_disk_dma
  <1> QED  BY <1>2, <1>3, <1>4, <1>5, <1>6, <1>7

LEMMA FloppyStep == FloppyInv /\ [FloppyNext]_floppy_vars => FloppyInv'
  <1> SUFFICES ASSUME FloppyInv, [FloppyNext]_floppy_vars PROVE FloppyInv'
    OBVIOUS
  <1>1. CASE \E after \in PortValues : recalc_disk(after)
    <2>1. UNCHANGED <<content, dma, wordsync, steady>> /\ irq' = {}
      BY <1>1 DEF recalc_disk
    <2> QED  BY <1>1, <2>1, DrivesKept, SectorsLeft, TransferLeft DEF FloppyInv
  <1>2. CASE \E n \in Drives, d \in Disks \cup {NoDisk} : insert_disk(n, d)
    <2>1. UNCHANGED <<content, dma, wordsync, steady>> /\ irq' = {}
      BY <1>2 DEF insert_disk
    <2> QED  BY <1>2, <2>1, DrivesKept, SectorsLeft, TransferLeft DEF FloppyInv
  <1>3. CASE \E val \in LenValues : WriteDsklen(val)
    BY <1>3, WriteDsklenKeeps
  <1>4. CASE \E on \in BOOLEAN : WriteAdkcon(on)
    <2>1. UNCHANGED <<drive, content, dma>> /\ irq' = {} /\ (wordsync' = wordsync \/ ~steady') /\ (steady' => steady)
      BY <1>4 DEF WriteAdkcon
    <2> QED  BY <2>1, SectorsLeft, TransferLeft DEF FloppyInv, DrivesRight
  <1>5. CASE do_disk_dma
    BY <1>5, DmaKeeps
  <1>6. CASE UNCHANGED floppy_vars
    <2>1. DrivesRight' /\ SectorsRight'
      BY <1>6, SectorsLeft DEF FloppyInv, DrivesRight, floppy_vars
    <2>2. WordsRight' /\ LenRight'
      BY <1>6 DEF FloppyInv, WordsRight, LenRight, floppy_vars
    <2>3. ReadRight' /\ TransferExact'
      BY <1>6 DEF FloppyInv, ReadRight, TransferExact, Follows, At, floppy_vars
    <2> QED  BY <2>1, <2>2, <2>3 DEF FloppyInv
  <1> QED  BY <1>1, <1>2, <1>3, <1>4, <1>5, <1>6 DEF FloppyNext

(***************************************************************************)
(* For any drives, disks, speed of the drives, lengths and timing of what  *)
(* the guest writes to the ports, DSKLEN and ADKCON: what DSKBLK announces *)
(* has been moved, and no sector ever holds another's data.                *)
(***************************************************************************)
THEOREM DiskDataKeptCorrect == FloppySpec => []DiskDataKept
  <1>1. FloppyInv => DiskDataKept
    BY DEF FloppyInv, SectorsRight, DiskDataKept
  <1> QED  BY <1>1, FloppyStarts, FloppyStep, PTL DEF FloppySpec

-----------------------------------------------------------------------------
(***************************************************************************)
(* Sprites.  What a field in which the guest leaves them alone has done so *)
(* far: a sprite's control words came on line drawn[s].at; until they end  *)
(* it, it is active from its vstart on, and has had its lines of data.     *)
(***************************************************************************)
SlotOf(s) == FirstSlot + 8 * s

(* The line that the last comparison was for *)
Seen == vpos + (IF pixel + CheckAhead > LinePixels THEN 1 ELSE 0)

SpriteTypes ==
  /\ vpos \in 0 .. FieldLines - 1 /\ pixel \in 0 .. LinePixels - 1
  /\ vstart \in [Sprites -> Nat] /\ vend \in [Sprites -> Nat]
  /\ armed \subseteq Sprites /\ dma_active \subseteq Sprites
  /\ check \in BOOLEAN /\ enabled \in BOOLEAN /\ undisturbed \in BOOLEAN
  /\ drawn \in [Sprites -> [at : Nat, lines : Nat, again : BOOLEAN]]

(* Between the two control words of a sprite *)
HalfWay(s) ==
  SlotOf(s) < pixel /\ pixel <= SlotOf(s) + 4 /\ vpos >= FirstLine /\ drawn[s].at = vpos

(* Control words of this field have been fetched for it *)
Controlled(s) == vpos > FirstLine \/ (vpos = FirstLine /\ pixel > SlotOf(s))

(* Its next control words are fetched on this line *)
Ending(s, v) == vend[s] = v /\ drawn[s].at < v

(* When its control words came *)
ControlPlaced(s) ==
  /\ drawn[s].at <= vpos
  /\ vpos > FirstLine => drawn[s].at >= FirstLine
  /\ vpos = FirstLine /\ pixel > SlotOf(s) => drawn[s].at = vpos
  /\ vpos > FirstLine /\ drawn[s].at = vpos => pixel > SlotOf(s)
  /\ Controlled(s) /\ drawn[s].at < vpos /\ drawn[s].at < vend[s] =>
       vpos < vend[s] \/ (vpos = vend[s] /\ pixel <= SlotOf(s))

(* What the comparisons of these four pixels have done: if the vstart is   *)
(* the line itself, for now, they switch the DMA on and off, or are idle   *)
Settles(s) ==
  IF vstart[s] = vpos
  THEN /\ pixel \in {SlotOf(s) + 1, SlotOf(s) + 3} => s \notin dma_active
       /\ pixel \in {SlotOf(s) + 2, SlotOf(s) + 4} => s \in dma_active \/ NoSprites
  ELSE pixel > SlotOf(s) + 1 => s \notin dma_active

ControlHalf(s) ==
  HalfWay(s) =>
    /\ drawn[s].lines = 0
    /\ vpos > FirstLine => vend[s] = vpos /\ (~drawn[s].again => Settles(s))

(* The lines of data it has had *)
LinesDue(s) ==
  IF drawn[s].at < vstart[s] /\ vstart[s] <= vend[s] /\ vstart[s] <= vpos
  THEN vpos - vstart[s] + (IF pixel > SlotOf(s) + 4 /\ vpos < vend[s] THEN 1 ELSE 0) ELSE 0

(* Drawing, or waiting for its first line, which is then looked for *)
Awaited(s, active, looked, v) ==
  /\ s \in active => drawn[s].at < vstart[s] /\ vstart[s] <= v
  /\ drawn[s].at < vstart[s] /\ vstart[s] < FieldLines => IF vstart[s] <= v THEN s \in active ELSE looked

SpriteFollowed(s) ==
  Controlled(s) /\ ~HalfWay(s) /\ vstart[s] # drawn[s].at /\ ~drawn[s].again =>
    /\ ~Ending(s, Seen) => Awaited(s, dma_active, check, Seen)
    /\ drawn[s].at < vend[s] => drawn[s].lines = LinesDue(s)

FieldSoFar ==
  /\ enabled /\ (Seen <= FirstLine => dma_active = {})
  /\ \A s \in Sprites : ControlPlaced(s) /\ ControlHalf(s) /\ SpriteFollowed(s)

SpritesInv == SpriteTypes /\ (undisturbed => FieldSoFar)

LEMMA SpritesStart == SpritesInit => SpritesInv
  <1> SUFFICES ASSUME SpritesInit PROVE SpritesInv
    OBVIOUS
  <1>1. vpos \in 0 .. FieldLines - 1 /\ pixel \in 0 .. LinePixels - 1
    BY SpritesAssumption DEF SpritesInit
  <1>2. /\ vstart \in [Sprites -> Nat] /\ vend \in [Sprites -> Nat]
        /\ drawn \in [Sprites -> [at : Nat, lines : Nat, again : BOOLEAN]]
    BY DEF SpritesInit
  <1> QED  BY <1>1, <1>2 DEF SpritesInit, SpritesInv, SpriteTypes

LEMMA RunningTypes ==
  ASSUME SpriteTypes
  PROVE  Running \subseteq Sprites /\ Checked \in BOOLEAN
  BY DEF SpriteTypes, Running, Compared, Checked, Waits

(* Positions made of two parts are lines *)
LEMMA PartsAreLines ==
  ASSUME SpriteTypes, NEW s \in Sprites
  PROVE  /\ \A line \in Positions : WriteSprPos(s, line) =>
              vstart' \in [Sprites -> Nat] /\ \A r \in Sprites : r # s => vstart'[r] = vstart[r]
         /\ \A high \in 0 .. 1, end \in Positions : WriteSprCtl(s, high, end) =>
              /\ vstart' \in [Sprites -> Nat] /\ \A r \in Sprites : r # s => vstart'[r] = vstart[r]
              /\ vend' \in [Sprites -> Nat] /\ \A r \in Sprites : r # s => vend'[r] = vend[r]
  <1>1. LowLines \in Nat \ {0} /\ \A line \in Positions : line \in Nat
    BY SpritesAssumption
  <1>2. \A v \in Nat : v % LowLines \in Nat /\ LowLines * (v \div LowLines) \in Nat
    BY <1>1
  <1>3. \A line \in Positions : recalc(line % LowLines, vstart[s] \div LowLines) \in Nat
    BY <1>1, <1>2 DEF SpriteTypes, recalc
  <1>4. \A high \in 0 .. 1 : recalc(vstart[s] % LowLines, high) \in Nat
    BY <1>1, <1>2 DEF SpriteTypes, recalc
  <1>5. \A line \in Positions : WriteSprPos(s, line) =>
          vstart' \in [Sprites -> Nat] /\ \A r \in Sprites : r # s => vstart'[r] = vstart[r]
    BY <1>3 DEF WriteSprPos, SpriteTypes
  <1>6. \A high \in 0 .. 1, end \in Positions : WriteSprCtl(s, high, end) =>
              /\ vstart' \in [Sprites -> Nat] /\ \A r \in Sprites : r # s => vstart'[r] = vstart[r]
              /\ vend' \in [Sprites -> Nat] /\ \A r \in Sprites : r # s => vend'[r] = vend[r]
    BY <1>1, <1>4 DEF WriteSprCtl, SpriteTypes
  <1> QED  BY <1>5, <1>6

(* The slots of two sprites are not the same *)
LEMMA OneSlot ==
  ASSUME SpriteTypes, NEW r \in Sprites, NEW s \in Sprites,
         FirstFetch(r) \/ SecondFetch(r), FirstFetch(s) \/ SecondFetch(s)
  PROVE  r = s
  BY SpritesAssumption DEF SpriteTypes, Sprites, FirstFetch, SecondFetch

(* The beam *)
LEMMA BeamMoves ==
  ASSUME SpriteTypes, SpriteStep, ~(LastPixel /\ vpos + 1 = FieldLines)
  PROVE  /\ \/ pixel < LinePixels - 1 /\ vpos' = vpos /\ pixel' = pixel + 1
            \/ pixel = LinePixels - 1 /\ vpos' = vpos + 1 /\ pixel' = 0
         /\ Seen' = VposCheck /\ Seen' \in {Seen, Seen + 1}
         /\ vpos' \in 0 .. FieldLines - 1 /\ pixel' \in 0 .. LinePixels - 1
  <1>1. pixel' = (IF LastPixel THEN 0 ELSE pixel + 1) /\ vpos' = (IF LastPixel THEN vpos + 1 ELSE vpos)
    BY DEF SpriteStep
  <1> QED  BY <1>1, SpritesAssumption DEF SpriteTypes, LastPixel, Seen, VposCheck

(* What a step of a line does to one sprite *)
LEMMA SlotEffect ==
  ASSUME SpriteTypes, SpriteStep, ~(LastPixel /\ vpos + 1 = FieldLines), NEW s \in Sprites
  PROVE  /\ dma_active' = Running /\ enabled' = enabled /\ undisturbed' = undisturbed
         /\ Checked => check'
         /\ Fetches(s) => check'
         /\ pixel > SlotOf(s) /\ pixel < SlotOf(s) + 4 => (check' <=> Checked) /\ armed' = armed
         /\ ~Fetches(s) => vstart'[s] = vstart[s] /\ vend'[s] = vend[s] /\ drawn'[s] = drawn[s]
         /\ Fetches(s) /\ FetchControl(s) /\ FirstFetch(s) =>
              vend'[s] = vend[s] /\ drawn'[s] = [at |-> vpos, lines |-> 0, again |-> EndedAsBegun(s)]
         /\ Fetches(s) /\ FetchControl(s) /\ ~FirstFetch(s) => drawn'[s] = drawn[s]
         /\ Fetches(s) /\ ~FetchControl(s) =>
              /\ vstart'[s] = vstart[s] /\ vend'[s] = vend[s]
              /\ FirstFetch(s) => drawn'[s] = drawn[s]
              /\ ~FirstFetch(s) =>
                   /\ drawn'[s].at = drawn[s].at /\ drawn'[s].again = drawn[s].again
                   /\ drawn'[s].lines = drawn[s].lines + 1
         /\ SpriteTypes'
  <1>1. /\ SpriteFetch /\ dma_active' = Running /\ UNCHANGED <<enabled, undisturbed>>
    BY DEF SpriteStep
  <1>2. vpos' \in 0 .. FieldLines - 1 /\ pixel' \in 0 .. LinePixels - 1
    BY BeamMoves
  <1>3. CASE \A r \in Sprites : ~Fetches(r)
    <2>1. check' = Checked /\ UNCHANGED <<vstart, vend, armed, drawn>>
      BY <1>1, <1>3 DEF SpriteFetch
    <2>2. SpriteTypes'
      BY <1>1, <1>2, <2>1, RunningTypes DEF SpriteTypes
    <2> QED  BY <1>1, <1>3, <2>1, <2>2
  <1>4. CASE \E r \in Sprites : Fetches(r)
    <2>1. PICK r \in Sprites : Fetches(r) /\ check' = TRUE /\ IF FetchControl(r) THEN ControlWord(r) ELSE DataWord(r)
      BY <1>1, <1>4 DEF SpriteFetch
    <2>2. Fetches(s) => s = r
      BY <2>1, OneSlot DEF Fetches
    <2>3. ~(pixel > SlotOf(s) /\ pixel < SlotOf(s) + 4)
      <3>1. r \in Int /\ s \in Int /\ pixel \in Int /\ FirstSlot \in Int
        BY SpritesAssumption DEF Sprites, SpriteTypes
      <3>2. pixel = FirstSlot + 8 * r \/ pixel = FirstSlot + 8 * r + 4
        BY <2>1 DEF Fetches, FirstFetch, SecondFetch
      <3>3. r < s \/ r = s \/ r > s
        BY <3>1
      <3> QED  BY <3>1, <3>2, <3>3 DEF SlotOf
    <2>4. CASE FetchControl(r) /\ FirstFetch(r)
      <3>1. PICK line \in Positions : WriteSprPos(r, line)
        BY <2>1, <2>4 DEF ControlWord
      <3>2. drawn' = [drawn EXCEPT ![r] = [at |-> vpos, lines |-> 0, again |-> EndedAsBegun(r)]]
        BY <2>1, <2>4 DEF ControlWord
      <3>3. UNCHANGED <<vend, armed>> /\ vstart' \in [Sprites -> Nat] /\ (s # r => vstart'[s] = vstart[s])
        BY <3>1, PartsAreLines DEF WriteSprPos
      <3>4. EndedAsBegun(r) \in BOOLEAN
        BY DEF EndedAsBegun
      <3>5. /\ drawn' \in [Sprites -> [at : Nat, lines : Nat, again : BOOLEAN]]
            /\ drawn'[s] = (IF s = r THEN [at |-> vpos, lines |-> 0, again |-> EndedAsBegun(r)] ELSE drawn[s])
        <4> DEFINE word == [at |-> vpos, lines |-> 0, again |-> EndedAsBegun(r)]
        <4>1. word \in [at : Nat, lines : Nat, again : BOOLEAN]
          BY <3>4, SpritesAssumption DEF SpriteTypes
        <4>2. drawn' = [drawn EXCEPT ![r] = word]
          BY <3>2
        <4> HIDE DEF word
        <4>3. drawn' \in [Sprites -> [at : Nat, lines : Nat, again : BOOLEAN]] /\ drawn'[s] = (IF s = r THEN word ELSE drawn[s])
          BY <4>1, <4>2 DEF SpriteTypes
        <4> QED  BY <4>3 DEF word
      <3>6. SpriteTypes'
        BY <1>1, <1>2, <2>1, <3>3, <3>5, RunningTypes DEF SpriteTypes
      <3>7. CASE s = r
        BY <1>1, <2>1, <2>3, <2>4, <3>3, <3>5, <3>6, <3>7
      <3>8. CASE s # r
        BY <1>1, <2>1, <2>2, <2>3, <3>3, <3>5, <3>6, <3>8
      <3> QED  BY <3>7, <3>8
    <2>5. CASE FetchControl(r) /\ ~FirstFetch(r)
      <3>1. PICK high \in 0 .. 1, end \in Positions : WriteSprCtl(r, high, end)
        BY <2>1, <2>5 DEF ControlWord
      <3>2. drawn' = drawn
        BY <2>1, <2>5 DEF ControlWord
      <3>3. /\ vstart' \in [Sprites -> Nat] /\ vend' \in [Sprites -> Nat] /\ armed' \subseteq Sprites
            /\ s # r => vstart'[s] = vstart[s] /\ vend'[s] = vend[s]
        <4>1. armed' = armed \ {r}
          BY <3>1 DEF WriteSprCtl
        <4> QED  BY <3>1, <4>1, PartsAreLines DEF SpriteTypes
      <3>4. SpriteTypes'
        BY <1>1, <1>2, <2>1, <3>2, <3>3, RunningTypes DEF SpriteTypes
      <3> QED  BY <1>1, <2>1, <2>2, <2>3, <2>5, <3>2, <3>3, <3>4
    <2>6. CASE ~FetchControl(r) /\ FirstFetch(r)
      <3>1. armed' = armed \cup {r} /\ UNCHANGED <<vstart, vend, drawn>>
        BY <2>1, <2>6 DEF DataWord, WriteSprData
      <3>2. SpriteTypes'
        BY <1>1, <1>2, <2>1, <3>1, RunningTypes DEF SpriteTypes
      <3> QED  BY <1>1, <2>1, <2>2, <2>3, <2>6, <3>1, <3>2
    <2>7. CASE ~FetchControl(r) /\ ~FirstFetch(r)
      <3>1. drawn' = [drawn EXCEPT ![r].lines = @ + 1] /\ UNCHANGED <<vstart, vend, armed>>
        BY <2>1, <2>7 DEF DataWord
      <3>2. drawn[r] \in [at : Nat, lines : Nat, again : BOOLEAN]
        BY DEF SpriteTypes
      <3>3. /\ drawn' \in [Sprites -> [at : Nat, lines : Nat, again : BOOLEAN]]
            /\ s # r => drawn'[s] = drawn[s]
            /\ s = r => /\ drawn'[s].at = drawn[s].at /\ drawn'[s].again = drawn[s].again
                        /\ drawn'[s].lines = drawn[s].lines + 1
        BY <3>1, <3>2 DEF SpriteTypes
      <3>4. SpriteTypes'
        BY <1>1, <1>2, <2>1, <3>1, <3>3, RunningTypes DEF SpriteTypes
      <3> QED  BY <1>1, <2>1, <2>2, <2>3, <2>7, <3>1, <3>3, <3>4
    <2> QED  BY <2>4, <2>5, <2>6, <2>7
  <1> QED  BY <1>3, <1>4

(* The comparison finds the sprites that start and end                      *)
LEMMA SpriteCompared ==
  ASSUME SpriteTypes, FieldSoFar, ~(LastPixel /\ vpos + 1 = FieldLines), NEW s \in Sprites,
         Controlled(s), ~HalfWay(s), vstart[s] # drawn[s].at, ~drawn[s].again, ~Ending(s, VposCheck)
  PROVE  Awaited(s, Running, Checked, VposCheck)
  <1> DEFINE v == VposCheck
             vs == vstart[s]
             ve == vend[s]
             at == drawn[s].at
  <1>1. /\ vs \in Nat /\ ve \in Nat /\ at \in Nat /\ vpos \in Nat /\ vpos < FieldLines
        /\ pixel \in Nat /\ pixel < LinePixels /\ s \in Nat /\ SlotOf(s) \in Nat
        /\ SlotOf(s) + 4 < LinePixels - CheckAhead /\ FieldLines \in Nat
    BY SpritesAssumption DEF SpriteTypes, Sprites, SlotOf
  <1>2. /\ v \in Nat /\ Seen \in Nat /\ (v = vpos \/ v = vpos + 1) /\ (Seen = vpos \/ Seen = v)
        /\ Seen # v => pixel > SlotOf(s)
    BY <1>1, SpritesAssumption DEF VposCheck, Seen
  <1>3. ControlPlaced(s) /\ SpriteFollowed(s)
    BY DEF FieldSoFar
  <1>4. at <= vpos /\ vs # at /\ ~(ve = v /\ at < v) /\ (vpos >= FirstLine)
    BY <1>1, <1>3, SpritesAssumption DEF ControlPlaced, Ending, Controlled
  <1>5. ~Ending(s, Seen)
    BY <1>1, <1>2, <1>3, <1>4 DEF ControlPlaced, Ending
  <1>6. /\ s \in dma_active => at < vs /\ vs <= Seen
        /\ at < vs /\ vs < FieldLines => IF vs <= Seen THEN s \in dma_active ELSE check
    BY <1>3, <1>5 DEF SpriteFollowed, Awaited
  <1>7. CASE TooEarly(dma_active)
    <2>1. v <= FirstLine /\ dma_active = {} /\ v = vpos /\ Seen = v
      BY <1>1, <1>2, <1>4, <1>7, SpritesAssumption DEF TooEarly
    <2>2. Running = dma_active /\ Checked = check
      BY <1>7 DEF Running, Checked
    <2> QED  BY <1>6, <2>1, <2>2 DEF Awaited
  <1>8. CASE NoSprites
    <2>1. dma_active = {} /\ ~check /\ Running = dma_active
      BY <1>8 DEF NoSprites, Running
    <2>2. ~(at < vs /\ vs < FieldLines)
      BY <1>6, <2>1
    <2> QED  BY <2>1, <2>2 DEF Awaited
  <1>9. CASE ~TooEarly(dma_active) /\ ~NoSprites
    <2>1. Running = Compared(dma_active, v) /\ Checked = Waits(dma_active, v)
      BY <1>9 DEF Running, Checked
    <2>2. s \in Running <=> IF s \in dma_active THEN v # ve ELSE vs = v
      BY <2>1 DEF Compared, EndsAt
    <2>3. s \notin dma_active /\ v < vs /\ vs < FieldLines => Checked
      BY <2>1 DEF Waits
    <2> HIDE DEF v, vs, ve, at
    <2>4. s \in Running => at < vs /\ vs <= v
      BY <1>1, <1>2, <1>4, <1>6, <2>2
    <2>5. at < vs /\ vs < FieldLines /\ vs <= v => s \in Running
      BY <1>1, <1>2, <1>4, <1>6, <2>2
    <2>6. at < vs /\ vs < FieldLines /\ v < vs => Checked
      BY <1>1, <1>2, <1>6, <2>3
    <2> QED  BY <1>1, <1>2, <2>4, <2>5, <2>6 DEF v, vs, at, Awaited
  <1> QED  BY <1>7, <1>8, <1>9

(* Up to the first line nothing runs *)
LEMMA NothingEarly ==
  ASSUME SpriteTypes, FieldSoFar, VposCheck <= FirstLine
  PROVE  Running = {}
  <1>1. Seen <= FirstLine
    BY SpritesAssumption DEF VposCheck, Seen, SpriteTypes
  <1> QED  BY <1>1 DEF FieldSoFar, Running, TooEarly

(* What happens away from a sprite's slots *)
LEMMA SpritePasses ==
  ASSUME SpriteTypes, FieldSoFar, SpriteStep, ~(LastPixel /\ vpos + 1 = FieldLines),
         NEW s \in Sprites, pixel \notin {SlotOf(s), SlotOf(s) + 4}, ~HalfWay(s)
  PROVE  ControlPlaced(s)' /\ ControlHalf(s)' /\ SpriteFollowed(s)'
  <1> DEFINE vs == vstart[s]
             ve == vend[s]
             d == drawn[s]
  <1>1. /\ vs \in Nat /\ ve \in Nat /\ d.at \in Nat /\ d.lines \in Nat /\ vpos \in Nat
        /\ pixel \in Nat /\ pixel < LinePixels /\ s \in Nat /\ SlotOf(s) \in Nat
        /\ SlotOf(s) + 4 < LinePixels - CheckAhead /\ LinePixels \in Nat /\ CheckAhead \in Nat /\ FirstLine \in Nat
    BY SpritesAssumption DEF SpriteTypes, Sprites, SlotOf
  <1>2. ~Fetches(s)
    BY <1>1 DEF Fetches, FirstFetch, SecondFetch, SlotOf
  <1>3. /\ dma_active' = Running /\ (Checked => check')
        /\ vstart'[s] = vs /\ vend'[s] = ve /\ drawn'[s] = d
        /\ \/ pixel < LinePixels - 1 /\ vpos' = vpos /\ pixel' = pixel + 1
           \/ pixel = LinePixels - 1 /\ vpos' = vpos + 1 /\ pixel' = 0
        /\ Seen' = VposCheck
    BY <1>2, SlotEffect, BeamMoves
  <1>4. ControlPlaced(s) /\ ControlHalf(s) /\ SpriteFollowed(s)
    BY DEF FieldSoFar
  <1>5. SlotOf(s)' = SlotOf(s)
    BY DEF SlotOf
  <1>6. ControlPlaced(s)'
    BY <1>1, <1>3, <1>4, <1>5 DEF ControlPlaced, Controlled
  <1>7. ~HalfWay(s)' /\ ~HalfWay(s)
    BY <1>1, <1>3, <1>5 DEF HalfWay
  <1>8. SpriteFollowed(s)'
    <2> SUFFICES ASSUME Controlled(s)', vs # d.at, ~d.again
                 PROVE  /\ ~Ending(s, Seen)' => Awaited(s, dma_active, check, Seen)'
                        /\ d.at < ve => d.lines = LinesDue(s)'
      BY <1>3 DEF SpriteFollowed
    <2>1. Controlled(s)
      BY <1>1, <1>3, <1>5 DEF Controlled
    <2>2. ~Ending(s, Seen)' => ~Ending(s, VposCheck)
      BY <1>3 DEF Ending
    <2>3. ~Ending(s, Seen)' => Awaited(s, dma_active, check, Seen)'
      <3> SUFFICES ASSUME ~Ending(s, Seen)' PROVE Awaited(s, dma_active, check, Seen)'
        OBVIOUS
      <3>1. Awaited(s, Running, Checked, VposCheck)
        BY <1>7, <2>1, <2>2, SpriteCompared
      <3> QED  BY <1>3, <3>1 DEF Awaited
    <2>4. ASSUME d.at < ve  PROVE d.lines = LinesDue(s)'
      <3>1. d.lines = LinesDue(s)
        BY <1>4, <1>7, <2>1, <2>4 DEF SpriteFollowed
      <3>2. d.at <= vpos /\ (d.at < vpos => vpos < ve \/ (vpos = ve /\ pixel <= SlotOf(s)))
        BY <1>4, <2>1, <2>4 DEF ControlPlaced
      <3>3. LinesDue(s)' = IF d.at < vs /\ vs <= ve /\ vs <= vpos'
                           THEN vpos' - vs + (IF pixel' > SlotOf(s) + 4 /\ vpos' < ve THEN 1 ELSE 0) ELSE 0
        BY <1>3, <1>5 DEF LinesDue
      <3>4. LinesDue(s) = IF d.at < vs /\ vs <= ve /\ vs <= vpos
                          THEN vpos - vs + (IF pixel > SlotOf(s) + 4 /\ vpos < ve THEN 1 ELSE 0) ELSE 0
        BY DEF LinesDue
      <3>5. LinesDue(s)' = LinesDue(s)
        <4> HIDE DEF vs, ve, d
        <4>1. CASE pixel < LinePixels - 1
          <5>1. pixel' > SlotOf(s) + 4 <=> pixel > SlotOf(s) + 4
            BY <1>1, <1>3, <4>1
          <5> QED  BY <1>1, <1>3, <3>3, <3>4, <4>1, <5>1
        <4>2. CASE pixel = LinePixels - 1
          <5>1. pixel > SlotOf(s) + 4
            BY <1>1, <4>2
          <5>2. vpos' = vpos + 1 /\ pixel' = 0
            BY <1>1, <1>3, <4>2
          <5> QED  BY <1>1, <2>4, <3>2, <3>3, <3>4, <5>1, <5>2
        <4> QED  BY <1>1, <4>1, <4>2
      <3> QED  BY <3>1, <3>5
    <2> QED  BY <2>3, <2>4
  <1> QED  BY <1>6, <1>7, <1>8 DEF ControlHalf

(* Between the two control words *)
LEMMA SpriteBetween ==
  ASSUME SpriteTypes, FieldSoFar, SpriteStep, ~(LastPixel /\ vpos + 1 = FieldLines),
         NEW s \in Sprites, pixel \notin {SlotOf(s), SlotOf(s) + 4}, HalfWay(s)
  PROVE  ControlPlaced(s)' /\ ControlHalf(s)' /\ SpriteFollowed(s)'
  <1>1. /\ vpos \in Nat /\ pixel \in Nat /\ s \in Nat /\ SlotOf(s) \in Nat /\ FirstLine \in Nat
        /\ SlotOf(s) + 4 < LinePixels - CheckAhead /\ LinePixels \in Nat /\ CheckAhead \in Nat
    BY SpritesAssumption DEF SpriteTypes, Sprites, SlotOf
  <1>2. /\ pixel \in {SlotOf(s) + 1, SlotOf(s) + 2, SlotOf(s) + 3} /\ vpos >= FirstLine /\ drawn[s].at = vpos
        /\ ~Fetches(s) /\ VposCheck = vpos
    BY <1>1 DEF HalfWay, Fetches, FirstFetch, SecondFetch, SlotOf, VposCheck
  <1>3. /\ dma_active' = Running /\ (check' <=> Checked) /\ armed' = armed
        /\ vstart'[s] = vstart[s] /\ vend'[s] = vend[s] /\ drawn'[s] = drawn[s]
        /\ vpos' = vpos /\ pixel' = pixel + 1 /\ SlotOf(s)' = SlotOf(s)
    <2>1. pixel > SlotOf(s) /\ pixel < SlotOf(s) + 4 /\ pixel # LinePixels - 1
      BY <1>1, <1>2
    <2> QED  BY <1>2, <2>1, SlotEffect, BeamMoves DEF SlotOf
  <1>4. ControlPlaced(s) /\ ControlHalf(s)
    BY DEF FieldSoFar
  <1>5. HalfWay(s)'
    BY <1>1, <1>2, <1>3 DEF HalfWay
  <1>6. ControlPlaced(s)'
    BY <1>1, <1>2, <1>3, <1>4 DEF ControlPlaced, Controlled
  <1>7. ControlHalf(s)'
    <2>1. drawn'[s].lines = 0
      BY <1>3, <1>4 DEF ControlHalf
    <2>2. ASSUME vpos > FirstLine PROVE vend'[s] = vpos' /\ (~drawn'[s].again => Settles(s)')
      <3>1. vend[s] = vpos /\ (~drawn[s].again => Settles(s))
        BY <1>4, <2>2 DEF ControlHalf
      <3>2. SUFFICES ASSUME Settles(s) PROVE Settles(s)'
        BY <1>3, <3>1
      <3>3. CASE NoSprites \/ TooEarly(dma_active)
        <4>1. NoSprites
          BY <1>1, <1>2, <2>2, <3>3 DEF TooEarly
        <4>2. NoSprites' /\ s \notin dma_active'
          BY <1>3, <4>1 DEF NoSprites, Running, Checked
        <4> QED  BY <1>3, <4>2 DEF Settles
      <3>4. CASE ~NoSprites /\ ~TooEarly(dma_active)
        <4>1. s \in dma_active' <=> s \notin dma_active /\ vstart[s] = vpos
          BY <1>2, <1>3, <3>1, <3>4 DEF Running, Compared, EndsAt
        <4>2. CASE vstart[s] = vpos
          <5>1. /\ pixel \in {SlotOf(s) + 1, SlotOf(s) + 3} => s \notin dma_active
                /\ pixel = SlotOf(s) + 2 => s \in dma_active
            BY <3>2, <3>4, <4>2 DEF Settles
          <5>2. /\ pixel' \in {SlotOf(s) + 1, SlotOf(s) + 3} => s \notin dma_active'
                /\ pixel' \in {SlotOf(s) + 2, SlotOf(s) + 4} => s \in dma_active'
            BY <1>1, <1>2, <1>3, <4>1, <4>2, <5>1
          <5> QED  BY <1>3, <4>2, <5>2 DEF Settles
        <4>3. CASE vstart[s] # vpos
          BY <1>3, <4>1, <4>3 DEF Settles
        <4> QED  BY <4>2, <4>3
      <3> QED  BY <3>3, <3>4
    <2> QED  BY <1>3, <2>1, <2>2 DEF ControlHalf
  <1> QED  BY <1>5, <1>6, <1>7 DEF SpriteFollowed

(* On the line of its end the comparison switches a sprite off, unless it   *)
(* finds it beginning                                                      *)
LEMMA EndsSwitchOff ==
  ASSUME SpriteTypes, NEW s \in Sprites, VposCheck = vpos, vend[s] = vpos,
         vstart[s] # vpos \/ s \in dma_active \/ NoSprites, dma_active = {} \/ vpos > FirstLine
  PROVE  s \notin Running
  <1>1. CASE NoSprites \/ TooEarly(dma_active)
    BY <1>1, SpritesAssumption DEF NoSprites, TooEarly, Running, SpriteTypes
  <1>2. CASE ~NoSprites /\ ~TooEarly(dma_active)
    BY <1>2 DEF Running, Compared, EndsAt
  <1> QED  BY <1>1, <1>2

(* A sprite's first slot *)
LEMMA SpriteFirstSlot ==
  ASSUME SpriteTypes, FieldSoFar, SpriteStep, ~(LastPixel /\ vpos + 1 = FieldLines),
         NEW s \in Sprites, pixel = SlotOf(s)
  PROVE  ControlPlaced(s)' /\ ControlHalf(s)' /\ SpriteFollowed(s)'
  <1> DEFINE vs == vstart[s]
             ve == vend[s]
             d == drawn[s]
  <1>1. /\ vs \in Nat /\ ve \in Nat /\ d.at \in Nat /\ d.lines \in Nat /\ vpos \in Nat
        /\ pixel \in Nat /\ s \in Nat /\ SlotOf(s) \in Nat /\ FirstLine \in Nat
        /\ SlotOf(s) + 4 < LinePixels - CheckAhead /\ LinePixels \in Nat /\ CheckAhead \in Nat
    BY SpritesAssumption DEF SpriteTypes, Sprites, SlotOf
  <1>2. FirstFetch(s) /\ VposCheck = vpos /\ Seen' = vpos
    BY <1>1, BeamMoves DEF FirstFetch, SlotOf, VposCheck
  <1>3. /\ dma_active' = Running /\ (Checked => check')
        /\ vpos' = vpos /\ pixel' = pixel + 1 /\ SlotOf(s)' = SlotOf(s)
        /\ Fetches(s) /\ FetchControl(s) =>
             vend'[s] = ve /\ drawn'[s] = [at |-> vpos, lines |-> 0, again |-> EndedAsBegun(s)]
        /\ ~Fetches(s) \/ ~FetchControl(s) => vstart'[s] = vs /\ vend'[s] = ve /\ drawn'[s] = d
    <2>1. pixel # LinePixels - 1
      BY <1>1
    <2> QED  BY <1>2, <2>1, SlotEffect, BeamMoves DEF SlotOf
  <1>4. ControlPlaced(s) /\ ControlHalf(s) /\ SpriteFollowed(s)
    BY DEF FieldSoFar
  <1>5. Fetches(s) <=> vpos >= FirstLine /\ (FetchControl(s) \/ s \in Running)
    BY <1>2 DEF Fetches, FieldSoFar
  <1>6. FetchControl(s) <=> vpos = FirstLine \/ vpos = ve
    BY DEF FetchControl
  <1>7. CASE Fetches(s) /\ FetchControl(s)
    <2>1. vpos >= FirstLine /\ vend'[s] = ve
          /\ drawn'[s].at = vpos /\ drawn'[s].lines = 0 /\ (drawn'[s].again <=> EndedAsBegun(s))
      BY <1>3, <1>5, <1>7
    <2>2. HalfWay(s)'
      BY <1>1, <1>3, <2>1 DEF HalfWay
    <2>3. ControlPlaced(s)'
      BY <1>1, <1>3, <2>1 DEF ControlPlaced
    <2>4. ASSUME vpos > FirstLine, ~EndedAsBegun(s) PROVE Settles(s)'
      <3>1. vstart'[s] = vpos => vs # vpos
        BY <2>4 DEF EndedAsBegun
      <3>2. ve = vpos
        BY <1>1, <1>6, <1>7, <2>4
      <3>3. vstart'[s] = vpos => s \notin Running
        BY <1>2, <2>4, <3>1, <3>2, EndsSwitchOff
      <3> QED  BY <1>1, <1>3, <3>3 DEF Settles
    <2>5. ControlHalf(s)'
      BY <1>1, <1>3, <1>6, <1>7, <2>1, <2>4 DEF ControlHalf
    <2> QED  BY <2>2, <2>3, <2>5 DEF SpriteFollowed
  <1>8. CASE ~Fetches(s) \/ ~FetchControl(s)
    <2>1. vpos # FirstLine /\ (vpos > FirstLine => vpos # ve)
      BY <1>1, <1>5, <1>6, <1>8
    <2>2. ControlPlaced(s)'
      BY <1>1, <1>3, <1>4, <1>8, <2>1 DEF ControlPlaced, Controlled
    <2>3. ~HalfWay(s) /\ ~HalfWay(s)'
      BY <1>1, <1>3, <1>4, <1>8, <2>1 DEF HalfWay, ControlPlaced
    <2>4. SpriteFollowed(s)'
      <3> SUFFICES ASSUME Controlled(s)', vs # d.at, ~d.again
                   PROVE  /\ ~Ending(s, Seen)' => Awaited(s, dma_active, check, Seen)'
                          /\ d.at < ve => d.lines = LinesDue(s)'
        BY <1>3, <1>8 DEF SpriteFollowed
      <3>1. Controlled(s) /\ vpos # ve
        BY <1>1, <1>3, <2>1 DEF Controlled
      <3>2. ~Ending(s, VposCheck)
        BY <1>2, <3>1 DEF Ending
      <3>3. Awaited(s, Running, Checked, VposCheck)
        BY <2>3, <3>1, <3>2, SpriteCompared
      <3>4. Awaited(s, dma_active, check, Seen)'
        BY <1>2, <1>3, <1>8, <3>3 DEF Awaited
      <3>5. d.at < ve => d.lines = LinesDue(s)
        BY <1>4, <2>3, <3>1 DEF SpriteFollowed
      <3>6. LinesDue(s)' = LinesDue(s)
        BY <1>1, <1>3, <1>8 DEF LinesDue
      <3> QED  BY <3>4, <3>5, <3>6
    <2> QED  BY <2>2, <2>3, <2>4 DEF ControlHalf
  <1> QED  BY <1>7, <1>8

(* A sprite's second slot *)
LEMMA SpriteSecondSlot ==
  ASSUME SpriteTypes, FieldSoFar, SpriteStep, ~(LastPixel /\ vpos + 1 = FieldLines),
         NEW s \in Sprites, pixel = SlotOf(s) + 4
  PROVE  ControlPlaced(s)' /\ ControlHalf(s)' /\ SpriteFollowed(s)'
  <1> DEFINE vs == vstart[s]
             ve == vend[s]
             d == drawn[s]
  <1>1. /\ vs \in Nat /\ ve \in Nat /\ d.at \in Nat /\ d.lines \in Nat /\ vpos \in Nat
        /\ pixel \in Nat /\ s \in Nat /\ SlotOf(s) \in Nat /\ FirstLine \in Nat
        /\ SlotOf(s) + 4 < LinePixels - CheckAhead /\ LinePixels \in Nat /\ CheckAhead \in Nat
        /\ vpos < FieldLines /\ FieldLines \in Nat
    BY SpritesAssumption DEF SpriteTypes, Sprites, SlotOf
  <1>2. ~FirstFetch(s) /\ SecondFetch(s) /\ VposCheck = vpos /\ Seen' = vpos
    BY <1>1, BeamMoves DEF FirstFetch, SecondFetch, SlotOf, VposCheck
  <1>3. /\ dma_active' = Running /\ (Fetches(s) => check') /\ (Checked => check')
        /\ vpos' = vpos /\ pixel' = pixel + 1 /\ SlotOf(s)' = SlotOf(s)
        /\ vstart'[s] \in Nat /\ vend'[s] \in Nat
        /\ drawn'[s].at = d.at /\ drawn'[s].again = d.again
        /\ Fetches(s) /\ FetchControl(s) => drawn'[s].lines = d.lines
        /\ ~(Fetches(s) /\ FetchControl(s)) => vstart'[s] = vs /\ vend'[s] = ve
        /\ Fetches(s) /\ ~FetchControl(s) => drawn'[s].lines = d.lines + 1
        /\ ~Fetches(s) => drawn'[s].lines = d.lines
    <2>1. SpriteTypes'
      BY SlotEffect
    <2>2. vstart'[s] \in Nat /\ vend'[s] \in Nat
      BY <2>1 DEF SpriteTypes
    <2>3. pixel # LinePixels - 1
      BY <1>1, SpritesAssumption
    <2>4. /\ drawn'[s].at = d.at /\ drawn'[s].again = d.again
          /\ Fetches(s) /\ FetchControl(s) => drawn'[s].lines = d.lines
          /\ ~(Fetches(s) /\ FetchControl(s)) => vstart'[s] = vs /\ vend'[s] = ve
          /\ Fetches(s) /\ ~FetchControl(s) => drawn'[s].lines = d.lines + 1
          /\ ~Fetches(s) => drawn'[s].lines = d.lines
      BY <1>2, SlotEffect
    <2>5. dma_active' = Running /\ (Fetches(s) => check') /\ (Checked => check')
      BY SlotEffect
    <2>6. vpos' = vpos /\ pixel' = pixel + 1 /\ SlotOf(s)' = SlotOf(s)
      BY <1>1, <2>3, BeamMoves DEF SlotOf
    <2> QED  BY <2>2, <2>4, <2>5, <2>6
  <1>4. ControlPlaced(s) /\ ControlHalf(s) /\ SpriteFollowed(s)
    BY DEF FieldSoFar
  <1>5. Fetches(s) <=> vpos >= FirstLine /\ (FetchControl(s) \/ s \in Running)
    BY <1>2 DEF Fetches, FieldSoFar
  <1>6. FetchControl(s) <=> vpos = FirstLine \/ vpos = ve
    BY DEF FetchControl
  <1>7. ~HalfWay(s)'
    BY <1>1, <1>3 DEF HalfWay
  <1>8. CASE HalfWay(s)
    <2>1. Fetches(s) /\ FetchControl(s) /\ d.at = vpos /\ vpos >= FirstLine /\ d.lines = 0
      BY <1>1, <1>4, <1>5, <1>6, <1>8 DEF HalfWay, ControlHalf
    <2>2. ~d.again => s \notin Running
      <3>1. CASE vpos = FirstLine
        BY <1>1, <1>2, <3>1, NothingEarly
      <3>2. CASE vpos > FirstLine
        <4>1. ve = vpos /\ (~d.again => Settles(s))
          BY <1>4, <1>8, <3>2 DEF ControlHalf
        <4>2. ~d.again => vs # vpos \/ s \in dma_active \/ NoSprites
          BY <1>1, <4>1 DEF Settles
        <4> QED  BY <1>2, <3>2, <4>1, <4>2, EndsSwitchOff
      <3> QED  BY <1>1, <2>1, <3>1, <3>2
    <2>3. ControlPlaced(s)'
      BY <1>1, <1>3, <2>1 DEF ControlPlaced
    <2>4. SpriteFollowed(s)'
      <3> SUFFICES ASSUME ~d.again, vstart'[s] # d.at
                   PROVE  /\ Awaited(s, dma_active, check, Seen)'
                          /\ drawn'[s].lines = LinesDue(s)'
        BY <1>3 DEF SpriteFollowed
      <3>1. Awaited(s, dma_active, check, Seen)'
        BY <1>1, <1>2, <1>3, <2>1, <2>2 DEF Awaited
      <3>2. drawn'[s].lines = LinesDue(s)'
        BY <1>1, <1>3, <2>1 DEF LinesDue
      <3> QED  BY <3>1, <3>2
    <2> QED  BY <1>7, <2>3, <2>4 DEF ControlHalf
  <1>9. CASE ~HalfWay(s)
    <2>1. vpos # FirstLine /\ (vpos > FirstLine => d.at < vpos /\ d.at >= FirstLine)
      BY <1>1, <1>4, <1>9 DEF ControlPlaced, HalfWay
    <2>2. vpos > FirstLine => vpos # ve /\ (d.at < ve => vpos < ve)
      <3>1. vpos = ve /\ vpos > FirstLine => FALSE
        BY <1>1, <1>4, <2>1 DEF ControlPlaced, Controlled
      <3> QED  BY <1>1, <1>4, <2>1, <3>1 DEF ControlPlaced, Controlled
    <2>3. /\ Fetches(s) => ~FetchControl(s)
          /\ vend'[s] = ve /\ vstart'[s] = vs
          /\ drawn'[s].lines = IF Fetches(s) THEN d.lines + 1 ELSE d.lines
      BY <1>1, <1>3, <1>5, <1>6, <2>1, <2>2
    <2>4. ControlPlaced(s)'
      BY <1>1, <1>3, <1>4, <2>1, <2>2, <2>3 DEF ControlPlaced, Controlled
    <2>5. SpriteFollowed(s)'
      <3> SUFFICES ASSUME Controlled(s)', vs # d.at, ~d.again
                   PROVE  /\ Awaited(s, dma_active, check, Seen)'
                          /\ d.at < ve => drawn'[s].lines = LinesDue(s)'
        BY <1>3, <2>3 DEF SpriteFollowed
      <3>1. Controlled(s) /\ vpos > FirstLine
        BY <1>1, <1>3, <2>1 DEF Controlled
      <3>2. ~Ending(s, VposCheck)
        BY <1>2, <2>2, <3>1 DEF Ending
      <3>3. Awaited(s, Running, Checked, VposCheck)
        BY <1>9, <3>1, <3>2, SpriteCompared
      <3>4. Awaited(s, dma_active, check, Seen)'
        BY <1>2, <1>3, <2>3, <3>3 DEF Awaited
      <3>5. ASSUME d.at < ve  PROVE drawn'[s].lines = LinesDue(s)'
        <4>1. d.lines = LinesDue(s)
          BY <1>4, <1>9, <3>1, <3>5 DEF SpriteFollowed
        <4>2. Fetches(s) <=> d.at < vs /\ vs <= vpos
          BY <1>1, <1>2, <1>5, <1>6, <2>2, <3>1, <3>3 DEF Awaited
        <4>3. LinesDue(s)' = IF d.at < vs /\ vs <= ve /\ vs <= vpos THEN vpos - vs + 1 ELSE 0
          BY <1>1, <1>3, <2>2, <2>3, <3>1, <3>5 DEF LinesDue
        <4>4. LinesDue(s) = IF d.at < vs /\ vs <= ve /\ vs <= vpos THEN vpos - vs ELSE 0
          BY <1>1 DEF LinesDue
        <4> QED  BY <1>1, <2>2, <2>3, <3>1, <3>5, <4>1, <4>2, <4>3, <4>4
      <3> QED  BY <3>4, <3>5
    <2> QED  BY <1>7, <2>4, <2>5 DEF ControlHalf
  <1> QED  BY <1>8, <1>9

LEMMA SpritesFollow == SpritesInv /\ [SpritesNext]_sprite_vars => SpritesInv'
  <1> SUFFICES ASSUME SpritesInv, [SpritesNext]_sprite_vars PROVE SpritesInv'
    OBVIOUS
  <1>1. SpriteTypes
    BY DEF SpritesInv
  <1>2. CASE SpriteStep /\ ~(LastPixel /\ vpos + 1 = FieldLines)
    <2>1. SpriteTypes'
      <3>1. 0 \in Sprites
        BY SpritesAssumption DEF Sprites
      <3> QED  BY <1>1, <1>2, <3>1, SlotEffect
    <2>2. ASSUME undisturbed'  PROVE FieldSoFar'
      <3>1. undisturbed /\ (enabled' <=> enabled) /\ dma_active' = Running /\ Seen' = VposCheck
        BY <1>1, <1>2, <2>2, BeamMoves DEF SpriteStep
      <3>2. FieldSoFar
        BY <3>1 DEF SpritesInv
      <3>3. ASSUME NEW s \in Sprites
            PROVE  ControlPlaced(s)' /\ ControlHalf(s)' /\ SpriteFollowed(s)'
        BY <1>1, <1>2, <3>2, SpritePasses, SpriteBetween, SpriteFirstSlot, SpriteSecondSlot
      <3>4. Seen' <= FirstLine => dma_active' = {}
        BY <1>1, <3>1, <3>2, NothingEarly
      <3> QED  BY <1>1, <3>1, <3>2, <3>3, <3>4 DEF FieldSoFar, Sprites
    <2> QED  BY <2>1, <2>2 DEF SpritesInv
  <1>3. CASE SpriteStep /\ LastPixel /\ vpos + 1 = FieldLines
    <2>1. /\ vpos' = 0 /\ pixel' = 0 /\ dma_active' = {} /\ check' = FALSE /\ (undisturbed' <=> enabled)
          /\ drawn' = [s \in Sprites |-> [at |-> 0, lines |-> 0, again |-> FALSE]]
          /\ UNCHANGED <<vstart, vend, armed, enabled>>
      BY <1>1, <1>3 DEF SpriteStep, SpriteTypes
    <2>2. SpriteTypes'
      <3>1. vpos' \in 0 .. FieldLines - 1 /\ pixel' \in 0 .. LinePixels - 1
        BY <2>1, SpritesAssumption
      <3>2. drawn' \in [Sprites -> [at : Nat, lines : Nat, again : BOOLEAN]]
        BY <2>1
      <3>3. vstart' \in [Sprites -> Nat] /\ vend' \in [Sprites -> Nat] /\ armed' \subseteq Sprites /\ dma_active' \subseteq Sprites
        BY <1>1, <2>1 DEF SpriteTypes
      <3>4. check' \in BOOLEAN /\ enabled' \in BOOLEAN /\ undisturbed' \in BOOLEAN
        <4>1. undisturbed' = enabled
          BY <1>1, <1>3 DEF SpriteStep
        <4> QED  BY <1>1, <2>1, <4>1, Zenon DEF SpriteTypes
      <3> QED  BY <3>1, <3>2, <3>3, <3>4 DEF SpriteTypes
    <2>3. ASSUME undisturbed'  PROVE FieldSoFar'
      <3>1. ASSUME NEW s \in Sprites
            PROVE  ControlPlaced(s)' /\ ControlHalf(s)' /\ SpriteFollowed(s)'
        <4>1. drawn'[s].at = 0 /\ drawn'[s].lines = 0 /\ SlotOf(s)' \in Nat
          BY <2>1, SpritesAssumption DEF Sprites, SlotOf
        <4>2. ~Controlled(s)' /\ ~HalfWay(s)'
          BY <2>1, <4>1, SpritesAssumption DEF Controlled, HalfWay
        <4>3. ControlPlaced(s)'
          BY <2>1, <4>1, <4>2, SpritesAssumption DEF ControlPlaced
        <4> QED  BY <4>2, <4>3 DEF ControlHalf, SpriteFollowed
      <3> QED  BY <2>1, <2>3, <3>1 DEF FieldSoFar, Sprites
    <2> QED  BY <2>2, <2>3 DEF SpritesInv
  <1>4. CASE \E s \in Sprites : GuestWrite(s)
    <2>1. PICK s \in Sprites : GuestWrite(s)
      BY <1>4
    <2>2. /\ vstart' \in [Sprites -> Nat] /\ vend' \in [Sprites -> Nat] /\ armed' \subseteq Sprites
      <3>1. CASE \E line \in Positions : WriteSprPos(s, line)
        BY <1>1, <3>1, PartsAreLines DEF WriteSprPos, SpriteTypes
      <3>2. CASE \E high \in 0 .. 1, end \in Positions : WriteSprCtl(s, high, end)
        <4>1. armed' = armed \ {s}
          BY <3>2 DEF WriteSprCtl
        <4> QED  BY <1>1, <3>2, <4>1, PartsAreLines DEF SpriteTypes
      <3>3. CASE WriteSprData(s)
        BY <1>1, <3>3 DEF WriteSprData, SpriteTypes
      <3> QED  BY <2>1, <3>1, <3>2, <3>3 DEF GuestWrite
    <2>3. ~undisturbed' /\ undisturbed' \in BOOLEAN
      BY <2>1 DEF GuestWrite, Disturb
    <2>4. UNCHANGED <<vpos, pixel, dma_active, check, enabled, drawn>>
      BY <2>1 DEF GuestWrite
    <2> QED  BY <1>1, <2>2, <2>3, <2>4 DEF SpritesInv, SpriteTypes, Sprites
  <1>5. CASE \E v \in BOOLEAN : SwitchSprites(v)
    BY <1>1, <1>5 DEF SwitchSprites, Disturb, SpritesInv, SpriteTypes, Sprites
  <1>6. CASE UNCHANGED sprite_vars
    BY <1>6 DEF SpritesInv, SpriteTypes, FieldSoFar, ControlPlaced, ControlHalf, SpriteFollowed, LinesDue, Awaited,
                Controlled, HalfWay, Ending, Seen, Settles, NoSprites, SlotOf, Sprites, sprite_vars
  <1> QED  BY <1>2, <1>3, <1>4, <1>5, <1>6 DEF SpritesNext

(* A sprite whose control words are due has had all of its lines *)
LEMMA SpritesWhole == SpritesInv => WholeSprites
  <1> SUFFICES ASSUME SpritesInv, NEW s \in Sprites,
                      Fetches(s) /\ FetchControl(s) /\ FirstFetch(s) /\ vpos > FirstLine /\ undisturbed,
                      vstart[s] # drawn[s].at, ~drawn[s].again
               PROVE  drawn[s].lines = IF vstart[s] \in drawn[s].at .. vend[s] THEN vend[s] - vstart[s] ELSE 0
    BY DEF WholeSprites
  <1>1. /\ vstart[s] \in Nat /\ vend[s] \in Nat /\ drawn[s].at \in Nat /\ drawn[s].lines \in Nat
        /\ vpos \in Nat /\ s \in Nat /\ FirstLine \in Nat /\ SlotOf(s) \in Nat /\ pixel = SlotOf(s)
    BY SpritesAssumption DEF SpritesInv, SpriteTypes, Sprites, SlotOf, FirstFetch
  <1>2. vend[s] = vpos
    BY <1>1 DEF FetchControl
  <1>3. ControlPlaced(s) /\ SpriteFollowed(s)
    BY DEF SpritesInv, FieldSoFar
  <1>4. drawn[s].at < vpos /\ Controlled(s) /\ ~HalfWay(s)
    BY <1>1, <1>3 DEF ControlPlaced, Controlled, HalfWay
  <1>5. drawn[s].lines = LinesDue(s)
    BY <1>2, <1>3, <1>4 DEF SpriteFollowed
  <1> QED  BY <1>1, <1>2, <1>4, <1>5 DEF LinesDue

(***************************************************************************)
(* For any number of sprites, wherever their slots and however far ahead   *)
(* the comparison, whatever positions they are given and whatever the      *)
(* guest writes before: in a field in which it leaves them alone, no slot  *)
(* and no comparison is missed, although a position is made of two words:  *)
(* a sprite's next control words are fetched after a line of data for each *)
(* line it is put at, but for the two starts WholeSprites names.           *)
(***************************************************************************)
THEOREM WholeSpritesCorrect == SpritesSpec => []WholeSprites
  BY SpritesStart, SpritesFollow, SpritesWhole, PTL DEF SpritesSpec

-----------------------------------------------------------------------------
(***************************************************************************)
(* Bitplanes.  How far a line has come is a function of its cycle; the     *)
(* words of a plane are those of the schedule up to it.                    *)
(***************************************************************************)
NextClock == (hpos + 1) \div 2
Span == fetch_last - fetch_first
LastUnit == 8 * ((Span + 7) \div 8)
Turn == <<7, 3, 5, 1, 6, 2>>
WordsDue(p, c) ==
  IF p >= nbpls THEN 0
  ELSE IF regs.hires THEN (IF p < 4 THEN (c + p) \div 4 ELSE 0)
  ELSE (c + 7 - Turn[p + 1]) \div 8

BitplaneTypes ==
  /\ regs \in [ddfstrt : Starts, ddfstop : Stops, hires : BOOLEAN, bpu : PlaneCounts, scroll : [Sets -> Scrolls]]
  /\ hpos \in Nat /\ ddfcycle \in Nat /\ ddfend \in Nat /\ latched \in Nat
  /\ ddfst \in {"before_ddfstrt", "active", "ddfstop_passed", "stopped"}
  /\ fetched_words \in [Planes -> Int] /\ bplpt \in [Planes -> Int]
  /\ bpl1dat_written \in BOOLEAN /\ bpldata_avail \subseteq Sets /\ shown \in [Sets -> Int]

FetchClock ==
  /\ regs.bpu = 0 => ddfst = "before_ddfstrt"
  /\ ddfst = "before_ddfstrt" => ddfcycle = 0 /\ ddfend = 0
  /\ ddfst = "active" =>
       /\ ddfend = 0 /\ ddfcycle > 0 /\ NextClock = fetch_first + ddfcycle
       /\ Span > 0 => ddfcycle <= Span
  /\ ddfst = "ddfstop_passed" =>
       /\ NextClock = fetch_first + ddfcycle /\ Span > 0 /\ ddfcycle > Span /\ ddfcycle <= LastUnit + 8
       /\ ddfend = IF ddfcycle > LastUnit THEN LastUnit + 8 ELSE 0
  /\ ddfst = "stopped" => Span > 0 /\ ddfcycle = LastUnit + 8 /\ ddfend = LastUnit + 8

ScheduleKept ==
  \A p \in Planes :
    /\ fetched_words[p] = WordsDue(p, ddfcycle)
    /\ bplpt[p] = fetched_words[p] + (IF ddfend # 0 /\ fetched_words[p] = LineWords THEN Modulo ELSE 0)

(* What waits for the shift registers came less than a set ago *)
Period == IF regs.hires THEN 4 ELSE 8
Age == 2 * (IF ddfcycle % Period = 0 THEN Period ELSE ddfcycle % Period) - (hpos % 2)
SetsWait ==
  /\ ddfst = "before_ddfstrt" => bpldata_avail = {}
  /\ bpl1dat_written => ddfst \in {"active", "ddfstop_passed"} /\ ddfcycle % Period = 0
  /\ ddfst \in {"active", "ddfstop_passed"} =>
       \A s \in bpldata_avail : \A j \in 1 .. Age : (hpos - j) % Mask # regs.scroll[s] % Mask

BitplanesInv == BitplaneTypes /\ FetchClock /\ ScheduleKept /\ SetsWait /\ SetsShownOnce

LEMMA PlanesUsed ==
  ASSUME BitplaneTypes
  PROVE  /\ nbpls \in 0 .. 6 /\ regs.bpu \in 0 .. 7 /\ (regs.bpu = 0 <=> nbpls = 0) /\ regs.hires \in BOOLEAN
         /\ fetch_first \in Nat /\ fetch_last \in Nat /\ Span \in Int /\ LastUnit \in Int
         /\ \A s \in Sets : regs.scroll[s] \in Nat
  <1>1. regs \in [ddfstrt : Starts, ddfstop : Stops, hires : BOOLEAN, bpu : PlaneCounts, scroll : [Sets -> Scrolls]]
    BY DEF BitplaneTypes
  <1>2. regs.bpu \in 0 .. 7 /\ regs.ddfstrt \in Nat /\ regs.ddfstop \in Nat /\ regs.hires \in BOOLEAN
        /\ regs.scroll \in [Sets -> Scrolls]
    BY <1>1, BitplanesAssumption
  <1>3. fetch_first \in Nat /\ fetch_last \in Nat
    BY <1>2, BitplanesAssumption DEF fetch_first, fetch_last
  <1>4. Span \in Int /\ LastUnit \in Int
    BY <1>3 DEF Span, LastUnit
  <1>5. \A s \in Sets : regs.scroll[s] \in Nat
    BY <1>2, BitplanesAssumption
  <1> QED  BY <1>2, <1>3, <1>4, <1>5 DEF nbpls

(* The place of a cycle in its unit of eight *)
LEMMA InUnits ==
  ASSUME NEW c \in Nat
  PROVE  \E k \in Nat, r \in 0 .. 7 : c = 8 * k + r /\ c % 8 = r /\ c \div 8 = k
  <1>1. c = 8 * (c \div 8) + (c % 8) /\ c % 8 \in 0 .. 7 /\ c \div 8 \in Nat
    OBVIOUS
  <1> QED  BY <1>1

(* A plane's count moves in the cycles in which it is scheduled *)
LEMMA CountScheduled ==
  ASSUME BitplaneTypes, NEW p \in Planes, NEW c \in Nat
  PROVE  /\ WordsDue(p, c) \in Nat /\ WordsDue(p, 0) = 0
         /\ WordsDue(p, c + 1) = WordsDue(p, c) + (IF Scheduled(c) = p /\ p < nbpls THEN 1 ELSE 0)
  <1>1. PICK k \in Nat, r \in 0 .. 7 : c = 8 * k + r /\ c % 8 = r
    BY InUnits
  <1>2. nbpls \in 0 .. 6 /\ regs.hires \in BOOLEAN /\ p \in 0 .. 5
    BY PlanesUsed DEF Planes
  <1>3. CASE p >= nbpls
    BY <1>2, <1>3 DEF WordsDue
  <1>4. CASE p < nbpls /\ regs.hires
    <2>1. Scheduled(c) = IF r < 4 THEN 3 - r ELSE 7 - r
      BY <1>1, <1>4 DEF Scheduled, hires_bpl_sched
    <2>2. CASE p < 4
      <3>1. WordsDue(p, c) = (c + p) \div 4 /\ WordsDue(p, c + 1) = (c + 1 + p) \div 4 /\ WordsDue(p, 0) = (0 + p) \div 4
        BY <1>2, <1>4, <2>2 DEF WordsDue
      <3> QED  BY <1>1, <1>2, <1>4, <2>1, <2>2, <3>1
    <2>3. CASE p >= 4
      BY <1>2, <1>4, <2>1, <2>3 DEF WordsDue
    <2> QED  BY <1>2, <2>2, <2>3
  <1>5. CASE p < nbpls /\ ~regs.hires
    <2>1. Scheduled(c) = <<0, 4, 6, 2, 0, 3, 5, 1>>[r + 1] - 1
      BY <1>1, <1>5 DEF Scheduled, lores_bpl_sched
    <2>2. Scheduled(c) = p <=> r = Turn[p + 1]
      BY <1>2, <2>1 DEF Turn
    <2>3. Turn[p + 1] \in 1 .. 7
      BY <1>2 DEF Turn
    <2>4. WordsDue(p, c) = (c + 7 - Turn[p + 1]) \div 8 /\ WordsDue(p, c + 1) = (c + 1 + 7 - Turn[p + 1]) \div 8
          /\ WordsDue(p, 0) = (0 + 7 - Turn[p + 1]) \div 8
      BY <1>2, <1>5 DEF WordsDue
    <2> DEFINE t == Turn[p + 1]
    <2> HIDE DEF t
    <2>5. /\ (8 * k + r + 7 - t) \div 8 = k + (IF r > t THEN 1 ELSE 0)
          /\ (8 * k + r + 1 + 7 - t) \div 8 = k + (IF r >= t THEN 1 ELSE 0)
          /\ (0 + 7 - t) \div 8 = 0
      BY <2>3 DEF t
    <2> QED  BY <1>1, <1>2, <1>5, <2>2, <2>3, <2>4, <2>5 DEF t
  <1> QED  BY <1>2, <1>3, <1>4, <1>5

(* The last word of a plane comes in the last unit, and with it the modulo  *)
LEMMA LastWords ==
  ASSUME BitplaneTypes, Span > 0, NEW p \in Planes, NEW r \in 0 .. 7
  PROVE  LET c == LastUnit + r
             got == Scheduled(c) = p /\ p < nbpls
         IN  /\ LastUnit \in Nat
             /\ WordsDue(p, LastUnit) # LineWords
             /\ WordsDue(p, c) # LineWords =>
                  (WordsDue(p, c + 1) = LineWords <=> got /\ (~regs.hires \/ c % 8 > 3))
             /\ WordsDue(p, c) = LineWords => ~got
             /\ WordsDue(p, LastUnit + 8) =
                  IF p < (IF regs.hires /\ nbpls > 4 THEN 4 ELSE nbpls) THEN LineWords ELSE 0
  <1>1. nbpls \in 0 .. 6 /\ regs.hires \in BOOLEAN /\ p \in 0 .. 5 /\ Span \in Int
    BY PlanesUsed DEF Planes
  <1>2. PICK k \in Nat : k = (Span + 7) \div 8
    BY <1>1
  <1>3. LastUnit = 8 * k /\ Units = k + 1
    BY <1>2 DEF LastUnit, Units, Span
  <1>4. (8 * k + r) % 8 = r
    BY <1>2
  <1>5. CASE p >= nbpls
    <2>1. LineWords > 0
      BY <1>2, <1>3, <1>1 DEF LineWords
    <2>2. WordsDue(p, LastUnit) = 0 /\ WordsDue(p, LastUnit + r) = 0 /\ WordsDue(p, LastUnit + r + 1) = 0
          /\ WordsDue(p, LastUnit + 8) = 0
      BY <1>1, <1>5 DEF WordsDue
    <2> QED  BY <1>1, <1>2, <1>3, <1>5, <2>1, <2>2
  <1>6. CASE p < nbpls /\ regs.hires
    <2>1. LineWords = 2 * k + 2
      BY <1>2, <1>3, <1>6 DEF LineWords
    <2>2. Scheduled(LastUnit + r) = IF r < 4 THEN 3 - r ELSE 7 - r
      BY <1>3, <1>4, <1>6 DEF Scheduled, hires_bpl_sched
    <2>3. CASE p < 4
      <3>1. /\ WordsDue(p, LastUnit) = (8 * k + p) \div 4
            /\ WordsDue(p, LastUnit + r) = (8 * k + r + p) \div 4
            /\ WordsDue(p, LastUnit + r + 1) = (8 * k + r + 1 + p) \div 4
            /\ WordsDue(p, LastUnit + 8) = (8 * k + 8 + p) \div 4
        BY <1>1, <1>3, <1>6, <2>3 DEF WordsDue
      <3>2. /\ (8 * k + p) \div 4 = 2 * k
            /\ (8 * k + 8 + p) \div 4 = 2 * k + 2
            /\ (8 * k + r + p) \div 4 = 2 * k + (IF r + p < 4 THEN 0 ELSE IF r + p < 8 THEN 1 ELSE 2)
            /\ (8 * k + r + 1 + p) \div 4 = 2 * k + (IF r + 1 + p < 4 THEN 0 ELSE IF r + 1 + p < 8 THEN 1 ELSE 2)
        BY <1>1, <1>2, <2>3
      <3> QED  BY <1>1, <1>2, <1>3, <1>4, <1>6, <2>1, <2>2, <2>3, <3>1, <3>2
    <2>4. CASE p >= 4
      <3>1. WordsDue(p, LastUnit) = 0 /\ WordsDue(p, LastUnit + r) = 0 /\ WordsDue(p, LastUnit + r + 1) = 0
            /\ WordsDue(p, LastUnit + 8) = 0
        BY <1>1, <1>6, <2>4 DEF WordsDue
      <3> QED  BY <1>1, <1>2, <1>3, <1>6, <2>1, <2>2, <2>4, <3>1
    <2> QED  BY <1>1, <2>3, <2>4
  <1>7. CASE p < nbpls /\ ~regs.hires
    <2>1. LineWords = k + 1
      BY <1>2, <1>3, <1>7 DEF LineWords
    <2>2. Scheduled(LastUnit + r) = <<0, 4, 6, 2, 0, 3, 5, 1>>[r + 1] - 1
      BY <1>3, <1>4, <1>7 DEF Scheduled, lores_bpl_sched
    <2>3. Scheduled(LastUnit + r) = p <=> r = Turn[p + 1]
      BY <1>1, <2>2 DEF Turn
    <2>4. Turn[p + 1] \in 1 .. 7
      BY <1>1 DEF Turn
    <2> DEFINE t == Turn[p + 1]
    <2>5. /\ WordsDue(p, LastUnit) = (8 * k + 7 - t) \div 8
          /\ WordsDue(p, LastUnit + r) = (8 * k + r + 7 - t) \div 8
          /\ WordsDue(p, LastUnit + r + 1) = (8 * k + r + 1 + 7 - t) \div 8
          /\ WordsDue(p, LastUnit + 8) = (8 * k + 8 + 7 - t) \div 8
      BY <1>1, <1>3, <1>7 DEF WordsDue
    <2> HIDE DEF t
    <2>6. /\ (8 * k + 7 - t) \div 8 = k
          /\ (8 * k + 8 + 7 - t) \div 8 = k + 1
          /\ (8 * k + r + 7 - t) \div 8 = k + (IF r > t THEN 1 ELSE 0)
          /\ (8 * k + r + 1 + 7 - t) \div 8 = k + (IF r >= t THEN 1 ELSE 0)
      BY <1>2, <2>4 DEF t
    <2> QED  BY <1>1, <1>2, <1>3, <1>7, <2>1, <2>3, <2>4, <2>5, <2>6 DEF t
  <1> QED  BY <1>1, <1>5, <1>6, <1>7

(* DDFSTOP is met in the last unit but one, or at its end *)
LEMMA UnitsOfSpan ==
  ASSUME BitplaneTypes, Span > 0
  PROVE  /\ LastUnit \in Nat /\ Span <= LastUnit /\ LastUnit % 8 = 0
         /\ \A c \in Nat : c >= Span /\ c <= LastUnit => (c % 8 = 0 <=> c = LastUnit)
  <1>1. Span \in Int
    BY PlanesUsed
  <1>2. PICK k \in Nat : k = (Span + 7) \div 8
    BY <1>1
  <1>3. LastUnit = 8 * k
    BY <1>2 DEF LastUnit
  <1>4. Span <= 8 * k /\ 8 * k < Span + 8
    BY <1>1, <1>2
  <1>5. ASSUME NEW c \in Nat, c >= Span, c <= LastUnit PROVE c % 8 = 0 <=> c = LastUnit
    BY <1>1, <1>2, <1>3, <1>4, <1>5
  <1> QED  BY <1>2, <1>3, <1>4, <1>5

(* A clock that fetches nothing, or the next cycle of the schedule *)
Idles ==
  /\ ddfst' = ddfst \/ (ddfst = "ddfstop_passed" /\ ddfst' = "stopped")
  /\ ddfst' \in {"before_ddfstrt", "stopped"}
  /\ UNCHANGED <<ddfcycle, ddfend, fetched_words, bplpt>> /\ bpl1dat_written' = FALSE
FetchesOne ==
  /\ ddfst' \in {"active", "ddfstop_passed"} /\ ddfcycle' = ddfcycle + 1 /\ ddfend' = Final
  /\ Final # 0 => Span > 0 /\ Final = LastUnit + 8 /\ ddfcycle >= LastUnit /\ ddfcycle < LastUnit + 8
  /\ Final = 0 \/ (ddfend = 0 => ddfcycle = LastUnit)
  /\ Final = 0 => ddfend = 0
  /\ ddfst # "stopped" /\ (ddfst = "before_ddfstrt" => ddfcycle = 0)
  /\ \A p \in Planes :
       LET got == Scheduled(ddfcycle) = p /\ p < nbpls
       IN  /\ fetched_words'[p] = fetched_words[p] + (IF got THEN 1 ELSE 0)
           /\ bplpt'[p] = bplpt[p] + (IF got THEN 1 + (IF Final # 0 /\ (~regs.hires \/ ddfcycle % 8 > 3) THEN Modulo ELSE 0) ELSE 0)
  /\ bpl1dat_written' => Scheduled(ddfcycle) = 0

LEMMA ClockOfFetch ==
  ASSUME BitplaneTypes, FetchClock, cck_tick, regs.bpu > 0, BitplaneFetch, hpos' = hpos + 1, UNCHANGED regs
  PROVE  (Idles \/ FetchesOne) /\ FetchClock'
  <1>1. /\ NextClock = colclock /\ NextClock' = colclock + 1 /\ colclock \in Nat
        /\ ddfcycle \in Nat /\ ddfend \in Nat /\ Modulo \in Int
    BY BitplanesAssumption DEF NextClock, cck_tick, colclock, BitplaneTypes
  <1>2. /\ fetch_first \in Nat /\ fetch_last \in Nat /\ Span = fetch_last - fetch_first /\ nbpls \in 0 .. 6
        /\ nbpls > 0 /\ regs.bpu # 0
    BY PlanesUsed DEF Span
  <1>3. /\ Span' = Span /\ LastUnit' = LastUnit /\ fetch_first' = fetch_first /\ regs'.bpu # 0
    BY <1>2 DEF Span, LastUnit, fetch_first, fetch_last
  <1>4. /\ ddfst' = State
        /\ ddfcycle' = IF State \in {"active", "ddfstop_passed"} THEN Cycle + 1 ELSE Cycle
        /\ ddfend' = IF State \in {"active", "ddfstop_passed"} THEN Final ELSE FinalFrom
    BY DEF BitplaneFetch
  <1>5. ASSUME State \notin {"active", "ddfstop_passed"}, Cycle = ddfcycle, FinalFrom = ddfend
        PROVE  /\ UNCHANGED <<ddfcycle, ddfend, fetched_words, bplpt>> /\ bpl1dat_written' = FALSE
    <2>1. fetched_words' = [p \in Planes |-> fetched_words[p]] /\ bplpt' = [p \in Planes |-> bplpt[p]]
          /\ bpl1dat_written' = FALSE
      BY <1>5 DEF BitplaneFetch
    <2> QED  BY <1>4, <1>5, <2>1 DEF BitplaneTypes
  <1>6. ASSUME State \in {"active", "ddfstop_passed"}, Cycle = ddfcycle
        PROVE  /\ \A p \in Planes :
                    LET got == Scheduled(ddfcycle) = p /\ p < nbpls
                    IN  /\ fetched_words'[p] = fetched_words[p] + (IF got THEN 1 ELSE 0)
                        /\ bplpt'[p] = bplpt[p] + (IF got THEN 1 + (IF Final # 0 /\ (~regs.hires \/ ddfcycle % 8 > 3) THEN Modulo ELSE 0) ELSE 0)
               /\ bpl1dat_written' => Scheduled(ddfcycle) = 0
    <2>1. ASSUME NEW p \in Planes
          PROVE  LET got == Scheduled(ddfcycle) = p /\ p < nbpls
                 IN  /\ fetched_words'[p] = fetched_words[p] + (IF got THEN 1 ELSE 0)
                     /\ bplpt'[p] = bplpt[p] + (IF got THEN 1 + (IF Final # 0 /\ (~regs.hires \/ ddfcycle % 8 > 3) THEN Modulo ELSE 0) ELSE 0)
      <3>1. fetched_words[p] \in Int /\ bplpt[p] \in Int /\ p \in 0 .. 5
        BY DEF BitplaneTypes, Planes
      <3> DEFINE plane == Scheduled(Cycle)
      <3>2. /\ fetched_words'[p] = IF plane \in 0 .. nbpls - 1 /\ p = plane THEN fetched_words[p] + 1 ELSE fetched_words[p]
            /\ bplpt'[p] = IF plane \in 0 .. nbpls - 1 /\ p = plane
                           THEN bplpt[p] + 1 + (IF AddsModulo THEN Modulo ELSE 0) ELSE bplpt[p]
        BY <1>6 DEF BitplaneFetch
      <3>3. plane \in 0 .. nbpls - 1 /\ p = plane <=> Scheduled(ddfcycle) = p /\ p < nbpls
        BY <1>2, <1>6, <3>1
      <3>4. AddsModulo <=> Final # 0 /\ (~regs.hires \/ ddfcycle % 8 > 3)
        BY <1>6 DEF AddsModulo
      <3> QED  BY <1>1, <3>1, <3>2, <3>3, <3>4
    <2>2. bpl1dat_written' => Scheduled(ddfcycle) = 0
      BY <1>6 DEF BitplaneFetch
    <2> QED  BY <2>1, <2>2
  <1>7. CASE ddfst = "before_ddfstrt" /\ colclock # fetch_first
    <2>1. State = "before_ddfstrt" /\ Cycle = ddfcycle /\ FinalFrom = ddfend
      BY <1>7 DEF State, Cycle, FinalFrom
    <2> QED  BY <1>3, <1>4, <1>5, <1>7, <2>1 DEF FetchClock, Idles
  <1>8. CASE ddfst = "before_ddfstrt" /\ colclock = fetch_first
    <2>1. State = "active" /\ Cycle = 0 /\ ddfcycle = 0 /\ FinalFrom = 0 /\ ddfend = 0
      BY <1>8 DEF State, Cycle, FinalFrom, FetchClock
    <2>2. Final = 0
      BY <2>1 DEF Final
    <2> QED  BY <1>1, <1>2, <1>3, <1>4, <1>6, <1>8, <2>1, <2>2 DEF FetchClock, FetchesOne
  <1>9. CASE ddfst = "active" /\ colclock # fetch_last
    <2>1. State = "active" /\ Cycle = ddfcycle /\ FinalFrom = 0 /\ ddfend = 0
      BY <1>9 DEF State, Cycle, FinalFrom, FetchClock
    <2>2. Final = 0
      BY <2>1 DEF Final
    <2>3. colclock = fetch_first + ddfcycle /\ (Span > 0 => ddfcycle <= Span)
      BY <1>1, <1>9 DEF FetchClock
    <2> QED  BY <1>1, <1>2, <1>3, <1>4, <1>6, <1>9, <2>1, <2>2, <2>3 DEF FetchClock, FetchesOne
  <1>10. CASE ddfst = "active" /\ colclock = fetch_last
    <2>1. State = "ddfstop_passed" /\ Cycle = ddfcycle /\ FinalFrom = 0 /\ ddfend = 0
      BY <1>10 DEF State, Cycle, FinalFrom, FetchClock
    <2>2. colclock = fetch_first + ddfcycle /\ ddfcycle = Span /\ Span > 0
      BY <1>1, <1>2, <1>10 DEF FetchClock
    <2>3. Final = (IF Aligned(ddfcycle) THEN ddfcycle + 8 ELSE 0) /\ (Aligned(ddfcycle) <=> ddfcycle = LastUnit)
      BY <1>1, <2>1, <2>2, UnitsOfSpan DEF Final, Aligned
    <2>4. LastUnit \in Nat /\ Span <= LastUnit
      BY <2>2, UnitsOfSpan
    <2> QED  BY <1>1, <1>2, <1>3, <1>4, <1>6, <1>10, <2>1, <2>2, <2>3, <2>4 DEF FetchClock, FetchesOne
  <1>11. CASE ddfst = "ddfstop_passed" /\ ddfcycle # ddfend
    <2>1. State = "ddfstop_passed" /\ Cycle = ddfcycle /\ FinalFrom = ddfend
      BY <1>11 DEF State, Cycle, FinalFrom
    <2>2. /\ colclock = fetch_first + ddfcycle /\ Span > 0 /\ ddfcycle > Span /\ ddfcycle <= LastUnit + 8
          /\ ddfend = IF ddfcycle > LastUnit THEN LastUnit + 8 ELSE 0
      BY <1>1, <1>11 DEF FetchClock
    <2>3. LastUnit \in Nat /\ Span <= LastUnit
      BY <2>2, UnitsOfSpan
    <2>4. ddfcycle <= LastUnit => (Aligned(ddfcycle) <=> ddfcycle = LastUnit)
      BY <1>1, <1>2, <2>2, UnitsOfSpan DEF Aligned
    <2>5. Final = IF ddfend = 0 /\ Aligned(ddfcycle) THEN ddfcycle + 8 ELSE ddfend
      BY <2>1 DEF Final
    <2> QED  BY <1>1, <1>2, <1>3, <1>4, <1>6, <1>11, <2>1, <2>2, <2>3, <2>4, <2>5 DEF FetchClock, FetchesOne
  <1>12. CASE ddfst = "ddfstop_passed" /\ ddfcycle = ddfend
    <2>1. State = "stopped" /\ Cycle = ddfcycle /\ FinalFrom = ddfend
      BY <1>12 DEF State, Cycle, FinalFrom
    <2>2. /\ Span > 0 /\ ddfcycle > Span /\ ddfcycle <= LastUnit + 8
          /\ ddfend = IF ddfcycle > LastUnit THEN LastUnit + 8 ELSE 0
      BY <1>12 DEF FetchClock
    <2>3. ddfcycle = LastUnit + 8 /\ ddfend = LastUnit + 8
      BY <1>1, <1>2, <1>12, <2>2
    <2> QED  BY <1>3, <1>4, <1>5, <1>12, <2>1, <2>2, <2>3 DEF FetchClock, Idles
  <1>13. CASE ddfst = "stopped"
    <2>1. State = "stopped" /\ Cycle = ddfcycle /\ FinalFrom = ddfend
      BY <1>13 DEF State, Cycle, FinalFrom
    <2> QED  BY <1>3, <1>4, <1>5, <1>13, <2>1 DEF FetchClock, Idles
  <1> QED  BY <1>7, <1>8, <1>9, <1>10, <1>11, <1>12, <1>13 DEF BitplaneTypes

LEMMA BitplanesTyped ==
  ASSUME BitplaneTypes, BitplaneStep
  PROVE  BitplaneTypes'
  <1>1. hpos \in Nat /\ hpos' = hpos + 1 /\ UNCHANGED regs /\ Pixels
    BY DEF BitplaneStep, BitplaneTypes
  <1>2. latched' \in Nat /\ bpldata_avail' \subseteq Sets /\ shown' \in [Sets -> Int]
    BY <1>1 DEF Pixels, Available, BitplaneTypes
  <1>3. /\ ddfst' \in {"before_ddfstrt", "active", "ddfstop_passed", "stopped"}
        /\ ddfcycle' \in Nat /\ ddfend' \in Nat /\ bpl1dat_written' \in BOOLEAN
        /\ fetched_words' \in [Planes -> Int] /\ bplpt' \in [Planes -> Int]
    <2>1. CASE ~(cck_tick /\ regs.bpu > 0)
      BY <2>1 DEF BitplaneStep, BitplaneTypes
    <2>2. CASE cck_tick /\ regs.bpu > 0
      <3>1. BitplaneFetch
        BY <2>2 DEF BitplaneStep
      <3>2. State \in {"before_ddfstrt", "active", "ddfstop_passed", "stopped"}
            /\ Cycle \in Nat /\ FinalFrom \in Nat
        BY DEF State, Cycle, FinalFrom, BitplaneTypes
      <3>3. Final \in Nat
        BY <3>2 DEF Final
      <3>4. /\ ddfst' = State
            /\ ddfcycle' = IF State \in {"active", "ddfstop_passed"} THEN Cycle + 1 ELSE Cycle
            /\ ddfend' = IF State \in {"active", "ddfstop_passed"} THEN Final ELSE FinalFrom
        BY <3>1 DEF BitplaneFetch
      <3>5. bpl1dat_written' \in BOOLEAN
        BY <3>1, Zenon DEF BitplaneFetch
      <3>6. fetched_words' \in [Planes -> Int]
        BY <3>1 DEF BitplaneFetch, BitplaneTypes
      <3>7. bplpt' \in [Planes -> Int]
        <4>1. \A p \in Planes : bplpt[p] \in Int /\ Modulo \in Int
          BY BitplanesAssumption DEF BitplaneTypes
        <4> QED  BY <3>1, <4>1 DEF BitplaneFetch
      <3> QED  BY <3>2, <3>3, <3>4, <3>5, <3>6, <3>7
    <2> QED  BY <2>1, <2>2
  <1> QED  BY <1>1, <1>2, <1>3 DEF BitplaneTypes

(* Whatever the clock, the count and the pointer of every plane are right   *)
LEMMA ScheduleStep ==
  ASSUME BitplaneTypes, ScheduleKept, Idles \/ FetchesOne, UNCHANGED regs
  PROVE  ScheduleKept'
  <1>1. LineWords' = LineWords
    BY DEF LineWords, Units, fetch_first, fetch_last
  <1>2. \A p \in Planes, c \in Nat : WordsDue(p, c)' = WordsDue(p, c)
    BY DEF WordsDue, nbpls
  <1>3. ddfcycle \in Nat /\ ddfend \in Nat /\ Modulo \in Int /\ LineWords \in Int
    BY BitplanesAssumption, PlanesUsed DEF BitplaneTypes, LineWords, Units, Span
  <1>4. CASE Idles
    <2>1. UNCHANGED <<ddfcycle, ddfend, fetched_words, bplpt>>
      BY <1>4 DEF Idles
    <2>2. ASSUME NEW p \in Planes PROVE WordsDue(p, ddfcycle)' = WordsDue(p, ddfcycle)
      BY <2>1 DEF WordsDue, nbpls
    <2> QED  BY <1>1, <2>1, <2>2 DEF ScheduleKept, Planes
  <1>5. CASE FetchesOne
    <2>1. ddfcycle' = ddfcycle + 1 /\ ddfend' = Final
      BY <1>5 DEF FetchesOne
    <2> SUFFICES ASSUME NEW p \in Planes
                 PROVE  /\ fetched_words'[p] = WordsDue(p, ddfcycle)'
                        /\ bplpt'[p] = fetched_words'[p]
                                       + (IF ddfend' # 0 /\ fetched_words'[p] = LineWords THEN Modulo ELSE 0)
      BY <1>1 DEF ScheduleKept, Planes
    <2>2. WordsDue(p, ddfcycle)' = WordsDue(p, ddfcycle + 1)
      BY <2>1 DEF WordsDue, nbpls
    <2> DEFINE got == Scheduled(ddfcycle) = p /\ p < nbpls
    <2>3. /\ fetched_words[p] = WordsDue(p, ddfcycle) /\ WordsDue(p, ddfcycle) \in Nat
          /\ bplpt[p] = fetched_words[p] + (IF ddfend # 0 /\ fetched_words[p] = LineWords THEN Modulo ELSE 0)
          /\ WordsDue(p, ddfcycle + 1) = WordsDue(p, ddfcycle) + (IF got THEN 1 ELSE 0)
      BY <1>3, CountScheduled DEF ScheduleKept
    <2>4. /\ fetched_words'[p] = fetched_words[p] + (IF got THEN 1 ELSE 0)
          /\ bplpt'[p] = bplpt[p] + (IF got THEN 1 + (IF Final # 0 /\ (~regs.hires \/ ddfcycle % 8 > 3) THEN Modulo ELSE 0) ELSE 0)
      BY <1>5 DEF FetchesOne
    <2>5. CASE Final = 0
      <3>1. ddfend = 0
        BY <1>5, <2>5 DEF FetchesOne
      <3> HIDE DEF got
      <3> QED  BY <1>3, <2>1, <2>2, <2>3, <2>4, <2>5, <3>1
    <2>6. CASE Final # 0
      <3>1. Span > 0 /\ ddfcycle >= LastUnit /\ ddfcycle < LastUnit + 8 /\ (ddfend = 0 => ddfcycle = LastUnit)
        BY <1>5, <2>6 DEF FetchesOne
      <3>2. LastUnit \in Nat
        BY <3>1, UnitsOfSpan
      <3>3. PICK r \in 0 .. 7 : ddfcycle = LastUnit + r
        <4>1. ddfcycle - LastUnit \in 0 .. 7 /\ ddfcycle = LastUnit + (ddfcycle - LastUnit)
          BY <1>3, <3>1, <3>2
        <4> QED  BY <4>1
      <3>4. /\ WordsDue(p, LastUnit) # LineWords
            /\ WordsDue(p, ddfcycle) # LineWords =>
                 (WordsDue(p, ddfcycle + 1) = LineWords <=> got /\ (~regs.hires \/ ddfcycle % 8 > 3))
            /\ WordsDue(p, ddfcycle) = LineWords => ~got
        BY <3>1, <3>3, LastWords
      <3> HIDE DEF got
      <3>5. fetched_words'[p] = WordsDue(p, ddfcycle + 1)
        BY <2>3, <2>4
      <3>6. CASE fetched_words[p] = LineWords
        <4>1. ddfend # 0 /\ ~got
          BY <2>3, <3>1, <3>4, <3>6
        <4> QED  BY <1>3, <2>1, <2>2, <2>3, <2>4, <2>6, <3>5, <3>6, <4>1
      <3>7. CASE fetched_words[p] # LineWords
        <4>1. fetched_words'[p] = LineWords <=> got /\ (~regs.hires \/ ddfcycle % 8 > 3)
          BY <2>3, <3>4, <3>5, <3>7
        <4> QED  BY <1>3, <2>1, <2>2, <2>3, <2>4, <2>6, <3>5, <3>7, <4>1
      <3> QED  BY <3>6, <3>7
    <2> QED  BY <2>5, <2>6
  <1> QED  BY <1>4, <1>5

(* A set that waits has not been due since it came, and is before the next  *)
LEMMA DueInTime ==
  ASSUME NEW m \in {8, 16}, NEW h \in Nat, NEW d \in Nat
  PROVE  \E j \in 1 .. m : (h - j) % m = d % m
  <1>1. CASE m = 8
    <2> DEFINE j == IF h % 8 > d % 8 THEN (h % 8) - (d % 8) ELSE (h % 8) - (d % 8) + 8
    <2>1. j \in 1 .. 8 /\ (h - j) % 8 = d % 8
      OBVIOUS
    <2> QED  BY <1>1, <2>1
  <1>2. CASE m = 16
    <2> DEFINE j == IF h % 16 > d % 16 THEN (h % 16) - (d % 16) ELSE (h % 16) - (d % 16) + 16
    <2>1. j \in 1 .. 16 /\ (h - j) % 16 = d % 16
      OBVIOUS
    <2> QED  BY <1>2, <2>1
  <1> QED  BY <1>1, <1>2

LEMMA LastCycleOfSet ==
  ASSUME BitplaneTypes, NEW c \in Nat, Scheduled(c) = 0
  PROVE  (c + 1) % Period = 0
  <1>1. PICK k \in Nat, r \in 0 .. 7 : c = 8 * k + r /\ c % 8 = r
    BY InUnits
  <1>2. CASE regs.hires
    <2>1. Scheduled(c) = IF r < 4 THEN 3 - r ELSE 7 - r
      BY <1>1, <1>2 DEF Scheduled, hires_bpl_sched
    <2>2. r = 3 \/ r = 7
      BY <2>1
    <2>3. (c + 1) % 4 = 0
      BY <1>1, <2>2
    <2> QED  BY <1>2, <2>3 DEF Period
  <1>3. CASE ~regs.hires
    <2>1. Scheduled(c) = <<0, 4, 6, 2, 0, 3, 5, 1>>[r + 1] - 1
      BY <1>1, <1>3 DEF Scheduled, lores_bpl_sched
    <2>2. r = 7
      BY <2>1
    <2>3. (c + 1) % 8 = 0
      BY <1>1, <2>2
    <2> QED  BY <1>3, <2>3 DEF Period
  <1> QED  BY <1>2, <1>3

(* The sets before one has arrived were taken, and it waits less than a set *)
LEMMA SetsStep ==
  ASSUME BitplaneTypes, FetchClock, SetsWait, SetsShownOnce, BitplaneStep,
         cck_tick /\ regs.bpu > 0 => Idles \/ FetchesOne
  PROVE  SetsWait' /\ SetsShownOnce'
  <1>1. /\ hpos \in Nat /\ hpos' = hpos + 1 /\ regs' = regs /\ ddfcycle \in Nat /\ latched \in Nat
        /\ Period \in {4, 8} /\ Mask = 2 * Period /\ Mask \in {8, 16}
        /\ bpldata_avail \subseteq Sets /\ shown \in [Sets -> Int]
        /\ \A s \in Sets : regs.scroll[s] \in Nat
    BY PlanesUsed DEF BitplaneStep, BitplaneTypes, Period, Mask
  <1>2. /\ latched' = (IF cck_tick /\ bpl1dat_written THEN latched + 1 ELSE latched)
        /\ bpldata_avail' = {s \in Available : ~Due(s)}
        /\ \A s \in Sets : shown'[s] = IF Due(s) /\ s \in Available THEN shown[s] + 1 ELSE shown[s]
    BY DEF BitplaneStep, Pixels
  <1>3. ASSUME cck_tick, bpl1dat_written  PROVE bpldata_avail = {}
    <2>1. /\ ddfst \in {"active", "ddfstop_passed"} /\ ddfcycle % Period = 0
          /\ \A s \in bpldata_avail : \A j \in 1 .. Age : (hpos - j) % Mask # regs.scroll[s] % Mask
      BY <1>3 DEF SetsWait
    <2>2. Age = Mask
      BY <1>1, <1>3, <2>1 DEF Age, cck_tick
    <2>3. ASSUME NEW s \in bpldata_avail PROVE FALSE
      <3>1. \E j \in 1 .. Mask : (hpos - j) % Mask = regs.scroll[s] % Mask
        BY <1>1, DueInTime
      <3> QED  BY <2>1, <2>2, <3>1
    <2> QED  BY <2>3
  <1>4. Available = IF cck_tick /\ bpl1dat_written THEN Sets ELSE bpldata_avail
    BY DEF Available
  <1>5. SetsShownOnce'
    <2> SUFFICES ASSUME NEW s \in Sets
                 PROVE  shown'[s] = latched' - (IF s \in bpldata_avail' THEN 1 ELSE 0)
      BY DEF SetsShownOnce, Sets
    <2>1. shown[s] = latched - (IF s \in bpldata_avail THEN 1 ELSE 0) /\ shown[s] \in Int
      BY <1>1 DEF SetsShownOnce
    <2>2. s \in bpldata_avail' <=> s \in Available /\ ~Due(s)
      BY <1>1, <1>2, <1>4
    <2> QED  BY <1>1, <1>2, <1>3, <1>4, <2>1, <2>2
  <1>6. \A s \in bpldata_avail' : s \in Sets /\ s \in Available /\ hpos % Mask # regs.scroll[s] % Mask
    BY <1>1, <1>2, <1>4 DEF Due
  <1>7. ddfst' \in {"active", "ddfstop_passed"} =>
          \A s \in bpldata_avail' : \A j \in 1 .. Age' : (hpos' - j) % Mask # regs.scroll[s] % Mask
    <2> SUFFICES ASSUME ddfst' \in {"active", "ddfstop_passed"}, NEW s \in bpldata_avail', NEW j \in 1 .. Age'
                 PROVE  (hpos' - j) % Mask # regs.scroll[s] % Mask
      OBVIOUS
    <2>1. Age' = 2 * (IF ddfcycle' % Period = 0 THEN Period ELSE ddfcycle' % Period) - (hpos' % 2)
      BY <1>1 DEF Age, Period
    <2>2. CASE j = 1
      BY <1>1, <1>6, <2>2
    <2>3. CASE j # 1
      <3>1. Age' = Age + 1 /\ s \in bpldata_avail /\ ddfst \in {"active", "ddfstop_passed"}
        <4>1. CASE cck_tick /\ regs.bpu > 0
          <5>1. FetchesOne
            BY <4>1 DEF Idles
          <5>2. ddfcycle' = ddfcycle + 1 /\ ddfst # "stopped" /\ (ddfst = "before_ddfstrt" => ddfcycle = 0)
            BY <5>1 DEF FetchesOne
          <5>3. hpos' % 2 = 1 /\ hpos % 2 = 0
            BY <1>1, <4>1 DEF cck_tick
          <5>4. ddfcycle % Period # 0
            BY <1>1, <2>1, <2>3, <5>2, <5>3
          <5>5. s \in bpldata_avail
            BY <1>4, <1>6, <5>4 DEF SetsWait
          <5>6. ddfst # "before_ddfstrt"
            BY <1>1, <5>2, <5>4
          <5>7. Age' = Age + 1
            <6>1. Age = 2 * (ddfcycle % Period)
              BY <1>1, <5>3, <5>4 DEF Age
            <6>2. CASE Period = 4
              BY <1>1, <2>1, <5>2, <5>3, <5>4, <6>1, <6>2
            <6>3. CASE Period = 8
              BY <1>1, <2>1, <5>2, <5>3, <5>4, <6>1, <6>3
            <6> QED  BY <1>1, <6>2, <6>3
          <5> QED  BY <5>2, <5>5, <5>6, <5>7 DEF BitplaneTypes
        <4>2. CASE ~(cck_tick /\ regs.bpu > 0)
          <5>1. UNCHANGED <<ddfst, ddfcycle>>
            BY <4>2 DEF BitplaneStep
          <5>2. regs.bpu # 0
            BY <5>1 DEF FetchClock
          <5>3. regs.bpu \in Nat
            BY PlanesUsed
          <5>4. ~cck_tick
            BY <4>2, <5>2, <5>3
          <5>5. hpos' % 2 = 0 /\ hpos % 2 = 1
            BY <1>1, <5>4 DEF cck_tick
          <5>6. Age' = Age + 1
            BY <1>1, <2>1, <5>1, <5>5 DEF Age
          <5> QED  BY <1>4, <1>6, <5>1, <5>4, <5>6
        <4> QED  BY <4>1, <4>2
      <3>2. j - 1 \in 1 .. Age /\ hpos' - j = hpos - (j - 1)
        BY <1>1, <2>3, <3>1 DEF Age
      <3> QED  BY <3>1, <3>2 DEF SetsWait
    <2> QED  BY <2>2, <2>3
  <1>8. ddfst' = "before_ddfstrt" => bpldata_avail' = {}
    <2> SUFFICES ASSUME ddfst' = "before_ddfstrt" PROVE bpldata_avail' = {}
      OBVIOUS
    <2>1. ddfst = "before_ddfstrt"
      BY DEF BitplaneStep, Idles, FetchesOne
    <2>2. bpldata_avail = {} /\ ~bpl1dat_written
      BY <2>1 DEF SetsWait
    <2> QED  BY <1>2, <1>4, <2>2
  <1>9. bpl1dat_written' => ddfst' \in {"active", "ddfstop_passed"} /\ ddfcycle' % Period = 0
    <2>1. CASE cck_tick /\ regs.bpu > 0
      <3> SUFFICES ASSUME bpl1dat_written' PROVE ddfst' \in {"active", "ddfstop_passed"} /\ ddfcycle' % Period = 0
        OBVIOUS
      <3>1. FetchesOne
        BY <2>1 DEF Idles
      <3> QED  BY <1>1, <3>1, LastCycleOfSet DEF FetchesOne
    <2>2. CASE ~(cck_tick /\ regs.bpu > 0)
      <3>1. UNCHANGED <<ddfst, ddfcycle, bpl1dat_written>>
        BY <2>2 DEF BitplaneStep
      <3> QED  BY <3>1 DEF SetsWait
    <2> QED  BY <2>1, <2>2
  <1>10. Period' = Period /\ Mask' = Mask
    BY <1>1 DEF Period, Mask
  <1>11. SetsWait'
    BY <1>1, <1>7, <1>8, <1>9, <1>10 DEF SetsWait
  <1> QED  BY <1>5, <1>11

LEMMA BitplanesStart == BitplaneInit => BitplanesInv
  <1> SUFFICES ASSUME BitplaneInit PROVE BitplanesInv
    OBVIOUS
  <1>1. BitplaneTypes
    <2>1. /\ fetched_words \in [Planes -> Int] /\ bplpt \in [Planes -> Int] /\ shown \in [Sets -> Int]
      BY DEF BitplaneInit
    <2>2. regs \in [ddfstrt : Starts, ddfstop : Stops, hires : BOOLEAN, bpu : PlaneCounts, scroll : [Sets -> Scrolls]]
      BY Zenon DEF BitplaneInit
    <2>3. /\ hpos \in Nat /\ ddfcycle \in Nat /\ ddfend \in Nat /\ latched \in Nat
          /\ ddfst = "before_ddfstrt" /\ bpl1dat_written \in BOOLEAN /\ bpldata_avail = {}
      BY DEF BitplaneInit
    <2> QED  BY <2>1, <2>2, <2>3 DEF BitplaneTypes
  <1>2. FetchClock /\ SetsWait /\ SetsShownOnce
    <2>1. /\ ddfst = "before_ddfstrt" /\ ddfcycle = 0 /\ ddfend = 0 /\ bpldata_avail = {} /\ latched = 0
          /\ ~bpl1dat_written /\ \A s \in Sets : shown[s] = 0
      BY DEF BitplaneInit
    <2> QED  BY <2>1 DEF FetchClock, SetsWait, SetsShownOnce
  <1>3. ScheduleKept
    BY <1>1, CountScheduled DEF BitplaneInit, ScheduleKept
  <1> QED  BY <1>1, <1>2, <1>3 DEF BitplanesInv

LEMMA BitplanesFollow == BitplanesInv /\ [BitplaneStep]_bitplane_vars => BitplanesInv'
  <1> SUFFICES ASSUME BitplanesInv, [BitplaneStep]_bitplane_vars PROVE BitplanesInv'
    OBVIOUS
  <1>1. BitplaneTypes /\ FetchClock /\ ScheduleKept /\ SetsWait /\ SetsShownOnce
    BY DEF BitplanesInv
  <1>2. CASE BitplaneStep
    <2>1. hpos' = hpos + 1 /\ UNCHANGED regs /\ hpos \in Nat /\ regs.bpu \in Nat
      BY <1>1, <1>2, PlanesUsed DEF BitplaneStep, BitplaneTypes
    <2>2. CASE cck_tick /\ regs.bpu > 0
      <3>1. BitplaneFetch
        BY <1>2, <2>2 DEF BitplaneStep
      <3>2. (Idles \/ FetchesOne) /\ FetchClock'
        BY <1>1, <2>1, <2>2, <3>1, ClockOfFetch
      <3> QED  BY <1>1, <1>2, <2>1, <3>2, BitplanesTyped, ScheduleStep, SetsStep DEF BitplanesInv
    <2>3. CASE ~(cck_tick /\ regs.bpu > 0)
      <3>1. UNCHANGED <<ddfst, ddfcycle, ddfend, fetched_words, bplpt, bpl1dat_written>>
        BY <1>2, <2>3 DEF BitplaneStep
      <3>2. ScheduleKept'
        <4>1. LineWords' = LineWords
          BY <2>1 DEF LineWords, Units, fetch_first, fetch_last
        <4>2. ASSUME NEW p \in Planes PROVE WordsDue(p, ddfcycle)' = WordsDue(p, ddfcycle)
          BY <2>1, <3>1 DEF WordsDue, nbpls
        <4> QED  BY <1>1, <3>1, <4>1, <4>2 DEF ScheduleKept, Planes
      <3>3. FetchClock'
        <4>1. Span' = Span /\ LastUnit' = LastUnit /\ fetch_first' = fetch_first
          BY <2>1 DEF Span, LastUnit, fetch_first, fetch_last
        <4>2. ddfst = "before_ddfstrt" \/ NextClock' = NextClock
          <5>1. regs.bpu # 0 => hpos % 2 # 0
            BY <2>1, <2>3 DEF cck_tick
          <5> QED  BY <1>1, <2>1, <5>1 DEF NextClock, FetchClock
        <4> QED  BY <1>1, <2>1, <3>1, <4>1, <4>2 DEF FetchClock
      <3> QED  BY <1>1, <1>2, <2>3, <3>2, <3>3, BitplanesTyped, SetsStep DEF BitplanesInv
    <2> QED  BY <2>2, <2>3
  <1>3. CASE UNCHANGED bitplane_vars
    <2>1. UNCHANGED <<regs, hpos, ddfst, ddfcycle, ddfend, fetched_words, bplpt,
                      bpl1dat_written, bpldata_avail, latched, shown>>
      BY <1>3 DEF bitplane_vars
    <2>2. BitplaneTypes' /\ SetsShownOnce' /\ SetsWait'
      BY <1>1, <2>1 DEF BitplaneTypes, SetsShownOnce, SetsWait, Age, Period, Mask, Sets, Planes
    <2>3. FetchClock'
      BY <1>1, <2>1 DEF FetchClock, Span, LastUnit, fetch_first, fetch_last, NextClock
    <2>4. ScheduleKept'
      BY <1>1, <2>1 DEF ScheduleKept, WordsDue, nbpls, Planes, LineWords, Units, fetch_first, fetch_last
    <2> QED  BY <2>2, <2>3, <2>4 DEF BitplanesInv
  <1> QED  BY <1>2, <1>3

LEMMA BitplanesShown == BitplanesInv => LineShown
  <1> SUFFICES ASSUME BitplanesInv, ddfst = "stopped", NEW p \in Planes
               PROVE  IF p < (IF regs.hires /\ nbpls > 4 THEN 4 ELSE nbpls)
                      THEN fetched_words[p] = LineWords /\ bplpt[p] = LineWords + Modulo
                      ELSE fetched_words[p] = 0 /\ bplpt[p] = 0
    BY DEF LineShown, LineFetched, BitplanesInv
  <1>1. Span > 0 /\ ddfcycle = LastUnit + 8 /\ ddfend = LastUnit + 8 /\ BitplaneTypes
    BY DEF BitplanesInv, FetchClock
  <1>2. LastUnit \in Nat
    BY <1>1, UnitsOfSpan
  <1>3. fetched_words[p] = WordsDue(p, LastUnit + 8)
        /\ bplpt[p] = fetched_words[p] + (IF fetched_words[p] = LineWords THEN Modulo ELSE 0)
    BY <1>1, <1>2 DEF BitplanesInv, ScheduleKept
  <1>4. WordsDue(p, LastUnit + 8) = IF p < (IF regs.hires /\ nbpls > 4 THEN 4 ELSE nbpls) THEN LineWords ELSE 0
    <2>1. 0 \in 0 .. 7
      OBVIOUS
    <2> QED  BY <1>1, <2>1, LastWords
  <1>5. LineWords \in Nat \ {0}
    <2>1. Span \in Int /\ Units = ((Span + 7) \div 8) + 1
      BY <1>1, PlanesUsed DEF Units, Span
    <2> QED  BY <1>1, <2>1 DEF LineWords
  <1> QED  BY <1>3, <1>4, <1>5

(***************************************************************************)
(* For any display window the code can be given, any number of planes, any *)
(* scroll and modulo, lores and hires: each plane in use fetches the       *)
(* manual's number of words and moves by its modulo once, and every set of *)
(* words is taken once by each shift register, before the next arrives.    *)
(***************************************************************************)
THEOREM LineShownCorrect == BitplaneSpec => []LineShown
  BY BitplanesStart, BitplanesFollow, BitplanesShown, PTL DEF BitplaneSpec
=============================================================================
