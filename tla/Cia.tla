-------------------------------- MODULE Cia --------------------------------
(***************************************************************************)
(* The inside of the two CIAs (cia.cpp): a timer, the time-of-day counter  *)
(* with its latch and its alarm, and the keyboard's ring behind CIA-A's    *)
(* serial register.  What becomes of an interrupt is Interrupts, the ports *)
(* that select and step the drives are Floppy.                             *)
(*                                                                         *)
(* Registers have Digit values where the code has 256; the timers have two *)
(* digits and the counter three, and one more that is never shown.         *)
(***************************************************************************)
EXTENDS Integers, Sequences

CONSTANTS
  Digit,        (* values of a register                                    *)
  BufferSize,   (* sizeof(kbd_.buffer_)                                    *)
  IndexMod,     (* where the ring's uint8_t indices wrap: a multiple of it *)
  Keys,         (* what the keyboard sends: a key with its up or down      *)
  MaxKeys       (* bound on the keys typed                                 *)

ASSUME CiaAssumption ==
  /\ Digit \in Nat /\ Digit > 0 /\ MaxKeys \in Nat
  /\ BufferSize \in Nat /\ BufferSize > 0
  /\ IndexMod \in Nat /\ IndexMod > BufferSize /\ IndexMod % BufferSize = 0

TimerMod == Digit * Digit
TodMod == Digit * Digit * Digit
CounterMod == TodMod * Digit

VARIABLES
  start, runmode,          (* bits of the control registers, [Timers -> BOOLEAN] *)
  spmode,                  (* CRA: the serial port sends                   *)
  alarm_mode,              (* CRB: TOD writes set the alarm                *)
  timer_val, timer_latch, start_delay,
  due,                     (* ticks till the timer must underflow, or Off  *)
  fired,                   (* the causes triggered by the last step        *)
  counter, counter_latch, alarm,
  tod_read, tod_asked,     (* what a read of hi, mid and lo has told, and the *)
                           (* time when it began                           *)
  buffer, head, tail, ack, sdrdata,
  typed, received          (* the keys that found room, and those sent on  *)

timer == <<start, runmode, timer_val, timer_latch, start_delay, due>>
tod == <<alarm_mode, counter, counter_latch, alarm, tod_read, tod_asked>>
keyboard == <<spmode, buffer, head, tail, ack, sdrdata, typed, received>>
cia == <<timer, tod, keyboard, fired>>

Timers == {"A", "B"}
Off == -1
NoLatch == -1
Low(v) == v % Digit
Mid(v) == (v \div Digit) % Digit
High(v) == (v \div (Digit * Digit)) % Digit
WithLow(v, d) == v - Low(v) + d
WithMid(v, d) == v + (d - Mid(v)) * Digit
WithHigh(v, d) == v + (d - High(v)) * Digit * Digit

-----------------------------------------------------------------------------
(* Timers.  A value of 0 counts down from the top.                          *)
cia_start_delay == 2

Ticks(v) == IF v = 0 THEN TimerMod ELSE v

(* Mutant: the value is counted while the timer is not running yet *)
CountsAlways(delay) == TRUE

Counts(delay) == delay = 0

(* One timer's turn in step(): its start, value and delay after it          *)
Ticked(t) ==
  LET val == (timer_val[t] - 1) % TimerMod
  IN  IF ~start[t] THEN [start |-> FALSE, val |-> timer_val[t], delay |-> start_delay[t], fires |-> FALSE]
      ELSE IF ~Counts(start_delay[t])
      THEN [start |-> TRUE, val |-> timer_val[t], delay |-> start_delay[t] - 1, fires |-> FALSE]
      ELSE [start |-> val # 0 \/ ~runmode[t], val |-> IF val = 0 THEN timer_latch[t] ELSE val,
            delay |-> start_delay[t], fires |-> val = 0]

(* What the hardware manual says, in ticks *)
DueAfterTick(t) ==
  IF due[t] = Off \/ due[t] > 1 THEN (IF due[t] = Off THEN Off ELSE due[t] - 1)
  ELSE IF runmode[t] THEN Off ELSE Ticks(timer_latch[t])

TimersTick ==
  /\ start' = [t \in Timers |-> Ticked(t).start]
  /\ timer_val' = [t \in Timers |-> Ticked(t).val]
  /\ start_delay' = [t \in Timers |-> Ticked(t).delay]
  /\ due' = [t \in Timers |-> DueAfterTick(t)]
  /\ UNCHANGED <<runmode, timer_latch>>

WriteTimerLow(t, d) ==
  /\ timer_latch' = [timer_latch EXCEPT ![t] = WithLow(@, d)]
  /\ fired' = {} /\ UNCHANGED <<start, runmode, timer_val, start_delay, due, tod, keyboard>>

(* tbhi_write *)
WriteTimerHigh(t, d) ==
  LET latch == WithMid(timer_latch[t], d)
      delay == cia_start_delay + 1
  IN  /\ timer_latch' = [timer_latch EXCEPT ![t] = latch]
      /\ timer_val' = [timer_val EXCEPT ![t] = IF runmode[t] \/ ~start[t] THEN latch ELSE @]
      /\ IF runmode[t]
         THEN /\ start' = [start EXCEPT ![t] = TRUE]
              /\ start_delay' = [start_delay EXCEPT ![t] = delay]
              /\ due' = [due EXCEPT ![t] = delay + Ticks(latch)]
         ELSE UNCHANGED <<start, start_delay, due>>
      /\ fired' = {} /\ UNCHANGED <<runmode, tod, keyboard>>

Handshake(sends) == ack \/ (sends /\ ~spmode)

(* A write to a control register; the bit is SPMODE in CRA, ALARM in CRB    *)
WriteControl(t, on, oneshot, load, bit) ==
  LET value == IF load THEN timer_latch[t] ELSE timer_val[t] IN
  /\ timer_val' = [timer_val EXCEPT ![t] = value]
  /\ start_delay' = [start_delay EXCEPT ![t] = IF on /\ ~start[t] THEN cia_start_delay ELSE @]
  /\ start' = [start EXCEPT ![t] = on] /\ runmode' = [runmode EXCEPT ![t] = oneshot]
  /\ due' = [due EXCEPT ![t] =
               IF ~on THEN Off
               ELSE IF ~start[t] THEN cia_start_delay + Ticks(value)
               ELSE IF load THEN start_delay[t] + Ticks(value) ELSE @]
  /\ IF t = "A" THEN ack' = Handshake(bit) /\ spmode' = bit /\ UNCHANGED alarm_mode
     ELSE alarm_mode' = bit /\ UNCHANGED <<ack, spmode>>
  /\ fired' = {}
  /\ UNCHANGED <<timer_latch, counter, counter_latch, alarm, tod_read, tod_asked,
                 buffer, head, tail, sdrdata, typed, received>>

-----------------------------------------------------------------------------
(* Time of day *)
increment_tod_counter ==
  /\ counter' = (counter + 1) % CounterMod
  /\ fired' = IF counter' % TodMod = alarm THEN {"ALRM"} ELSE {}
  /\ UNCHANGED <<alarm_mode, counter_latch, alarm, tod_read, tod_asked, timer, keyboard>>

(* Mutant: a tick shows although the time is latched *)
ShownAlways == counter

Shown == IF counter_latch # NoLatch THEN counter_latch ELSE counter

ReadTodHigh ==
  /\ counter_latch' = counter % TodMod
  /\ tod_read' = <<High(counter)>> /\ tod_asked' = counter % TodMod
  /\ fired' = {} /\ UNCHANGED <<alarm_mode, counter, alarm, timer, keyboard>>

ReadTodMid ==
  /\ Len(tod_read) = 1 /\ tod_read' = Append(tod_read, Mid(Shown))
  /\ fired' = {} /\ UNCHANGED <<alarm_mode, counter, counter_latch, alarm, tod_asked, timer, keyboard>>

ReadTodLow ==
  /\ tod_read' = IF Len(tod_read) = 2 THEN Append(tod_read, Low(Shown)) ELSE <<>>
  /\ counter_latch' = NoLatch
  /\ fired' = {} /\ UNCHANGED <<alarm_mode, counter, alarm, tod_asked, timer, keyboard>>

WriteTod(With(_, _), d) ==
  /\ IF alarm_mode THEN alarm' = With(alarm, d) /\ UNCHANGED counter
     ELSE counter' = With(counter, d) /\ UNCHANGED alarm
  /\ fired' = {} /\ UNCHANGED <<alarm_mode, counter_latch, tod_read, tod_asked, timer, keyboard>>

-----------------------------------------------------------------------------
(* The keyboard *)
Waiting == (head - tail) % IndexMod

(* Mutant: one more than the ring holds *)
OverrunLate == Waiting > BufferSize

Overrun == Waiting >= BufferSize

keyboard_event(key) ==
  /\ Len(typed) < MaxKeys
  /\ IF Overrun THEN UNCHANGED <<buffer, head, typed>>
     ELSE /\ buffer' = [buffer EXCEPT ![head % BufferSize] = key]
          /\ head' = (head + 1) % IndexMod
          /\ typed' = Append(typed, key)
  /\ fired' = {} /\ UNCHANGED <<spmode, tail, ack, sdrdata, received, timer, tod>>

(* The keyboard's turn in step() *)
KeySent == head # tail /\ ack /\ ~spmode

KeyboardStep ==
  IF KeySent
  THEN /\ ack' = FALSE
       /\ sdrdata' = buffer[tail % BufferSize] /\ tail' = (tail + 1) % IndexMod
       /\ received' = Append(received, sdrdata')
  ELSE UNCHANGED <<ack, sdrdata, tail, received>>

WriteSdr(v) ==
  /\ spmode /\ sdrdata' = v
  /\ fired' = {} /\ UNCHANGED <<spmode, buffer, head, tail, ack, typed, received, timer, tod>>

(* step() of one CIA: its timers, then the keyboard *)
step ==
  /\ TimersTick /\ KeyboardStep
  /\ fired' = {t \in Timers : Ticked(t).fires} \cup {c \in {"SP"} : KeySent}
  /\ UNCHANGED <<spmode, buffer, head, typed, tod>>

-----------------------------------------------------------------------------
reset ==
  /\ start' = [t \in Timers |-> FALSE] /\ runmode' = [t \in Timers |-> FALSE]
  /\ timer_val' = [t \in Timers |-> 0] /\ timer_latch' = [t \in Timers |-> 0]
  /\ start_delay' = [t \in Timers |-> 0] /\ due' = [t \in Timers |-> Off]
  /\ alarm_mode' = FALSE /\ counter' = 0 /\ counter_latch' = NoLatch /\ alarm' = 0
  /\ tod_read' = <<>> /\ UNCHANGED tod_asked
  /\ spmode' = FALSE /\ head' = 0 /\ tail' = 0 /\ ack' = TRUE /\ sdrdata' = 0
  /\ typed' = <<>> /\ received' = <<>> /\ fired' = {} /\ UNCHANGED buffer

CiaInit ==
  /\ start = [t \in Timers |-> FALSE] /\ runmode = [t \in Timers |-> FALSE]
  /\ timer_val = [t \in Timers |-> 0] /\ timer_latch = [t \in Timers |-> 0]
  /\ start_delay = [t \in Timers |-> 0] /\ due = [t \in Timers |-> Off]
  /\ alarm_mode = FALSE /\ counter = 0 /\ counter_latch = NoLatch /\ alarm = 0
  /\ tod_read = <<>> /\ tod_asked = 0
  /\ spmode = FALSE /\ buffer = [i \in 0 .. BufferSize - 1 |-> 0]
  /\ head = 0 /\ tail = 0 /\ ack = TRUE /\ sdrdata = 0
  /\ typed = <<>> /\ received = <<>> /\ fired = {}

Digits == 0 .. Digit - 1

CiaNext(timers, tods, keys) ==
  \/ step
  \/ reset
  \/ \E t \in timers :
       \/ \E d \in Digits : WriteTimerLow(t, d) \/ WriteTimerHigh(t, d)
       \/ \E on, oneshot, load, bit \in BOOLEAN : WriteControl(t, on, oneshot, load, bit)
  \/ /\ tods
     /\ \/ increment_tod_counter
        \/ ReadTodHigh \/ ReadTodMid \/ ReadTodLow
        \/ \E d \in Digits : WriteTod(WithLow, d) \/ WriteTod(WithMid, d) \/ WriteTod(WithHigh, d)
        \/ \E bit \in BOOLEAN : WriteControl("B", FALSE, FALSE, FALSE, bit)
  \/ \/ \E key \in keys : keyboard_event(key) \/ WriteSdr(key)
     \/ /\ keys # {}
        /\ \E bit \in BOOLEAN : WriteControl("A", FALSE, FALSE, FALSE, bit)

CiaSpec == CiaInit /\ [][CiaNext(Timers, TRUE, Keys)]_cia

-----------------------------------------------------------------------------
(***************************************************************************)
(* A timer underflows when the manual quoted in tbhi_write says: its value *)
(* and the start delay after it was started, loaded or last underflowed;   *)
(* latch writes to a running timer change nothing before that.             *)
(***************************************************************************)
FiresOnTime == \A t \in Timers : (t \in fired') <=> (due[t] = 1 /\ step)

(* No step of a CIA breaks that *)
TimerOnTime == [][FiresOnTime]_cia

(***************************************************************************)
(* Reading hi, mid and lo gives the time at which hi was read, whatever    *)
(* the counter and other registers do between the three reads.             *)
(***************************************************************************)
TodSnapshot ==
  Len(tod_read) = 3 =>
    tod_asked = (tod_read[1] * Digit + tod_read[2]) * Digit + tod_read[3]

(***************************************************************************)
(* The guest is sent what was typed, in order, each once: a full ring      *)
(* refuses new keys and never loses an older one, also when the indices    *)
(* wrap.                                                                   *)
(***************************************************************************)
Queued == [i \in 1 .. Waiting |-> buffer[((tail + i - 1) % IndexMod) % BufferSize]]

KeysInOrder == typed = received \o Queued

(* The clock and the keyboard, as the guest sees them *)
CiaKeepsOrder == TodSnapshot /\ KeysInOrder
=============================================================================
