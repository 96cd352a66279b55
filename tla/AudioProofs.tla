----------------------------- MODULE AudioProofs ----------------------------
(***************************************************************************)
(* Proofs about the sound: AudioBuffers, for any number of frames and any  *)
(* use of the debugger, and Paula, for any samples, lengths and periods.   *)
(***************************************************************************)
EXTENDS AudioBuffers, Paula, FiniteSetTheorems, FunctionTheorems, SequenceTheorems, TLAPS

(* The frames handed over or skipped: not the one the emulation still holds *)
Handed == IF pc \in {"lock", "wait"} THEN frames - 1 ELSE frames
HandedOver == (1 .. Handed) \ skipped

(* The types a step preserves without help: all but the list of the frames *)
Types ==
  /\ audio_buffer \in [0 .. 1 -> 0 .. MaxFrames]
  /\ audio_buffer_ready \in [0 .. 1 -> BOOLEAN]
  /\ next_to_play \in 0 .. 1 /\ next_to_fill \in 0 .. 1
  /\ pc \in {"step", "check", "prompt", "exec", "lock", "wait", "tail",
             "update", "destroy", "members", "closed"}
  /\ debug_mode \in BOOLEAN /\ wait_mode \in {"none", "frames", "vpos"}
  /\ debug_event \in BOOLEAN /\ quit \in BOOLEAN
  /\ paused \in BOOLEAN /\ underrun \in BOOLEAN
  /\ device \in {"idle", "called"} /\ (pc = "closed" => device = "idle")
  /\ frames \in 0 .. MaxFrames
  /\ (pc \in {"lock", "wait"} => frames \in 1 .. MaxFrames)
  /\ skipped \subseteq 1 .. Handed
  /\ played \in Seq(0 .. MaxFrames)

(* The steps that leave the buffers, what was heard and the frames handed  *)
(* over as they are: a frame that starts is not handed over yet, or skipped *)
Quiet == /\ UNCHANGED <<bufVars, played, underrun>>
         /\ HandedOver' = HandedOver /\ Handed' \in {Handed, Handed + 1} /\ Handed' <= frames'
         /\ pc' \notin {"members", "closed"}

(* Every step of a running emulator but Fill, Destroy and the callback is  *)
(* quiet.                                                                  *)
LEMMA QuietSteps ==
  ASSUME Types, pc \notin {"destroy", "members", "closed"},
         \/ TakeEvent \/ CheckDebug \/ Prompt \/ AccessBreak \/ FrameStart
         \/ BeginWait \/ EndOfInstruction \/ Update \/ StartCallback
  PROVE  Quiet
  <1>0. frames \in Nat /\ Handed \in Int /\ Handed <= frames
    BY AudioAssumption DEF Types, Handed
  <1> SUFFICES /\ UNCHANGED <<bufVars, played, underrun>> /\ pc' \notin {"members", "closed"}
               /\ \/ Handed' = Handed /\ UNCHANGED <<frames, skipped>>
                  \/ PlaceReached /\ Handed = frames /\ Handed' = frames + 1 /\ frames' = frames + 1
                  \/ FrameReached /\ Handed' = Handed /\ frames' = frames + 1
    <2>1. CASE Handed' = Handed /\ skipped' = skipped /\ frames' >= frames
      BY <1>0, <2>1 DEF Quiet, HandedOver
    <2>2. CASE PlaceReached /\ Handed = frames /\ Handed' = frames + 1 /\ frames' = frames + 1
      <3>1. skipped' = skipped \cup {frames + 1}
        BY <2>2 DEF PlaceReached
      <3>2. (1 .. frames + 1) \ (skipped \cup {frames + 1}) = (1 .. frames) \ skipped
        BY <1>0
      <3> QED  BY <1>0, <2>2, <3>1, <3>2 DEF Quiet, HandedOver
    <2> QED  BY <1>0, <2>1, <2>2 DEF FrameReached
  <1> USE DEF Handed, Types, bufVars, historyVars, debugVars
  <1>1. CASE TakeEvent  BY <1>1 DEF TakeEvent
  <1>2. CASE CheckDebug  BY <1>2 DEF CheckDebug
  <1>3. CASE Prompt  BY <1>3 DEF Prompt
  <1>4. CASE AccessBreak  BY <1>4 DEF AccessBreak
  <1>5. CASE FrameStart
    <2>1. UNCHANGED <<bufVars, played, underrun>> /\ frames' = frames + 1 /\ pc = "exec"
      BY <1>5 DEF FrameStart
    <2>2. CASE PlaceReached  BY <2>1, <2>2 DEF PlaceReached
    <2>3. CASE FrameReached  BY <1>0, <2>1, <2>3 DEF FrameReached
    <2> QED  BY <1>5, <2>2, <2>3 DEF FrameStart
  <1>6. CASE BeginWait  BY <1>6 DEF BeginWait
  <1>7. CASE EndOfInstruction  BY <1>7 DEF EndOfInstruction
  <1>8. CASE Update  BY <1>8 DEF Update
  <1>9. CASE StartCallback  BY <1>9 DEF StartCallback
  <1> QED  BY <1>1, <1>2, <1>3, <1>4, <1>5, <1>6, <1>7, <1>8, <1>9

(* Types are preserved by every step. *)
LEMMA TypesInductive == Types /\ [Next]_vars => Types'
  <1> SUFFICES ASSUME Types, [Next]_vars PROVE Types'
    OBVIOUS
  <1> USE AudioAssumption DEF Types, Handed, bufVars, historyVars, debugVars
  <1>1. CASE TakeEvent
    BY <1>1 DEF TakeEvent, activate_debugger
  <1>2. CASE CheckDebug  BY <1>2 DEF CheckDebug
  <1>3. CASE Prompt  BY <1>3 DEF Prompt
  <1>4. CASE AccessBreak  BY <1>4 DEF AccessBreak, activate_debugger
  <1>5. CASE FrameStart
    <2>1. frames' \in 1 .. MaxFrames /\ frames' = frames + 1 /\ pc = "exec"
      BY <1>5 DEF FrameStart
    <2>2. debug_mode' \in BOOLEAN /\ wait_mode' \in {"none", "frames", "vpos"} /\ paused' \in BOOLEAN
      BY <1>5 DEF FrameStart, PlaceReached, FrameReached, activate_debugger
    <2>3. UNCHANGED <<bufVars, debug_event, quit, device, played, underrun>>
      BY <1>5 DEF FrameStart
    <2>4. \/ pc' = "lock" /\ skipped' = skipped
          \/ pc' = "tail" /\ skipped' = skipped \cup {frames'}
      BY <1>5 DEF FrameStart, PlaceReached, FrameReached
    <2>5. skipped' \subseteq 1 .. Handed'
      BY <2>1, <2>4
    <2> QED  BY <2>1, <2>2, <2>3, <2>4, <2>5
  <1>6. CASE BeginWait  BY <1>6 DEF BeginWait, CanFill
  <1>7. CASE Fill  BY <1>7 DEF Fill, FillBuffer, CanFill, Other
  <1>8. CASE EndOfInstruction
    BY <1>8 DEF EndOfInstruction, activate_debugger
  <1>9. CASE Update  BY <1>9 DEF Update
  <1>10. CASE Destroy  BY <1>10 DEF Destroy
  <1>11. CASE CloseDevice  BY <1>11 DEF CloseDevice
  <1>12. CASE StartCallback  BY <1>12 DEF StartCallback
  <1>13. CASE audio_callback
    <2>1. Release => audio_buffer_ready' \in [0 .. 1 -> BOOLEAN]
      BY DEF Release
    <2>2. played' \in Seq(0 .. MaxFrames)
      <3>1. audio_buffer[next_to_play] \in 0 .. MaxFrames  OBVIOUS
      <3>2. played' \in {played, Append(played, audio_buffer[next_to_play])}
        BY <1>13 DEF audio_callback, Hear
      <3>3. played \in Seq(0 .. MaxFrames)  OBVIOUS
      <3> HIDE DEF Types
      <3> QED  BY <3>1, <3>2, <3>3
    <2>3. underrun' \in BOOLEAN /\ device' = "idle"
      BY <1>13 DEF audio_callback
    <2>4. next_to_play' \in 0 .. 1
      BY <1>13 DEF audio_callback, Other
    <2>5. UNCHANGED <<audio_buffer, next_to_fill, pc, debugVars, paused, frames, skipped>>
      BY <1>13 DEF audio_callback
    <2>6. Release  BY <1>13 DEF audio_callback
    <2> QED  BY <2>1, <2>2, <2>3, <2>4, <2>5, <2>6
  <1>14. CASE UNCHANGED vars  BY <1>14 DEF vars
  <1> QED
    BY <1>1, <1>2, <1>3, <1>4, <1>5, <1>6, <1>7, <1>8, <1>9, <1>10, <1>11,
       <1>12, <1>13, <1>14 DEF Next, Emulation, Device, Done

LEMMA TypesInitially == Init => Types
  <1> SUFFICES ASSUME Init PROVE Types  OBVIOUS
  <1>1. 0 \in 0 .. MaxFrames  BY AudioAssumption
  <1>2. audio_buffer \in [0 .. 1 -> 0 .. MaxFrames] /\ audio_buffer_ready \in [0 .. 1 -> BOOLEAN]
    BY <1>1 DEF Init
  <1>3. next_to_play \in 0 .. 1 /\ next_to_fill \in 0 .. 1 /\ frames \in 0 .. MaxFrames /\ pc = "step"
    BY <1>1 DEF Init
  <1>4. /\ debug_mode \in BOOLEAN /\ wait_mode = "none" /\ debug_event \in BOOLEAN /\ skipped = {}
        /\ quit \in BOOLEAN /\ paused \in BOOLEAN /\ underrun \in BOOLEAN /\ device = "idle"
    BY DEF Init
  <1>5. played \in Seq(0 .. MaxFrames)  BY DEF Init
  <1> QED  BY <1>2, <1>3, <1>4, <1>5 DEF Types
-----------------------------------------------------------------------------
(***************************************************************************)
(* In order until the first underrun.  While the device has always found a *)
(* frame, the one it plays next is the elder of those that wait, all of    *)
(* which are later than those it has played, and the emulation fills the   *)
(* buffer that the device comes to last.                                   *)
(***************************************************************************)
Increasing == \A i, k \in DOMAIN played : i < k => played[i] < played[k]

(* Frame f is later than what was heard, and not later than those handed over *)
ToHear(f) == f <= Handed /\ \A i \in DOMAIN played : played[i] < f

OrderInv ==
  ~underrun =>
    /\ Increasing
    /\ pc \notin {"members", "closed"} =>
         LET first == next_to_play
             second == Other(next_to_play)
         IN  /\ next_to_fill = IF audio_buffer_ready[first] /\ ~audio_buffer_ready[second] THEN second ELSE first
             /\ \A i \in DOMAIN played : played[i] <= Handed
             /\ audio_buffer_ready[first] => ToHear(audio_buffer[first])
             /\ audio_buffer_ready[second] =>
                  /\ audio_buffer_ready[first]
                  /\ audio_buffer[first] < audio_buffer[second] /\ audio_buffer[second] <= Handed

LEMMA OrderInitially == Init => OrderInv
  BY DEF Init, OrderInv, Increasing, Handed, Other

(* Frames are numbers *)
LEMMA FrameNumbers ==
  ASSUME Types
  PROVE  /\ frames \in Nat /\ Handed \in Int /\ Handed <= frames
         /\ \A b \in 0 .. 1 : audio_buffer[b] \in Nat
         /\ \A i \in DOMAIN played : played[i] \in Nat
         /\ Other(next_to_play) \in 0 .. 1 /\ Other(next_to_play) # next_to_play
         /\ Other(Other(next_to_play)) = next_to_play
         /\ \A b \in 0 .. 1 : b \in {next_to_play, Other(next_to_play)}
  BY AudioAssumption DEF Types, Handed, Other

LEMMA OrderQuiet ==
  ASSUME Types, OrderInv, pc \notin {"members", "closed"}, Quiet
  PROVE  OrderInv'
  <1>1. UNCHANGED <<audio_buffer, audio_buffer_ready, next_to_play, next_to_fill, played, underrun>>
        /\ Handed' \in {Handed, Handed + 1} /\ UNCHANGED Other(next_to_play)
    BY DEF Quiet, Other, bufVars
  <1>2. \A f \in Nat : f <= Handed => f <= Handed'
    BY <1>1, FrameNumbers
  <1>3. \A f \in Nat : ToHear(f) => ToHear(f)'
    BY <1>1, <1>2 DEF ToHear
  <1> QED  BY <1>1, <1>2, <1>3, FrameNumbers DEF OrderInv, Increasing, Types

LEMMA OrderFill ==
  ASSUME Types, OrderInv, Fill
  PROVE  OrderInv'
  <1>1. CASE underrun  BY <1>1 DEF OrderInv, Fill, historyVars
  <1>2. CASE ~underrun
    <2> DEFINE first == next_to_play
               second == Other(next_to_play)
    <2>1. /\ UNCHANGED <<played, underrun, next_to_play, frames>>
          /\ audio_buffer' = [audio_buffer EXCEPT ![next_to_fill] = frames]
          /\ audio_buffer_ready' = [audio_buffer_ready EXCEPT ![next_to_fill] = TRUE]
          /\ next_to_fill' = Other(next_to_fill) /\ ~audio_buffer_ready[next_to_fill]
      BY DEF Fill, FillBuffer, CanFill, historyVars
    <2>2. Handed = frames - 1 /\ Handed' = frames
      BY DEF Handed, Fill, CanFill, Types, historyVars
    <2>3. pc \notin {"members", "closed"}
      BY DEF Fill, CanFill
    <2>4. /\ Increasing /\ \A i \in DOMAIN played : played[i] < frames
          /\ next_to_fill = IF audio_buffer_ready[first] /\ ~audio_buffer_ready[second] THEN second ELSE first
      BY <1>2, <2>2, <2>3, FrameNumbers DEF OrderInv
    <2>5. Increasing'
      BY <2>1, <2>4 DEF Increasing
    <2>6. frames <= Handed' /\ \A i \in DOMAIN played' : played'[i] < frames /\ played'[i] <= Handed'
      BY <2>1, <2>2, <2>4, FrameNumbers
    <2>7. CASE audio_buffer_ready[first]
      <3>1. ~audio_buffer_ready[second] /\ next_to_fill = second
        BY <2>1, <2>4, <2>7
      <3>2. ToHear(audio_buffer[first])
        BY <1>2, <2>3, <2>7 DEF OrderInv
      <3>3. /\ audio_buffer'[first] = audio_buffer[first] /\ audio_buffer'[second] = frames
            /\ audio_buffer_ready'[first] /\ audio_buffer_ready'[second] /\ next_to_fill' = first
        BY <2>1, <2>7, <3>1, FrameNumbers DEF Types
      <3>4. next_to_play' = first /\ Other(next_to_play)' = second
        BY <2>1 DEF Other
      <3>5. audio_buffer[first] \in Nat /\ frames <= Handed'
        BY <2>2, FrameNumbers DEF Types
      <3>6. /\ audio_buffer'[first] <= Handed' /\ audio_buffer'[first] < frames
            /\ \A i \in DOMAIN played' : played'[i] < audio_buffer'[first]
        BY <2>1, <2>2, <3>2, <3>3, <3>5, FrameNumbers DEF ToHear
      <3> HIDE DEF first, second
      <3> QED  BY <2>5, <2>6, <3>3, <3>4, <3>5, <3>6 DEF OrderInv, ToHear
    <2>8. CASE ~audio_buffer_ready[first]
      <3>1. ~audio_buffer_ready[second] /\ next_to_fill = first
        BY <1>2, <2>3, <2>4, <2>8 DEF OrderInv
      <3>2. /\ audio_buffer'[first] = frames
            /\ audio_buffer_ready'[first] /\ ~audio_buffer_ready'[second] /\ next_to_fill' = second
        BY <2>1, <2>8, <3>1, FrameNumbers DEF Types
      <3>3. next_to_play' = first /\ Other(next_to_play)' = second
        BY <2>1 DEF Other
      <3> HIDE DEF first, second
      <3> QED  BY <2>5, <2>6, <3>2, <3>3 DEF OrderInv, ToHear
    <2> QED  BY <2>7, <2>8
  <1> QED  BY <1>1, <1>2

LEMMA OrderCallback ==
  ASSUME Types, OrderInv, audio_callback
  PROVE  OrderInv'
  <1>1. CASE underrun'  BY <1>1 DEF OrderInv
  <1>2. CASE ~underrun'
    <2> DEFINE first == next_to_play
               second == Other(next_to_play)
               f == audio_buffer[first]
    <2>1. /\ audio_buffer_ready[first] /\ pc # "members"
          /\ played' = Hear(f) /\ ~underrun
      BY <1>2 DEF audio_callback
    <2>2. pc \notin {"members", "closed"} /\ pc' = pc /\ Handed' = Handed
      BY <2>1 DEF audio_callback, Types, Handed
    <2>3. /\ next_to_play' = second /\ next_to_fill' = next_to_fill /\ audio_buffer' = audio_buffer
          /\ audio_buffer_ready' = [audio_buffer_ready EXCEPT ![first] = FALSE]
      BY DEF audio_callback, Release
    <2>4. /\ Increasing /\ f \in Nat /\ ToHear(f) /\ \A i \in DOMAIN played : played[i] <= Handed
          /\ next_to_fill = IF audio_buffer_ready[second] THEN first ELSE second
          /\ audio_buffer_ready[second] => f < audio_buffer[second] /\ audio_buffer[second] <= Handed
      BY <2>1, <2>2, FrameNumbers DEF OrderInv, Types
    <2>5. played' \in {played, Append(played, f)}
      BY <2>1 DEF Hear
    <2>6. Increasing' /\ \A i \in DOMAIN played' : played'[i] <= f
      <3> HIDE DEF f
      <3>1. CASE played' = played
        BY <2>4, <3>1, FrameNumbers DEF Increasing, ToHear
      <3>2. CASE played' = Append(played, f)
        <4>1. /\ DOMAIN played' = 1 .. Len(played) + 1 /\ DOMAIN played = 1 .. Len(played) /\ Len(played) \in Nat
              /\ played'[Len(played) + 1] = f /\ \A i \in 1 .. Len(played) : played'[i] = played[i]
          BY <3>2, <2>4 DEF Types
        <4>2. \A i \in 1 .. Len(played) : played[i] < f /\ played[i] \in Nat
          BY <2>4, <4>1, FrameNumbers DEF ToHear
        <4>3. ASSUME NEW i \in DOMAIN played', NEW k \in DOMAIN played', i < k
              PROVE  played'[i] < played'[k]
          <5>1. i \in 1 .. Len(played)
            BY <4>1, <4>3
          <5>2. CASE k = Len(played) + 1
            BY <4>1, <4>2, <5>1, <5>2
          <5>3. CASE k # Len(played) + 1
            BY <2>4, <4>1, <4>3, <5>1, <5>3 DEF Increasing
          <5> QED  BY <5>2, <5>3
        <4>4. \A i \in DOMAIN played' : played'[i] <= f
          BY <2>4, <4>1, <4>2
        <4> QED  BY <4>3, <4>4 DEF Increasing
      <3> QED  BY <2>5, <3>1, <3>2
    <2>7. /\ Other(second) = first /\ ~audio_buffer_ready'[first] /\ audio_buffer_ready'[second] = audio_buffer_ready[second]
      BY <2>3, FrameNumbers DEF Types
    <2>8. \A i \in DOMAIN played' : played'[i] \in Nat
      <3>1. Types'
        BY TypesInductive DEF Next, Device
      <3>2. played' \in Seq(0 .. MaxFrames)
        BY <3>1 DEF Types
      <3> QED  BY <3>2, AudioAssumption
    <2>9. f <= Handed /\ Handed \in Int
      BY <2>4, FrameNumbers DEF ToHear
    <2>10. \A i \in DOMAIN played' : played'[i] <= Handed'
      <3> HIDE DEF f
      <3> QED  BY <2>2, <2>4, <2>6, <2>8, <2>9
    <2>11. ASSUME audio_buffer_ready[second]
           PROVE  /\ audio_buffer'[second] <= Handed'
                  /\ \A i \in DOMAIN played' : played'[i] < audio_buffer'[second]
      <3>1. audio_buffer'[second] = audio_buffer[second] /\ audio_buffer[second] \in Nat
        BY <2>3, FrameNumbers
      <3>2. f < audio_buffer[second] /\ audio_buffer[second] <= Handed'
        BY <2>2, <2>4, <2>11
      <3> HIDE DEF f
      <3>4. \A i \in DOMAIN played' : played'[i] < audio_buffer[second]
        BY <2>4, <2>6, <2>8, <3>1, <3>2
      <3> QED  BY <3>1, <3>2, <3>4
    <2>12. /\ next_to_play' = second /\ Other(next_to_play)' = first
           /\ next_to_fill' = IF audio_buffer_ready'[second] THEN first ELSE second
      BY <2>3, <2>4, <2>7 DEF Other
    <2> QED  BY <2>2, <2>6, <2>7, <2>10, <2>11, <2>12 DEF OrderInv, ToHear
  <1> QED  BY <1>1, <1>2 DEF Types, audio_callback

(* The order is preserved by every step. *)
LEMMA OrderInductive == Types /\ OrderInv /\ [Next]_vars => OrderInv'
  <1> SUFFICES ASSUME Types, OrderInv, [Next]_vars PROVE OrderInv'
    OBVIOUS
  <1>1. CASE pc \in {"destroy", "members", "closed"} /\ ~audio_callback
    <2>1. UNCHANGED <<played, underrun>>
      BY <1>1 DEF Next, Emulation, Device, Done, TakeEvent, CheckDebug, Prompt,
         AccessBreak, FrameStart, BeginWait, Fill, CanFill, EndOfInstruction,
         Update, Destroy, CloseDevice, StartCallback, vars, historyVars
    <2>2. CASE pc' \in {"members", "closed"}
      BY <2>1, <2>2 DEF OrderInv, Increasing
    <2>3. CASE pc' \notin {"members", "closed"}
      <3>1. StartCallback \/ UNCHANGED vars
        BY <1>1, <2>3 DEF Next, Emulation, Device, Done, TakeEvent, CheckDebug,
           Prompt, AccessBreak, FrameStart, BeginWait, Fill, CanFill,
           EndOfInstruction, Update, Destroy, CloseDevice
      <3>2. UNCHANGED <<bufVars, pc, historyVars>>
        BY <3>1 DEF StartCallback, vars
      <3> QED  BY <3>2 DEF OrderInv, Increasing, ToHear, Handed, Other, bufVars, historyVars
    <2> QED  BY <2>2, <2>3
  <1>2. CASE pc \notin {"destroy", "members", "closed"} /\ ~audio_callback
    <2>1. CASE Fill  BY <2>1, OrderFill
    <2>2. CASE UNCHANGED vars
      BY <2>2 DEF vars, OrderInv, Increasing, ToHear, Handed, Other, bufVars, historyVars
    <2>3. CASE ~Fill /\ ~UNCHANGED vars
      <3>1. Quiet
        BY <1>2, <2>3, QuietSteps DEF Next, Emulation, Device, Done, Destroy,
           CloseDevice
      <3> QED  BY <1>2, <3>1, OrderQuiet
    <2> QED  BY <2>1, <2>2, <2>3
  <1>3. CASE audio_callback  BY <1>3, OrderCallback
  <1> QED  BY <1>1, <1>2, <1>3 DEF Types

(* Until the device first finds no frame, frames are heard in order, for   *)
(* any number of frames, with the debugger and without.                    *)
THEOREM InOrderCorrect == Spec => []InOrderUntilUnderrun
  <1>1. OrderInv => InOrderUntilUnderrun
    BY DEF OrderInv, Increasing, InOrderUntilUnderrun
  <1> QED
    BY <1>1, TypesInitially, TypesInductive, OrderInitially, OrderInductive,
       PTL DEF Spec

-----------------------------------------------------------------------------
(***************************************************************************)
(* Each frame once.  Cardinalities are left out of the invariant: injective*)
(* is what they say, and the numbers of frames are added up instead.       *)
(***************************************************************************)
Heard == {played[i] : i \in DOMAIN played}
Kept == {audio_buffer[b] : b \in Waiting}
KeptCount == (IF audio_buffer_ready[0] THEN 1 ELSE 0)
             + (IF audio_buffer_ready[1] THEN 1 ELSE 0)

FramesInv ==
  /\ \A i \in DOMAIN played : played[i] \in 1 .. MaxFrames
  /\ pc \notin {"members", "closed"} =>
       /\ Handed \in 0 .. MaxFrames
       /\ Heard \cup Kept = HandedOver
       /\ Heard \cap Kept = {}
       /\ \A i, k \in DOMAIN played : played[i] = played[k] => i = k
       /\ audio_buffer_ready[0] /\ audio_buffer_ready[1]
            => audio_buffer[0] # audio_buffer[1]
       /\ Len(played) + KeptCount <= Handed

LEMMA FramesInitially == Init => FramesInv
  BY AudioAssumption DEF Init, FramesInv, Handed, HandedOver, Heard, Kept, KeptCount, Waiting

LEMMA FramesQuiet ==
  ASSUME Types, Types', FramesInv, pc \notin {"members", "closed"}, Quiet
  PROVE  FramesInv'
  <1>1. UNCHANGED <<Heard, Kept, KeptCount, HandedOver, played, audio_buffer, audio_buffer_ready>>
    BY DEF Quiet, bufVars, Heard, Kept, KeptCount, Waiting
  <1>2. Len(played) \in Nat /\ KeptCount \in Nat
    BY DEF KeptCount, Types
  <1>3. Len(played) + KeptCount <= Handed' /\ Handed' \in 0 .. MaxFrames
    <2>1. Handed \in 0 .. MaxFrames /\ Len(played) + KeptCount <= Handed
      BY DEF FramesInv
    <2>2. Handed' \in {Handed, Handed + 1} /\ Handed' <= frames' /\ frames' <= MaxFrames /\ frames' \in Nat
      BY AudioAssumption DEF Quiet, Types
    <2> QED  BY <1>2, <2>1, <2>2, AudioAssumption
  <1> QED  BY <1>1, <1>3 DEF FramesInv

LEMMA FramesStutter ==
  ASSUME FramesInv, UNCHANGED <<bufVars, pc, historyVars>>
  PROVE  FramesInv'
  <1>1. UNCHANGED <<Heard, Kept, KeptCount, Handed, HandedOver>>
    BY DEF Heard, Kept, KeptCount, Handed, HandedOver, Waiting, bufVars, historyVars
  <1>2. UNCHANGED <<played, pc, audio_buffer, audio_buffer_ready>>
    BY DEF bufVars, historyVars
  <1> QED  BY <1>1, <1>2 DEF FramesInv

(* The frame that is handed over is neither kept nor heard yet, and the    *)
(* buffer it goes to holds none.                                           *)
LEMMA FramesFill ==
  ASSUME Types, FramesInv, Fill
  PROVE  FramesInv'
  <1>1. /\ ~audio_buffer_ready[next_to_fill] /\ next_to_fill \in 0 .. 1
        /\ audio_buffer' = [audio_buffer EXCEPT ![next_to_fill] = frames]
        /\ audio_buffer_ready' = [audio_buffer_ready EXCEPT ![next_to_fill] = TRUE]
        /\ played' = played
    BY DEF Fill, FillBuffer, CanFill, Types, historyVars
  <1>2. /\ Handed = frames - 1 /\ Handed' = frames
        /\ frames \in 1 .. MaxFrames
        /\ pc \notin {"members", "closed"}
    BY DEF Handed, Fill, CanFill, Types, historyVars
  <1>3. /\ Waiting' = Waiting \cup {next_to_fill} /\ next_to_fill \notin Waiting
        /\ \A b \in Waiting : audio_buffer'[b] = audio_buffer[b]
        /\ audio_buffer'[next_to_fill] = frames
    BY <1>1 DEF Waiting, Types
  <1>4. Kept' = Kept \cup {frames} /\ Heard' = Heard
    BY <1>1, <1>3 DEF Kept, Heard
  <1>5. frames \notin Kept /\ frames \notin Heard
    BY <1>2, AudioAssumption DEF FramesInv, HandedOver
  <1>6. KeptCount' = KeptCount + 1
    BY <1>1 DEF KeptCount, Types
  <1>7. Heard' \cup Kept' = HandedOver' /\ Heard' \cap Kept' = {}
    <2>1. Heard \cup Kept = (1 .. frames - 1) \ skipped /\ Heard \cap Kept = {}
      BY <1>2 DEF FramesInv, HandedOver
    <2>2. skipped' = skipped /\ skipped \subseteq 1 .. frames - 1
      BY <1>2 DEF Fill, historyVars, Types
    <2>3. HandedOver' = ((1 .. frames - 1) \ skipped) \cup {frames}
      BY <1>2, <2>2 DEF HandedOver
    <2> QED  BY <1>2, <1>4, <1>5, <2>1, <2>3
  <1>8. ASSUME audio_buffer_ready'[0], audio_buffer_ready'[1]
        PROVE  audio_buffer'[0] # audio_buffer'[1]
    <2>1. PICK b \in 0 .. 1 : b # next_to_fill  BY <1>1
    <2>2. b \in Waiting /\ audio_buffer'[b] \in Kept
      BY <1>1, <1>3, <1>8, <2>1 DEF Waiting, Kept, Types
    <2> QED  BY <1>1, <1>3, <1>5, <2>1, <2>2
  <1>9. Len(played) \in Nat /\ KeptCount \in 0 .. 2
    BY DEF KeptCount, Types
  <1>10. Len(played) + KeptCount <= Handed  BY <1>2 DEF FramesInv
  <1>11. Len(played') + KeptCount' <= Handed'
    BY <1>1, <1>2, <1>6, <1>9, <1>10
  <1>12. Handed' \in 0 .. MaxFrames  BY <1>2
  <1> QED
    BY <1>1, <1>2, <1>7, <1>8, <1>11, <1>12 DEF FramesInv

(* A callback that finds nothing changes nothing that is kept or heard. *)
LEMMA FramesUnderrun ==
  ASSUME Types, FramesInv, audio_callback, ~audio_buffer_ready[next_to_play],
         pc \notin {"members", "closed"}
  PROVE  FramesInv'
  <1>1. /\ UNCHANGED <<audio_buffer, played, pc, frames, skipped>>
        /\ audio_buffer_ready' = audio_buffer_ready
    BY DEF audio_callback, Release, Types
  <1>2. UNCHANGED <<Heard, Kept, KeptCount, Handed, HandedOver>>
    BY <1>1 DEF Heard, Kept, KeptCount, Handed, HandedOver, Waiting
  <1> QED  BY <1>1, <1>2 DEF FramesInv

(* The frame that is played moves from those kept to those heard. *)
LEMMA FramesPlay ==
  ASSUME Types, FramesInv, audio_callback, audio_buffer_ready[next_to_play],
         pc \notin {"members", "closed"}
  PROVE  FramesInv'
  <1> DEFINE f == audio_buffer[next_to_play]
             n == Len(played)
  <1>1. /\ n \in Nat /\ KeptCount \in 1 .. 2 /\ n + KeptCount <= Handed
        /\ Handed \in 0 .. MaxFrames
    BY DEF FramesInv, KeptCount, Types
  <1>2. n < 2 * MaxFrames  BY <1>1, AudioAssumption
  <1>3. /\ played' = Append(played, f)
        /\ UNCHANGED <<audio_buffer, pc, frames, skipped>>
        /\ audio_buffer_ready' = [audio_buffer_ready EXCEPT ![next_to_play] = FALSE]
    BY <1>2 DEF audio_callback, Hear, Release
  <1>4. next_to_play \in Waiting /\ f \in Kept
    BY DEF Waiting, Kept, Types
  <1>5. f \in 1 .. MaxFrames /\ f \notin Heard
    <2>1. Heard \cup Kept \subseteq 1 .. Handed /\ Heard \cap Kept = {}
      BY DEF FramesInv, HandedOver
    <2>2. f \in 1 .. Handed /\ f \notin Heard  BY <1>4, <2>1
    <2> QED  BY <1>1, <2>2, AudioAssumption
  <1>6. /\ Len(played') = n + 1
        /\ \A i \in 1 .. n : played'[i] = played[i]
        /\ played'[n + 1] = f
        /\ DOMAIN played' = 1 .. n + 1 /\ DOMAIN played = 1 .. n
    BY <1>3, <1>5 DEF Types
  <1>7. Heard' = Heard \cup {f}
    BY <1>1, <1>6 DEF Heard
  <1>8. Waiting' = Waiting \ {next_to_play}
    BY <1>3 DEF Waiting, Types
  <1>9. \A b \in Waiting : b # next_to_play => audio_buffer[b] # f
    BY DEF FramesInv, Waiting, Types
  <1>10. Kept' = Kept \ {f}
    BY <1>3, <1>8, <1>9 DEF Kept
  <1>11. KeptCount' = KeptCount - 1
    BY <1>3 DEF KeptCount, Types
  <1>12. Handed' = Handed /\ HandedOver' = HandedOver  BY <1>3 DEF Handed, HandedOver
  <1>13. Heard' \cup Kept' = HandedOver' /\ Heard' \cap Kept' = {}
    BY <1>4, <1>7, <1>10, <1>12 DEF FramesInv
  <1>14. \A i, k \in DOMAIN played' : played'[i] = played'[k] => i = k
    <2>1. \A i \in 1 .. n : played[i] # f  BY <1>5, <1>6 DEF Heard
    <2>2. \A i, k \in 1 .. n : played[i] = played[k] => i = k
      BY <1>6 DEF FramesInv
    <2> QED  BY <1>1, <1>6, <2>1, <2>2
  <1>15. \A i \in DOMAIN played' : played'[i] \in 1 .. MaxFrames
    BY <1>1, <1>5, <1>6 DEF FramesInv
  <1>16. ~(audio_buffer_ready'[0] /\ audio_buffer_ready'[1])
    BY <1>3 DEF Types
  <1> QED
    BY <1>1, <1>3, <1>6, <1>11, <1>12, <1>13, <1>14, <1>15, <1>16 DEF FramesInv

(* Frames are accounted for after every step. *)
LEMMA FramesInductive == Types /\ FramesInv /\ [Next]_vars => FramesInv'
  <1> SUFFICES ASSUME Types, FramesInv, [Next]_vars PROVE FramesInv'
    OBVIOUS
  <1>1. CASE pc \in {"destroy", "members", "closed"} /\ ~audio_callback
    <2>1. played' = played
      BY <1>1 DEF Next, Emulation, Device, Done, TakeEvent, CheckDebug, Prompt,
         AccessBreak, FrameStart, BeginWait, Fill, CanFill, EndOfInstruction,
         Update, Destroy, CloseDevice, StartCallback, vars, historyVars
    <2>2. CASE pc' \in {"members", "closed"}
      BY <2>1, <2>2 DEF FramesInv
    <2>3. CASE pc' \notin {"members", "closed"}
      <3>1. StartCallback \/ UNCHANGED vars
        BY <1>1, <2>3 DEF Next, Emulation, Device, Done, TakeEvent, CheckDebug,
           Prompt, AccessBreak, FrameStart, BeginWait, Fill, CanFill,
           EndOfInstruction, Update, Destroy, CloseDevice
      <3>2. UNCHANGED <<bufVars, pc, historyVars>>
        BY <3>1 DEF StartCallback, vars
      <3> QED  BY <3>2, FramesStutter
    <2> QED  BY <2>2, <2>3
  <1>2. CASE pc \notin {"destroy", "members", "closed"} /\ ~audio_callback
    <2>1. CASE Fill  BY <2>1, FramesFill
    <2>2. CASE UNCHANGED vars
      BY <2>2, FramesStutter DEF vars
    <2>3. CASE ~Fill /\ ~UNCHANGED vars
      <3>1. Quiet
        BY <1>2, <2>3, QuietSteps DEF Next, Emulation, Device, Done, Destroy,
           CloseDevice
      <3> QED  BY <1>2, <3>1, FramesQuiet, TypesInductive
    <2> QED  BY <2>1, <2>2, <2>3
  <1>3. CASE audio_callback /\ pc \notin {"members", "closed"}
    BY <1>3, FramesUnderrun, FramesPlay
  <1>4. CASE audio_callback /\ pc \in {"members", "closed"}
    <2>1. pc = "members" /\ pc' = pc /\ played' = played
      BY <1>4 DEF audio_callback, Types
    <2> QED  BY <2>1 DEF FramesInv
  <1> QED  BY <1>1, <1>2, <1>3, <1>4 DEF Types

(* What the invariant says of cardinalities. *)
LEMMA FramesCounted ==
  ASSUME Types, FramesInv, pc \notin {"members", "closed"}
  PROVE  Cardinality(Heard) = Len(played) /\ Cardinality(Kept) = Cardinality(Waiting)
  <1>1. Cardinality(Heard) = Len(played)
    <2> DEFINE n == Len(played)
    <2>1. n \in Nat /\ DOMAIN played = 1 .. n  BY DEF Types
    <2>2. played \in [1 .. n -> Heard]  BY <2>1 DEF Heard, Types
    <2>3. \A i, k \in 1 .. n : played[i] = played[k] => i = k
      BY <2>1 DEF FramesInv
    <2>4. \A f \in Heard : \E i \in 1 .. n : played[i] = f  BY <2>1 DEF Heard
    <2>5. played \in Bijection(1 .. n, Heard)
      BY <2>2, <2>3, <2>4, Fun_IsBij
    <2>6. ExistsBijection(1 .. n, Heard)  BY <2>5 DEF ExistsBijection
    <2>7. IsFiniteSet(1 .. n) /\ Cardinality(1 .. n) = n
      BY <2>1, FS_Interval
    <2> QED  BY <2>6, <2>7, FS_Bijection
  <1>2. Cardinality(Kept) = Cardinality(Waiting)
    <2> DEFINE at == [b \in Waiting |-> audio_buffer[b]]
    <2>1. at \in [Waiting -> Kept] /\ \A f \in Kept : \E b \in Waiting : at[b] = f
      BY DEF Kept
    <2>2. \A a, b \in Waiting : at[a] = at[b] => a = b
      BY DEF FramesInv, Waiting
    <2>3. at \in Bijection(Waiting, Kept)  BY <2>1, <2>2, Fun_IsBij
    <2>4. ExistsBijection(Waiting, Kept)  BY <2>3 DEF ExistsBijection
    <2>5. IsFiniteSet(Waiting)
      <3>1. IsFiniteSet(0 .. 1)
        <4>1. 0 \in Int /\ 1 \in Int  OBVIOUS
        <4> QED  BY <4>1, FS_Interval, Zenon
      <3>2. Waiting \in SUBSET (0 .. 1)  BY DEF Waiting
      <3> QED  BY <3>1, <3>2, FS_Subset
    <2> QED  BY <2>4, <2>5, FS_Bijection
  <1> QED  BY <1>1, <1>2

(* Each frame that is not skipped for the debugger is handed over, kept    *)
(* and played once, for any number of frames, whatever the debugger, its   *)
(* waits and the device do.                                                *)
THEOREM EachFrameOnceCorrect == Spec => []EachFrameOnce
  <1>1. Types /\ FramesInv => EachFrameOnce
    BY FramesCounted DEF EachFrameOnce, FramesInv, Handed, HandedOver, Heard, Kept, Running
  <1> QED
    BY <1>1, TypesInitially, TypesInductive, FramesInitially, FramesInductive,
       PTL DEF Spec

(* Type correctness: the frames that are played are frames that were       *)
(* emulated.                                                               *)
THEOREM TypeCorrect == Spec => []TypeOK
  <1>1. Types /\ FramesInv => TypeOK
    <2>1. Types => skipped \subseteq 1 .. frames
      BY FrameNumbers DEF Types
    <2> QED  BY <2>1, AudioAssumption DEF Types, FramesInv, TypeOK
  <1> QED
    BY <1>1, TypesInitially, TypesInductive, FramesInitially, FramesInductive,
       PTL DEF Spec

-----------------------------------------------------------------------------
(* A channel of Paula *)

(* The words that are left to fetch *)
Left(n) == IF n = 0 THEN LenMod ELSE n
Sampling == {"dma_samp1", "dma_samp2"}

ChannelTypes ==
  /\ lc \in Nat /\ len \in 0 .. LenMod - 1
  /\ state \in {"inactive", "dma_starting"} \cup Sampling
  /\ ptr \in Nat /\ actlen \in 0 .. LenMod - 1 /\ block \in Seq(Nat)
  /\ asked.lc \in Nat /\ asked.len \in 0 .. LenMod - 1

(* The words fetched are those from the start on, ptr is behind them, and  *)
(* the counter has the rest                                                *)
BlockSoFar ==
  /\ ptr = asked.lc + Len(block)
  /\ \A i \in 1 .. Len(block) : block[i] = asked.lc + i - 1
  /\ state = "dma_starting" => block = <<>> /\ asked.first /\ actlen = asked.len
  /\ state \in Sampling => Len(block) + Left(actlen) = BlockWords(asked)

(* No word is asked for, and none is waiting, unless the one before was heard *)
OneWord ==
  /\ state = "inactive" => ~dmareq /\ ~unplayed
  /\ state = "dma_starting" => ~unplayed
  /\ dmareq => ~unplayed

PaulaInv == ChannelTypes /\ (state # "inactive" => BlockSoFar) /\ OneWord

LEMMA CountsWords ==
  ASSUME NEW n \in 0 .. LenMod - 1
  PROVE  /\ Down(n, LenMod) \in 0 .. LenMod - 1 /\ Left(n) \in Nat /\ Left(n) > 0
         /\ n # 1 => Left(Down(n, LenMod)) = Left(n) - 1
  <1>1. CASE n = 0
    <2>1. (0 - 1) % LenMod = LenMod - 1  BY PaulaAssumption
    <2> QED  BY <1>1, <2>1, PaulaAssumption DEF Down, Left
  <1>2. CASE n # 0
    <2>1. (n - 1) % LenMod = n - 1  BY <1>2, PaulaAssumption
    <2> QED  BY <1>2, <2>1, PaulaAssumption DEF Down, Left
  <1> QED  BY <1>1, <1>2

LEMMA PaulaStarts == PaulaInit => PaulaInv
  BY PaulaAssumption DEF PaulaInit, PaulaInv, ChannelTypes, OneWord, Sampling

(* The word after those of the block *)
LEMMA NextWord ==
  ASSUME ChannelTypes, BlockSoFar
  PROVE  /\ WordsTaken \in Seq(Nat) /\ Len(WordsTaken) = Len(block) + 1 /\ WordsTaken # <<>>
         /\ \A i \in 1 .. Len(WordsTaken) : WordsTaken[i] = asked.lc + i - 1
  <1>1. WordsTaken \in Seq(Nat) /\ Len(WordsTaken) = Len(block) + 1 /\ Len(block) \in Nat
    BY DEF WordsTaken, ChannelTypes
  <1>2. ASSUME NEW i \in 1 .. Len(block) + 1
        PROVE  WordsTaken[i] = asked.lc + i - 1
    <2>1. CASE i = Len(block) + 1
      BY <1>1, <2>1 DEF WordsTaken, BlockSoFar, ChannelTypes
    <2>2. CASE i # Len(block) + 1
      <3>1. i \in 1 .. Len(block)  BY <1>1, <2>2
      <3> QED  BY <3>1 DEF WordsTaken, BlockSoFar, ChannelTypes
    <2> QED  BY <2>1, <2>2
  <1> QED  BY <1>1, <1>2

(* A slot whose word the channel takes *)
LEMMA SlotKeeps ==
  ASSUME PaulaInv, audio_dma
  PROVE  PaulaInv' /\ WordOfBlock /\ HeardFirst
  <1>1. /\ dmareq /\ dmareq' = FALSE /\ unplayed' = TRUE /\ UNCHANGED <<lc, len>>
        /\ state \in {"dma_starting"} \cup Sampling
    BY DEF audio_dma, Sampling
  <1>2. ~unplayed /\ ChannelTypes /\ BlockSoFar
    BY <1>1 DEF PaulaInv, OneWord, Sampling
  <1>3. HeardFirst
    BY <1>2 DEF HeardFirst
  <1>4. WordsTaken = [i \in 1 .. Len(WordsTaken) |-> asked.lc + i - 1]
    BY <1>2, NextWord
  <1>5. CASE state = "dma_starting"
    <2>1. /\ actlen' = IF actlen # 1 THEN Down(actlen, LenMod) ELSE actlen
          /\ state' = "dma_samp1" /\ ptr' = ptr + 1 /\ block' = WordsTaken /\ asked' = asked
      BY <1>5 DEF audio_dma, WordsTaken
    <2>2. block = <<>> /\ asked.first /\ actlen = asked.len
      BY <1>2, <1>5 DEF BlockSoFar
    <2>3. actlen \in 0 .. LenMod - 1
      BY <1>2 DEF ChannelTypes
    <2>4. Len(WordsTaken) = 1 /\ Len(block) = 0
      BY <1>2, <2>2, NextWord
    <2>5. 1 + Left(actlen') = BlockWords(asked) /\ actlen' \in 0 .. LenMod - 1 /\ BlockWords(asked) > 0
      BY <2>1, <2>2, <2>3, CountsWords, PaulaAssumption DEF BlockWords, Left
    <2>6. WordOfBlock
      <3>1. Left(actlen') \in Nat
        BY <2>5, CountsWords
      <3>2. Len(WordsTaken) <= BlockWords(asked) /\ WordsTaken # <<>>
        BY <1>2, <2>4, <2>5, <3>1, NextWord
      <3> QED  BY <1>4, <2>1, <3>2 DEF WordOfBlock
    <2>7. ChannelTypes'
      BY <1>1, <1>2, <2>1, <2>5, NextWord DEF ChannelTypes, Sampling
    <2>8. BlockSoFar'
      BY <1>2, <2>1, <2>4, <2>5, NextWord DEF BlockSoFar, Sampling, ChannelTypes
    <2> QED  BY <1>1, <1>3, <2>1, <2>6, <2>7, <2>8 DEF PaulaInv, OneWord
  <1>6. CASE state \in Sampling
    <2>1. /\ state' = state /\ (actlen = 1 => aud_irq')
          /\ IF actlen = 1
             THEN /\ ptr' = lc /\ actlen' = len
                  /\ block' = <<>> /\ asked' = [lc |-> lc, len |-> len, first |-> FALSE]
             ELSE ptr' = ptr + 1 /\ actlen' = Down(actlen, LenMod) /\ block' = WordsTaken /\ asked' = asked
      BY <1>6 DEF audio_dma, WordsTaken, Last, Sampling
    <2>2. actlen \in 0 .. LenMod - 1 /\ Len(block) \in Nat /\ Len(block) + Left(actlen) = BlockWords(asked)
      BY <1>2, <1>6 DEF ChannelTypes, BlockSoFar
    <2>3. Len(WordsTaken) = Len(block) + 1 /\ WordsTaken # <<>>
      BY <1>2, NextWord
    <2>4. CASE actlen = 1
      <3>1. Len(WordsTaken) = BlockWords(asked) /\ aud_irq'
        BY <2>1, <2>2, <2>3, <2>4 DEF Left
      <3>2. WordOfBlock
        BY <1>4, <3>1, <2>2, <2>3 DEF WordOfBlock
      <3>3. ChannelTypes'
        BY <1>1, <1>2, <2>1, <2>4 DEF ChannelTypes
      <3>4. BlockSoFar'
        <4>1. block' = <<>> /\ asked'.lc = lc /\ asked'.len = len /\ ~asked'.first /\ ptr' = lc /\ actlen' = len
          BY <2>1, <2>4
        <4>2. len \in 0 .. LenMod - 1 /\ lc \in Nat
          BY <1>2 DEF ChannelTypes
        <4>3. BlockWords(asked') = Left(actlen') /\ Left(actlen') \in Nat
          BY <4>1, <4>2, CountsWords DEF BlockWords, Left
        <4>4. state' # "dma_starting"
          BY <1>6, <2>1 DEF Sampling
        <4> QED  BY <4>1, <4>2, <4>3, <4>4 DEF BlockSoFar
      <3> QED  BY <1>1, <1>3, <1>6, <2>1, <3>2, <3>3, <3>4 DEF PaulaInv, OneWord, Sampling
    <2>5. CASE actlen # 1
      <3>1. actlen' \in 0 .. LenMod - 1 /\ Left(actlen') = Left(actlen) - 1 /\ Left(actlen) > 0 /\ Left(actlen) \in Nat
        BY <2>1, <2>2, <2>5, CountsWords
      <3>2. WordOfBlock
        BY <1>4, <2>1, <2>2, <2>3, <2>5, <3>1 DEF WordOfBlock
      <3>3. ChannelTypes'
        BY <1>1, <1>2, <2>1, <2>5, <3>1, NextWord DEF ChannelTypes
      <3>4. BlockSoFar'
        <4>1. block' = WordsTaken /\ asked' = asked /\ ptr' = ptr + 1 /\ state' # "dma_starting"
          BY <1>6, <2>1, <2>5 DEF Sampling
        <4>2. ptr' = asked'.lc + Len(block')
          BY <1>2, <2>2, <2>3, <4>1 DEF BlockSoFar, ChannelTypes
        <4>3. \A i \in 1 .. Len(block') : block'[i] = asked'.lc + i - 1
          BY <1>2, <4>1, NextWord
        <4>4. Len(block') + Left(actlen') = BlockWords(asked')
          BY <2>2, <2>3, <3>1, <4>1 DEF BlockWords
        <4> QED  BY <4>1, <4>2, <4>3, <4>4 DEF BlockSoFar
      <3> QED  BY <1>1, <1>3, <1>6, <2>1, <3>2, <3>3, <3>4 DEF PaulaInv, OneWord, Sampling
    <2> QED  BY <2>4, <2>5
  <1> QED  BY <1>1, <1>5, <1>6

(* The state machine between two slots *)
LEMMA AudioKeeps ==
  ASSUME PaulaInv, do_audio
  PROVE  PaulaInv'
  <1>1. UNCHANGED <<lc, len>>
    BY DEF do_audio
  <1>2. CASE Stop
    BY <1>1, <1>2 DEF Stop, PaulaInv, ChannelTypes, OneWord, Sampling
  <1>3. CASE Begin
    <2>1. /\ state' = "dma_starting" /\ ptr' = lc /\ actlen' = len /\ dmareq' = TRUE /\ block' = <<>>
          /\ asked' = [lc |-> lc, len |-> len, first |-> TRUE] /\ unplayed' = unplayed /\ state = "inactive"
      BY <1>3 DEF Begin
    <2>2. ~unplayed
      BY <2>1 DEF PaulaInv, OneWord
    <2>3. ChannelTypes'
      BY <1>1, <2>1 DEF PaulaInv, ChannelTypes
    <2>4. BlockSoFar'
      BY <2>1 DEF PaulaInv, ChannelTypes, BlockSoFar, Sampling
    <2> QED  BY <2>1, <2>2, <2>3, <2>4 DEF PaulaInv, OneWord
  <1>4. CASE Play
    <2>1. state \in Sampling /\ state' \in Sampling /\ UNCHANGED <<ptr, actlen, block, asked>>
      BY <1>4 DEF Play, Sampling
    <2>2. ChannelTypes'
      BY <1>1, <2>1 DEF PaulaInv, ChannelTypes
    <2>3. BlockSoFar'
      BY <2>1 DEF PaulaInv, BlockSoFar, Sampling
    <2>4. OneWord'
      <3>1. CASE state = "dma_samp1"
        BY <1>4, <2>1, <3>1 DEF Play, OneWord, Sampling
      <3>2. CASE state = "dma_samp2"
        <4>1. unplayed' = unplayed /\ (dmareq' => dmareq)
          BY <1>4, <3>2 DEF Play, RequestsAfter
        <4> QED  BY <2>1, <4>1 DEF PaulaInv, OneWord, Sampling
      <3> QED  BY <2>1, <3>1, <3>2 DEF Sampling
    <2> QED  BY <2>2, <2>3, <2>4 DEF PaulaInv
  <1> QED  BY <1>2, <1>3, <1>4 DEF do_audio

LEMMA GuestKeepsChannel ==
  ASSUME PaulaInv,
         \/ \E l \in Locations : WriteLocation(l)
         \/ \E l \in SampleLengths : WriteLength(l)
         \/ \E p \in Periods : WritePeriod(p)
         \/ \E v \in BOOLEAN : WriteDmacon(v)
         \/ WriteData(0)
  PROVE  PaulaInv'
  <1>1. /\ lc' \in Nat /\ len' \in 0 .. LenMod - 1
        /\ UNCHANGED <<state, ptr, actlen, dmareq, block, asked>> /\ (unplayed' => unplayed)
    BY PaulaAssumption DEF PaulaInv, ChannelTypes, WriteLocation, WriteLength, WritePeriod, WriteDmacon, WriteData, channel
  <1> QED  BY <1>1 DEF PaulaInv, ChannelTypes, BlockSoFar, OneWord


LEMMA PaulaStep == PaulaInv /\ [PaulaNext]_paula_vars => PaulaInv' /\ [WordOfBlock /\ HeardFirst]_paula_vars
  <1> SUFFICES ASSUME PaulaInv, [PaulaNext]_paula_vars PROVE PaulaInv' /\ WordOfBlock /\ HeardFirst
    OBVIOUS
  <1>1. CASE audio_dma
    BY <1>1, SlotKeeps
  <1>2. CASE ~audio_dma
    <2>1. WordOfBlock /\ HeardFirst
      BY <1>2 DEF WordOfBlock, HeardFirst
    <2>2. CASE do_audio
      BY <2>1, <2>2, AudioKeeps
    <2>3. CASE UNCHANGED paula_vars
      BY <2>1, <2>3 DEF PaulaInv, ChannelTypes, BlockSoFar, OneWord, paula_vars, channel
    <2> QED  BY <1>2, <2>1, <2>2, <2>3, GuestKeepsChannel DEF PaulaNext
  <1> QED  BY <1>1, <1>2

(***************************************************************************)
(* For any samples, lengths and periods, and however the guest writes the  *)
(* registers and DMACON between two slots: between two interrupts a channel *)
(* fetches the whole block whose registers it took at the first of them,   *)
(* and hears each word before it fetches the next.                         *)
(***************************************************************************)
THEOREM BlocksHeardCorrect == PaulaSpec => BlocksHeard
  <1>1. PaulaSpec => []PaulaInv
    BY PaulaStarts, PaulaStep, PTL DEF PaulaSpec
  <1> QED  BY <1>1, PaulaStep, PTL DEF PaulaSpec, BlocksHeard

=============================================================================
