------------------------------ MODULE WaveOut ------------------------------
(***************************************************************************)
(* The Windows sound device (wavedev_win32.cpp): a thread fills a ring of  *)
(* buffers and writes their headers to the device, the device's driver     *)
(* calls back when it has played one, and the owner pauses, resumes and    *)
(* destroys it.  What waits on the condition variable is notified whenever *)
(* what it waits for changes, so a wait is a guard.                        *)
(***************************************************************************)
EXTENDS Integers, Sequences

CONSTANTS
  buffer_count,
  MaxPlayed     (* bound: of buffers played *)

ASSUME WaveAssumption == buffer_count \in Nat \ {0} /\ MaxPlayed \in Nat

VARIABLES
  exiting, paused, num_buffers_to_play, next_buffer,
  thread,         (* [at, buffer]: where double_buffer_thread is           *)
  queue,          (* buffers the device has, the one it plays first        *)
  returned,       (* how many it is done with that no callback counted yet *)
  owner,          (* "alive", then what the destructor has got to          *)
  played          (* history: buffers the device has played                *)

wave_vars == <<exiting, paused, num_buffers_to_play, next_buffer, thread, queue, returned, owner, played>>

WaveInit ==
  /\ exiting = FALSE /\ paused = FALSE /\ num_buffers_to_play = buffer_count /\ next_buffer = 0
  /\ thread = [at |-> "wait", buffer |-> 0] /\ queue = <<>> /\ returned = 0 /\ owner = "alive" /\ played = <<>>

At(place) == thread.at = place
Goes(place) == thread' = [thread EXCEPT !.at = place]

-----------------------------------------------------------------------------
(* What the thread does with the mutex: it takes a buffer *)
Wakes == exiting \/ paused \/ num_buffers_to_play > 0

(* Mutant: a buffer to fill is not counted *)
TakeUncounted == num_buffers_to_play' = num_buffers_to_play

Take == num_buffers_to_play' = num_buffers_to_play - 1

Work ==
  /\ At("wait") /\ Wakes
  /\ IF exiting THEN Goes("ended") /\ UNCHANGED <<num_buffers_to_play, next_buffer>>
     ELSE IF paused THEN Goes("paused") /\ UNCHANGED <<num_buffers_to_play, next_buffer>>
     ELSE /\ Take
          /\ next_buffer' = (next_buffer + 1) % buffer_count
          /\ thread' = [at |-> "fill", buffer |-> next_buffer]
  /\ UNCHANGED <<exiting, paused, queue, returned, owner, played>>

Resume ==
  /\ At("paused") /\ (exiting \/ ~paused)
  /\ Goes("wait")
  /\ UNCHANGED <<exiting, paused, num_buffers_to_play, next_buffer, queue, returned, owner, played>>

(* and without it: it has the buffer filled, and writes its header *)
Fill ==
  /\ At("fill") /\ Goes("write")
  /\ UNCHANGED <<exiting, paused, num_buffers_to_play, next_buffer, queue, returned, owner, played>>

Write ==
  /\ At("write") /\ Goes("wait")
  /\ queue' = Append(queue, thread.buffer)
  /\ UNCHANGED <<exiting, paused, num_buffers_to_play, next_buffer, returned, owner, played>>

-----------------------------------------------------------------------------
(* The device plays, and its driver calls back *)
Play ==
  /\ queue # <<>> /\ Len(played) < MaxPlayed
  /\ queue' = Tail(queue) /\ returned' = returned + 1 /\ played' = Append(played, Head(queue))
  /\ UNCHANGED <<exiting, paused, num_buffers_to_play, next_buffer, thread, owner>>

s_callback ==
  /\ returned > 0
  /\ num_buffers_to_play' = num_buffers_to_play + 1 /\ returned' = returned - 1
  /\ UNCHANGED <<exiting, paused, next_buffer, thread, queue, owner, played>>

-----------------------------------------------------------------------------
(* The owner *)
set_paused(pause) ==
  /\ owner = "alive" /\ paused' = pause
  /\ UNCHANGED <<exiting, num_buffers_to_play, next_buffer, thread, queue, returned, owner, played>>

Destroy ==
  /\ owner = "alive" /\ owner' = "exiting" /\ exiting' = TRUE /\ paused' = FALSE
  /\ UNCHANGED <<num_buffers_to_play, next_buffer, thread, queue, returned, played>>

(* waveOutReset gives back what the device has; then the thread is joined *)
Reset ==
  /\ owner = "exiting" /\ owner' = "reset"
  /\ queue' = <<>> /\ returned' = returned + Len(queue)
  /\ UNCHANGED <<exiting, paused, num_buffers_to_play, next_buffer, thread, played>>

Join ==
  /\ owner = "reset" /\ At("ended") /\ owner' = "gone"
  /\ UNCHANGED <<exiting, paused, num_buffers_to_play, next_buffer, thread, queue, returned, played>>

WaveNext ==
  /\ owner # "gone"
  /\ \/ Work \/ Resume \/ Fill \/ Write \/ Play \/ s_callback
     \/ \E pause \in BOOLEAN : set_paused(pause)
     \/ Destroy \/ Reset \/ Join

WaveSpec == WaveInit /\ [][WaveNext]_wave_vars

-----------------------------------------------------------------------------
(***************************************************************************)
(* However the thread, the driver and the owner take turns: a buffer that  *)
(* is filled or written is not one the device has; the count of free       *)
(* buffers never leaves its range (both assertions); and until it is reset *)
(* the device plays the buffers in the order of the ring, pauses or not.   *)
(***************************************************************************)
BuffersTakeTurns ==
  /\ (thread.at \in {"fill", "write"}) => \A i \in DOMAIN queue : queue[i] # thread.buffer
  /\ num_buffers_to_play + Len(queue) + returned + (IF thread.at \in {"fill", "write"} THEN 1 ELSE 0) = buffer_count
  /\ owner \in {"alive", "exiting"} => \A i \in 1 .. Len(played) : played[i] = (i - 1) % buffer_count
=============================================================================
