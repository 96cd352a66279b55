---------------------------- MODULE AudioBuffers ----------------------------
(***************************************************************************)
(* The audio double buffer of main.cpp: the emulation thread hands one     *)
(* frame of samples per video frame to the callback of the audio device,   *)
(* and waits when the buffer it wants to fill has not been played.  The    *)
(* debugger pauses the device, from the places of the main loop that call  *)
(* activate_debugger, and leaving amiga::run tears everything down.        *)
(*                                                                         *)
(* The samples of a frame are reduced to its number.  The device is any    *)
(* wavedev: it starts callbacks while it is not paused, and one already    *)
(* started still runs after a pause (wavedev_win32.cpp looks at the flag   *)
(* first and calls later).  A wait on a condition variable is a wait for   *)
(* its predicate: both are changed and tested under audio_mutex_, and each *)
(* callback notifies the only waiter there can be.                         *)
(***************************************************************************)
EXTENDS Integers, Sequences, FiniteSets

CONSTANTS
  Debugger,  (* the places debugger activity comes from, see below        *)
  MayQuit,   (* the user may leave the emulator                           *)
  MaxFrames  (* bound on the frames emulated                              *)

(* "key": F12, in gui::update; "access": memwatch, illegal access or a     *)
(* "zv" command, in the middle of an instruction; "inst":                  *)
(* check_debug_break, after it; "frames": a "zf n" command waiting for     *)
(* frames; "vpos": a "zf" or "zv 0 0" command waiting for the beam to be   *)
(* where a frame starts                                                    *)
DebuggerSources == {"key", "access", "inst", "frames", "vpos"}

ASSUME AudioAssumption ==
  /\ Debugger \subseteq DebuggerSources
  /\ MayQuit \in BOOLEAN
  /\ MaxFrames \in Nat

VARIABLES
  audio_buffer,       (* [0 .. 1 -> Nat]: the frame in each buffer        *)
  audio_buffer_ready, (* [0 .. 1 -> BOOLEAN]                              *)
  next_to_play, next_to_fill,
  pc,                 (* where the emulation thread is                    *)
  debug_mode,
  wait_mode,          (* "frames", "vpos" (with wait_arg = 0), or "none": *)
                      (* another wait, of the other sources, or none      *)
  debug_event,        (* a debug_mode event is queued                     *)
  quit,
  paused,             (* the device was told to pause                     *)
  device,             (* "idle", or "called": about to run the callback   *)
  frames,             (* history: frames emulated                         *)
  skipped,            (* history: those that were not handed over         *)
  played,             (* history: frames played, in order                 *)
  underrun            (* history: a callback found no frame               *)

bufVars == <<audio_buffer, audio_buffer_ready, next_to_play, next_to_fill>>
debugVars == <<debug_mode, wait_mode, debug_event, quit>>
historyVars == <<frames, skipped, played, underrun>>
vars == <<bufVars, pc, debugVars, paused, device, historyVars>>

OtherUnwrapped(b) == b + 1   (* mutant *)
Other(b) == 1 - b

-----------------------------------------------------------------------------
(* The emulation thread *)

activate_debugger == debug_mode' = TRUE /\ paused' = TRUE

(* amiga::step: an event, then the debugger, then an instruction.  Events  *)
(* are taken one at a time, so the debug event may have to wait its turn.  *)
TakeEvent ==
  /\ pc = "step" /\ pc' = "check"
  /\ \/ debug_event /\ debug_event' = FALSE /\ activate_debugger
        /\ UNCHANGED quit
     \/ MayQuit /\ quit' = TRUE /\ UNCHANGED <<debug_event, debug_mode, paused>>
     \/ UNCHANGED <<debug_event, debug_mode, paused, quit>>
  /\ UNCHANGED <<bufVars, wait_mode, device, historyVars>>

CheckDebug ==
  /\ pc = "check" /\ pc' = IF debug_mode THEN "prompt" ELSE "exec"
  /\ UNCHANGED <<bufVars, debugVars, paused, device, historyVars>>

(* The command that leaves debugger_loop, or the end of its input *)
Prompt ==
  /\ pc = "prompt" /\ pc' = "exec"
  /\ debug_mode' = FALSE /\ paused' = FALSE
  /\ \/ wait_mode' \in {wait_mode, "none"} \cup (Debugger \cap {"frames", "vpos"}) /\ UNCHANGED quit
     \/ MayQuit /\ quit' = TRUE /\ UNCHANGED wait_mode
  /\ UNCHANGED <<bufVars, debug_event, device, historyVars>>

(* on_memory_access or on_illegal_acess, while an instruction runs *)
AccessBreak ==
  /\ pc \in {"exec", "tail"} /\ "access" \in Debugger
  /\ activate_debugger
  /\ UNCHANGED <<bufVars, pc, wait_mode, debug_event, quit, device,
                 historyVars>>

(* cstep reaches the start of a frame, once in an instruction at most: the *)
(* loop of a stopped CPU ends there too.  A wait for that place comes      *)
(* before the frame is handed over, and instead of it.                     *)
PlaceReached ==
  /\ wait_mode = "vpos" /\ wait_mode' = "none" /\ activate_debugger
  /\ skipped' = skipped \cup {frames'} /\ pc' = "tail"

FrameReached ==
  /\ wait_mode # "vpos" /\ pc' = "lock" /\ UNCHANGED skipped
  /\ \/ wait_mode = "frames" /\ wait_mode' = "none" /\ activate_debugger
     \/ UNCHANGED <<wait_mode, debug_mode, paused>>   (* no wait, or more frames *)

FrameStart ==
  /\ pc = "exec" /\ frames < MaxFrames
  /\ frames' = frames + 1
  /\ PlaceReached \/ FrameReached
  /\ UNCHANGED <<bufVars, debug_event, quit, device, played, underrun>>

FillBuffer ==
  /\ audio_buffer' = [audio_buffer EXCEPT ![next_to_fill] = frames]
  /\ audio_buffer_ready' = [audio_buffer_ready EXCEPT ![next_to_fill] = TRUE]
  /\ next_to_fill' = Other(next_to_fill)
  /\ UNCHANGED next_to_play

(* Mutant: nobody waits for the device *)
CanFillAlways == pc \in {"lock", "wait"}

(* The buffer to fill is free, at once or at last *)
CanFill == pc \in {"lock", "wait"} /\ ~audio_buffer_ready[next_to_fill]

BeginWait ==
  /\ pc = "lock" /\ ~CanFill /\ pc' = "wait"
  /\ UNCHANGED <<bufVars, debugVars, paused, device, historyVars>>

Fill ==
  /\ CanFill /\ pc' = "tail"
  /\ FillBuffer
  /\ UNCHANGED <<debugVars, paused, device, historyVars>>

(* The end of the instruction, check_debug_break included: a breakpoint    *)
(* ends any wait                                                           *)
EndOfInstruction ==
  /\ pc \in {"exec", "tail"} /\ pc' = "update"
  /\ \/ UNCHANGED <<debug_mode, wait_mode, paused>>
     \/ "inst" \in Debugger /\ activate_debugger /\ wait_mode' = "none"
  /\ UNCHANGED <<bufVars, debug_event, quit, device, historyVars>>

(* gui::update: F12 pauses the device at once and queues the event; and    *)
(* the end of the loop in run                                              *)
Update ==
  /\ pc = "update" /\ pc' = IF quit THEN "destroy" ELSE "step"
  /\ \/ UNCHANGED <<debug_event, paused>>
     \/ "key" \in Debugger /\ debug_event' = TRUE /\ paused' = TRUE
  /\ UNCHANGED <<bufVars, debug_mode, wait_mode, quit, device, historyVars>>

(* ~amiga: the body lets a waiting callback go on.  Members go in reverse  *)
(* order of declaration: the buffers, condition variables and the mutex    *)
(* before audio, the device.                                               *)
Destroy ==
  /\ pc = "destroy" /\ pc' = "members"
  /\ audio_buffer_ready' = [b \in 0 .. 1 |-> TRUE]
  /\ UNCHANGED <<audio_buffer, next_to_play, next_to_fill, debugVars, paused,
                 device, historyVars>>

CloseDevice ==
  /\ pc = "members" /\ pc' = "closed"
  /\ device' = "idle"
  /\ UNCHANGED <<bufVars, debugVars, paused, historyVars>>

Emulation == \/ TakeEvent \/ CheckDebug \/ Prompt \/ AccessBreak \/ FrameStart
             \/ BeginWait \/ Fill \/ EndOfInstruction \/ Update
             \/ Destroy \/ CloseDevice

-----------------------------------------------------------------------------
(* The device's thread *)

StartCallback ==
  /\ device = "idle" /\ ~paused /\ pc # "closed"
  /\ device' = "called"
  /\ UNCHANGED <<bufVars, pc, debugVars, paused, historyVars>>

(* Mutant: the buffer stays ready, so it is played again *)
ReleaseNever == UNCHANGED audio_buffer_ready

(* The buffer is free again whether it was played or skipped *)
Release ==
  audio_buffer_ready' = [audio_buffer_ready EXCEPT ![next_to_play] = FALSE]

(* The history of what was heard; the bound is out of reach of a player    *)
(* that plays each frame once                                              *)
Hear(f) == IF Len(played) < 2 * MaxFrames THEN Append(played, f) ELSE played

(* audio_callback: a buffer that is not ready is skipped *)
audio_callback ==
  /\ device = "called" /\ device' = "idle"
  /\ IF audio_buffer_ready[next_to_play] /\ pc # "members"
     THEN played' = Hear(audio_buffer[next_to_play]) /\ UNCHANGED underrun
     ELSE underrun' = TRUE /\ UNCHANGED played
  /\ Release
  /\ next_to_play' = Other(next_to_play)
  /\ UNCHANGED <<audio_buffer, next_to_fill, pc, debugVars, paused, frames, skipped>>

Device == StartCallback \/ audio_callback

-----------------------------------------------------------------------------
Init ==
  /\ audio_buffer = [b \in 0 .. 1 |-> 0]
  /\ audio_buffer_ready = [b \in 0 .. 1 |-> FALSE]
  /\ next_to_play = 0 /\ next_to_fill = 0
  /\ pc = "step"
  /\ debug_mode \in {d \in BOOLEAN : d => Debugger # {}}   (* -debug *)
  /\ wait_mode = "none" /\ debug_event = FALSE /\ quit = FALSE
  /\ paused = debug_mode /\ device = "idle"
  /\ frames = 0 /\ skipped = {} /\ played = <<>> /\ underrun = FALSE

Done == pc = "closed" /\ UNCHANGED vars

Next == Emulation \/ Device \/ Done

(* The emulation thread runs when it can, but a user may never answer the  *)
(* prompt; a device that is not paused keeps calling back.                 *)
Fairness ==
  /\ WF_vars(Fill \/ BeginWait)
  /\ WF_vars(StartCallback) /\ WF_vars(audio_callback)

Spec == Init /\ [][Next]_vars
FairSpec == Spec /\ Fairness

-----------------------------------------------------------------------------
TypeOK ==
  /\ audio_buffer \in [0 .. 1 -> 0 .. MaxFrames]
  /\ audio_buffer_ready \in [0 .. 1 -> BOOLEAN]
  /\ {next_to_play, next_to_fill} \subseteq 0 .. 1
  /\ pc \in {"step", "check", "prompt", "exec", "lock", "wait", "tail",
             "update", "destroy", "members", "closed"}
  /\ {debug_mode, debug_event, quit, paused, underrun} \subseteq BOOLEAN
  /\ wait_mode \in {"none", "frames", "vpos"}
  /\ device \in {"idle", "called"}
  /\ frames \in 0 .. MaxFrames /\ skipped \subseteq 1 .. frames
  /\ played \in Seq(1 .. MaxFrames)

Running == pc \notin {"members", "closed"}

Waiting == {b \in 0 .. 1 : audio_buffer_ready[b]}

(***************************************************************************)
(* No frame is lost, overwritten before it was played, or played twice:    *)
(* those handed over are the ones played and the ones in ready buffers.    *)
(* They are the frames emulated but for those at whose start the debugger  *)
(* was waiting for just that place.                                        *)
(***************************************************************************)
EachFrameOnce ==
  Running =>
    LET heard == {played[i] : i \in DOMAIN played}
        kept == {audio_buffer[b] : b \in Waiting}
        handed == (1 .. (IF pc \in {"lock", "wait"} THEN frames - 1 ELSE frames)) \ skipped
    IN  /\ heard \cup kept = handed /\ heard \cap kept = {}
        /\ Cardinality(heard) = Len(played)
        /\ Cardinality(kept) = Cardinality(Waiting)

(***************************************************************************)
(* Until the device first finds no frame, frames are heard in order.       *)
(***************************************************************************)
InOrderUntilUnderrun ==
  ~underrun => \A i, k \in DOMAIN played : i < k => played[i] < played[k]

(***************************************************************************)
(* Waiting for the device ends, unless the device is paused: it always     *)
(* comes round to the buffer that the emulation waits for.                 *)
(***************************************************************************)
WaitEndsUnlessPaused == pc = "wait" ~> pc # "wait" \/ paused

(***************************************************************************)
(* "Wait for next frame(s)", a debugger command: a wait for the device     *)
(* ends, although the debugger pauses and resumes it.                      *)
(***************************************************************************)
WaitEnds == pc = "wait" ~> pc # "wait"

=============================================================================
