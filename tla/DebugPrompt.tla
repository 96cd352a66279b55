---------------------------- MODULE DebugPrompt ----------------------------
(* gui::debug_prompt (sdl_driver.cpp): a thread reads the debugger's lines *)
(* while the main thread looks after the window; both share msg.  Lines    *)
(* are numbered; line, which the thread keeps a reference to, is one place *)
EXTENDS Naturals

CONSTANT MaxPrompts       (* bound *)

VARIABLES
  msg, reader, caller,    (* where the two threads are                     *)
  line, asked, read,      (* the line that is there, questions, lines read *)
  closed, failed          (* in the middle of a question; an assertion     *)

prompt_vars == <<msg, reader, caller, line, asked, read, closed, failed>>

(* send_msg, also from at_exit_ *)
send_msg(m) == failed' = (failed \/ msg # "none") /\ msg' = m

Ask ==
  /\ caller = "program" /\ asked < MaxPrompts
  /\ send_msg("read_line") /\ caller' = "polling" /\ asked' = asked + 1
  /\ UNCHANGED <<reader, line, read, closed>>

Close ==
  /\ caller = "polling" /\ caller' = "leaving" /\ closed' = TRUE
  /\ UNCHANGED <<msg, reader, line, asked, read, failed>>

Answered ==
  /\ caller = "polling" /\ msg = "none" /\ caller' \in {"program", "leaving"}
  /\ UNCHANGED <<msg, reader, line, asked, read, closed, failed>>

AtExit ==
  /\ caller = "leaving" /\ send_msg("quit") /\ caller' = "joining"
  /\ UNCHANGED <<reader, line, asked, read, closed>>

JoinReader ==
  /\ caller = "joining" /\ reader = "gone" /\ caller' = "gone"
  /\ UNCHANGED <<msg, reader, line, asked, read, closed, failed>>

(* The thread *)
Wake ==
  /\ reader = "waiting" /\ msg # "none"
  /\ reader' = IF msg = "quit" THEN "gone" ELSE "reading"
  /\ UNCHANGED <<msg, caller, line, asked, read, closed, failed>>

GetLine ==
  /\ reader = "reading" /\ reader' = "read" /\ read' = read + 1 /\ line' = read + 1
  /\ UNCHANGED <<msg, caller, asked, closed, failed>>

(* Mutant: the question is over when the thread has heard of it *)
OverWhenHeard == reader = "reading"

Over == reader = "read"

Done ==
  /\ Over /\ reader' = "waiting" /\ msg' = "none"
  /\ failed' = (failed \/ msg # "read_line")
  /\ UNCHANGED <<caller, line, asked, read, closed>>

PromptInit ==
  /\ msg = "none" /\ reader = "waiting" /\ caller = "program"
  /\ line = 0 /\ asked = 0 /\ read = 0 /\ closed = FALSE /\ failed = FALSE

PromptNext == Ask \/ Close \/ Answered \/ AtExit \/ JoinReader \/ Wake \/ GetLine \/ Done

PromptSpec == PromptInit /\ [][PromptNext]_prompt_vars

(* Each question is answered by its line, and unless the window is closed  *)
(* while one is open the thread can be waited for: no assertion fails, and *)
(* it never waits with the main thread.                                    *)
LinesAnswerQuestions ==
  ~closed => /\ ~failed /\ (caller = "program" => read = asked /\ line = asked)
             /\ ~(caller = "joining" /\ reader = "waiting" /\ msg = "none")
=============================================================================
