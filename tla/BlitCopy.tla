------------------------------ MODULE BlitCopy ------------------------------
(***************************************************************************)
(* What a rectangular blit promises, whatever else uses the bus: once it   *)
(* is started, the words of the destination rectangle are written one by   *)
(* one, each once and in order, the n-th result to the n-th address, and   *)
(* the blitter is idle again only when all of them have been.              *)
(***************************************************************************)
EXTENDS Integers, Sequences

CONSTANTS
  Sizes,   (* the sizes <<width, height>> a blit may have *)
  Mod      (* destination modulo, in words *)

VARIABLES
  job,     (* [w, h, at, dest]: the rectangle; dest: D is enabled *)
  active,  (* a blit is in progress *)
  out      (* the words written: <<address, number of the result>> *)

vars == <<job, active, out>>

Total(j) == IF j.dest THEN j.w * j.h ELSE 0

(* The k-th destination word, k from 1: its address and its result *)
Word(j, k) == <<j.at + (k - 1) + ((k - 1) \div j.w) * Mod, k>>

Init == ~active /\ out = <<>>

Start ==
  /\ ~active /\ active'
  /\ <<job'.w, job'.h>> \in Sizes
  /\ out' = <<>>

WriteWord ==
  /\ active /\ active' /\ Len(out) < Total(job)
  /\ out' = Append(out, Word(job, Len(out) + 1))
  /\ UNCHANGED job

(* The last word may be written in the very step that ends the blit *)
Finish ==
  /\ active /\ ~active'
  /\ Len(out') = Total(job)
  /\ out' = out \/ out' = Append(out, Word(job, Len(out) + 1))
  /\ UNCHANGED job

(* The blitter draws a line: that is no copy, and what was written before  *)
(* need not be remembered                                                  *)
DrawLine == ~active /\ ~active' /\ out' = <<>>

Next == Start \/ WriteWord \/ Finish \/ DrawLine

Spec == Init /\ [][Next]_vars
=============================================================================
