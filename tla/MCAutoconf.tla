----------------------------- MODULE MCAutoconf -----------------------------
(* Three boards as main.cpp can have them, the first of two pages,         *)
(* and room for them at more places than one                               *)
EXTENDS Autoconf

MCBoards == <<"fast_ram", "hd", "dbg_board">>
MCSize == [d \in Devs |-> IF d = "fast_ram" THEN 2 ELSE 1]
MCExpansion == {2, 3, 4, 6}
=============================================================================
