------------------------------ MODULE MCBlitter ------------------------------
(* Instances of Blitter for TLC: moduli that tell the channels apart. *)
EXTENDS Blitter

MCMod == [A |-> 0, B |-> 1, C |-> 0, D |-> 2]

AllUses == SUBSET Channels
SomeUses == {{"D"}, {"A", "D"}, {"B", "C", "D"}, {"A", "B", "C", "D"}}
LineUses == {{"A", "C", "D"}}

SmallSizes == {<<1, 1>>, <<2, 2>>}
SomeSizes == {<<1, 1>>, <<2, 2>>, <<2, 3>>}
=============================================================================
