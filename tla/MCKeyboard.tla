----------------------------- MODULE MCKeyboard -----------------------------
(* A small instance of Keyboard for TLC.  Contexts are alike, and so are the *)
(* two quotes.                                                               *)
EXTENDS Keyboard, TLC

CONSTANTS i1, i2, double, single
Contexts  == {i1, i2}
Quotes    == {double, single}
Symmetric == Permutations(Contexts) \cup Permutations(Quotes)
=============================================================================
