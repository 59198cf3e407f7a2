---------------------------- MODULE MCCandQueue ----------------------------
(* A small instance of CandQueue for TLC: one letter, typed alone or merged. *)
EXTENDS CandQueue

CONSTANT l
OneLetter == {l}
OneOrTwo  == {<<l>>, <<l, l>>}
============================================================================
