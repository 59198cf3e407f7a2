----------------------------- MODULE MCObjects -----------------------------
(* A small instance of Objects for TLC. *)
EXTENDS Objects, TLC

CONSTANTS p0, p1, p2, p3, cb   \* addresses and a callback thread
Addresses == {p0, p1, p2, p3}
AtStart   == {p0}
Callbacks == {cb}
Symmetry  == Permutations({p1, p2, p3})
============================================================================
