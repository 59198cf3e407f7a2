----------------------------- MODULE LocalRefs -----------------------------
(***************************************************************************)
(* What JNI promises native code about an object: it lives as long as a    *)
(* reference to it does.  A reference comes with a new object; one given   *)
(* up does not come back; what has none left may be collected at any time. *)
(***************************************************************************)
CONSTANT Addr
VARIABLES live, roots   \* the objects there are; those with a reference
vars == <<live, roots>>

New(p) ==
  /\ p \notin live
  /\ live' = live \cup {p} /\ roots' = roots \cup {p}

Drop(objects) ==
  /\ objects \subseteq roots
  /\ roots' = roots \ objects /\ UNCHANGED live

Collect(p) ==
  /\ p \in live \ roots
  /\ live' = live \ {p} /\ UNCHANGED roots

Init == live = roots /\ roots \subseteq Addr
Next ==
  \/ \E p \in Addr : New(p) \/ Collect(p)
  \/ \E objects \in SUBSET roots : Drop(objects)
Spec == Init /\ [][Next]_vars
============================================================================
