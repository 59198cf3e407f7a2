---------------------------- MODULE AsyncCalls ----------------------------
(***************************************************************************)
(* What EngineProc::send() promises the addon, with no process, pipe or    *)
(* line in sight: a request is issued, and its handler is called once,     *)
(* either with its own reply or with the news that it was lost.  Replies   *)
(* come in the order of the requests; losses may come at any moment.       *)
(***************************************************************************)
EXTENDS Naturals

CONSTANT MaxAsks   \* bound: requests issued in a behaviour

VARIABLES
  issued,    \* how many requests have been issued; they are numbered from 1
  replied,   \* those whose handler was called with their reply
  lost,      \* those whose handler was called with ""
  calls      \* how many times handlers were called in all

vars == <<issued, replied, lost, calls>>

Open == (1..issued) \ (replied \cup lost)

Init == issued = 0 /\ replied = {} /\ lost = {} /\ calls = 0

Issue ==
  /\ issued < MaxAsks
  /\ issued' = issued + 1
  /\ UNCHANGED <<replied, lost, calls>>

\* Only the oldest open request can be answered: replies carry no number.
GiveReply(i) ==
  /\ i \in Open
  /\ \A j \in Open : i <= j
  /\ replied' = replied \cup {i}
  /\ calls' = calls + 1
  /\ UNCHANGED <<issued, lost>>

GiveLoss(i) ==
  /\ i \in Open
  /\ lost' = lost \cup {i}
  /\ calls' = calls + 1
  /\ UNCHANGED <<issued, replied>>

Next == Issue \/ \E i \in 1..issued : GiveReply(i) \/ GiveLoss(i)

Spec == Init /\ [][Next]_vars
============================================================================
