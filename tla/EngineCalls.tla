---------------------------- MODULE EngineCalls ----------------------------
(***************************************************************************)
(* EngineProc under the most general client: at an event of Fcitx's loop,  *)
(* in any handler and in onExit_, the client may start the engine, send    *)
(* lines to it or stop it.  Requests are numbered as they are issued, so   *)
(* that what each handler is told can be compared with AsyncCalls.         *)
(***************************************************************************)
EXTENDS EngineProc

CONSTANTS
  MaxAsks,    \* bound: requests issued in a behaviour
  Programs    \* what a client callback may do: sequences of its calls

VARIABLES issued, replied, lost, calls

clientVars == <<issued, replied, lost, calls>>
vars == <<procVars, clientVars>>

Id      == 1..MaxAsks
Ask(kind) == [op |-> "ask", kind |-> kind]
AskTask == [op: {"ask"}, kind: {"B", "C"}]

ASSUME ClientAssumption ==
  /\ MaxAsks \in Nat
  /\ Line = [op: {"B", "C"}, id: Id]
  /\ Local = AskTask
  /\ Programs \subseteq Seq(AskTask \cup [op: {"start", "stop"}])

TypeOK ==
  /\ ProcTypeOK
  /\ issued \in 0..MaxAsks
  /\ replied \subseteq Id
  /\ lost \subseteq Id
  /\ calls \in Nat

Init ==
  /\ \E p \in Programs : ProcInit(p)
  /\ issued = 0 /\ replied = {} /\ lost = {} /\ calls = 0

\* A callback of Fcitx (key, focus, timer) runs some program.
Event ==
  /\ Idle
  /\ \E p \in Programs : todo' = p
  /\ UNCHANGED <<alive, state, pending, rbuf, failCount, gaveUp, childVars, clientVars>>

Start ==
  /\ Calling("start")
  /\ StartAlive(<<>>) \/ StartFork(<<>>) \/ StartRefused
  /\ UNCHANGED clientVars

\* The next request, if the bound allows one more.
AskStep ==
  /\ Calling("ask")
  /\ IF issued < MaxAsks
       THEN /\ issued' = issued + 1
            /\ \E h \in Handler :
                 todo' = <<Send([op |-> Head(todo).kind, id |-> issued + 1], h)>> \o Tail(todo)
       ELSE /\ todo' = Tail(todo)
            /\ UNCHANGED issued
  /\ UNCHANGED <<alive, state, pending, rbuf, failCount, gaveUp, childVars, replied, lost, calls>>

\* A handler is told its outcome, and runs some program or none.
Handle ==
  /\ Calling("call")
  /\ \E p \in Programs \cup {<<>>} : todo' = p \o Tail(todo)
  /\ calls' = calls + 1
  /\ IF Head(todo).resp = Failed
       THEN lost' = lost \cup {Head(todo).line.id} /\ UNCHANGED replied
       ELSE replied' = replied \cup {Head(todo).resp.re.id} /\ UNCHANGED lost
  /\ UNCHANGED <<alive, state, pending, rbuf, failCount, gaveUp, childVars, issued>>

OnExit ==
  /\ Calling("exit")
  /\ \E p \in Programs \cup {<<>>} : todo' = p \o Tail(todo)
  /\ UNCHANGED <<alive, state, pending, rbuf, failCount, gaveUp, childVars, clientVars>>

Addon == Start \/ AskStep \/ Handle \/ OnExit \/ (ProcCalls /\ UNCHANGED clientVars)

TakeSome ==
  /\ \E n \in 1..Len(inPipe) : \E texts \in [1..n -> Text] : Take(texts)
  /\ UNCHANGED clientVars

Write == WriteLine /\ UNCHANGED clientVars
Crash == ChildExit /\ UNCHANGED clientVars
Loop  == ProcEvents /\ UNCHANGED clientVars

Next == Event \/ Addon \/ Loop \/ TakeSome \/ Write \/ Crash

Spec == Init /\ [][Next]_vars

\* Fcitx's loop goes on dispatching: a call returns, and a pipe readable or at
\* its end, or a timer due, whenever the loop gets its turn is dispatched in the
\* end.  Strong fairness: between two turns of the loop a callback is running.
LoopFairness ==
  /\ WF_vars(Addon)
  /\ SF_vars(OnReadable /\ UNCHANGED clientVars)
  /\ SF_vars(OnEof /\ UNCHANGED clientVars)
  /\ SF_vars(OnStartTimeout /\ UNCHANGED clientVars)

\* The harness may hang: nothing is assumed of it.
LoopFairSpec == Spec /\ LoopFairness

\* A harness that has not exited goes on reading and answering.
HarnessAnswers == WF_vars(TakeSome) /\ WF_vars(Write)

----------------------------------------------------------------------------
\* Refinement.  "handler 在主线程(IO 事件)被调用一次; 死亡时以 "" 调用"
\* (wetype.cpp:316): the machinery of pipes, deaths and re-entrant handlers
\* implements one call per request, with its own reply, in order, or with "".
Calls == INSTANCE AsyncCalls
           WITH MaxAsks <- MaxAsks, issued <- issued, replied <- replied, lost <- lost, calls <- calls
ImplementsCalls == Calls!Spec

\* Safety.  No handler is forgotten: a request nobody was told about is still
\* held in pending_ or by a call under way (wetype.cpp:392-397).
Held(i) ==
  \/ \E k \in DOMAIN pending : pending[k].line.id = i
  \/ \E k \in DOMAIN todo : todo[k].op \in {"send", "call"} /\ todo[k].line.id = i
NoLostHandler == \A i \in Calls!Open : Held(i)

\* Liveness.  With a harness that answers, every handler is called in the end,
\* crashes and stops notwithstanding.
EveryAskTold == HarnessAnswers => \A i \in Id : i \in Calls!Open ~> i \notin Calls!Open

\* Liveness.  A process that never says READY does not hold its requests for
\* ever: the 90 s watchdog fails them (wetype.cpp:268-271, 379-382), even when
\* nothing is assumed of the process.
StartingEnds == state = "starting" ~> state # "starting"
============================================================================
