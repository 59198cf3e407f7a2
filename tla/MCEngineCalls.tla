--------------------------- MODULE MCEngineCalls ---------------------------
(* Small instances of EngineCalls for TLC. *)
EXTENDS EngineCalls

CONSTANT h, t   \* the one handler and the one reply text: neither is told apart

MCLine    == [op: {"B", "C"}, id: 1..MaxAsks]
MCLocal   == [op: {"ask"}, kind: {"B", "C"}]
MCHandler == {h}
MCText    == {t}

\* The shapes of the addon's callbacks: type a letter, reset and replay
\* (BackSpace), recover by restarting, select and clear, shut down.
MCPrograms ==
  { <<Do("start"), Ask("B")>>,
    <<Ask("C"), Do("start"), Ask("B")>>,
    <<Ask("B")>>,
    <<Do("stop")>> }
============================================================================
