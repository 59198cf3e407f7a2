------------------------- MODULE WeTypeProperties -------------------------
(***************************************************************************)
(* What the input method must guarantee, whatever order keys, replies,     *)
(* timers and deaths of the harness come in.  Most are stated of the       *)
(* moments when Fcitx's loop has the turn: inside a callback the addon is  *)
(* in the middle of a change nobody else can see.                          *)
(***************************************************************************)
EXTENDS WeTypeEngine

ClientTask ==
  [op: {"ui", "fallback", "drain", "drainOn", "arm"}, ic: IC]
    \cup [op: {"commit"}, ic: IC, text: Pinyin]
    \cup [op: {"select"}, ic: IC, idx: Nat]
    \cup [op: {"key"}, ic: IC, key: Key, src: {"user", "queue"}]
    \cup [op: {"type"}, ic: IC, c: Letter, src: {"user", "queue"}, replay: BOOLEAN]
    \cup [op: {"clear"}, ic: IC, redraw: BOOLEAN, cancel: BOOLEAN]
    \cup [op: {"request"}, keys: Pinyin]
    \cup [op: {"ensure", "members"}]

InputTypeOK ==
  /\ buf \in Pinyin /\ cands \in Seq(Cand) /\ current \in BOOLEAN
  /\ selected \in Nat /\ (cands # <<>> => selected \in DOMAIN cands)
  /\ revision \in Nat /\ tried \in BOOLEAN
PendTypeOK ==
  /\ pend \in BOOLEAN /\ queued \in Seq(Key) /\ draining \in BOOLEAN
  /\ timer \in [ic: IC, epoch: Nat] \cup {NoTimer}
LinkTypeOK ==
  /\ epoch \in Nat /\ icRef \in IC \cup {NoIc}
  /\ spansOn \in BOOLEAN /\ restart \in BOOLEAN
OutTypeOK ==
  /\ panel \in [IC -> [preedit: Pinyin, cands: Seq(Cand)]]
  /\ owed \in Pinyin \cup {Mismatch, Misled}
  /\ spurned \in Nat
WorldTypeOK ==
  /\ focus \in IC /\ gone \in {"no", "stopping", "destroyed"}

TypeOK ==
  /\ ProcTypeOK /\ SessionTypeOK
  /\ InputTypeOK /\ PendTypeOK /\ LinkTypeOK /\ OutTypeOK /\ WorldTypeOK

----------------------------------------------------------------------------
(* Safety.                                                                 *)

\* Every letter typed is delivered to the application once, in the order typed,
\* or still being composed or queued, unless the user cancelled it: through
\* previews, partial selections, late lists, refused picks, deaths, replays,
\* fallbacks and drains (commitText, commitCandidate, fallbackPending,
\* drainQueued).  Or a candidate was picked that spells something else than the
\* pinyin it was shown for, as one of an earlier search's list may.
LettersKept == Turn => owed \in {Raw, Misled}

\* Candidates that can be selected were sent by a session that held the pinyin as
\* it is now, whichever search found them: the addon's buffer and the harness's
\* session stay in step through merged batches, partial picks, deaths and replays
\* ("not selectable until a result for the current buffer arrives",
\* wetype.cpp:846).  Or the session had refused a pick, or taken it for another.
CurrentMatches == current => \A i \in DOMAIN cands : cands[i].at \in {buf, Astray}

\* "not selectable until a result for the current buffer arrives"
\* (wetype.cpp:846-847), without that exception.
ResultsForBuffer == current => \A i \in DOMAIN cands : cands[i].at = buf

\* Pinyin on the panel is never left without an answer on its way: unless its
\* context is gone or its candidates are there, a handler that will accept them
\* is still pending, or the engine is dead and its restart timer, which replays
\* the pinyin, is set.  Or this very pinyin was refused with the one recovery
\* (recoveryTried_) spent.
Waiting == \E i \in DOMAIN pending :
             LET h == pending[i].h IN h.kind = "cand" /\ SameInput(h) /\ ForNow(h)
RequestHeld ==
  Turn /\ Composing /\ ~current /\ icRef # NoIc /\ spurned # revision =>
    IF alive THEN Waiting ELSE restart \/ gaveUp

\* "bring the engine back as soon as it exits" (wetype.cpp:457): whenever there
\* is no engine, a restart is scheduled or the engine was given up.
EngineComesBack == Turn => alive \/ restart \/ gaveUp

\* While a Space is pending the pinyin is frozen and cannot be selected from,
\* and the 5 s timer is set for this very wait, unless its context was destroyed
\* meanwhile; otherwise nothing is queued and no timer is set.
PendingFrozen ==
  Turn => IF pend THEN /\ Composing /\ ~current
                       /\ timer = [ic |-> icRef, epoch |-> epoch] \/ icRef = NoIc
                  ELSE queued = <<>> /\ timer = NoTimer

\* "Frontends may commit preedit on focus-out; include all consumed text"
\* (wetype.cpp:532): the preedit on the panel of the context composed in is all
\* that was consumed, and no other panel shows any.
PreeditComplete ==
  Turn => \A ic \in IC : panel[ic].preedit = IF ic = icRef THEN Raw ELSE <<>>

\* A click, or a digit, selects the candidate that is on the panel: candidates
\* that can be selected are the ones shown, on the context composed in.
ShownIsSelected ==
  Turn /\ current => \A ic \in IC : panel[ic].cands = IF ic = icRef THEN cands ELSE <<>>

\* deactivate() commits, or drops, whatever is composed, with the context it is
\* called for (wetype.cpp:478-490): that is the context composed in, or, if it
\* was destroyed, nobody's any more, whatever keys and focus did before.
ComposedInFocus ==
  Turn /\ (Composing \/ pend \/ cands # <<>>) => icRef \in {focus, NoIc}

\* A candidate line is parsed knowing whether it carries covers: the answer to
\* "OPT spans" of the same process came before it (wetype.cpp:654-663).
SpansFirst ==
  ~Idle => ~(Calling("call") /\ Head(todo).resp # Failed
             /\ Head(todo).resp.text.kind = "CAND" /\ ~spansOn)

\* No process outlives the addon. The destructor's stop() calls handlers, and
\* one of them may start the engine anew; what it starts, the stop() of
\* ~EngineProc ends, whose handlers must not start another (wetype.cpp:460-464).
NoProcessLeft == Idle /\ gone = "destroyed" => ~alive

----------------------------------------------------------------------------
(* Liveness.                                                               *)

\* Fcitx's loop: calls return, and what is ready whenever the loop has its
\* turn is dispatched in the end.
LoopFairness ==
  /\ WF_vars(AddonCalls)
  /\ SF_vars(ProcEvent(OnReadable))
  /\ SF_vars(ProcEvent(OnEof))
  /\ SF_vars(ProcEvent(OnStartTimeout))
  /\ SF_vars(OnPendingTimer)
  /\ SF_vars(OnRestartTimer)

\* The harness may hang for ever.
LoopFairSpec == Spec /\ LoopFairness

\* A harness that has not exited goes on reading and answering.
HarnessAnswers == SF_vars(HarnessStep)

\* "Finite wait covers SKIP, hung engines, and exhausted restarts"
\* (wetype.cpp:810): a pending Space always ends, with no help from the harness.
PendingEnds == pend ~> ~pend

\* Pinyin without candidates gets an answer, however the harness dies meanwhile,
\* unless it is committed, cancelled, refused for good, or the engine given up.
CandidatesArrive ==
  HarnessAnswers =>
    (Composing /\ ~current ~> current \/ ~Composing \/ spurned = revision \/ gaveUp)
============================================================================
