---------------------------- MODULE Composition ----------------------------
(***************************************************************************)
(* The composition kept by class WeTypeEngine (wetype.cpp) and the calls   *)
(* that tie it to the engine: asking for candidates, handling replies,     *)
(* committing, waiting with a Space pending, recovering a lost engine.     *)
(* WeTypeEngine.tla adds the keys and the callbacks that start them.       *)
(*                                                                         *)
(* Text is what it stands for: a candidate is the string of letters it     *)
(* spells.  Indices are those of TLA+, from 1.  Each call of the addon is  *)
(* a record on EngineProc's stack; where the code calls the engine in the  *)
(* middle of a function, the rest of the function is a call of its own.    *)
(***************************************************************************)
EXTENDS HarnessSession

CONSTANTS
  IC,           \* input contexts
  NoIc          \* icRef_ watching nothing

VARIABLES
  buf, cands, current, selected,   \* buf_, cands_+covers_, candidatesCurrent_, selected_
  revision, tried,                 \* revision_, recoveryTried_
  pend, queued, timer, draining,   \* pending_, queued_, pendingTimer_, draining_
  epoch, icRef,                    \* epoch_, icRef_
  spansOn, restart,                \* spansEnabled_, restartSource_ set
  panel,                           \* what the panel of each context shows
  owed,                            \* ghost: letters typed, neither delivered nor cancelled
  spurned                          \* ghost: the last revision refused for good

inputVars  == <<buf, cands, current, selected, revision, tried>>
pendVars   == <<pend, queued, timer, draining>>
ctxVars    == <<epoch, icRef>>
linkVars   == <<spansOn, restart>>
outVars    == <<panel, owed, spurned>>
typingVars == <<inputVars, pendVars, ctxVars, linkVars, outVars>>
engineVars == <<alive, state, pending, rbuf, failCount, gaveUp, childVars, sessionVars>>

----------------------------------------------------------------------------
(* Data.                                                                   *)

Kinds == {"letter", "space", "back", "esc", "return", "digit", "next", "punct", "ctrl"}

\* A key: its kind, the letter or the digit it carries, press or release.
Key == [k: {"letter"}, c: Letter, rel: BOOLEAN] \cup [k: Kinds \ {"letter"}, c: Nat, rel: BOOLEAN]

\* A candidate: the letters it spells, the cover parsed with it (0: unknown), and
\* the ghost of what the session held when its list was sent.
Cand == [at: Pinyin \cup {Astray}, spells: Pinyin, cover: Nat]

Handlers ==
  [kind: {"cand"}, ic: IC \cup {NoIc}, epoch: Nat, buf: Pinyin, revision: Nat]
    \cup [kind: {"none", "spans"}]
Nobody  == [kind |-> "none"]
NoTimer == [ic |-> NoIc, epoch |-> 0]

IsLetter(key)   == key.k = "letter" /\ ~key.rel
LettersOf(keys) == FlattenSeq([i \in DOMAIN keys |-> IF IsLetter(keys[i]) THEN <<keys[i].c>> ELSE <<>>])

\* The letters of pendingRaw().
Raw == buf \o LettersOf(queued)

\* updateUI(), from the state after the step: preedit and candidates.
Panel(preedit, cs) == [preedit |-> preedit, cands |-> cs]
Show(ic) ==
  panel' = [panel EXCEPT ![ic] = Panel(IF pend' THEN buf' \o LettersOf(queued') ELSE buf', cands')]

\* The ghost: text handed to the application must be what is owed, in order.  A
\* candidate that does not spell the pinyin, picked all the same, misleads it.
Mismatch == <<NoIc>>
Misled   == <<NoIc, NoIc>>
Unaccounted(letters) == letters \in {Mismatch, Misled}
Delivered(text) ==
  IF Unaccounted(owed) THEN owed
  ELSE IF IsPrefix(text, owed) THEN SubSeq(owed, Len(text) + 1, Len(owed)) ELSE Mismatch
Choosing(cand) == IF Unaccounted(owed) \/ IsPrefix(cand.spells, buf) THEN owed ELSE Misled

Rest       == Tail(todo)
Then(ts)   == todo' = ts \o Rest
IfDead(ts) == IF alive THEN <<>> ELSE ts   \* ensureEngine() returns at once if alive

Ui(ic)           == [op |-> "ui", ic |-> ic]
Commit(ic, text) == [op |-> "commit", ic |-> ic, text |-> text]
Select(ic, i)    == [op |-> "select", ic |-> ic, idx |-> i]
Fallback(ic)     == [op |-> "fallback", ic |-> ic]
Drain(ic)        == [op |-> "drain", ic |-> ic]
DrainOn(ic)      == [op |-> "drainOn", ic |-> ic]
Replay(ic, key)  == [op |-> "key", ic |-> ic, key |-> key, src |-> "queue"]
Request(keys)    == [op |-> "request", keys |-> keys]
Clear            == Send(Plain("C"), Nobody)

\* candidateHandler(): what it captures when buf_ is b and revision_ is r.
HandlerFor(b, r) == [kind |-> "cand", ic |-> icRef, epoch |-> epoch, buf |-> b, revision |-> r]

CompositionInit ==
  /\ buf = <<>> /\ cands = <<>> /\ current = FALSE /\ selected = 1
  /\ revision = 0 /\ tried = FALSE
  /\ pend = FALSE /\ queued = <<>> /\ timer = NoTimer /\ draining = FALSE
  /\ epoch = 0 /\ icRef = NoIc
  /\ spansOn = FALSE /\ restart = FALSE
  /\ panel = [ic \in IC |-> Panel(<<>>, <<>>)]
  /\ owed = <<>> /\ spurned = 0

----------------------------------------------------------------------------
(* Committing.                                                             *)

\* What commitText() and clearAll() both forget.
NoCandidates == cands' = <<>> /\ current' = FALSE /\ selected' = 1
NewInput     == buf' = <<>> /\ NoCandidates /\ revision' = revision + 1 /\ tried' = FALSE

\* commitText(): text goes to the application and a new composition begins.
CommitText ==
  /\ Calling("commit")
  /\ owed' = Delivered(Head(todo).text)
  /\ NewInput
  /\ Then(<<Clear, Ui(Head(todo).ic)>>)
  /\ UNCHANGED <<engineVars, pendVars, ctxVars, linkVars, panel, spurned>>

\* commitCandidate(): nothing to select; the whole buffer; or a prefix of it,
\* with the rest composed on.
SelectNothing ==
  /\ Calling("select")
  /\ ~current \/ Head(todo).idx \notin DOMAIN cands
  /\ todo' = Rest
  /\ UNCHANGED <<engineVars, typingVars>>

SelectWhole ==
  /\ Calling("select") /\ current /\ Head(todo).idx \in DOMAIN cands
  /\ LET cand == cands[Head(todo).idx]
     IN  /\ cand.cover = 0 \/ cand.cover >= Len(buf)
         /\ owed' = Choosing(cand)
         /\ Then(<<Send(Pick(Head(todo).idx, cand.cover), Nobody), Commit(Head(todo).ic, cand.spells)>>)
  /\ UNCHANGED <<engineVars, inputVars, pendVars, ctxVars, linkVars, panel, spurned>>

RemainingShort(cover) == SubSeq(buf, cover + 2, Len(buf))   \* mutant
Remaining(cover)      == SubSeq(buf, cover + 1, Len(buf))

SelectPrefix ==
  /\ Calling("select") /\ current /\ Head(todo).idx \in DOMAIN cands
  /\ NoCandidates /\ revision' = revision + 1
  /\ LET cand == cands[Head(todo).idx]
     IN  /\ 0 < cand.cover /\ cand.cover < Len(buf)
         /\ owed' = IF IsPrefix(cand.spells, buf) THEN Delivered(cand.spells) ELSE Choosing(cand)
         /\ buf' = Remaining(cand.cover)
         /\ Then(<<Send(Pick(Head(todo).idx, cand.cover), HandlerFor(buf', revision')), Ui(Head(todo).ic)>>)
  /\ UNCHANGED <<engineVars, tried, pendVars, ctxVars, linkVars, panel, spurned>>

\* updateUI() where a call to the engine comes before it.
UpdateUI ==
  /\ Calling("ui")
  /\ todo' = Rest
  /\ UNCHANGED <<engineVars, inputVars, pendVars, ctxVars, linkVars, owed, spurned>>
  /\ Show(Head(todo).ic)

----------------------------------------------------------------------------
(* The link to the engine.                                                 *)

NoGreeting == <<>>   \* mutant: "OPT spans" is not sent
Greeting   == <<Send(Plain("OPT"), [kind |-> "spans"])>>

\* ensureEngine(): a new process is asked for spans before anything else.
EnsureEngine ==
  /\ Calling("ensure")
  /\ IF alive \/ gaveUp
       THEN todo' = Rest /\ UNCHANGED <<spansOn, engineVars>>
       ELSE /\ spansOn' = FALSE
            /\ StartFork(Greeting) \/ StartRefused
            /\ UNCHANGED sessionVars
  /\ UNCHANGED <<inputVars, pendVars, ctxVars, restart, outVars>>

\* requestCandidates(): nothing ensureEngine() calls changes what the handler
\* captures, so it is built here.
RequestCandidates ==
  /\ Calling("request")
  /\ IF buf = <<>> \/ Head(todo).keys = <<>>
       THEN todo' = Rest
       ELSE Then(IfDead(<<Do("ensure")>>) \o <<Send(Batch(Head(todo).keys), HandlerFor(buf, revision))>>)
  /\ UNCHANGED <<engineVars, typingVars>>

RestartIfComposing ==   \* mutant: no restart without pinyin
  /\ Calling("exit")
  /\ restart' = (restart \/ (~gaveUp /\ buf # <<>>))
  /\ todo' = Rest
  /\ UNCHANGED <<engineVars, inputVars, pendVars, ctxVars, spansOn, outVars>>

\* scheduleRestart(), the engine's onExit_.
ScheduleRestart ==
  /\ Calling("exit")
  /\ restart' = (restart \/ ~gaveUp)
  /\ todo' = Rest
  /\ UNCHANGED <<engineVars, inputVars, pendVars, ctxVars, spansOn, outVars>>

\* A handler is called: with no use for the answer, and with that to OPT.
HandleNothing ==
  /\ Calling("call") /\ Head(todo).h = Nobody
  /\ todo' = Rest
  /\ UNCHANGED <<engineVars, typingVars>>

HandleSpans ==
  /\ Calling("call") /\ Head(todo).h.kind = "spans"
  /\ spansOn' = (Head(todo).resp # Failed /\ Head(todo).resp.text = Say("OK"))
  /\ todo' = Rest
  /\ UNCHANGED <<engineVars, inputVars, pendVars, ctxVars, restart, outVars>>

\* The handler of candidateHandler(): h what it captured, resp what it got.
Lost(resp)       == resp = Failed
Kind(resp)       == IF Lost(resp) THEN "none" ELSE resp.text.kind
SameInput(h)     == h.ic = icRef /\ h.ic # NoIc /\ h.epoch = epoch
ForNow(h)        == h.revision = revision /\ h.buf = buf
Preview(h, resp) == ~ForNow(h) /\ h.buf # <<>> /\ IsStrictPrefix(h.buf, buf) /\ Kind(resp) = "CAND"
Wanted(h, resp)  == SameInput(h) /\ Kind(resp) # "SKIP" /\ (ForNow(h) \/ Preview(h, resp))

HandleStale ==
  /\ Calling("call") /\ Head(todo).h.kind = "cand"
  /\ ~Wanted(Head(todo).h, Head(todo).resp)
  /\ todo' = Rest
  /\ UNCHANGED <<engineVars, typingVars>>

ReviveEmpty == <<Do("ensure")>>   \* mutant: the pinyin is not replayed
Revive      == <<Do("ensure"), Request(buf)>>

HandleLostAgain ==   \* mutant: recoveryTried_ is not set
  /\ Calling("call") /\ Head(todo).h.kind = "cand"
  /\ Wanted(Head(todo).h, Head(todo).resp) /\ Lost(Head(todo).resp)
  /\ IF buf # <<>> /\ ~tried THEN Then(Revive) ELSE todo' = Rest
  /\ UNCHANGED <<engineVars, buf, cands, current, selected, revision, tried, pendVars, ctxVars, linkVars, owed, spurned>>
  /\ Show(icRef)

\* The request was lost: the page stays, and the pinyin is replayed once.
HandleLost ==
  /\ Calling("call") /\ Head(todo).h.kind = "cand"
  /\ Wanted(Head(todo).h, Head(todo).resp) /\ Lost(Head(todo).resp)
  /\ IF buf # <<>> /\ ~tried
       THEN tried' = TRUE /\ Then(Revive)
       ELSE UNCHANGED tried /\ todo' = Rest
  /\ UNCHANGED <<engineVars, buf, cands, current, selected, revision, pendVars, ctxVars, linkVars, owed, spurned>>
  /\ Show(icRef)

\* Not candidates (OK or ERR to a pick): the session is rebuilt once.
HandleRefused ==
  /\ Calling("call") /\ Head(todo).h.kind = "cand"
  /\ Wanted(Head(todo).h, Head(todo).resp) /\ Kind(Head(todo).resp) \in {"OK", "ERR"}
  /\ tried' = TRUE
  /\ Then(IF ~tried THEN <<Clear, Request(buf)>>
                    ELSE IF pend THEN <<Fallback(icRef)>> ELSE <<>>)
  /\ spurned' = IF tried /\ ~pend THEN revision ELSE spurned
  /\ UNCHANGED <<engineVars, buf, cands, current, selected, revision, pendVars, ctxVars, linkVars, panel, owed>>

\* Candidates or none: shown, selectable if they are for the buffer as it is,
\* and then a pending Space takes the first.
Parse(text) ==
  [i \in DOMAIN text.covers |->
     [at |-> text.at, spells |-> SubSeq(text.of, 1, text.covers[i]),
      cover |-> IF spansOn THEN text.covers[i] ELSE 0]]

HandleCandidates ==
  /\ Calling("call") /\ Head(todo).h.kind = "cand"
  /\ LET h == Head(todo).h
         resp == Head(todo).resp
         found == IF Kind(resp) = "CAND" THEN Parse(resp.text) ELSE <<>>
         chosen == ForNow(h) /\ pend
     IN  /\ Wanted(h, resp) /\ Kind(resp) \in {"CAND", "EMPTY"}
         /\ cands' = found
         /\ current' = ForNow(h)
         /\ selected' = 1
         /\ panel' = [panel EXCEPT ![icRef] = Panel(IF pend THEN Raw ELSE buf, found)]
         /\ IF chosen /\ found # <<>>
              THEN pend' = FALSE /\ timer' = NoTimer
              ELSE UNCHANGED <<pend, timer>>
         /\ Then(IF ~chosen THEN <<>>
                 ELSE IF found = <<>> THEN <<Fallback(icRef)>>
                 ELSE <<Select(icRef, 1), Drain(icRef)>>)
  /\ UNCHANGED <<engineVars, buf, revision, tried, queued, draining, ctxVars, linkVars, owed, spurned>>

----------------------------------------------------------------------------
(* A pending Space.                                                        *)

FallbackBufferOnly ==   \* mutant: the queued keys are dropped
  /\ Calling("fallback")
  /\ pend' = FALSE /\ timer' = NoTimer /\ queued' = <<>>
  /\ Then(<<Commit(Head(todo).ic, buf)>>)
  /\ UNCHANGED <<engineVars, inputVars, draining, ctxVars, linkVars, outVars>>

\* fallbackPending(): the pinyin and everything queued leave as they are.
FallbackPending ==
  /\ Calling("fallback")
  /\ pend' = FALSE /\ timer' = NoTimer /\ queued' = <<>>
  /\ Then(<<Commit(Head(todo).ic, Raw)>>)
  /\ UNCHANGED <<engineVars, inputVars, draining, ctxVars, linkVars, outVars>>

ArmWithoutTimer ==   \* mutant: the wait has no limit
  /\ Calling("arm")
  /\ pend' = TRUE
  /\ Then(IF (current /\ cands = <<>>) \/ gaveUp THEN <<Fallback(Head(todo).ic)>> ELSE <<>>)
  /\ UNCHANGED <<engineVars, inputVars, queued, timer, draining, ctxVars, linkVars, owed, spurned>>
  /\ Show(Head(todo).ic)

\* armPending(): wait for the candidates, unless there are none to wait for.
ArmPending ==
  /\ Calling("arm")
  /\ pend' = TRUE
  /\ timer' = [ic |-> Head(todo).ic, epoch |-> epoch]
  /\ Then(IF (current /\ cands = <<>>) \/ gaveUp THEN <<Fallback(Head(todo).ic)>> ELSE <<>>)
  /\ UNCHANGED <<engineVars, inputVars, queued, draining, ctxVars, linkVars, owed, spurned>>
  /\ Show(Head(todo).ic)

\* drainQueued(): the keys typed meanwhile, one by one, until one of them is
\* another Space that has to wait.
DrainQueued ==
  /\ Calling("drain")
  /\ IF draining THEN todo' = Rest ELSE Then(<<DrainOn(Head(todo).ic)>>)
  /\ draining' = TRUE
  /\ UNCHANGED <<engineVars, inputVars, pend, queued, timer, ctxVars, linkVars, outVars>>

DrainOne ==   \* mutant: drains one key, not all
  /\ Calling("drainOn")
  /\ todo' = IF queued = <<>> THEN Rest ELSE <<Replay(icRef, Head(queued))>> \o Rest
  /\ queued' = IF queued = <<>> THEN queued ELSE Tail(queued)
  /\ draining' = FALSE
  /\ UNCHANGED <<engineVars, inputVars, pend, timer, ctxVars, linkVars, outVars>>

DrainNext ==
  /\ Calling("drainOn")
  /\ IF ~pend /\ queued # <<>> /\ icRef = Head(todo).ic
       THEN /\ todo' = <<Replay(icRef, Head(queued))>> \o todo
            /\ queued' = Tail(queued)
            /\ UNCHANGED draining
       ELSE /\ draining' = FALSE
            /\ todo' = Rest
            /\ UNCHANGED queued
  /\ UNCHANGED <<engineVars, inputVars, pend, timer, ctxVars, linkVars, outVars>>

CompositionCalls ==
  \/ CommitText \/ SelectNothing \/ SelectWhole \/ SelectPrefix \/ UpdateUI
  \/ EnsureEngine \/ RequestCandidates \/ ScheduleRestart
  \/ HandleNothing \/ HandleSpans
  \/ HandleStale \/ HandleLost \/ HandleRefused \/ HandleCandidates
  \/ FallbackPending \/ ArmPending \/ DrainQueued \/ DrainNext
============================================================================
