------------------------- MODULE WeTypeSessionProofs -------------------------
(***************************************************************************)
(* The addon's buffer and the session of the engine stay in step, for any  *)
(* keys, contexts, answers, deaths and limits, or the session has gone     *)
(* astray: a pick was refused, or was not what the page showed.  So the    *)
(* candidates that can be selected were sent by a session of the pinyin as *)
(* it is, if it was not astray, and pinyin without candidates has an       *)
(* answer on its way.                                                      *)
(*                                                                         *)
(* The two share no state.  The addon sends letters, picks and clears, the *)
(* session takes them in its own time, and either may be lost with lines   *)
(* in the pipe.  The invariant says what the session will hold when it has *)
(* taken every line written (End), that each line fits what is before it   *)
(* (Chain), what session each reply on its way comes from (Replies), and   *)
(* what each call on the addon's stack still owes to the session (Mirror), *)
(* down to which calls may wait below which (Stacked).                     *)
(***************************************************************************)
EXTENDS WeTypeEngineProofs

----------------------------------------------------------------------------
(* The addon's buffer and the harness's session stay in step.              *)

\* The letters a session holds once it has taken a request, if it is not astray;
\* Adrift: cannot be told.
Adrift   == <<"astray", "astray">>
After(e) ==
  IF e.line.op \in {"C", "OPT"} THEN <<>> ELSE IF e.h.kind = "cand" THEN e.h.buf ELSE Adrift

\* What it holds now, and what it will hold when it has taken every line in the
\* pipe.
End == IF inPipe = <<>> THEN Held ELSE After(pending[Len(pending)])

\* A request fits the letters before it: a batch adds letters to them and its
\* handler waits for the sum, a pick that waits leaves what the candidate on the
\* page did not cover, and OPT comes first of all.  A session astray fits them
\* all the same.
Follows(s, e) ==
  /\ e.h.kind = "cand" => e.line.op \in {"B", "S"} /\ s # Adrift
  /\ e.line.op = "B" =>
       e.h.kind = "cand" /\ e.line.keys # <<>> /\ (s # Astray => e.h.buf = s \o e.line.keys)
  /\ e.line.op = "S" /\ e.h.kind = "cand" /\ s # Astray =>
       /\ 0 < e.line.cover /\ e.line.cover < Len(s)
       /\ e.h.buf = SubSeq(s, e.line.cover + 1, Len(s))
  /\ e.line.op = "OPT" => s \in {<<>>, Astray}

\* Each line in the pipe fits what is before it.
Taken     == Len(pending) - Len(inPipe)
Before(k) == IF k = Taken + 1 THEN Held ELSE After(pending[k - 1])
Chain     == alive /\ ~exited => \A k \in Taken + 1..Len(pending) : Follows(Before(k), pending[k])

\* Candidates on their way come from a session of the letters their handler waits
\* for, or one astray; SKIP goes to a handler with another behind it.
Coming == (rbuf \o outPipe) \o unwritten
Off    == IF state = "starting" THEN 1 ELSE 0
Serves(h, text) == h.kind = "cand" /\ text.kind = "CAND" => text.at \in {h.buf, Astray}
Skips(i) == Coming[i].text.kind = "SKIP" => i - Off < Len(pending) /\ pending[i - Off + 1].h.kind = "cand"
Replies  == alive => \A i \in DOMAIN Coming : i > Off => Serves(pending[i - Off].h, Coming[i].text) /\ Skips(i)

\* OPT is the first line a process takes, and a process starts afresh.
Says(t, ops) == t.op = "send" /\ t.line.op \in ops
Asking       == todo # <<>> /\ Says(Head(todo), {"OPT"})
SpansOk      == alive /\ ~exited /\ ~spans => IF inPipe = <<>> THEN Asking ELSE inPipe[1].op = "OPT"
DeadFresh    == ~alive => sent = <<>> /\ known /\ ~astray

\* A handler made for this very revision has captured the input as it is, and no
\* two of them wait.
Fresh(h)    == h.kind = "cand" /\ h.revision = revision
Captured(h) ==
  h.kind = "cand" =>
    /\ h.revision <= revision
    /\ Fresh(h) => h.buf = buf /\ h.epoch = epoch /\ (h.ic = icRef \/ icRef = NoIc)
Later(d, e) == d.h.kind = "cand" /\ e.h.kind = "cand" => d.h.revision < e.h.revision
NoneFresh   == \A e \in Range(pending) : ~Fresh(e.h)
Revs ==
  /\ \A e \in Range(pending) : Captured(e.h)
  /\ \A i, j \in DOMAIN pending : i < j => Later(pending[i], pending[j])

\* The calls that will ask for the candidates of this revision, or have.
Asks(t) == t.op \in {"request", "type"} \/ (t.op \in {"send", "call"} /\ Fresh(t.h))
Deep(t) == Asks(t) \/ t.op \in {"commit", "clear"}

\* What may wait below what: one call that asks, with the whole pinyin to send,
\* and below calls of the engine only.
Wires    == {"send", "ensure", "die", "stop", "exit", "call", "request"}
Whole(t) ==
  /\ t.op = "request" => t.keys = buf
  /\ Says(t, {"B"}) => t.line.keys = buf
  /\ t.op = "type" => t.replay \/ buf = <<>>
Over(x, y) ==
  /\ Asks(x) => ~Asks(y)
  /\ Deep(y) => x.op \in Wires
  /\ y.op \notin {"ensure", "die", "stop"}
  /\ y.op = "send" => y.line.op = "B"
  /\ Says(x, {"C", "S", "SAVE"}) /\ Asks(y) => y.op = "request" /\ x.line.op = "C"
  /\ Whole(y)
Stacked(s) == \A i, j \in DOMAIN s : i < j => Over(s[i], s[j])

\* What each call on the stack may assume.
Dies    == Calling("die") \/ Calling("stop")
Fine(t) ==
  /\ t.op \in {"send", "call"} => Captured(t.h)
  /\ t.op = "send" => /\ t.h.kind = "cand" => t.line.op \in {"B", "S"} /\ Fresh(t.h)
                      /\ t.line.op = "B" => t.h.kind = "cand" /\ t.line.keys # <<>>
  /\ t.op = "call" /\ t.resp = Failed /\ Fresh(t.h) => ~alive \/ Dies
  /\ t.op = "request" => t.keys # <<>> \/ buf = <<>>
  /\ Told(t) => Serves(t.h, t.resp.text) /\ (t.resp.text.kind = "SKIP" => ~Fresh(t.h))
  /\ Asks(t) => Calling("type") \/ NoneFresh
TasksFine == \A t \in OnStack : Fine(t)

\* And the call at hand: what it leaves undone, another will do.
TopFits(t, S) ==
  /\ Whole(t) \/ alive
  /\ Says(t, {"C"}) => t.h = Nobody /\ (buf = <<>> \/ \E y \in S : y.op = "request")
  /\ Says(t, {"S", "SAVE"}) /\ t.h.kind # "cand" => \E y \in S : y.op \in {"commit", "clear"}
  /\ t.op = "ensure" \/ Says(t, {"OPT"}) =>
       (\E y \in S : y.op \in {"request", "type"} \/ Says(y, {"B"})) \/ (S = {t} /\ buf = <<>>)
TopFine == todo # <<>> => TopFits(Head(todo), OnStack)

\* The session will hold the pinyin, or be astray, or does without what is still to be sent.
Mild(t) == t.op \notin {"commit", "clear", "request", "type", "send"}
Live    == alive /\ ~exited /\ ~Dies
Due(t)  ==
  /\ t.op = "request" => End = Astray \/ (End # Adrift /\ End \o t.keys = buf)
  /\ t.op = "type" => End \in {IF t.replay THEN <<>> ELSE buf, Astray}
  /\ t.op = "send" => Follows(End, t)
Put(t, top) == t.op = "request" /\ Says(top, {"C"})
Mirror == Live =>
  /\ \A t \in OnStack : Due(t) \/ Put(t, Head(todo))
  /\ (\A t \in OnStack : Mild(t)) => End \in {buf, Astray}

Piped == Chain /\ Replies /\ DeadFresh
MInv  == gone = "no" => Piped /\ SpansOk /\ Revs /\ Stacked(todo) /\ TasksFine /\ TopFine /\ Mirror

\* What a call and the calls below it are, once it is replaced by others.
LEMMA Restacked ==
  ASSUME WInv, Stacked(todo), todo # <<>>, NEW p, p \in Seq(Range(p)), todo' = p \o Tail(todo),
         \A i, j \in DOMAIN p : i < j => Over(p[i], p[j])',
         \A x \in Range(p), y \in Range(Tail(todo)) : Over(x, y)',
         \A x, y \in Range(Tail(todo)) : Over(x, y) => Over(x, y)'
  PROVE  Stacked(todo)'
<1> DEFINE S == Task \cup Range(p)
           q == Tail(todo)
           R == {r \in S \X S : Over(r[1], r[2])}
           N == {r \in S \X S : Over(r[1], r[2])'}
<1>1. todo \in Seq(Task) /\ q \in Seq(Task)
  BY Inv, HeadTailProperties DEF ProcInv, ProcTypeOK
<1>2. p \in Seq(S) /\ q \in Seq(S) /\ todo \in Seq(S)
  BY <1>1, SeqMonotonic
<1>3. \A x, y \in S : (<<x, y>> \in R <=> Over(x, y)) /\ (<<x, y>> \in N <=> Over(x, y)')
  OBVIOUS
<1>4. todo' = p \o q
  OBVIOUS
<1> HIDE DEF S, R, N, q
<1>5. ASSUME NEW t \in Seq(S)
      PROVE  /\ Range(t) \subseteq S /\ (Stacked(t) => Sorted(t, R))
             /\ (\A i, j \in DOMAIN t : i < j => Over(t[i], t[j])') <=> Sorted(t, N)
  <2>1. \A i \in DOMAIN t : t[i] \in S
    BY LenProperties
  <2> QED BY <1>3, <2>1 DEF Stacked, Sorted, Range
<1>6. Sorted(q, R)
  BY <1>2, <1>5, SortedTail DEF q
<1>7. Sorted(q, N)
  <2>1. \A i \in DOMAIN q : q[i] \in Range(q)
    BY DEF Range
  <2>2. \A x, y \in Range(q) : <<x, y>> \in R => <<x, y>> \in N
    BY <1>2, <1>3, <1>5 DEF q
  <2> QED BY <1>6, <2>1, <2>2 DEF Sorted
<1>8. Sorted(p, N)
  BY <1>2, <1>5
<1>9. \A x \in Range(p), y \in Range(q) : <<x, y>> \in N
  BY <1>2, <1>3, <1>5 DEF q
<1>10. Sorted(p \o q, N) /\ p \o q \in Seq(S)
  BY <1>2, <1>7, <1>8, <1>9, SortedConcat, ConcatProperties
<1>11. \A s \in Seq(S) : Sorted(s, N) => \A i, j \in DOMAIN s : i < j => Over(s[i], s[j])'
  BY <1>5
<1>12. todo' \in Seq(S) /\ Sorted(todo', N)
  BY <1>4, <1>10
<1>13. ASSUME NEW s, s = todo' PROVE \A i, j \in DOMAIN s : i < j => Over(s[i], s[j])'
  BY <1>11, <1>12, <1>13
<1>14. ASSUME NEW i \in DOMAIN todo', NEW j \in DOMAIN todo', i < j PROVE Over(todo[i], todo[j])'
  <2>1. \A x, y : x = todo'[i] /\ y = todo'[j] => Over(x, y)'
    BY <1>13, <1>14
  <2> QED BY <2>1 DEF Over, Asks, Deep, Whole, Says, Fresh
<1> QED BY <1>14 DEF Stacked

\* What the call at hand and those below it are.
LEMMA Beneath ==
  ASSUME WInv, Stacked(todo), todo # <<>>
  PROVE  /\ OnStack = {Head(todo)} \cup Range(Tail(todo))
         /\ \A y \in Range(Tail(todo)) : Over(Head(todo), y)
         /\ todo \in Seq(Task) /\ Head(todo) \in Task
<1> DEFINE R == {r \in Task \X Task : Over(r[1], r[2])}
<1>1. todo \in Seq(Task) /\ Head(todo) \in Task /\ Tail(todo) \in Seq(Task)
  BY Inv, HeadTailProperties DEF ProcInv, ProcTypeOK
<1>2. \A x, y \in Task : <<x, y>> \in R <=> Over(x, y)
  OBVIOUS
<1> HIDE DEF R
<1>3. ASSUME NEW t \in Seq(Task) PROVE Range(t) \subseteq Task /\ (Stacked(t) => Sorted(t, R))
  <2>1. \A i \in DOMAIN t : t[i] \in Task
    BY LenProperties
  <2> QED BY <1>2, <2>1 DEF Stacked, Sorted, Range
<1>4. Range(todo) = {Head(todo)} \cup Range(Tail(todo)) /\ \A t \in Range(Tail(todo)) : <<Head(todo), t>> \in R
  BY <1>1, <1>3, SortedTail
<1> QED BY <1>1, <1>2, <1>3, <1>4 DEF OnStack

\* A call below one that is not the engine's: it asks for nothing.
Shallow(y) == ~Deep(y) /\ y.op \notin {"ensure", "die", "stop", "send"} /\ ~Told(y)

\* What lies below such a call, or below a handler given a line, is shallow.
LEMMA Shallows ==
  ASSUME WInv, FInv, SInv, MInv, gone = "no", todo # <<>>,
         Head(todo).op \notin Wires \/ Told(Head(todo))
  PROVE  \A y \in Range(Tail(todo)) : Shallow(y) /\ y \in Task /\ Fine(y)
<1>1. /\ OnStack = {Head(todo)} \cup Range(Tail(todo)) /\ todo \in Seq(Task)
      /\ \A y \in Range(Tail(todo)) : Over(Head(todo), y)
  BY Beneath DEF MInv
<1>2. \A y \in Range(Tail(todo)) : Fine(y) /\ ~Told(y)
  BY <1>1, HushedTail DEF MInv, TasksFine, SInv, Hush
<1>3. \A y \in Range(Tail(todo)) : y \in Task
  <2>1. Tail(todo) \in Seq(Task)
    BY <1>1, HeadTailProperties
  <2>2. \A i \in DOMAIN Tail(todo) : Tail(todo)[i] \in Task
    BY <2>1, LenProperties
  <2> QED BY <2>2 DEF Range
<1>4. ASSUME NEW y \in Range(Tail(todo)) PROVE Shallow(y)
  <2>1. CASE Head(todo).op \notin Wires
    <3>1. ~Deep(y) /\ y.op \notin {"ensure", "die", "stop"} /\ (y.op = "send" => y.line.op = "B")
      BY <1>1, <2>1 DEF Over
    <3>2. y.op # "send"
      BY <1>2, <3>1 DEF Fine, Deep, Asks
    <3> QED BY <1>2, <3>1, <3>2 DEF Shallow
  <2>2. CASE Told(Head(todo))
    <3>1. y.op = "lines"
      <4>1. Head(todo).op = "call" /\ Head(todo).resp # Failed
        BY <2>2 DEF Told
      <4>2. y.op \in Below(Head(todo))
        BY <1>1, TopAndRest DEF FInv
      <4> QED BY <4>1, <4>2 DEF Below
    <3> QED BY <3>1 DEF Shallow, Deep, Asks, Told
  <2> QED BY <2>1, <2>2
<1> QED BY <1>2, <1>3, <1>4

\* The input is as it was, or has a new revision.
Onward == UNCHANGED <<buf, revision, epoch, icRef>> \/ revision' = revision + 1

\* It stays so, and goes on assuming what it did, when the input moves on.
LEMMA ShallowStays ==
  ASSUME AsUsed, WInv, Onward, NEW y, Shallow(y), Fine(y), y \in Task
  PROVE  /\ Shallow(y)' /\ Fine(y)' /\ Mild(y) /\ Due(y)'
         /\ \A x : Over(x, y)'
<1>1. revision \in Nat
  BY Inv DEF InputTypeOK
<1>2. ASSUME y.op = "call" PROVE ~Fresh(y.h)' /\ Captured(y.h)'
  <2>1. Captured(y.h) /\ ~Fresh(y.h)
    BY <1>2 DEF Fine, Shallow, Deep, Asks
  <2>2. y.h.kind = "cand" => y.h.revision \in Nat
    <3>1. y.h \in Handlers
      BY <1>2, ClientShape
    <3> QED BY <3>1 DEF Handlers
  <2> QED BY <1>1, <2>1, <2>2 DEF Onward, Captured, Fresh
<1>3. Shallow(y)'
  BY <1>2 DEF Shallow, Deep, Asks, Told
<1>4. Fine(y)'
  BY <1>2 DEF Shallow, Fine, Deep, Asks, Told
<1>5. Mild(y) /\ Due(y)'
  BY DEF Shallow, Mild, Deep, Asks, Due
<1>6. \A x : Over(x, y)'
  BY <1>3 DEF Shallow, Over, Whole, Says, Deep, Asks
<1> QED BY <1>3, <1>4, <1>5, <1>6

\* The pipe's side is a matter of the engine alone, and so are the letters.
wireVars == <<alive, state, pending, rbuf, childVars, sessionVars>>

\* What is on its way to and from the session, when the engine does not move.
LEMMA EngineSame ==
  ASSUME UNCHANGED wireVars
  PROVE  /\ End' = End /\ (Piped => Piped')
         /\ UNCHANGED <<alive, exited, pending, spans, inPipe>>
<1>1. UNCHANGED <<alive, state, pending, rbuf, exited, inPipe, unwritten, outPipe, sent, known, spans, list, astray>>
  BY DEF wireVars, childVars, sessionVars
<1>2. Held' = Held
  BY <1>1 DEF Held, Astray
<1>3. \A e : After(e)' = After(e)
  BY DEF After, Adrift
<1>4. pending[Len(pending)]' = pending[Len(pending)]
  BY <1>1
<1>5. End' = End
  BY <1>1, <1>2, <1>3, <1>4 DEF End
<1>6. \A s, e : Follows(s, e)' <=> Follows(s, e)
  BY DEF Follows, Adrift, Astray
<1>7. Taken' = Taken /\ \A k : Before(k)' = Before(k)
  BY <1>1, <1>2, <1>3 DEF Taken, Before
<1>8. Chain => Chain'
  BY <1>1, <1>6, <1>7 DEF Chain
<1>9. Replies => Replies'
  BY <1>1 DEF Replies, Coming, Off, Serves, Skips, Astray
<1>10. DeadFresh => DeadFresh'
  BY <1>1 DEF DeadFresh
<1> QED BY <1>1, <1>5, <1>8, <1>9, <1>10 DEF Piped

\* With a new revision nobody waits for this one.
LEMMA RevsOn ==
  ASSUME AsUsed, WInv, Onward, Revs, UNCHANGED pending
  PROVE  /\ Revs'
         /\ revision' = revision + 1 \/ NoneFresh => NoneFresh'
<1>1. revision \in Nat
  BY Inv DEF InputTypeOK
<1>2. ASSUME NEW e \in Range(pending) PROVE Captured(e.h)' /\ (revision' = revision + 1 \/ ~Fresh(e.h) => ~Fresh(e.h)')
  <2>1. e.h \in Handlers
    <3>1. pending \in Seq(Entry)
      BY Inv DEF ProcInv, ProcTypeOK
    <3>2. \A i \in DOMAIN pending : pending[i] \in Entry
      BY <3>1, LenProperties
    <3> QED BY <3>2 DEF Range, Entry, AsUsed
  <2>2. e.h.kind = "cand" => e.h.revision \in Nat
    BY <2>1 DEF Handlers
  <2> QED BY <1>1, <2>2 DEF Onward, Revs, Captured, Fresh
<1>3. \A e \in Range(pending') : e \in Range(pending)
  OBVIOUS
<1>4. Revs'
  BY <1>2, <1>3 DEF Revs, Later
<1>5. revision' = revision + 1 \/ NoneFresh => NoneFresh'
  BY <1>2, <1>3 DEF NoneFresh
<1> QED BY <1>4, <1>5

\* A call that is not the engine's, or a handler given a line, is replaced by
\* others, each with what it may assume.
LEMMA Carried ==
  ASSUME AsUsed, WInv, FInv, SInv, MInv, gone = "no", todo # <<>>,
         Head(todo).op \notin Wires \/ Told(Head(todo)),
         NEW p, p \in Seq(Range(p)), todo' = p \o Tail(todo),
         UNCHANGED engineVars, Onward,
         \A i, j \in DOMAIN p : i < j => Over(p[i], p[j])',
         \A x \in Range(p) : Fine(x)' /\ (Live => Due(x)' \/ Put(x, Head(p))),
         \A S, x : Range(p) \subseteq S /\ x = Head(p) /\ p # <<>> => TopFits(x, S)',
         (\A x \in Range(p) : Mild(x)) /\ Live => End \in {buf', Astray}
  PROVE  MInv' /\ OnStack' = Range(p) \cup Range(Tail(todo))
<1> DEFINE h == Head(todo)
           T == Range(Tail(todo))
<1>1. OnStack = {h} \cup T /\ todo \in Seq(Task) /\ \A y \in T : Over(h, y)
  BY Beneath DEF MInv
<1>2. \A y \in T : Shallow(y) /\ Fine(y) /\ y \in Task
  BY Shallows
<1>3. \A y \in T : Shallow(y)' /\ Fine(y)' /\ Mild(y) /\ Due(y)' /\ \A x : Over(x, y)'
  BY <1>2, ShallowStays
<1> HIDE DEF h, T
<1>4. Stacked(todo)'
  BY <1>3, Restacked DEF MInv, T
<1>5. /\ OnStack' = Range(p) \cup T
      /\ p # <<>> => todo' # <<>> /\ Head(todo') = Head(p) /\ Head(p) \in Range(p)
      /\ todo' # <<>> => Head(todo') \in OnStack'
  BY Replacing DEF T
<1>6. End' = End /\ Piped' /\ UNCHANGED <<alive, exited, pending, spans, inPipe>>
  BY EngineSame DEF MInv, engineVars, wireVars
<1>7. ~Asking /\ ~Dies
  BY <1>1 DEF Asking, Says, Dies, Calling, Wires, Told, h
<1>8. SpansOk'
  BY <1>6, <1>7 DEF MInv, SpansOk
<1>9. Revs'
  BY <1>6, RevsOn DEF MInv
<1>10. TasksFine'
  BY <1>3, <1>5 DEF TasksFine
<1>11. TopFine'
  <2> SUFFICES ASSUME todo' # <<>> PROVE TopFine'
    BY DEF TopFine
  <2>1. CASE p # <<>>
    <3>1. \A S, x : S = OnStack' /\ x = Head(todo') => TopFits(x, S)'
      BY <1>5, <2>1
    <3>2. TopFits(Head(todo), OnStack)'
      BY <3>1 DEF TopFits, Whole, Says
    <3> QED BY <3>2 DEF TopFine
  <2>2. CASE p = <<>>
    <3>1. Range(p) = {}
      BY <2>2, Few
    <3>2. Head(todo') \in T
      BY <1>5, <3>1
    <3>3. \A x \in T : Shallow(x)'
      BY <1>3
    <3>4. \A S, x : x \in T => TopFits(x, S)'
      BY <3>3 DEF Shallow, TopFits, Whole, Says, Deep, Asks
    <3>5. TopFits(Head(todo), OnStack)'
      BY <3>2, <3>4 DEF TopFits, Whole, Says
    <3> QED BY <3>5 DEF TopFine
  <2> QED BY <2>1, <2>2
<1>12. Mirror'
  <2> SUFFICES ASSUME Live' PROVE Mirror'
    BY DEF Mirror
  <2>1. Live
    BY <1>6, <1>7 DEF Live
  <2>2. \A t \in OnStack' : Due(t)' \/ Put(t, Head(todo'))
    <3>1. \A x \in Range(p) : p # <<>>
      BY Few
    <3> QED BY <1>3, <1>5, <2>1, <3>1
  <2>3. (\A t \in OnStack' : Mild(t)) => End' \in {buf', Astray}
    BY <1>5, <1>6, <2>1
  <2>4. \A t \in OnStack' : Due(t)' \/ Put(t, Head(todo))'
    BY <2>2 DEF Put, Says
  <2>5. (\A t \in OnStack' : Mild(t)') => End' \in {buf', Astray}
    BY <2>3 DEF Mild
  <2> QED BY <2>4, <2>5 DEF Mirror
<1>13. MInv'
  BY <1>4, <1>6, <1>8, <1>9, <1>10, <1>11, <1>12 DEF MInv
<1> QED BY <1>5, <1>13 DEF T

\* By a few.
LEMMA CarriedFew ==
  ASSUME AsUsed, WInv, FInv, SInv, MInv, gone = "no", todo # <<>>,
         Head(todo).op \notin Wires \/ Told(Head(todo)),
         UNCHANGED engineVars, Onward, NEW a, NEW b, NEW c,
         NEW p, p = <<>> \/ p = <<a>> \/ p = <<a, b>> \/ p = <<a, b, c>>,
         todo' = p \o Tail(todo),
         p = <<a, b>> \/ p = <<a, b, c>> => \A x, y : x = a /\ y = b => Over(x, y)',
         p = <<a, b, c>> => \A x, y, z : x = a /\ y = b /\ z = c => Over(x, z)' /\ Over(y, z)',
         \A x \in Range(p) : Fine(x)' /\ (Live => Due(x)' \/ Put(x, a)),
         \A S, x : Range(p) \subseteq S /\ x = a /\ p # <<>> => TopFits(x, S)',
         (\A x \in Range(p) : Mild(x)) /\ Live => End \in {buf', Astray}
  PROVE  MInv' /\ OnStack' = Range(p) \cup Range(Tail(todo))
<1>1. /\ p \in Seq(Range(p))
      /\ p # <<>> => Head(p) = a
  <2>1. CASE p = <<>>
    <3>1. Range(p) = {} /\ <<>> \in Seq({})
      BY <2>1, Few
    <3> QED BY <2>1, <3>1
  <2>2. CASE p = <<a>>
    BY <2>2, Few
  <2>3. CASE p = <<a, b>>
    BY <2>3, Few
  <2>4. CASE p = <<a, b, c>>
    BY <2>4, Few
  <2> QED BY <2>1, <2>2, <2>3, <2>4
<1>2. \A i, j \in DOMAIN p : i < j => Over(p[i], p[j])'
  <2> SUFFICES ASSUME NEW i \in DOMAIN p, NEW j \in DOMAIN p, i < j PROVE Over(p[i], p[j])'
    OBVIOUS
  <2>1. CASE p = <<>>
    <3>1. DOMAIN <<>> = {}
      OBVIOUS
    <3> QED BY <2>1, <3>1
  <2>2. CASE p = <<a>>
    <3>1. DOMAIN p = 1..1
      BY <2>2
    <3> QED BY <3>1
  <2>3. CASE p = <<a, b>>
    <3>1. DOMAIN p = 1..2 /\ p[1] = a /\ p[2] = b
      BY <2>3
    <3>2. p[i] = a /\ p[j] = b
      BY <3>1
    <3> QED BY <2>3, <3>2
  <2>4. CASE p = <<a, b, c>>
    <3>1. DOMAIN p = 1..3 /\ p[1] = a /\ p[2] = b /\ p[3] = c
      BY <2>4
    <3>2. (p[i] = a /\ p[j] = b) \/ (p[i] = a /\ p[j] = c) \/ (p[i] = b /\ p[j] = c)
      BY <3>1
    <3> QED BY <2>4, <3>2
  <2> QED BY <2>1, <2>2, <2>3, <2>4
<1>3. \A S, x : Range(p) \subseteq S /\ x = Head(p) /\ p # <<>> => TopFits(x, S)'
  BY <1>1
<1>4. \A x \in Range(p) : Fine(x)' /\ (Live => Due(x)' \/ Put(x, Head(p)))
  <2>1. \A x \in Range(p) : p # <<>>
    BY Few
  <2> QED BY <1>1, <2>1
<1> QED BY <1>1, <1>2, <1>3, <1>4, Carried

\* With nothing below it that is still to be sent, a mild call finds the session
\* at the pinyin.
LEMMA MildEnd ==
  ASSUME AsUsed, WInv, FInv, SInv, MInv, gone = "no", todo # <<>>,
         Head(todo).op \notin Wires \/ Told(Head(todo)), Mild(Head(todo)), Live
  PROVE  End \in {buf, Astray}
<1>1. OnStack = {Head(todo)} \cup Range(Tail(todo))
  BY Beneath DEF MInv
<1>2. \A y \in Range(Tail(todo)) : Mild(y)
  <2>1. \A y \in Range(Tail(todo)) : Shallow(y)
    BY Shallows
  <2> QED BY <2>1 DEF Shallow, Deep, Asks, Mild
<1> QED BY <1>1, <1>2 DEF MInv, Mirror

\* Calls that neither ask nor tell the session anything.
Calm == {"ui", "key", "select", "fallback", "drain", "drainOn", "arm", "lines", "members"}

\* The addon's calm calls, and those that forget the pinyin, assume nothing.
LEMMA CalmFine ==
  ASSUME NEW x, x.op \in Calm \cup {"commit", "clear"}
  PROVE  /\ Fine(x)' /\ Due(x)' /\ (\A S : TopFits(x, S)')
         /\ x.op \in Calm => Mild(x) /\ \A y : Over(y, x)'
BY DEF Calm, Fine, Due, TopFits, Mild, Over, Asks, Deep, Whole, Says, Told

\* A call of the addon's replaced by calm ones.
LEMMA CarriedCalm ==
  ASSUME AsUsed, WInv, FInv, SInv, MInv, gone = "no", todo # <<>>,
         Head(todo).op \notin Wires \/ Told(Head(todo)), Mild(Head(todo)),
         UNCHANGED engineVars, UNCHANGED <<buf, revision, epoch, icRef>>, NEW a, NEW b,
         \/ todo' = Tail(todo)
         \/ todo' = <<a>> \o Tail(todo) /\ a.op \in Calm \cup {"commit", "clear"}
         \/ todo' = <<a, b>> \o Tail(todo) /\ a.op \in Calm /\ b.op \in Calm
  PROVE  MInv'
<1>1. Onward
  BY DEF Onward
<1>2. Live => End \in {buf', Astray}
  BY MildEnd
<1>3. CASE todo' = Tail(todo)
  <2>1. Tail(todo) \in Seq(Task)
    BY Inv, HeadTailProperties DEF ProcInv, ProcTypeOK
  <2>2. todo' = <<>> \o Tail(todo)
    BY <1>3, <2>1, ConcatEmptySeq
  <2> DEFINE p == <<>>
  <2>3. p = <<>> /\ todo' = p \o Tail(todo) /\ Range(p) = {}
    BY <2>2, Few
  <2> HIDE DEF p
  <2> QED BY <1>1, <1>2, <2>3, CarriedFew
<1>4. CASE todo' = <<a>> \o Tail(todo) /\ a.op \in Calm \cup {"commit", "clear"}
  <2> DEFINE p == <<a>>
  <2>1. p = <<a>> /\ todo' = p \o Tail(todo) /\ Range(p) = {a} /\ p # <<>>
    BY <1>4, Few
  <2> HIDE DEF p
  <2>2. p # <<a, b>> /\ p # <<a, b, b>>
    BY <2>1
  <2>3. Fine(a)' /\ Due(a)' /\ \A S : TopFits(a, S)'
    BY <1>4, CalmFine
  <2>4. /\ \A x \in Range(p) : Fine(x)' /\ (Live => Due(x)' \/ Put(x, a))
        /\ \A S, x : Range(p) \subseteq S /\ x = a /\ p # <<>> => TopFits(x, S)'
        /\ (\A x \in Range(p) : Mild(x)) /\ Live => End \in {buf', Astray}
    BY <1>2, <2>1, <2>3
  <2> QED BY <1>1, <2>1, <2>2, <2>4, CarriedFew
<1>5. CASE todo' = <<a, b>> \o Tail(todo) /\ a.op \in Calm /\ b.op \in Calm
  <2> DEFINE p == <<a, b>>
  <2>1. p = <<a, b>> /\ todo' = p \o Tail(todo) /\ Range(p) = {a, b} /\ p # <<>>
    BY <1>5, Few
  <2> HIDE DEF p
  <2>2. p # <<a, b, b>>
    BY <2>1
  <2>3. Fine(a)' /\ Due(a)' /\ (\A S : TopFits(a, S)') /\ Fine(b)' /\ Due(b)' /\ Over(a, b)'
    BY <1>5, CalmFine
  <2>4. /\ \A x \in Range(p) : Fine(x)' /\ (Live => Due(x)' \/ Put(x, a))
        /\ \A S, x : Range(p) \subseteq S /\ x = a /\ p # <<>> => TopFits(x, S)'
        /\ (\A x \in Range(p) : Mild(x)) /\ Live => End \in {buf', Astray}
    BY <1>2, <2>1, <2>3
  <2>5. \A x, y : x = a /\ y = b => Over(x, y)'
    BY <2>3
  <2> QED BY <1>1, <2>1, <2>2, <2>4, <2>5, CarriedFew
<1> QED BY <1>3, <1>4, <1>5

\* Choosing, showing, waiting, draining, and keys that change no pinyin.
LEMMA MirrorCalm ==
  ASSUME AsUsed, WInv, FInv, SInv, MInv, gone = "no", UNCHANGED gone,
         \/ SelectNothing \/ UpdateUI \/ FallbackPending \/ ArmPending \/ DrainQueued \/ DrainNext
         \/ PendingEsc \/ PendingBackQueued \/ PendingOvertaken \/ PendingQueued
         \/ KeyNext \/ KeyDigit \/ KeySpace \/ KeyReturn \/ KeyEsc \/ KeyPasses
         \/ (KeyPunctuation /\ ~Selectable)
  PROVE  MInv'
<1>1. todo # <<>> /\ todo \in Seq(Task)
  BY Inv DEF SelectNothing, UpdateUI, FallbackPending, ArmPending, DrainQueued, DrainNext,
     PendingEsc, PendingBackQueued, PendingOvertaken, PendingQueued, KeyNext, KeyDigit, KeySpace, KeyReturn, KeyEsc,
     KeyPasses, KeyPunctuation, KeyNow, WaitingKey, Calling, Idle, ProcInv, ProcTypeOK
<1>2. Head(todo).op \in Calm /\ UNCHANGED <<buf, revision, epoch, icRef>> /\ UNCHANGED engineVars
  BY DEF SelectNothing, UpdateUI, FallbackPending, ArmPending, DrainQueued, DrainNext,
     PendingEsc, PendingBackQueued, PendingOvertaken, PendingQueued, KeyNext, KeyDigit, KeySpace, KeyReturn, KeyEsc,
     KeyPasses, KeyPunctuation, KeyNow, WaitingKey, Calling, Idle, Calm, quietVars, typingVars, inputVars, ctxVars
<1>3. Head(todo).op \notin Wires /\ Mild(Head(todo))
  BY <1>2 DEF Wires, Calm, Mild
<1>4. \A ic, x, y : /\ Commit(ic, x).op = "commit" /\ Select(ic, x).op = "select" /\ Fallback(ic).op = "fallback"
                    /\ DrainOn(ic).op = "drainOn" /\ ClearAll(ic, x, y).op = "clear" /\ Replay(ic, x).op = "key"
  BY DEF Commit, Select, Fallback, DrainOn, ClearAll, Replay
<1>5. \/ todo' = Tail(todo)
      \/ \E a : todo' = <<a>> \o Tail(todo) /\ a.op \in Calm \cup {"commit", "clear"}
      \/ \E a, b : todo' = <<a, b>> \o Tail(todo) /\ a.op \in Calm /\ b.op \in Calm
  <2>1. <<>> \o Tail(todo) = Tail(todo)
    <3>1. Tail(todo) \in Seq(Task)
      BY <1>1, HeadTailProperties
    <3> QED BY <3>1, ConcatEmptySeq
  <2>2. CASE SelectNothing \/ UpdateUI \/ PendingBackQueued \/ KeyNext \/ KeyPasses
    BY <2>2 DEF SelectNothing, UpdateUI, PendingBackQueued, KeyNext, KeyPasses, Rest
  <2>3. CASE FallbackPending
    BY <1>4, <2>3 DEF FallbackPending, Then, Rest
  <2>4. CASE ArmPending
    BY <1>4, <2>1, <2>4 DEF ArmPending, Then, Rest, Calm
  <2>5. CASE DrainQueued
    BY <1>4, <2>5 DEF DrainQueued, Then, Rest, Calm
  <2>6. CASE DrainNext
    <3>1. CASE todo' = Rest
      BY <3>1 DEF Rest
    <3>2. CASE todo' = <<Replay(icRef, Head(queued))>> \o todo
      <4> DEFINE c == Replay(icRef, Head(queued))
                 d == Head(todo)
      <4>1. c.op \in Calm /\ d.op \in Calm
        BY <1>2, <1>4 DEF Calm
      <4> HIDE DEF c
      <4>2. todo' = <<c, d>> \o Tail(todo)
        BY <1>1, <3>2, OnTop DEF c
      <4> HIDE DEF d
      <4> QED BY <4>1, <4>2
    <3> QED BY <2>6, <3>1, <3>2 DEF DrainNext
  <2>7. CASE PendingQueued
    BY <1>4, <2>7 DEF PendingQueued, Then, Rest, Calm
  <2>8. CASE PendingEsc \/ PendingOvertaken \/ KeyEsc
    BY <1>4, <2>8 DEF PendingEsc, PendingOvertaken, KeyEsc, Then, Rest, Calm
  <2>9. CASE KeyDigit \/ KeyReturn \/ (KeyPunctuation /\ ~Selectable)
    BY <1>4, <2>9 DEF KeyDigit, KeyReturn, KeyPunctuation, Then, Rest, Calm
  <2>10. CASE KeySpace
    <3>1. \A ic : [op |-> "arm", ic |-> ic].op = "arm"
      OBVIOUS
    <3> QED BY <1>4, <2>10, <3>1 DEF KeySpace, Then, Rest, Calm
  <2> QED BY <2>2, <2>3, <2>4, <2>5, <2>6, <2>7, <2>8, <2>9, <2>10
<1> QED BY <1>1, <1>2, <1>3, <1>5, CarriedCalm

\* A handler given candidates.
LEMMA MirrorCandidates ==
  ASSUME AsUsed, WInv, FInv, SInv, MInv, gone = "no", UNCHANGED gone, HandleCandidates
  PROVE  MInv'
<1> DEFINE a == Fallback(icRef)
           b == Select(icRef, 1)
           c == Drain(icRef)
<1>1. /\ todo # <<>> /\ Head(todo).op = "call" /\ Told(Head(todo))
      /\ UNCHANGED <<buf, revision, epoch, icRef>> /\ UNCHANGED engineVars
  BY DEF HandleCandidates, Calling, Idle, Told, Kind, Lost, ctxVars
<1>2. a.op \in Calm /\ b.op \in Calm /\ c.op \in Calm
  BY DEF Fallback, Select, Drain, Calm
<1>3. todo' = Tail(todo) \/ todo' = <<a>> \o Tail(todo) \/ todo' = <<b, c>> \o Tail(todo)
  <2>1. <<>> \o Tail(todo) = Tail(todo)
    <3>1. Tail(todo) \in Seq(Task)
      BY <1>1, Inv, HeadTailProperties DEF ProcInv, ProcTypeOK
    <3> QED BY <3>1, ConcatEmptySeq
  <2> QED BY <2>1 DEF HandleCandidates, Then, Rest
<1>4. Mild(Head(todo))
  BY <1>1 DEF Mild
<1> HIDE DEF a, b, c
<1> QED BY <1>1, <1>2, <1>3, <1>4, CarriedCalm

\* What depends on nothing but the input and the engine.
LEMMA InputSame ==
  ASSUME UNCHANGED wireVars, UNCHANGED <<buf, revision, epoch, icRef>>
  PROVE  /\ \A t : (Asks(t)' <=> Asks(t)) /\ (Whole(t)' <=> Whole(t)) /\ (Due(t)' <=> Due(t))
         /\ \A x, y : Over(x, y)' <=> Over(x, y)
         /\ NoneFresh' <=> NoneFresh
         /\ \A h : (Fresh(h)' <=> Fresh(h)) /\ (Captured(h)' <=> Captured(h))
         /\ (Revs => Revs') /\ (Piped => Piped') /\ End' = End
         /\ UNCHANGED <<alive, exited, pending, spans, inPipe>>
<1>1. End' = End /\ (Piped => Piped') /\ UNCHANGED <<alive, exited, pending, spans, inPipe>>
  BY EngineSame
<1>2. \A h : (Fresh(h)' <=> Fresh(h)) /\ (Captured(h)' <=> Captured(h))
  BY DEF Fresh, Captured
<1>3. \A t : (Asks(t)' <=> Asks(t)) /\ (Whole(t)' <=> Whole(t))
  BY DEF Asks, Fresh, Whole, Says
<1>4. \A t : Due(t)' <=> Due(t)
  BY <1>1 DEF Due, Follows, Adrift, Astray
<1>5. \A x, y : Over(x, y)' <=> Over(x, y)
  BY <1>3 DEF Over, Deep, Says
<1>6. NoneFresh' <=> NoneFresh
  BY <1>1, <1>2 DEF NoneFresh
<1>7. Revs => Revs'
  BY <1>1, <1>2 DEF Revs, Later
<1> QED BY <1>1, <1>2, <1>3, <1>4, <1>5, <1>6, <1>7

\* A call that leaves nothing undone is over.
LEMMA Popped ==
  ASSUME WInv, MInv, gone = "no", UNCHANGED gone, todo # <<>>, todo' = Tail(todo),
         UNCHANGED wireVars, UNCHANGED <<buf, revision, epoch, icRef>>,
         Head(todo).op \notin {"send", "die", "stop", "type"},
         Mild(Head(todo)) \/ (Live => End \in {buf, Astray})
  PROVE  MInv'
<1> DEFINE h == Head(todo)
           T == Range(Tail(todo))
           p == <<>>
<1>1. OnStack = {h} \cup T /\ \A y \in T : Over(h, y)
  BY Beneath DEF MInv
<1>2. p = <<>> /\ p \in Seq(Range(p)) /\ Range(p) = {} /\ DOMAIN p = {} /\ todo' = p \o Tail(todo)
  <2>1. Tail(todo) \in Seq(Task)
    BY Inv, HeadTailProperties DEF ProcInv, ProcTypeOK
  <2> QED BY <2>1, ConcatEmptySeq, Few
<1> HIDE DEF p
<1>3. Stacked(todo)'
  BY <1>2, InputSame, Restacked DEF MInv
<1>4. OnStack' = T /\ (todo' # <<>> => Head(todo') \in T)
  BY <1>2, Replacing
<1>5. ~Dies /\ ~Calling("type") /\ ~Asking
  BY DEF Dies, Calling, Asking, Says
<1> HIDE DEF h, T
<1>6. Piped' /\ Revs' /\ UNCHANGED <<alive, exited, pending, spans, inPipe>> /\ End' = End
  BY InputSame DEF MInv
<1>7. SpansOk'
  BY <1>5, <1>6 DEF MInv, SpansOk
<1>8. \A y \in T : Fine(y)'
  <2>1. \A y : Fine(y) => Fine(y)'
    <3>1. \A g, x : Serves(g, x)' <=> Serves(g, x)
      BY DEF Serves
    <3> QED BY <1>5, <1>6, <3>1, InputSame DEF Fine, Told
  <2> QED BY <1>1, <2>1 DEF MInv, TasksFine
<1>9. TopFine'
  <2> SUFFICES ASSUME todo' # <<>> PROVE TopFine'
    BY DEF TopFine
  <2>1. \A S, x : x \in T => TopFits(x, S)'
    BY <1>1, InputSame DEF Over, TopFits, Says
  <2>2. TopFits(Head(todo), OnStack)'
    BY <1>4, <2>1 DEF TopFits, Whole, Says
  <2> QED BY <2>2 DEF TopFine
<1>10. Mirror'
  <2> SUFFICES ASSUME Live' PROVE Mirror'
    BY DEF Mirror
  <2>1. Live
    BY <1>5, <1>6 DEF Live
  <2>2. \A t \in T : Due(t)'
    <3>1. \A t : ~Put(t, h)
      BY DEF Put, Says, h
    <3> QED BY <1>1, <2>1, <3>1, InputSame DEF MInv, Mirror, h
  <2>3. (\A t \in T : Mild(t)) => End' \in {buf', Astray}
    BY <1>1, <1>6, <2>1 DEF MInv, Mirror, h
  <2> QED BY <1>4, <2>2, <2>3 DEF Mirror, Mild
<1>11. TasksFine'
  BY <1>4, <1>8 DEF TasksFine
<1> QED BY <1>3, <1>6, <1>7, <1>9, <1>10, <1>11 DEF MInv

\* Replies on their way and lines in the pipe, matched with the handlers that
\* wait, by position.
LEMMA PairedUp ==
  ASSUME ProcInv, alive
  PROVE  /\ Coming \in Seq(ReplyOrReady) /\ Len(Coming) \in Nat /\ DOMAIN Coming = 1..Len(Coming)
         /\ pending \in Seq(Entry) /\ Len(pending) \in Nat /\ DOMAIN pending = 1..Len(pending)
         /\ inPipe \in Seq(Line) /\ Len(inPipe) \in Nat
         /\ Off \in {0, 1} /\ (Off = 1 <=> state = "starting")
         /\ Taken \in Nat /\ Len(Coming) = Taken + Off /\ Len(pending) = Taken + Len(inPipe)
         /\ \A k \in 1..Len(inPipe) : inPipe[k] = pending[Taken + k].line
         /\ \A i \in 1..Len(Coming) : i > Off => Coming[i].re = pending[i - Off].line
<1>1. /\ pending \in Seq(Entry) /\ rbuf \in Seq(ReplyOrReady) /\ outPipe \in Seq(ReplyOrReady)
      /\ unwritten \in Seq(ReplyOrReady) /\ inPipe \in Seq(Line) /\ Awaited = OnTheWay
  BY DEF ProcInv, ProcTypeOK, Pairing
<1>2. Coming \in Seq(ReplyOrReady)
  <2>1. rbuf \o outPipe \in Seq(ReplyOrReady)
    BY <1>1, ConcatProperties
  <2> QED BY <1>1, <2>1, ConcatProperties DEF Coming
<1>3. /\ Len(Coming) \in Nat /\ DOMAIN Coming = 1..Len(Coming)
      /\ Len(pending) \in Nat /\ DOMAIN pending = 1..Len(pending) /\ Len(inPipe) \in Nat
  BY <1>1, <1>2, LenProperties
<1> DEFINE head == IF state = "starting" THEN <<Boot>> ELSE <<>>
           l == LinesOf(pending)
           w == Answered(Coming)
<1>4. head \in Seq(Asked) /\ Len(head) = Off /\ Off \in {0, 1} /\ (Off = 1 <=> state = "starting")
  <2>1. CASE state = "starting"
    <3>1. Boot \in Asked
      BY DEF Asked
    <3> QED BY <2>1, <3>1 DEF Off
  <2>2. CASE state # "starting"
    BY <2>2, EmptySeq DEF Off
  <2> QED BY <2>1, <2>2
<1>5. l \in Seq(Asked) /\ Len(l) = Len(pending) /\ \A i \in 1..Len(pending) : l[i] = pending[i].line
  BY <1>1, LinesOfType
<1>6. w \in Seq(Asked) /\ Len(w) = Len(Coming) /\ \A i \in 1..Len(Coming) : w[i] = Coming[i].re
  BY <1>2, AnsweredType
<1>7. inPipe \in Seq(Asked) /\ \A k \in 1..Len(inPipe) : inPipe[k] \in Line
  BY <1>1, SeqMonotonic, LenProperties DEF Asked
<1>8. head \o l = w \o inPipe
  BY <1>1 DEF Awaited, OnTheWay, Coming
<1>b. state = "starting" => head[1] = Boot
  OBVIOUS
<1> HIDE DEF head, l, w
<1> DEFINE x == head \o l
           y == w \o inPipe
<1>9. Len(x) = Off + Len(pending) /\ \A i \in 1..Off + Len(pending) : x[i] = IF i <= Off THEN head[i] ELSE l[i - Off]
  BY <1>4, <1>5, ConcatProperties
<1>10. /\ Len(y) = Len(Coming) + Len(inPipe)
       /\ \A i \in 1..Len(Coming) + Len(inPipe) : y[i] = IF i <= Len(Coming) THEN w[i] ELSE inPipe[i - Len(Coming)]
  <2>1. /\ Len(y) = Len(w) + Len(inPipe)
        /\ \A i \in 1..Len(w) + Len(inPipe) : y[i] = IF i <= Len(w) THEN w[i] ELSE inPipe[i - Len(w)]
    BY <1>6, <1>7, ConcatProperties
  <2> QED BY <1>6, <2>1
<1>11. x = y
  BY <1>8
<1> HIDE DEF x, y
<1>12. Off + Len(pending) = Len(Coming) + Len(inPipe)
  BY <1>9, <1>10, <1>11
<1>13. Off <= Len(Coming)
  <2> SUFFICES ASSUME Off = 1, Len(Coming) = 0 PROVE FALSE
    BY <1>3, <1>4
  <2>1. 1 \in 1..Off + Len(pending) /\ 1 \in 1..Len(Coming) + Len(inPipe) /\ 1 \in 1..Len(inPipe)
    BY <1>3, <1>12
  <2>2. x[1] = head[1] /\ y[1] = inPipe[1 - 0]
    BY <1>9, <1>10, <2>1
  <2>3. x[1] = Boot
    BY <1>4, <1>b, <2>2
  <2>4. inPipe[1] \in Line
    BY <1>7, <2>1
  <2> QED BY <1>11, <2>2, <2>3, <2>4, GhostAssumption
<1>14. Taken \in Nat /\ Len(Coming) = Taken + Off /\ Len(pending) = Taken + Len(inPipe)
  BY <1>3, <1>4, <1>12, <1>13 DEF Taken
<1>15. ASSUME NEW k \in 1..Len(inPipe) PROVE inPipe[k] = pending[Taken + k].line
  <2>1. /\ Len(Coming) + k \in 1..Off + Len(pending) /\ Len(Coming) + k \in 1..Len(Coming) + Len(inPipe)
        /\ ~(Len(Coming) + k <= Off) /\ ~(Len(Coming) + k <= Len(Coming))
        /\ (Len(Coming) + k) - Len(Coming) = k /\ (Len(Coming) + k) - Off = Taken + k
        /\ Taken + k \in 1..Len(pending)
    BY <1>3, <1>4, <1>14
  <2>2. x[Len(Coming) + k] = l[Taken + k] /\ y[Len(Coming) + k] = inPipe[k]
    BY <1>9, <1>10, <2>1
  <2> QED BY <1>5, <1>11, <2>1, <2>2
<1>16. ASSUME NEW i \in 1..Len(Coming), i > Off PROVE Coming[i].re = pending[i - Off].line
  <2>1. /\ i \in 1..Off + Len(pending) /\ i \in 1..Len(Coming) + Len(inPipe) /\ ~(i <= Off) /\ i <= Len(Coming)
        /\ i - Off \in 1..Len(pending)
    BY <1>3, <1>4, <1>14, <1>16
  <2>2. x[i] = l[i - Off] /\ y[i] = w[i]
    BY <1>9, <1>10, <2>1
  <2> QED BY <1>5, <1>6, <1>11, <2>1, <2>2
<1> QED BY <1>1, <1>2, <1>3, <1>4, <1>14, <1>15, <1>16

\* What a session holds is letters, if it can be told.
LEMMA EndType ==
  ASSUME AsUsed, WInv
  PROVE  /\ alive => End \in Pinyin \cup {Adrift, Astray}
         /\ Held \in Pinyin \cup {Astray} /\ Adrift \notin Pinyin /\ Astray \notin Pinyin /\ Adrift # Astray
         /\ \A e \in Entry : After(e) \in Pinyin \cup {Adrift}
<1>1. ASSUME NEW s \in Seq(Letter), 1 \in DOMAIN s, s[1] = "astray" PROVE FALSE
  BY <1>1, SentAssumption, LenProperties
<1>2. Adrift \notin Pinyin /\ Astray \notin Pinyin /\ Adrift # Astray
  <2>1. /\ DOMAIN <<"astray">> = 1..1 /\ <<"astray">>[1] = "astray" /\ Len(<<"astray">>) = 1
        /\ DOMAIN <<"astray", "astray">> = 1..2 /\ <<"astray", "astray">>[1] = "astray"
        /\ Len(<<"astray", "astray">>) = 2
    OBVIOUS
  <2>2. 1 \in DOMAIN Adrift /\ 1 \in DOMAIN Astray /\ Adrift[1] = "astray" /\ Astray[1] = "astray"
    BY <2>1 DEF Adrift, Astray
  <2>3. Adrift # Astray
    BY <2>1 DEF Adrift, Astray
  <2> QED BY <1>1, <2>2, <2>3 DEF Pinyin
<1>9. Held \in Pinyin \cup {Astray}
  BY Inv DEF Held, SessionTypeOK
<1>3. ASSUME NEW e \in Entry PROVE After(e) \in Pinyin \cup {Adrift}
  <2>1. e.h \in Handlers
    BY DEF Entry, AsUsed
  <2>2. <<>> \in Pinyin /\ (e.h.kind = "cand" => e.h.buf \in Pinyin)
    BY <2>1, EmptySeq DEF Handlers, Pinyin
  <2> QED BY <2>2 DEF After
<1>4. ASSUME alive PROVE End \in Pinyin \cup {Adrift, Astray}
  <2>1. CASE inPipe = <<>>
    BY <1>9, <2>1 DEF End
  <2>2. CASE inPipe # <<>>
    <3>1. End = After(pending[Len(pending)])
      BY <2>2 DEF End
    <3>2. Len(inPipe) # 0
      BY <2>2, Inv, EmptySeq DEF ProcInv, ProcTypeOK
    <3>3. Len(pending) \in 1..Len(pending) /\ pending \in Seq(Entry)
      BY <1>4, <3>2, Inv, PairedUp
    <3>4. pending[Len(pending)] \in Entry
      BY <3>3, LenProperties
    <3> QED BY <1>3, <3>1, <3>4
  <2> QED BY <2>1, <2>2
<1> QED BY <1>2, <1>3, <1>4, <1>9

\* Handlers with no use for what they are given, or stale; the engine's exit; no
\* engine to be had; nothing to request; the lines read all handled.
LEMMA MirrorPops ==
  ASSUME AsUsed, WInv, MInv, gone = "no", UNCHANGED gone,
         \/ HandleNothing \/ HandleSpans \/ HandleStale \/ ScheduleRestart
         \/ (HandleLost /\ (buf = <<>> \/ tried))
         \/ (EnsureEngine /\ (alive \/ gaveUp \/ StartRefused))
         \/ (RequestCandidates /\ (buf = <<>> \/ Head(todo).keys = <<>>))
         \/ (LinesDone /\ UNCHANGED sessionVars /\ UNCHANGED typingVars)
  PROVE  MInv'
<1>1. /\ todo # <<>> /\ todo' = Tail(todo)
      /\ Head(todo).op \in {"call", "exit", "ensure", "lines"} \/ (RequestCandidates /\ Head(todo).op = "request")
      /\ RequestCandidates => buf = <<>> \/ Head(todo).keys = <<>>
      /\ UNCHANGED wireVars /\ UNCHANGED <<buf, revision, epoch, icRef>>
  BY DEF HandleNothing, HandleSpans, HandleStale, ScheduleRestart, HandleLost, EnsureEngine, StartRefused,
     RequestCandidates, LinesDone, Calling, Idle, Rest, engineVars, wireVars, typingVars, inputVars, ctxVars, addonVars
<1>2. CASE Head(todo).op \in {"call", "exit", "ensure", "lines"}
  BY <1>1, <1>2, Popped DEF Mild
<1>3. CASE RequestCandidates /\ Head(todo).op = "request"
  <2>1. Fine(Head(todo)) /\ (Live => Due(Head(todo)))
    <3>1. Head(todo) \in OnStack
      BY <1>1, Beneath DEF MInv
    <3> QED BY <1>3, <3>1 DEF MInv, TasksFine, Mirror, Put, Says
  <2>2. buf = <<>> /\ Head(todo).keys \in Pinyin
    <3>1. buf = <<>>
      BY <1>1, <1>3, <2>1 DEF Fine
    <3>2. Calling("request")
      BY <1>1, <1>3 DEF Calling, Idle
    <3> QED BY <3>1, <3>2, Inv, AtHand
  <2>3. ASSUME Live PROVE End \in {buf, Astray}
    <3> SUFFICES ASSUME End # Astray PROVE End = buf
      OBVIOUS
    <3>1. End # Adrift /\ End \o Head(todo).keys = <<>>
      BY <1>3, <2>1, <2>2, <2>3 DEF Due
    <3>2. End \in Pinyin
      BY <2>3, <3>1, EndType DEF Live
    <3>3. Len(End) + Len(Head(todo).keys) = 0 /\ Len(End) \in Nat /\ Len(Head(todo).keys) \in Nat
      BY <2>2, <3>1, <3>2, ConcatProperties, LenProperties, EmptySeq DEF Pinyin
    <3>4. Len(End) = 0
      BY <3>3
    <3> QED BY <2>2, <3>2, <3>4, EmptySeq DEF Pinyin
  <2> QED BY <1>1, <1>3, <2>3, Popped
<1> QED BY <1>1, <1>2, <1>3

\* A call that asks gives way to others that do.
LEMMA Passed ==
  ASSUME WInv, MInv, gone = "no", UNCHANGED gone, todo # <<>>,
         Head(todo).op \in {"request", "call"}, Asks(Head(todo)),
         NEW a, NEW b, NEW p, p = <<a>> \/ p = <<a, b>>, todo' = p \o Tail(todo),
         UNCHANGED wireVars, UNCHANGED <<buf, revision, epoch, icRef>>,
         p = <<a, b>> => Over(a, b),
         \A x \in Range(p) : /\ x.op \in {"ensure", "send", "request"} /\ ~Says(x, {"C", "S", "SAVE", "OPT"})
                             /\ Fine(x) /\ (Live => Due(x)),
         \A S : Range(p) \subseteq S => TopFits(a, S),
         \E x \in Range(p) : ~Mild(x)
  PROVE  MInv'
<1> DEFINE h == Head(todo)
           T == Range(Tail(todo))
<1>1. OnStack = {h} \cup T /\ \A y \in T : Over(h, y)
  BY Beneath DEF MInv
<1>2. p \in Seq(Range(p)) /\ p # <<>> /\ Head(p) = a
  <2>1. CASE p = <<a>>
    BY <2>1, Few
  <2>2. CASE p = <<a, b>>
    BY <2>2, Few
  <2> QED BY <2>1, <2>2
<1>3. \A i, j \in DOMAIN p : i < j => Over(p[i], p[j])
  <2>1. CASE p = <<a>>
    <3>1. DOMAIN p = 1..1
      BY <2>1
    <3> QED BY <3>1
  <2>2. CASE p = <<a, b>>
    <3>1. DOMAIN p = 1..2 /\ p[1] = a /\ p[2] = b
      BY <2>2
    <3> QED BY <2>2, <3>1
  <2> QED BY <2>1, <2>2
<1> HIDE DEF h, T
<1>4. \A x \in Range(p), y \in T : Over(x, y)
  BY <1>1 DEF Over, Says, Wires, h
<1>5. Stacked(todo)'
  <2>1. \A i, j \in DOMAIN p : i < j => Over(p[i], p[j])'
    BY <1>3, InputSame
  <2>2. \A x \in Range(p), y \in T : Over(x, y)'
    BY <1>4, InputSame
  <2>3. \A x, y \in T : Over(x, y) => Over(x, y)'
    BY InputSame
  <2> QED BY <1>2, <2>1, <2>2, <2>3, Restacked DEF MInv, T
<1>6. OnStack' = Range(p) \cup T /\ todo' # <<>> /\ Head(todo') = a /\ a \in Range(p)
  BY <1>2, Replacing DEF T
<1>7. ~Dies /\ ~Calling("type") /\ ~Asking
  BY <1>1 DEF Dies, Calling, Asking, Says, h
<1>8. Piped' /\ Revs' /\ UNCHANGED <<alive, exited, pending, spans, inPipe>> /\ End' = End
  BY InputSame DEF MInv
<1>9. SpansOk'
  BY <1>7, <1>8 DEF MInv, SpansOk
<1>10. TasksFine'
  <2>1. \A y : Fine(y) => Fine(y)'
    <3>1. \A g, x : Serves(g, x)' <=> Serves(g, x)
      BY DEF Serves
    <3> QED BY <1>7, <1>8, <3>1, InputSame DEF Fine, Told
  <2> QED BY <1>1, <1>6, <2>1 DEF MInv, TasksFine
<1>11. TopFine'
  <2>1. \A S, x : Range(p) \subseteq S /\ x = a => TopFits(x, S)'
    BY <1>8, InputSame DEF TopFits, Says
  <2>2. TopFits(Head(todo), OnStack)'
    BY <1>6, <2>1 DEF TopFits, Whole, Says
  <2> QED BY <2>2 DEF TopFine
<1>12. Mirror'
  <2> SUFFICES ASSUME Live' PROVE Mirror'
    BY DEF Mirror
  <2>1. Live
    BY <1>7, <1>8 DEF Live
  <2>2. \A t \in T \cup Range(p) : Due(t)'
    <3>1. \A t : ~Put(t, h)
      BY DEF Put, Says, h
    <3> QED BY <1>1, <2>1, <3>1, InputSame DEF MInv, Mirror, h
  <2> QED BY <1>6, <2>2 DEF Mirror, Mild
<1> QED BY <1>5, <1>8, <1>9, <1>10, <1>11, <1>12 DEF MInv

\* The request is sent, or made for the first time to a new process.
LEMMA MirrorRequest ==
  ASSUME AsUsed, WInv, MInv, gone = "no", UNCHANGED gone,
         RequestCandidates, buf # <<>>, Head(todo).keys # <<>>
  PROVE  MInv'
<1> DEFINE e == Do("ensure")
           x == Send(Batch(Head(todo).keys), HandlerFor(buf, revision))
           h == Head(todo)
<1>1. /\ todo # <<>> /\ h.op = "request" /\ Asks(h)
      /\ todo' = (IfDead(<<e>>) \o <<x>>) \o Tail(todo)
      /\ UNCHANGED wireVars /\ UNCHANGED <<buf, revision, epoch, icRef>>
  BY DEF RequestCandidates, Calling, Idle, Asks, Then, Rest, engineVars, wireVars, typingVars, inputVars, ctxVars
<1>2. Fine(h) /\ (Live => Due(h)) /\ (Whole(h) \/ alive)
  <2>1. Head(todo) \in OnStack
    BY <1>1, Beneath DEF MInv
  <2> QED BY <1>1, <2>1 DEF MInv, TasksFine, Mirror, Put, Says, TopFine, TopFits
<1>3. /\ x.op = "send" /\ x.line.op = "B" /\ x.line.keys = h.keys /\ x.h = HandlerFor(buf, revision)
      /\ Fresh(x.h) /\ Captured(x.h) /\ x.h.kind = "cand" /\ x.h.buf = buf /\ e.op = "ensure"
  <2>1. revision \in Nat
    BY Inv DEF InputTypeOK
  <2> QED BY <2>1 DEF Send, Batch, HandlerFor, Fresh, Captured, Do
<1>4. NoneFresh
  BY <1>1, <1>2 DEF Fine, Calling
<1> HIDE DEF e, x, h
<1>5. Fine(x) /\ (Live => Due(x)) /\ ~Says(x, {"C", "S", "SAVE", "OPT"}) /\ ~Mild(x) /\ Says(x, {"B"})
  <2>1. h.keys # <<>>
    BY DEF h
  <2>2. Fine(x)
    BY <1>3, <1>4, <2>1 DEF Fine, Asks, Told
  <2>3. ASSUME Live PROVE Due(x)
    BY <1>1, <1>2, <1>3, <2>1, <2>3, EndType DEF Due, Follows
  <2> QED BY <1>3, <2>2, <2>3 DEF Says, Mild
<1>6. CASE alive
  <2> DEFINE p == <<x>>
  <2>1. p = <<x>> /\ Range(p) = {x} /\ todo' = p \o Tail(todo)
    <3>1. IfDead(<<e>>) \o <<x>> = <<x>>
      BY <1>6, ConcatEmptySeq DEF IfDead
    <3> QED BY <1>1, <3>1, Few
  <2> HIDE DEF p
  <2>2. p # <<x, x>>
    BY <2>1
  <2>3. \A S : Range(p) \subseteq S => TopFits(x, S)
    BY <1>3, <1>6 DEF TopFits, Says
  <2>4. \A y \in Range(p) : /\ y.op \in {"ensure", "send", "request"} /\ ~Says(y, {"C", "S", "SAVE", "OPT"})
                            /\ Fine(y) /\ (Live => Due(y))
    BY <1>3, <1>5, <2>1
  <2>5. h.op \in {"request", "call"} /\ \E y \in Range(p) : ~Mild(y)
    BY <1>1, <1>5, <2>1
  <2> QED BY <1>1, <2>1, <2>2, <2>3, <2>4, <2>5, Passed DEF h
<1>7. CASE ~alive
  <2> DEFINE p == <<e, x>>
  <2>1. p = <<e, x>> /\ Range(p) = {e, x} /\ todo' = p \o Tail(todo)
    <3>1. IfDead(<<e>>) \o <<x>> = <<e, x>>
      BY <1>7, Pair DEF IfDead
    <3> QED BY <1>1, <3>1, Few
  <2> HIDE DEF p
  <2>2. Over(e, x)
    BY <1>1, <1>2, <1>3, <1>7 DEF Over, Asks, Says, Wires, Whole
  <2>3. \A S : Range(p) \subseteq S => TopFits(e, S)
    BY <1>3, <1>5, <2>1 DEF TopFits, Says, Whole
  <2>4. \A y \in Range(p) : /\ y.op \in {"ensure", "send", "request"} /\ ~Says(y, {"C", "S", "SAVE", "OPT"})
                            /\ Fine(y) /\ (Live => Due(y))
    <3>1. Fine(e) /\ ~Says(e, {"C", "S", "SAVE", "OPT"}) /\ Due(e)
      BY <1>3 DEF Fine, Says, Due, Asks, Told
    <3> QED BY <1>3, <1>5, <2>1, <3>1
  <2>5. h.op \in {"request", "call"} /\ \E y \in Range(p) : ~Mild(y)
    BY <1>1, <1>5, <2>1
  <2> QED BY <1>1, <2>1, <2>2, <2>3, <2>4, <2>5, Passed DEF h
<1> QED BY <1>6, <1>7

\* A request lost is made again, once, to a new process.
LEMMA MirrorReplay ==
  ASSUME AsUsed, WInv, MInv, gone = "no", UNCHANGED gone,
         HandleLost, buf # <<>>, ~tried
  PROVE  MInv'
<1> DEFINE e == Do("ensure")
           x == Request(buf)
           h == Head(todo)
           p == <<e, x>>
<1>1. /\ todo # <<>> /\ h.op = "call" /\ h.resp = Failed /\ Fresh(h.h) /\ Asks(h)
      /\ todo' = p \o Tail(todo) /\ p = <<e, x>> /\ Range(p) = {e, x}
      /\ UNCHANGED wireVars /\ UNCHANGED <<buf, revision, epoch, icRef>>
  <2>1. Fresh(h.h)
    BY DEF HandleLost, Wanted, Preview, Lost, Kind, ForNow, Fresh
  <2>2. Range(p) = {e, x}
    BY Few
  <2> QED BY <2>1, <2>2 DEF HandleLost, Calling, Idle, Asks, Then, Rest, Revive, Lost, engineVars, wireVars, typingVars, inputVars, ctxVars
<1>2. /\ e.op = "ensure" /\ x.op = "request" /\ x.keys = buf
  BY DEF Do, Request
<1>3. Fine(h)
  BY <1>1, Beneath DEF MInv, TasksFine
<1> HIDE DEF e, x, h, p
<1>4. ~alive /\ NoneFresh
  BY <1>1, <1>3 DEF Fine, Dies, Calling, h
<1>5. Over(e, x) /\ Fine(e) /\ Fine(x) /\ ~Mild(x)
  BY <1>2, <1>4 DEF Over, Fine, Asks, Says, Told, Wires, Whole, Mild
<1>6. \A S : Range(p) \subseteq S => TopFits(e, S)
  BY <1>1, <1>2 DEF TopFits, Says, Whole
<1>7. \A y \in Range(p) : /\ y.op \in {"ensure", "send", "request"} /\ ~Says(y, {"C", "S", "SAVE", "OPT"})
                          /\ Fine(y) /\ (Live => Due(y))
  BY <1>1, <1>2, <1>4, <1>5 DEF Says, Live
<1>8. Head(todo).op \in {"request", "call"} /\ Asks(Head(todo)) /\ \E y \in Range(p) : ~Mild(y)
  BY <1>1, <1>5 DEF h
<1> QED BY <1>1, <1>5, <1>6, <1>7, <1>8, Passed

\* The session is cleared for a new composition.
LEMMA CarriedClear ==
  ASSUME AsUsed, WInv, FInv, SInv, MInv, gone = "no", todo # <<>>,
         Head(todo).op \notin Wires, UNCHANGED engineVars,
         buf' = <<>>, revision' = revision + 1, NEW b,
         todo' = <<Clear>> \o Tail(todo) \/ (todo' = <<Clear, b>> \o Tail(todo) /\ b.op \in Calm)
  PROVE  MInv'
<1> DEFINE a == Clear
<1>1. a.op = "send" /\ a.line.op = "C" /\ a.h = Nobody /\ a.h.kind = "none" /\ Onward
  BY DEF Clear, Send, Plain, Nobody, Onward
<1> HIDE DEF a
<1>2. Fine(a)' /\ Due(a)' /\ (\A S : TopFits(a, S)') /\ ~Mild(a)
  BY <1>1 DEF Fine, Captured, Fresh, Due, Follows, TopFits, Mild, Says, Whole, Asks, Told
<1>3. CASE todo' = <<Clear>> \o Tail(todo)
  <2> DEFINE p == <<a>>
  <2>1. p = <<a>> /\ todo' = p \o Tail(todo) /\ Range(p) = {a} /\ p # <<>>
    BY <1>3, Few DEF a
  <2> HIDE DEF p
  <2>2. p # <<a, a>> /\ p # <<a, a, a>>
    BY <2>1
  <2>3. /\ \A x \in Range(p) : Fine(x)' /\ (Live => Due(x)' \/ Put(x, a))
        /\ \A S, x : Range(p) \subseteq S /\ x = a /\ p # <<>> => TopFits(x, S)'
        /\ (\A x \in Range(p) : Mild(x)) /\ Live => End \in {buf', Astray}
    BY <1>2, <2>1
  <2> QED BY <1>1, <2>1, <2>2, <2>3, CarriedFew
<1>4. CASE todo' = <<Clear, b>> \o Tail(todo) /\ b.op \in Calm
  <2> DEFINE p == <<a, b>>
  <2>1. p = <<a, b>> /\ todo' = p \o Tail(todo) /\ Range(p) = {a, b} /\ p # <<>>
    BY <1>4, Few DEF a
  <2> HIDE DEF p
  <2>2. p # <<a, b, b>>
    BY <2>1
  <2>3. Fine(b)' /\ Due(b)' /\ \A x, y : x = a /\ y = b => Over(x, y)'
    BY <1>4, CalmFine
  <2>4. /\ \A x \in Range(p) : Fine(x)' /\ (Live => Due(x)' \/ Put(x, a))
        /\ \A S, x : Range(p) \subseteq S /\ x = a /\ p # <<>> => TopFits(x, S)'
        /\ (\A x \in Range(p) : Mild(x)) /\ Live => End \in {buf', Astray}
    BY <1>2, <2>1, <2>3
  <2> QED BY <1>1, <2>1, <2>2, <2>3, <2>4, CarriedFew
<1> QED BY <1>3, <1>4

\* The session is cleared, and the pinyin that is left is requested again.
LEMMA CarriedShorter ==
  ASSUME AsUsed, WInv, FInv, SInv, MInv, gone = "no", todo # <<>>,
         Head(todo).op \notin Wires, UNCHANGED engineVars,
         revision' = revision + 1, NEW b, NEW c, b = Request(buf'), c.op = "ui",
         todo' = <<Clear, b, c>> \o Tail(todo)
  PROVE  MInv'
<1> DEFINE a == Clear
           p == <<a, b, c>>
<1>1. /\ a.op = "send" /\ a.line.op = "C" /\ a.h = Nobody /\ a.h.kind = "none" /\ Onward
      /\ b.op = "request" /\ b.keys = buf' /\ c.op \in Calm
  BY DEF Clear, Send, Plain, Nobody, Onward, Request, Calm
<1>2. p = <<a, b, c>> /\ todo' = p \o Tail(todo) /\ Range(p) = {a, b, c} /\ p # <<>>
  BY Few
<1> HIDE DEF a, p
<1>3. Fine(a)' /\ Due(a)' /\ ~Mild(a) /\ Put(b, a)
  BY <1>1 DEF Fine, Captured, Fresh, Due, Follows, Mild, Says, Asks, Told, Put
<1>4. NoneFresh'
  <2>1. UNCHANGED pending
    BY DEF engineVars
  <2> QED BY <1>1, <2>1, RevsOn DEF MInv
<1>5. Fine(b)'
  BY <1>1, <1>4 DEF Fine, Told
<1>6. Fine(c)' /\ Due(c)' /\ \A y : Over(y, c)'
  BY <1>1, CalmFine
<1>7. \A x, y : x = a /\ y = b => Over(x, y)'
  BY <1>1 DEF Over, Asks, Fresh, Deep, Wires, Says, Whole
<1>8. \A S, x : Range(p) \subseteq S /\ x = a /\ p # <<>> => TopFits(x, S)'
  BY <1>1, <1>2 DEF TopFits, Says, Whole
<1>9. \A x, y, z : x = a /\ y = b /\ z = c => Over(x, z)' /\ Over(y, z)'
  BY <1>6
<1>10. /\ \A x \in Range(p) : Fine(x)' /\ (Live => Due(x)' \/ Put(x, a))
       /\ (\A x \in Range(p) : Mild(x)) /\ Live => End \in {buf', Astray}
  BY <1>2, <1>3, <1>5, <1>6
<1> QED BY <1>1, <1>2, <1>7, <1>8, <1>9, <1>10, CarriedFew

\* A commit, a cancellation, a key for another context, a letter taken back.
LEMMA MirrorClears ==
  ASSUME AsUsed, WInv, FInv, SInv, MInv, gone = "no", UNCHANGED gone,
         CommitText \/ ClearEverything \/ KeyElsewhere \/ KeyBack \/ PendingBackPinyin
  PROVE  MInv'
<1>1. /\ todo # <<>> /\ todo \in Seq(Task) /\ UNCHANGED engineVars
      /\ Head(todo).op \in {"commit", "clear", "key"} /\ revision' = revision + 1
  BY Inv DEF CommitText, ClearEverything, KeyElsewhere, KeyBack, PendingBackPinyin, Calling, Idle, KeyNow, WaitingKey,
     Forget, NewInput, quietVars, ProcInv, ProcTypeOK
<1>2. Head(todo).op \notin Wires
  BY <1>1 DEF Wires
<1>3. \A ic : Ui(ic).op = "ui" /\ Ui(ic).op \in Calm /\ Fallback(ic).op \in Calm
  BY DEF Ui, Fallback, Calm
<1>4. CASE CommitText
  BY <1>1, <1>2, <1>3, <1>4, CarriedClear DEF CommitText, NewInput, Then, Rest
<1>5. CASE ClearEverything
  <2>1. todo' = (<<Clear>> \o IF Head(todo).redraw THEN <<Ui(Head(todo).ic)>> ELSE <<>>) \o Tail(todo)
    BY <1>5 DEF ClearEverything, Then, Rest
  <2>2. <<Clear>> \o <<>> = <<Clear>> /\ \A x : <<Clear>> \o <<x>> = <<Clear, x>>
    BY Pair
  <2>3. todo' = <<Clear>> \o Tail(todo) \/ todo' = <<Clear, Ui(Head(todo).ic)>> \o Tail(todo)
    BY <2>1, <2>2
  <2> QED BY <1>1, <1>2, <1>3, <1>5, <2>3, CarriedClear DEF ClearEverything, Forget, NewInput
<1>6. CASE KeyElsewhere
  <2>1. todo' = <<Clear, Head(todo)>> \o Tail(todo) /\ Head(todo).op \in Calm
    BY <1>1, <1>6, OnTop DEF KeyElsewhere, Calling, Calm
  <2> QED BY <1>1, <1>2, <1>6, <2>1, CarriedClear DEF KeyElsewhere, Forget, NewInput
<1>7. CASE KeyBack
  <2>1. CASE buf' = <<>>
    <3>1. todo' = <<Clear, Ui(icRef)>> \o Tail(todo)
      BY <1>7, <2>1 DEF KeyBack, Then, Rest
    <3> QED BY <1>1, <1>2, <1>3, <2>1, <3>1, CarriedClear
  <2>2. CASE buf' # <<>>
    <3>1. todo' = <<Clear, Request(buf'), Ui(icRef)>> \o Tail(todo)
      BY <1>7, <2>2 DEF KeyBack, Then, Rest
    <3> QED BY <1>1, <1>2, <1>3, <3>1, CarriedShorter
  <2> QED BY <2>1, <2>2
<1>8. CASE PendingBackPinyin
  <2>1. CASE buf' = <<>>
    <3>1. todo' = (<<Clear>> \o <<Fallback(icRef)>>) \o Tail(todo)
      BY <1>8, <2>1 DEF PendingBackPinyin, Then, Rest
    <3>2. todo' = <<Clear, Fallback(icRef)>> \o Tail(todo)
      BY <3>1, Pair
    <3> QED BY <1>1, <1>2, <1>3, <2>1, <3>2, CarriedClear
  <2>2. CASE buf' # <<>>
    <3>1. todo' = (<<Clear>> \o <<Request(buf'), Ui(icRef)>>) \o Tail(todo)
      BY <1>8, <2>2 DEF PendingBackPinyin, Then, Rest
    <3>2. todo' = <<Clear, Request(buf'), Ui(icRef)>> \o Tail(todo)
      BY <3>1, Triple
    <3> QED BY <1>1, <1>2, <1>3, <3>2, CarriedShorter
  <2> QED BY <2>1, <2>2
<1> QED BY <1>4, <1>5, <1>6, <1>7, <1>8

\* A candidate that covers the whole pinyin is picked, and committed.
LEMMA MirrorPick ==
  ASSUME AsUsed, WInv, FInv, SInv, MInv, gone = "no", UNCHANGED gone,
         SelectWhole \/ (KeyPunctuation /\ Selectable)
  PROVE  MInv'
<1>1. PICK i, n, ic, text : todo' = <<Send(Pick(i, n), Nobody), Commit(ic, text)>> \o Tail(todo)
  BY DEF SelectWhole, KeyPunctuation, Then, Rest
<1> DEFINE a == Send(Pick(i, n), Nobody)
           b == Commit(ic, text)
           p == <<a, b>>
<1>2. /\ todo # <<>> /\ Head(todo).op \notin Wires /\ UNCHANGED engineVars /\ Onward
      /\ a.op = "send" /\ a.line.op = "S" /\ a.h.kind = "none" /\ a.h = Nobody
      /\ b.op = "commit"
  BY DEF SelectWhole, KeyPunctuation, KeyNow, Calling, Idle, Wires, typingVars, inputVars, ctxVars, quietVars, Onward,
     Send, Pick, Nobody, Commit
<1>3. p = <<a, b>> /\ Range(p) = {a, b} /\ todo' = p \o Tail(todo)
  BY <1>1, Few
<1> HIDE DEF a, b, p
<1>4. Fine(a)' /\ Due(a)' /\ ~Mild(a)
  BY <1>2 DEF Fine, Captured, Fresh, Due, Follows, Mild, Asks, Told
<1>5. Fine(b)' /\ Due(b)'
  BY <1>2, CalmFine
<1>6. \A x, y : x = a /\ y = b => Over(x, y)'
  BY <1>2 DEF Over, Asks, Fresh, Deep, Wires, Says, Whole
<1>7. \A S, x : Range(p) \subseteq S /\ x = a /\ p # <<>> => TopFits(x, S)'
  BY <1>2, <1>3 DEF TopFits, Says, Whole
<1>8. p # <<a, b, b>>
  BY <1>3
<1>9. /\ \A x \in Range(p) : Fine(x)' /\ (Live => Due(x)' \/ Put(x, a))
      /\ (\A x \in Range(p) : Mild(x)) /\ Live => End \in {buf', Astray}
  BY <1>3, <1>4, <1>5
<1> QED BY <1>2, <1>3, <1>6, <1>7, <1>8, <1>9, CarriedFew

\* A candidate that covers a prefix is picked, and the rest composed on.
LEMMA MirrorPrefix ==
  ASSUME AsUsed, WInv, FInv, SInv, MInv, gone = "no", UNCHANGED gone, SelectPrefix
  PROVE  MInv'
<1>0. PICK i, a, b : i = Head(todo).idx /\ a = Send(Pick(i, cands[i].cover), HandlerFor(buf', revision')) /\ b = Ui(Head(todo).ic)
  OBVIOUS
<1> DEFINE p == <<a, b>>
<1>1. /\ todo # <<>> /\ Head(todo).op = "select" /\ UNCHANGED engineVars /\ revision' = revision + 1
      /\ UNCHANGED <<epoch, icRef>>
      /\ current /\ i \in DOMAIN cands /\ cands[i].cover < Len(buf) /\ 0 < cands[i].cover
      /\ buf' = SubSeq(buf, cands[i].cover + 1, Len(buf))
      /\ todo' = p \o Tail(todo)
  BY <1>0 DEF SelectPrefix, Calling, Idle, Then, Rest, ctxVars, Remaining
<1>2. /\ a.op = "send" /\ a.line.op = "S" /\ a.line.cover = cands[i].cover /\ a.h = HandlerFor(buf', revision') /\ b.op = "ui"
  BY <1>0 DEF Send, Pick, Ui
<1>3. p = <<a, b>> /\ Range(p) = {a, b}
  BY Few
<1>4. Head(todo).op \notin Wires /\ Mild(Head(todo)) /\ Onward /\ revision \in Nat /\ buf \in Pinyin
  BY <1>1, Inv DEF Wires, Mild, Onward, InputTypeOK
<1>6. (Live => End \in {buf, Astray}) /\ buf # Adrift /\ Astray # Adrift
  BY <1>1, <1>4, MildEnd, EndType
<1> HIDE DEF p
<1>7. /\ a.h.kind = "cand" /\ a.h.buf = buf' /\ a.h.revision = revision' /\ a.h.epoch = epoch' /\ a.h.ic = icRef'
  <2>1. PICK n, r : n = buf' /\ r = revision'
    OBVIOUS
  <2>2. a.h = HandlerFor(n, r)
    BY <1>2, <2>1
  <2>3. a.h.kind = "cand" /\ a.h.buf = n /\ a.h.revision = r /\ a.h.epoch = epoch /\ a.h.ic = icRef
    BY <2>2 DEF HandlerFor
  <2>4. epoch' = epoch /\ icRef' = icRef
    BY <1>1
  <2> QED BY <2>1, <2>3, <2>4
<1>8. NoneFresh' /\ End' = End
  <2>1. UNCHANGED pending /\ UNCHANGED wireVars
    BY <1>1 DEF engineVars, wireVars
  <2> QED BY <1>1, <1>4, <2>1, RevsOn, EngineSame DEF MInv
<1>9. Fine(a)'
  <2>1. Fresh(a.h)'
    BY <1>7 DEF Fresh
  <2>2. Captured(a.h)'
    BY <1>1, <1>4, <1>7 DEF Captured
  <2> QED BY <1>2, <1>8, <2>1, <2>2 DEF Fine, Told
<1>10. Live => Due(a)'
  <2>1. ASSUME Live PROVE Follows(End', a)
    <3>1. End' \in {buf, Astray} /\ End' # Adrift
      BY <1>6, <1>8, <2>1
    <3> QED BY <1>1, <1>2, <1>7, <3>1 DEF Follows
  <2>2. ASSUME Live PROVE Follows(End, a)'
    <3>1. \A s, x : Follows(s, x)' <=> Follows(s, x)
      BY DEF Follows, Adrift, Astray
    <3>2. \A s : s = End' => Follows(s, a)'
      BY <2>1, <2>2, <3>1
    <3> QED BY <3>2 DEF Follows, Adrift, Astray
  <2> QED BY <1>2, <2>2 DEF Due
<1>11. Fine(b)' /\ Due(b)' /\ ~Mild(a) /\ \A x, y : x = a /\ y = b => Over(x, y)'
  BY <1>2, CalmFine DEF Calm, Mild
<1>12. \A S, x : Range(p) \subseteq S /\ x = a /\ p # <<>> => TopFits(x, S)'
  BY <1>2, <1>7 DEF TopFits, Says, Whole
<1>13. /\ \A x \in Range(p) : Fine(x)' /\ (Live => Due(x)' \/ Put(x, a))
       /\ (\A x \in Range(p) : Mild(x)) /\ Live => End \in {buf', Astray}
       /\ p # <<a, b, b>>
  BY <1>3, <1>9, <1>10, <1>11
<1> QED BY <1>1, <1>3, <1>4, <1>11, <1>12, <1>13, CarriedFew

\* A letter goes to the engine first.
LEMMA MirrorKeyLetter ==
  ASSUME AsUsed, WInv, FInv, SInv, MInv, gone = "no", UNCHANGED gone, KeyLetter
  PROVE  MInv'
<1>1. PICK key \in Keys : KeyNow(key) /\ todo' = (IfDead(<<Do("ensure")>>) \o <<Type(key)>>) \o Tail(todo)
  BY DEF KeyLetter, Then, Rest
<1>0. PICK e, x : e = Do("ensure") /\ x = Type(key)
  OBVIOUS
<1>2. /\ todo # <<>> /\ Head(todo).op = "key" /\ UNCHANGED engineVars
      /\ UNCHANGED <<buf, revision, epoch, icRef>> /\ UNCHANGED pending
      /\ e.op = "ensure" /\ x.op = "type" /\ x.replay = (~alive /\ buf # <<>>)
  BY <1>0, <1>1 DEF KeyLetter, KeyNow, Calling, Idle, quietVars, ctxVars, engineVars, Type, Do
<1>3. Onward /\ Head(todo).op \notin Wires /\ Mild(Head(todo))
  BY <1>2 DEF Onward, Wires, Mild
<1>4. (Live => End \in {buf, Astray}) /\ UNCHANGED alive /\ End' = End
  <2>1. UNCHANGED wireVars
    BY <1>2 DEF engineVars, wireVars
  <2> QED BY <1>2, <1>3, <2>1, MildEnd, EngineSame
<1>5. (Live => Due(x)') /\ ~Mild(x)
  BY <1>2, <1>4 DEF Due, Live, Mild
<1>6. ~alive => NoneFresh'
  <2>1. ~alive => pending' = <<>>
    BY <1>2, Inv DEF ProcInv, ProcShape
  <2> QED BY <2>1, Few DEF NoneFresh
<1>7. CASE alive
  <2> DEFINE p == <<x>>
  <2>1. p = <<x>> /\ Range(p) = {x} /\ todo' = p \o Tail(todo)
    <3>1. IfDead(<<e>>) \o <<x>> = <<x>>
      BY <1>7, ConcatEmptySeq DEF IfDead
    <3> QED BY <1>0, <1>1, <3>1, Few
  <2>2. todo' # <<>> /\ Head(todo') = x
    BY <2>1, Few, Replacing
  <2> HIDE DEF p
  <2>3. Fine(x)'
    BY <1>2, <2>2 DEF Fine, Calling, Idle, Told
  <2>4. \A S, y : Range(p) \subseteq S /\ y = x /\ p # <<>> => TopFits(y, S)'
    BY <1>2, <1>4, <1>7 DEF TopFits, Says
  <2>5. /\ \A y \in Range(p) : Fine(y)' /\ (Live => Due(y)' \/ Put(y, x))
        /\ (\A y \in Range(p) : Mild(y)) /\ Live => End \in {buf', Astray}
        /\ p # <<x, x>> /\ p # <<x, x, x>>
    BY <1>5, <2>1, <2>3
  <2> QED BY <1>2, <1>3, <2>1, <2>4, <2>5, CarriedFew
<1>8. CASE ~alive
  <2> DEFINE p == <<e, x>>
  <2>1. p = <<e, x>> /\ Range(p) = {e, x} /\ todo' = p \o Tail(todo)
    <3>1. IfDead(<<e>>) \o <<x>> = <<e, x>>
      BY <1>8, Pair DEF IfDead
    <3> QED BY <1>0, <1>1, <3>1, Few
  <2> HIDE DEF p
  <2>2. Fine(x)' /\ Fine(e)'
    BY <1>2, <1>6, <1>8 DEF Fine, Asks, Told
  <2>3. \A y, z : y = e /\ z = x => Over(y, z)'
    BY <1>2, <1>8 DEF Over, Asks, Says, Wires, Whole
  <2>4. \A S, y : Range(p) \subseteq S /\ y = e /\ p # <<>> => TopFits(y, S)'
    BY <1>2, <2>1 DEF TopFits, Says, Whole
  <2>5. /\ \A y \in Range(p) : Fine(y)' /\ (Live => Due(y)' \/ Put(y, e))
        /\ (\A y \in Range(p) : Mild(y)) /\ Live => End \in {buf', Astray}
        /\ p # <<e, x, x>>
    BY <1>2, <1>5, <1>8, <2>1, <2>2 DEF Live
  <2> QED BY <1>2, <1>3, <2>1, <2>3, <2>4, <2>5, CarriedFew
<1> QED BY <1>7, <1>8

\* The letter joins the pinyin, and it, or the whole, is requested.
LEMMA MirrorType ==
  ASSUME AsUsed, WInv, FInv, SInv, MInv, gone = "no", UNCHANGED gone, TypeLetter
  PROVE  MInv'
<1>0. PICK h, x : h = Head(todo) /\ x = Request(IF h.replay THEN buf' ELSE <<h.c>>)
  OBVIOUS
<1> DEFINE p == <<x>>
<1>1. /\ todo # <<>> /\ h.op = "type" /\ UNCHANGED engineVars /\ UNCHANGED pending
      /\ revision' = revision + 1 /\ buf' = Append(buf, h.c)
      /\ x.op = "request" /\ x.keys = (IF h.replay THEN buf' ELSE <<h.c>>)
      /\ todo' = p \o Tail(todo)
  BY <1>0 DEF TypeLetter, Calling, Idle, Then, Rest, quietVars, engineVars, Request
<1>2. p = <<x>> /\ Range(p) = {x}
  BY Few
<1>3. h.c \in Letter /\ h.replay \in BOOLEAN /\ buf \in Pinyin
  BY <1>0, <1>1, Inv, AtHand DEF Calling, Idle, InputTypeOK
<1>4. /\ buf' # <<>> /\ <<h.c>> # <<>> /\ buf' \in Pinyin /\ buf \o <<h.c>> = buf' /\ <<>> \o buf' = buf'
      /\ buf = <<>> => buf' = <<h.c>>
  <2>1. buf \in Seq(Letter) /\ <<h.c>> \in Seq(Letter)
    BY <1>3 DEF Pinyin
  <2>2. buf' = buf \o <<h.c>>
    BY <1>1, <1>3, <2>1, AppendIsConcat
  <2>3. buf' \in Seq(Letter) /\ Len(buf') = Len(buf) + 1
    BY <1>1, <1>3, <2>1, AppendProperties
  <2>4. Len(buf) \in Nat /\ Len(buf') # 0
    BY <2>1, <2>3, LenProperties
  <2>5. <<>> \o buf' = buf' /\ (buf = <<>> => buf' = <<h.c>>)
    BY <2>1, <2>2, <2>3, ConcatEmptySeq
  <2> QED BY <2>2, <2>3, <2>4, <2>5, EmptySeq DEF Pinyin
<1>5. (Live => Due(h)) /\ (Whole(h) \/ alive)
  <2>1. Head(todo) \in OnStack
    BY <1>1, Beneath DEF MInv
  <2> QED BY <1>0, <1>1, <2>1 DEF MInv, TasksFine, Mirror, Put, Says, TopFine, TopFits
<1> HIDE DEF p
<1>6. Onward /\ Head(todo).op \notin Wires
  BY <1>0, <1>1 DEF Onward, Wires
<1>7. NoneFresh' /\ End' = End /\ UNCHANGED alive
  <2>1. UNCHANGED wireVars
    BY <1>1 DEF engineVars, wireVars
  <2> QED BY <1>1, <1>6, <2>1, RevsOn, EngineSame DEF MInv
<1>8. Fine(x)' /\ ~Mild(x)
  BY <1>1, <1>4, <1>7 DEF Fine, Told, Mild
<1>9. ASSUME Live PROVE Due(x)'
  <2>0. End' = Astray' <=> End = Astray
    BY <1>7 DEF Astray
  <2> SUFFICES ASSUME End # Astray PROVE Due(x)'
    BY <1>1, <2>0 DEF Due
  <2>1. End = IF h.replay THEN <<>> ELSE buf
    BY <1>1, <1>5, <1>9 DEF Due
  <2>2. End # Adrift
    <3>1. <<>> \in Pinyin
      BY EmptySeq DEF Pinyin
    <3> QED BY <1>3, <2>1, <3>1, EndType
  <2>3. End \o x.keys = buf'
    BY <1>1, <1>3, <1>4, <2>1
  <2>4. End' # Adrift /\ End' \o x.keys = buf'
    BY <1>7, <2>2, <2>3
  <2> QED BY <1>1, <2>4 DEF Due, Adrift
<1>10. \A S, y : Range(p) \subseteq S /\ y = x /\ p # <<>> => TopFits(y, S)'
  BY <1>1, <1>4, <1>5, <1>7 DEF TopFits, Whole, Says
<1>11. /\ \A y \in Range(p) : Fine(y)' /\ (Live => Due(y)' \/ Put(y, x))
       /\ (\A y \in Range(p) : Mild(y)) /\ Live => End \in {buf', Astray}
       /\ p # <<x, x>> /\ p # <<x, x, x>>
  BY <1>2, <1>8, <1>9
<1> QED BY <1>1, <1>2, <1>6, <1>10, <1>11, CarriedFew

\* What depends on nothing but the input, or on nothing at all.
LEMMA InputOnly ==
  ASSUME UNCHANGED <<buf, revision, epoch, icRef>>
  PROVE  /\ \A t : (Asks(t)' <=> Asks(t)) /\ (Whole(t)' <=> Whole(t))
         /\ \A x, y : Over(x, y)' <=> Over(x, y)
         /\ \A h : (Fresh(h)' <=> Fresh(h)) /\ (Captured(h)' <=> Captured(h))
         /\ \A h, x : Serves(h, x)' <=> Serves(h, x)
         /\ \A s, e : Follows(s, e)' <=> Follows(s, e)
         /\ \A e : After(e)' = After(e)
         /\ (Revs /\ UNCHANGED pending => Revs') /\ (UNCHANGED pending => (NoneFresh' <=> NoneFresh))
<1>1. \A h : (Fresh(h)' <=> Fresh(h)) /\ (Captured(h)' <=> Captured(h))
  BY DEF Fresh, Captured
<1>2. \A t : (Asks(t)' <=> Asks(t)) /\ (Whole(t)' <=> Whole(t))
  BY DEF Asks, Fresh, Whole, Says
<1>3. \A x, y : Over(x, y)' <=> Over(x, y)
  BY <1>2 DEF Over, Deep, Says
<1>4. \A h, x : Serves(h, x)' <=> Serves(h, x)
  BY DEF Serves, Astray
<1>5. \A s, e : Follows(s, e)' <=> Follows(s, e)
  BY DEF Follows, Adrift, Astray
<1>6. \A e : After(e)' = After(e)
  BY DEF After, Adrift
<1>7. Revs /\ UNCHANGED pending => Revs'
  BY <1>1 DEF Revs, Later
<1>8. UNCHANGED pending => (NoneFresh' <=> NoneFresh)
  BY <1>1 DEF NoneFresh
<1> QED BY <1>1, <1>2, <1>3, <1>4, <1>5, <1>6, <1>7, <1>8

\* A session astray, or one that cannot be told, fits what any other does.
LEMMA Fits ==
  /\ \A s, x, e : x \in {s, Astray} /\ Follows(s, e) => Follows(x, e)
  /\ \A s, e : Follows(Adrift, e) => Follows(s, e)
<1>1. Astray # Adrift /\ Adrift # <<>>
  <2>1. Len(<<"astray">>) = 1 /\ Len(<<"astray", "astray">>) = 2 /\ Len(<<>>) = 0
    OBVIOUS
  <2> QED BY <2>1 DEF Adrift, Astray
<1>2. ASSUME NEW s, NEW x, NEW e, x \in {s, Astray}, Follows(s, e) PROVE Follows(x, e)
  <2>1. CASE x = s
    BY <1>2, <2>1
  <2>2. CASE x = Astray
    BY <1>1, <1>2, <2>2 DEF Follows
  <2> QED BY <1>2, <2>1, <2>2
<1>3. ASSUME NEW s, NEW e, Follows(Adrift, e) PROVE Follows(s, e)
  <2>1. e.h.kind # "cand" /\ e.line.op \notin {"B", "OPT"}
    BY <1>1, <1>3 DEF Follows
  <2> QED BY <2>1 DEF Follows
<1> QED BY <1>2, <1>3

\* A move of the engine, or of what is read from it.
LEMMA StackStays ==
  ASSUME MInv, gone = "no", UNCHANGED <<gone, todo, buf, revision, epoch, icRef, pending, alive>>,
         Piped', SpansOk', Live' => Live /\ End' \in {End, Astray}
  PROVE  MInv'
<1>1. Revs' /\ (NoneFresh' <=> NoneFresh)
  BY InputOnly DEF MInv
<1>2. Stacked(todo)'
  <2>1. \A s : Stacked(s) => Stacked(s)'
    BY InputOnly DEF Stacked
  <2>2. \A s : s = todo' /\ Stacked(s)' => Stacked(todo)'
    BY DEF Stacked
  <2> QED BY <2>1, <2>2 DEF MInv
<1>3. OnStack' = OnStack /\ Head(todo)' = Head(todo) /\ (Dies' <=> Dies) /\ (Calling("type")' <=> Calling("type"))
  BY DEF OnStack, Range, Dies, Calling, Idle
<1>4. TasksFine'
  <2>1. \A t : Fine(t) => Fine(t)'
    BY <1>1, <1>3, InputOnly DEF Fine, Told
  <2> QED BY <1>3, <2>1 DEF MInv, TasksFine
<1>5. TopFine'
  <2>1. \A t, S : TopFits(t, S) => TopFits(t, S)'
    BY InputOnly DEF TopFits, Says
  <2>2. todo # <<>> => \A t, S : t = Head(todo)' /\ S = OnStack' => TopFits(t, S)'
    BY <1>3, <2>1 DEF MInv, TopFine
  <2>3. todo' # <<>> => TopFits(Head(todo), OnStack)'
    BY <2>2 DEF TopFits, Whole, Says
  <2> QED BY <2>3 DEF TopFine
<1>6. Mirror'
  <2> SUFFICES ASSUME Live' PROVE Mirror'
    BY DEF Mirror
  <2>1. Live /\ End' \in {End, Astray}
    OBVIOUS
  <2>2. \A t : Due(t) => Due(t)'
    <3>1. \A t, x : x \in {End, Astray} /\ Follows(End, t) => Follows(x, t)
      BY Fits
    <3>2. \A t, x : x = End' /\ Follows(End, t) => Follows(x, t)'
      BY <2>1, <3>1, InputOnly
    <3>3. ASSUME NEW t, Follows(End, t) PROVE Follows(End, t)'
      BY <3>2, <3>3 DEF Follows, Adrift, Astray
    <3> QED BY <2>1, <3>3 DEF Due, Adrift, Astray
  <2>3. \A t \in OnStack' : Due(t)' \/ Put(t, Head(todo'))
    BY <1>3, <2>1, <2>2 DEF MInv, Mirror
  <2>4. (\A t \in OnStack' : Mild(t)) => End' \in {buf', Astray}
    BY <1>3, <2>1 DEF MInv, Mirror
  <2>5. \A t \in OnStack' : Due(t)' \/ Put(t, Head(todo))'
    BY <2>3 DEF Put, Says
  <2> QED BY <2>4, <2>5 DEF Mirror, Mild
<1> QED BY <1>1, <1>2, <1>4, <1>5, <1>6 DEF MInv

\* A pick refused, or answered without candidates: the session is cleared and the
\* pinyin requested again, once; after that it falls back, or waits for a key.
LEMMA MirrorRefused ==
  ASSUME AsUsed, WInv, FInv, SInv, MInv, gone = "no", UNCHANGED gone, HandleRefused
  PROVE  MInv'
<1>0. PICK h, a, b, f : h = Head(todo) /\ a = Clear /\ b = Request(buf) /\ f = Fallback(icRef)
  OBVIOUS
<1>1. /\ todo # <<>> /\ h.op = "call" /\ h.resp # Failed /\ Fresh(h.h) /\ Asks(h) /\ Told(h) /\ Mild(h)
      /\ UNCHANGED engineVars /\ UNCHANGED <<buf, revision, epoch, icRef>> /\ Onward
      /\ todo' = (IF ~tried THEN <<a, b>> ELSE IF pend THEN <<f>> ELSE <<>>) \o Tail(todo)
  BY <1>0 DEF HandleRefused, Calling, Idle, Wanted, Preview, Kind, Lost, ForNow, Fresh, Asks, Told, Mild,
     Then, Rest, inputVars, ctxVars, Onward
<1>2. CASE tried
  <2>1. f.op \in Calm
    BY <1>0 DEF Fallback, Calm
  <2>2. Tail(todo) \in Seq(Task)
    BY <1>1, Inv, HeadTailProperties DEF ProcInv, ProcTypeOK
  <2>3. <<>> \o Tail(todo) = Tail(todo)
    BY <2>2, ConcatEmptySeq
  <2>4. todo' = Tail(todo) \/ todo' = <<f>> \o Tail(todo)
    BY <1>1, <1>2, <2>3
  <2> QED BY <1>0, <1>1, <2>1, <2>4, CarriedCalm
<1>3. CASE ~tried
  <2>1. PICK p : p = <<a, b>> /\ todo' = p \o Tail(todo) /\ Range(p) = {a, b} /\ p # <<>>
    BY <1>1, <1>3, Few
  <2>2. p # <<a, b, b>>
    BY <2>1
  <2>3. /\ a.op = "send" /\ a.line.op = "C" /\ a.h = Nobody /\ a.h.kind = "none"
        /\ b.op = "request" /\ b.keys = buf'
    BY <1>0, <1>1 DEF Clear, Send, Plain, Nobody, Request
  <2>4. NoneFresh'
    <3>1. Fine(h)
      BY <1>0, <1>1, Beneath DEF MInv, TasksFine
    <3>2. NoneFresh /\ UNCHANGED pending
      BY <1>0, <1>1, <3>1 DEF Fine, Calling, engineVars
    <3> QED BY <1>1, <3>2, InputOnly
  <2>5. Fine(a)' /\ Due(a)' /\ ~Mild(a) /\ Put(b, a)
    BY <2>3 DEF Fine, Captured, Fresh, Due, Follows, Mild, Says, Asks, Told, Put
  <2>6. Fine(b)'
    BY <2>3, <2>4 DEF Fine, Told
  <2>7. \A x, y : x = a /\ y = b => Over(x, y)'
    BY <2>3 DEF Over, Asks, Fresh, Deep, Wires, Says, Whole
  <2>8. \A S, x : Range(p) \subseteq S /\ x = a /\ p # <<>> => TopFits(x, S)'
    BY <2>1, <2>3 DEF TopFits, Says, Whole
  <2>9. /\ \A x \in Range(p) : Fine(x)' /\ (Live => Due(x)' \/ Put(x, a))
        /\ (\A x \in Range(p) : Mild(x)) /\ Live => End \in {buf', Astray}
    BY <2>1, <2>5, <2>6
  <2> QED BY <1>0, <1>1, <2>1, <2>2, <2>7, <2>8, <2>9, CarriedFew
<1>4. tried \in BOOLEAN
  BY Inv DEF InputTypeOK
<1> QED BY <1>2, <1>3, <1>4

\* At most one call asks.
LEMMA OneAsks ==
  ASSUME WInv, Stacked(todo), NEW x \in OnStack, NEW y \in OnStack, Asks(x), Asks(y)
  PROVE  x = y
<1>1. PICK i \in DOMAIN todo, j \in DOMAIN todo : x = todo[i] /\ y = todo[j]
  BY DEF OnStack, Range
<1>2. i \in Nat /\ j \in Nat
  <2>1. todo \in Seq(Task)
    BY Inv DEF ProcInv, ProcTypeOK
  <2> QED BY <2>1, LenProperties
<1>3. ~(i < j) /\ ~(j < i)
  BY <1>1 DEF Stacked, Over
<1> QED BY <1>1, <1>2, <1>3

\* Dying, and a line that finds the engine dead or dying.
LEMMA MirrorDying ==
  ASSUME AsUsed, WInv, MInv, gone = "no", UNCHANGED gone, UNCHANGED typingVars, UNCHANGED sessionVars,
         Die \/ SendBroken \/ SendDead
  PROVE  MInv'
<1>1. PICK a, b, p :
        /\ (a = Do("stop") /\ b = Do("exit") /\ p = <<a, b>> /\ Die)
           \/ (a = Do("die") /\ b = Call(Head(todo), Failed) /\ p = <<a, b>> /\ SendBroken)
           \/ (a = Call(Head(todo), Failed) /\ b = a /\ p = <<a>> /\ SendDead)
        /\ todo' = p \o Tail(todo)
  BY DEF Die, SendBroken, SendDead
<1> DEFINE h == Head(todo)
           T == Range(Tail(todo))
<1>2. /\ p \in Seq(Range(p)) /\ Range(p) = {a, b} /\ p # <<>> /\ Head(p) = a
      /\ p = <<a, b>> \/ (p = <<a>> /\ a = b)
  <2>1. CASE p = <<a, b>>
    BY <2>1, Few
  <2>2. CASE p = <<a>> /\ b = a
    BY <2>2, Few
  <2> QED BY <1>1, <2>1, <2>2
<1>3. /\ todo # <<>> /\ UNCHANGED <<buf, revision, epoch, icRef>> /\ UNCHANGED wireVars
      /\ h.op \in {"die", "send"} /\ (Die <=> h.op = "die") /\ (SendBroken => exited) /\ (SendDead => ~alive)
  BY DEF Die, SendBroken, SendDead, Calling, Idle, typingVars, inputVars, ctxVars, wireVars, childVars
<1>4. OnStack = {h} \cup T /\ \A y \in T : Over(h, y)
  BY <1>3, Beneath DEF MInv
<1>5. Fine(h) /\ \A y \in T : Fine(y)
  BY <1>4 DEF MInv, TasksFine
<1>6. OnStack' = {a, b} \cup T /\ todo' # <<>> /\ Head(todo') = a
  BY <1>1, <1>2, <1>3, Replacing
<1>7. \A x \in {a, b} : /\ x.op \in {"stop", "die", "exit"} \/ (x.op = "call" /\ x.h = h.h /\ x.resp = Failed /\ ~Die)
  <2>1. \A r : Call(h, r).op = "call" /\ Call(h, r).h = h.h /\ Call(h, r).resp = r
    BY DEF Call
  <2>2. \A o : Do(o).op = o
    BY DEF Do
  <2>3. SendBroken \/ SendDead => ~Die
    BY <1>3 DEF SendBroken, SendDead, Calling
  <2> HIDE DEF h
  <2>4. CASE Die /\ a = Do("stop") /\ b = Do("exit")
    BY <2>2, <2>4
  <2>5. CASE SendBroken /\ a = Do("die") /\ b = Call(h, Failed)
    BY <2>1, <2>2, <2>3, <2>5
  <2>6. CASE SendDead /\ a = Call(h, Failed) /\ b = a
    BY <2>1, <2>3, <2>6
  <2> QED BY <1>1, <2>4, <2>5, <2>6 DEF h
<1>8. p = <<a, b>> => a.op \in {"die", "stop"} /\ b.op \in {"exit", "call"}
  BY <1>1, <1>2 DEF Do, Call
<1>9. Dies' \/ ~alive'
  <2>1. Die \/ SendBroken => a.op \in {"die", "stop"}
    BY <1>1, <1>3 DEF Do, SendBroken, SendDead, Die, Calling
  <2>2. UNCHANGED alive
    BY <1>3 DEF wireVars
  <2> QED BY <1>3, <1>6, <2>1, <2>2 DEF Dies, Calling, Idle
<1> HIDE DEF h, T
<1>10. \A x \in {a, b} : Asks(x) => x.op = "call" /\ Asks(h) /\ h.op = "send"
  BY <1>3, <1>7 DEF Asks
<1>11. \A x \in {a, b}, y \in T : Over(x, y)
  BY <1>4, <1>7, <1>10 DEF Over, Says, Wires
<1>12. p = <<a, b>> => Over(a, b)
  BY <1>8 DEF Over, Asks, Says, Wires, Whole
<1>13. Stacked(todo)'
  <2>1. \A i, j \in DOMAIN p : i < j => Over(p[i], p[j])'
    <3>1. CASE p = <<a>>
      <4>1. DOMAIN p = 1..1
        BY <3>1
      <4> QED BY <4>1
    <3>2. CASE p = <<a, b>>
      <4>1. DOMAIN p = 1..2
        BY <3>2
      <4> QED BY <1>3, <1>12, <3>2, <4>1, InputOnly
    <3> QED BY <1>2, <3>1, <3>2
  <2>2. \A x \in Range(p), y \in T : Over(x, y)'
    BY <1>2, <1>3, <1>11, InputOnly
  <2>3. \A x, y \in T : Over(x, y) => Over(x, y)'
    BY <1>3, InputOnly
  <2> QED BY <1>1, <1>2, <1>3, <2>1, <2>2, <2>3, Restacked DEF MInv, T
<1>14. Piped' /\ Revs' /\ (NoneFresh' <=> NoneFresh) /\ UNCHANGED <<alive, exited, pending, spans, inPipe>>
  BY <1>3, InputSame DEF MInv
<1>15. SpansOk'
  <2>1. CASE SendBroken \/ SendDead
    BY <1>3, <1>14, <2>1 DEF SpansOk
  <2>2. CASE Die
    BY <1>3, <1>14, <2>2 DEF MInv, SpansOk, Asking, Says, h
  <2> QED BY <1>1, <2>1, <2>2
<1>16. TasksFine'
  <2>1. ASSUME NEW y \in T PROVE Fine(y)'
    <3>1. ~Calling("type")
      BY <1>3 DEF Calling, h
    <3>2. \A g, x : Serves(g, x)' <=> Serves(g, x)
      BY DEF Serves
    <3> QED BY <1>3, <1>5, <1>9, <1>14, <3>1, <3>2, InputOnly DEF Fine, Told
  <2>2. ASSUME NEW x \in {a, b} PROVE Fine(x)'
    <3>1. x.op = "call" => Captured(x.h)'
      BY <1>3, <1>5, <1>7, InputOnly DEF Fine
    <3>2. Asks(x)' => NoneFresh'
      <4>1. Asks(h) /\ h.op = "send" => NoneFresh
        BY <1>3, <1>5 DEF Fine, Calling, h
      <4> QED BY <1>3, <1>10, <1>14, <4>1, InputOnly
    <3> QED BY <1>7, <1>9, <3>1, <3>2 DEF Fine, Told
  <2> QED BY <1>6, <2>1, <2>2 DEF TasksFine
<1>17. TopFine'
  <2>1. \A S, x : x = a => TopFits(x, S)'
    BY <1>7 DEF TopFits, Whole, Says
  <2>2. TopFits(Head(todo), OnStack)'
    BY <1>6, <2>1 DEF TopFits, Whole, Says
  <2> QED BY <2>2 DEF TopFine
<1>18. Mirror'
  BY <1>9 DEF Mirror, Live
<1> QED BY <1>13, <1>14, <1>15, <1>16, <1>17, <1>18 DEF MInv

\* The handlers of a process that is gone fail one after another; at most one of
\* them was made for the pinyin as it is.
LEMMA MirrorStop ==
  ASSUME AsUsed, WInv, MInv, gone = "no", UNCHANGED gone, UNCHANGED typingVars,
         Stop, FreshSession
  PROVE  MInv'
<1> DEFINE h == Head(todo)
           T == Range(Tail(todo))
<1>0. PICK p : p = FailPendingHandlers
  OBVIOUS
<1>1. /\ todo # <<>> /\ h.op = "stop" /\ UNCHANGED <<buf, revision, epoch, icRef>>
      /\ alive' = FALSE /\ pending' = <<>> /\ sent' = <<>> /\ known' = TRUE /\ astray' = FALSE
      /\ todo' = p \o Tail(todo)
  BY <1>0 DEF Stop, Calling, Idle, typingVars, inputVars, ctxVars, FreshSession
<1>2. OnStack = {h} \cup T /\ \A y \in T : Over(h, y)
  BY <1>1, Beneath DEF MInv
<1>3. \A y \in T : Fine(y) /\ (Asks(y) => NoneFresh)
  <2>1. ~Calling("type")
    BY <1>1 DEF Calling
  <2> QED BY <1>2, <2>1 DEF MInv, TasksFine, Fine
<1>4. pending \in Seq(Entry) /\ DOMAIN pending = 1..Len(pending) /\ Len(pending) \in Nat
  BY Inv, LenProperties DEF ProcInv, ProcTypeOK
<1>5. /\ DOMAIN p = 1..Len(pending)
      /\ \A i \in 1..Len(pending) : p[i] = Call(pending[i], Failed) /\ pending[i] \in Range(pending)
  BY <1>0, <1>4 DEF FailPendingHandlers, Range
<1>6. p \in Seq(Range(p))
  <2>1. p \in [1..Len(pending) -> Range(p)]
    BY <1>0, <1>4 DEF FailPendingHandlers, Range
  <2> QED BY <1>4, <2>1
<1> HIDE DEF h, T
<1>7. \A e : Call(e, Failed).op = "call" /\ Call(e, Failed).h = e.h /\ Call(e, Failed).resp = Failed
  BY DEF Call
<1>8. ASSUME NEW x \in Range(p)
      PROVE  /\ x.op = "call" /\ x.resp = Failed /\ Captured(x.h)
             /\ Fresh(x.h) => ~NoneFresh
  <2>1. PICK i \in 1..Len(pending) : x = Call(pending[i], Failed) /\ pending[i] \in Range(pending)
    BY <1>5, <1>8 DEF Range
  <2> QED BY <1>7, <2>1 DEF MInv, Revs, NoneFresh
<1>9. ASSUME NEW i \in DOMAIN p, NEW j \in DOMAIN p, i < j PROVE Over(p[i], p[j])
  <2>1. p[i] = Call(pending[i], Failed) /\ p[j] = Call(pending[j], Failed) /\ i \in DOMAIN pending /\ j \in DOMAIN pending
    BY <1>4, <1>5, <1>9
  <2>2. Later(pending[i], pending[j]) /\ Captured(pending[i].h) /\ Captured(pending[j].h)
    BY <1>4, <1>5, <1>9, <2>1 DEF MInv, Revs
  <2>3. pending[i].h.kind = "cand" => pending[i].h.revision \in Nat
    <3>1. pending[i] \in Entry
      BY <1>4, <2>1, LenProperties
    <3>2. pending[i].h \in Handlers
      BY <3>1 DEF Entry, AsUsed
    <3> QED BY <3>2 DEF Handlers
  <2>4. ~(Fresh(pending[i].h) /\ Fresh(pending[j].h))
    BY <2>2, <2>3 DEF Later, Fresh
  <2> QED BY <1>7, <2>1, <2>4 DEF Over, Asks, Says, Wires, Whole
<1>10. \A x \in Range(p), y \in T : Over(x, y)
  BY <1>2, <1>3, <1>8 DEF Over, Asks, Says, Wires
<1>11. Stacked(todo)'
  <2>1. \A i, j \in DOMAIN p : i < j => Over(p[i], p[j])'
    BY <1>1, <1>9, InputOnly
  <2>2. \A x \in Range(p), y \in T : Over(x, y)'
    BY <1>1, <1>10, InputOnly
  <2>3. \A x, y \in T : Over(x, y) => Over(x, y)'
    BY <1>1, InputOnly
  <2> QED BY <1>1, <1>6, <2>1, <2>2, <2>3, Restacked DEF MInv, T
<1>12. OnStack' = Range(p) \cup T /\ (todo' # <<>> => Head(todo') \in OnStack')
  BY <1>1, <1>6, Replacing DEF T
<1>13. NoneFresh' /\ Revs'
  <2>1. Range(pending') = {} /\ DOMAIN pending' = {}
    <3>1. DOMAIN <<>> = {}
      OBVIOUS
    <3> QED BY <1>1, <3>1, Few
  <2> QED BY <2>1 DEF NoneFresh, Revs
<1>14. Piped' /\ SpansOk' /\ Mirror'
  BY <1>1 DEF Piped, Chain, Replies, DeadFresh, SpansOk, Mirror, Live
<1>15. TasksFine'
  <2>1. ASSUME NEW y \in T PROVE Fine(y)'
    BY <1>1, <1>3, <1>13, InputOnly DEF Fine, Told
  <2>2. ASSUME NEW x \in Range(p) PROVE Fine(x)'
    BY <1>1, <1>8, <1>13, InputOnly DEF Fine, Told
  <2> QED BY <1>12, <2>1, <2>2 DEF TasksFine
<1>16. TopFine'
  <2> SUFFICES ASSUME todo' # <<>> PROVE TopFine'
    BY DEF TopFine
  <2>1. ASSUME NEW y \in T PROVE \A S : TopFits(y, S)'
    BY <1>1, <1>2, InputOnly DEF Over, TopFits, Says
  <2>2. ASSUME NEW x \in Range(p) PROVE \A S : TopFits(x, S)'
    BY <1>8 DEF TopFits, Whole, Says
  <2>3. \A x, S : x = Head(todo') => TopFits(x, S)'
    BY <1>12, <2>1, <2>2
  <2>4. TopFits(Head(todo), OnStack)'
    BY <2>3 DEF TopFits, Whole, Says
  <2> QED BY <2>4 DEF TopFine
<1> QED BY <1>11, <1>13, <1>14, <1>15, <1>16 DEF MInv

\* What waits to be sent to a new session, or to one that was cleared, is the
\* whole pinyin.
LEMMA FromEmpty ==
  ASSUME AsUsed, WInv, NEW y \in OnStack, Fine(y), Whole(y), y.op = "send" => y.line.op = "B",
         y.op \in {"request", "type", "send"}
  PROVE  /\ y.op = "request" => y.keys = buf /\ <<>> \o buf = buf
         /\ y.op = "type" => y.replay \/ buf = <<>>
         /\ y.op = "send" => Follows(<<>>, [line |-> y.line, h |-> y.h]) /\ Follows(<<>>, y)
         /\ <<>> # Adrift
<1>1. buf \in Seq(Letter) /\ <<>> \o buf = buf /\ <<>> # Adrift
  <2>1. buf \in Seq(Letter)
    BY Inv DEF InputTypeOK, Pinyin
  <2> QED BY <2>1, ConcatEmptySeq DEF Adrift
<1>2. y.op = "send" => /\ y.h.kind = "cand" /\ y.line.keys # <<>> /\ y.h.buf = buf /\ y.line.keys = buf /\ y.line.op = "B"
  BY DEF Fine, Whole, Says, Captured, Fresh
<1>3. y.op = "send" => Follows(<<>>, [line |-> y.line, h |-> y.h]) /\ Follows(<<>>, y)
  BY <1>1, <1>2 DEF Follows
<1> QED BY <1>1, <1>3 DEF Whole

\* A new process, which must learn of spans before anything else.
LEMMA MirrorFork ==
  ASSUME AsUsed, WInv, MInv, gone = "no", UNCHANGED gone,
         EnsureEngine, ~alive, ~gaveUp, StartFork(Greeting)
  PROVE  MInv'
<1> DEFINE h == Head(todo)
           T == Range(Tail(todo))
<1>0. PICK a, p : a = Send(Plain("OPT"), [kind |-> "spans"]) /\ p = <<a>>
  OBVIOUS
<1>1. /\ todo # <<>> /\ h.op = "ensure" /\ UNCHANGED <<buf, revision, epoch, icRef>>
      /\ alive' = TRUE /\ state' = "starting" /\ rbuf' = <<>> /\ exited' = FALSE /\ inPipe' = <<>>
      /\ unwritten' = <<Ready>> /\ outPipe' = <<>> /\ UNCHANGED pending /\ UNCHANGED <<sent, known, spans, list, astray>>
      /\ todo' = p \o Tail(todo)
  BY <1>0 DEF EnsureEngine, StartFork, Greeting, Calling, Idle, inputVars, ctxVars, sessionVars
<1>2. /\ OnStack = {h} \cup T /\ \A y \in T : Over(h, y)
      /\ TopFits(h, OnStack)
  BY <1>1, Beneath DEF MInv, TopFine
<1>3. /\ a.op = "send" /\ a.line.op = "OPT" /\ a.h.kind = "spans"
      /\ Range(p) = {a} /\ p \in Seq(Range(p)) /\ p # <<>> /\ Head(p) = a /\ DOMAIN p = 1..1
  BY <1>0, Few DEF Send, Plain
<1>4. OnStack' = {a} \cup T /\ todo' # <<>> /\ Head(todo') = a
  BY <1>1, <1>3, Replacing
<1>5. pending = <<>> /\ sent = <<>> /\ known /\ ~astray
  BY <1>1, Inv DEF ProcInv, ProcShape, MInv, Piped, DeadFresh
<1>6. NoneFresh' /\ Revs'
  <2>1. Range(pending') = {} /\ DOMAIN pending' = {}
    <3>1. DOMAIN <<>> = {}
      OBVIOUS
    <3> QED BY <1>1, <1>5, <3>1, Few
  <2> QED BY <2>1 DEF NoneFresh, Revs
<1> HIDE DEF h, T
<1>7. \A y \in T : Fine(y) /\ y \in OnStack
  BY <1>2 DEF MInv, TasksFine
<1>8. ASSUME NEW y \in T, y.op \in {"request", "type"} \/ Says(y, {"B"}) PROVE Asks(y)
  BY <1>7, <1>8 DEF Asks, Says, Fine
<1>9. (\E y \in T : y.op \in {"request", "type"} \/ Says(y, {"B"})) \/ (T = {} /\ buf = <<>>)
  <2>1. h \notin T
    BY <1>1, <1>2 DEF Over
  <2> QED BY <1>1, <1>2, <2>1 DEF TopFits, Says
<1>10. ASSUME NEW y \in T, y.op = "call", y.resp = Failed PROVE ~Fresh(y.h)
  <2> SUFFICES ASSUME Fresh(y.h) PROVE FALSE
    OBVIOUS
  <2>1. Asks(y)
    BY <1>10 DEF Asks
  <2>2. PICK z \in T : z.op \in {"request", "type"} \/ Says(z, {"B"})
    BY <1>9
  <2>3. z = y
    BY <1>7, <1>8, <2>1, <2>2, OneAsks DEF MInv
  <2> QED BY <1>10, <2>2, <2>3 DEF Says
<1>11. Stacked(todo)'
  <2>1. \A i, j \in DOMAIN p : i < j => Over(p[i], p[j])'
    BY <1>3
  <2>2. \A x \in Range(p), y \in T : Over(x, y)'
    <3>1. \A y \in T : Over(a, y)
      BY <1>1, <1>2, <1>3 DEF Over, Says, Asks, Fresh, Wires
    <3> QED BY <1>1, <1>3, <3>1, InputOnly
  <2>3. \A x, y \in T : Over(x, y) => Over(x, y)'
    BY <1>1, InputOnly
  <2> QED BY <1>1, <1>3, <2>1, <2>2, <2>3, Restacked DEF MInv, T
<1>12. Piped' /\ SpansOk'
  <2>1. Chain'
    <3>1. Taken' = 0 /\ Len(pending') = 0
      BY <1>1, <1>5 DEF Taken
    <3> QED BY <3>1 DEF Chain
  <2>2. Replies'
    <3>1. rbuf' \o outPipe' = <<>> /\ <<>> \o <<Ready>> = <<Ready>>
      BY <1>1
    <3>2. Coming' = <<Ready>> /\ Off' = 1
      BY <1>1, <3>1 DEF Coming, Off
    <3>3. DOMAIN <<Ready>> = 1..1
      OBVIOUS
    <3> QED BY <3>2, <3>3 DEF Replies
  <2>3. SpansOk'
    BY <1>1, <1>3, <1>4 DEF SpansOk, Asking, Says
  <2> QED BY <1>1, <2>1, <2>2, <2>3 DEF Piped, DeadFresh
<1>13. TasksFine'
  <2>1. ASSUME NEW y \in T PROVE Fine(y)'
    BY <1>1, <1>6, <1>7, <1>10, InputOnly DEF Fine, Told
  <2>2. Fine(a)'
    BY <1>3 DEF Fine, Captured, Asks, Fresh, Told
  <2> QED BY <1>4, <2>1, <2>2 DEF TasksFine
<1>14. TopFine'
  <2>1. \A S, x : S = OnStack' /\ x = a => TopFits(x, S)'
    BY <1>1, <1>3, <1>4, <1>9 DEF TopFits, Says, Whole
  <2>2. TopFits(Head(todo), OnStack)'
    BY <1>4, <2>1 DEF TopFits, Whole, Says
  <2> QED BY <2>2 DEF TopFine
<1>15. Mirror'
  <2>1. End' = <<>>
    <3>1. Held' = <<>>
      BY <1>1, <1>5 DEF Held, Astray
    <3> QED BY <1>1, <3>1 DEF End
  <2>2. ASSUME NEW y \in T PROVE Due(y)'
    <3>1. Whole(y) /\ (y.op = "send" => y.line.op = "B")
      BY <1>2 DEF Over
    <3>2. CASE y.op \in {"request", "type", "send"}
      <4>1. /\ y.op = "request" => y.keys = buf /\ <<>> \o buf = buf
            /\ y.op = "type" => y.replay \/ buf = <<>>
            /\ y.op = "send" => Follows(<<>>, y)
            /\ <<>> # Adrift
        BY <1>7, <3>1, <3>2, FromEmpty
      <4>2. \A s : s = End' /\ Follows(<<>>, y) => Follows(s, y)'
        BY <1>1, <2>1, InputOnly
      <4>3. Follows(<<>>, y) => Follows(End, y)'
        BY <4>2 DEF Follows, Adrift, Astray
      <4> QED BY <1>1, <2>1, <4>1, <4>3 DEF Due, Adrift
    <3>3. CASE y.op \notin {"request", "type", "send"}
      BY <3>3 DEF Due
    <3> QED BY <3>2, <3>3
  <2>3. Due(a)' /\ ~Mild(a)'
    BY <1>3, <2>1 DEF Due, Follows, Mild
  <2> QED BY <1>4, <2>2, <2>3 DEF Mirror
<1> QED BY <1>6, <1>11, <1>12, <1>13, <1>14, <1>15 DEF MInv

\* A line written: the engine will take it after those before it.
LEMMA MirrorWritten ==
  ASSUME AsUsed, WInv, MInv, gone = "no", UNCHANGED gone, UNCHANGED typingVars, UNCHANGED sessionVars,
         SendWritten
  PROVE  MInv'
<1>0. PICK h, e : h = Head(todo) /\ e = [line |-> h.line, h |-> h.h]
  OBVIOUS
<1> DEFINE T == Range(Tail(todo))
           n == Len(pending)
<1>1. /\ todo # <<>> /\ h.op = "send" /\ alive /\ ~exited /\ e.line = h.line /\ e.h = h.h
      /\ inPipe' = Append(inPipe, h.line) /\ pending' = Append(pending, e) /\ todo' = Tail(todo)
      /\ UNCHANGED <<alive, state, rbuf, exited, unwritten, outPipe>> /\ UNCHANGED <<buf, revision, epoch, icRef>>
      /\ UNCHANGED <<sent, known, spans, list, astray>>
  BY <1>0 DEF SendWritten, Calling, Idle, typingVars, inputVars, ctxVars, sessionVars
<1>2. /\ OnStack = {h} \cup T /\ \A y \in T : Over(h, y)
      /\ TopFits(h, OnStack) /\ h \in Task /\ Fine(h)
  BY <1>0, <1>1, Beneath DEF MInv, TopFine, TasksFine
<1>3. /\ Len(Coming) \in Nat /\ DOMAIN Coming = 1..Len(Coming)
      /\ pending \in Seq(Entry) /\ n \in Nat /\ DOMAIN pending = 1..n
      /\ inPipe \in Seq(Line) /\ Len(inPipe) \in Nat
      /\ Off \in {0, 1} /\ Taken \in Nat /\ Len(Coming) = Taken + Off /\ n = Taken + Len(inPipe)
  BY <1>1, Inv, PairedUp
<1>4. h.line \in Line /\ h.h \in Handler /\ e \in Entry
  <2>1. Calling("send") /\ LocalApart
    BY <1>0, <1>1, Apart DEF Calling, Idle
  <2>2. h.line \in Line /\ h.h \in Handler
    BY <1>0, <1>1, <2>1, Inv, NextCall DEF ProcInv, ProcTypeOK
  <2> QED BY <1>0, <2>2 DEF Entry
<1>5. /\ Len(pending') = n + 1 /\ pending'[n + 1] = e /\ (\A i \in 1..n : pending'[i] = pending[i])
      /\ DOMAIN pending' = 1..n + 1 /\ Range(pending') = Range(pending) \cup {e}
  <2>1. /\ Len(Append(pending, e)) = n + 1 /\ Append(pending, e)[n + 1] = e
        /\ (\A i \in 1..n : Append(pending, e)[i] = pending[i]) /\ Append(pending, e) \in Seq(Entry)
    BY <1>3, <1>4, AppendProperties
  <2>2. DOMAIN Append(pending, e) = 1..n + 1
    BY <2>1, LenProperties
  <2>3. Range(pending') = Range(pending) \cup {e}
    BY <1>1, <1>3, <1>4, RangeAppend
  <2> QED BY <1>1, <2>1, <2>2, <2>3
<1>6. /\ Len(inPipe') = Len(inPipe) + 1 /\ inPipe' # <<>>
      /\ inPipe'[1] = IF inPipe = <<>> THEN h.line ELSE inPipe[1]
  <2>1. /\ Len(inPipe') = Len(inPipe) + 1 /\ inPipe'[Len(inPipe) + 1] = h.line
        /\ \A i \in 1..Len(inPipe) : inPipe'[i] = inPipe[i]
    BY <1>1, <1>3, <1>4, AppendProperties
  <2>2. (inPipe = <<>>) <=> (Len(inPipe) = 0)
    BY <1>3, EmptySeq
  <2> QED BY <1>3, <2>1, <2>2, EmptySeq
<1>7. Follows(End, h) /\ ~Dies
  <2>1. ~Dies
    BY <1>0, <1>1 DEF Dies, Calling
  <2>2. Due(h)
    BY <1>0, <1>1, <1>2, <2>1 DEF MInv, Mirror, Live, Put
  <2> QED BY <1>1, <2>1, <2>2 DEF Due
<1> HIDE DEF T, n
<1>8. Follows(End, e)
  BY <1>1, <1>7 DEF Follows
<1>9. Taken' = Taken /\ Held' = Held
  BY <1>1, <1>3, <1>5, <1>6 DEF Taken, Held, Astray, n
<1>10. Chain'
  <2> SUFFICES ASSUME NEW k \in Taken' + 1..Len(pending') PROVE Follows(Before(k), pending[k])'
    BY DEF Chain
  <2>1. k \in Taken + 1..n + 1
    BY <1>5, <1>9
  <2>2. CASE k \in 1..n
    <3>1. Follows(Before(k), pending[k])
      BY <1>1, <1>3, <2>1, <2>2 DEF MInv, Piped, Chain, n
    <3>2. Before(k)' = Before(k) /\ pending'[k] = pending[k]
      <4>1. k # Taken + 1 => k - 1 \in 1..n
        BY <1>3, <2>1, <2>2
      <4>2. k # Taken + 1 => pending'[k - 1] = pending[k - 1]
        BY <1>5, <4>1
      <4> QED BY <1>5, <1>9, <2>2, <4>2 DEF Before, After, Adrift
    <3>3. \A s, x : s = Before(k)' /\ x = pending'[k] => Follows(s, x)'
      BY <1>1, <3>1, <3>2, InputOnly
    <3> QED BY <3>3 DEF Follows, Adrift, Astray
  <2>3. CASE k = n + 1
    <3>1. Before(k)' = End
      <4>1. inPipe = <<>> <=> n = Taken
        BY <1>3, EmptySeq DEF n
      <4>2. CASE inPipe = <<>>
        BY <1>3, <1>9, <2>3, <4>1, <4>2 DEF Before, End
      <4>3. CASE inPipe # <<>>
        <5>1. k # Taken + 1 /\ k - 1 = n /\ n \in 1..n
          BY <1>3, <2>1, <2>3, <4>1, <4>3
        <5>2. pending'[k - 1] = pending[n]
          BY <1>5, <5>1
        <5> QED BY <1>9, <4>3, <5>1, <5>2 DEF Before, End, After, Adrift, n
      <4> QED BY <4>2, <4>3
    <3>2. \A s, x : s = Before(k)' /\ x = pending'[k] => Follows(s, x)'
      BY <1>1, <1>5, <1>8, <2>3, <3>1, InputOnly
    <3> QED BY <3>2 DEF Follows, Adrift, Astray
  <2> QED BY <1>3, <2>1, <2>2, <2>3
<1>11. Replies'
  <2>1. Coming' = Coming /\ Off' = Off
    BY <1>1 DEF Coming, Off
  <2>2. ASSUME NEW i \in DOMAIN Coming, i > Off PROVE Serves(pending[i - Off].h, Coming[i].text)' /\ Skips(i)'
    <3>1. Serves(pending[i - Off].h, Coming[i].text) /\ Skips(i)
      BY <1>1, <2>2 DEF MInv, Piped, Replies
    <3>2. i - Off \in 1..n /\ i \in Nat
      BY <1>3, <2>2 DEF n
    <3>3. pending'[i - Off] = pending[i - Off]
      BY <1>5, <3>2
    <3>4. Skips(i)'
      <4>1. i - Off < n => (i - Off) + 1 \in 1..n /\ i - Off < n + 1
        BY <1>3, <3>2
      <4> QED BY <1>5, <2>1, <3>1, <4>1 DEF Skips, n
    <3> QED BY <2>1, <3>1, <3>3, <3>4 DEF Serves
  <2> QED BY <2>1, <2>2 DEF Replies
<1>12. SpansOk'
  <2>1. inPipe = <<>> /\ ~spans => h.line.op = "OPT"
    BY <1>0, <1>1 DEF MInv, SpansOk, Asking, Says
  <2> QED BY <1>1, <1>6, <2>1 DEF MInv, SpansOk
<1>13. h.h.kind = "cand" => Asks(h) /\ Fresh(h.h) /\ NoneFresh
  <2>1. ~Calling("type")
    BY <1>0, <1>1 DEF Calling
  <2> QED BY <1>1, <1>2, <2>1 DEF Fine, Asks
<1>14. Revs'
  <2>1. Captured(h.h)
    BY <1>1, <1>2 DEF Fine
  <2>2. \A x \in Range(pending') : Captured(x.h)'
    BY <1>1, <1>5, <2>1, InputOnly DEF MInv, Revs
  <2>3. ASSUME NEW i \in DOMAIN pending', NEW j \in DOMAIN pending', i < j PROVE Later(pending'[i], pending'[j])
    <3>1. CASE j \in 1..n
      <4>1. i \in 1..n /\ j \in 1..n
        BY <1>3, <1>5, <2>3, <3>1 DEF n
      <4> QED BY <1>3, <1>5, <2>3, <4>1 DEF MInv, Revs
    <3>2. CASE j = n + 1
      <4>1. i \in 1..n /\ pending'[j] = e /\ pending'[i] = pending[i] /\ pending[i] \in Range(pending)
        BY <1>3, <1>5, <2>3, <3>2 DEF Range
      <4>2. Captured(pending[i].h) /\ (h.h.kind = "cand" => ~Fresh(pending[i].h))
        BY <1>13, <4>1 DEF MInv, Revs, NoneFresh
      <4>3. pending[i].h.kind = "cand" => pending[i].h.revision \in Nat /\ revision \in Nat
        <5>1. pending[i] \in Entry
          BY <1>3, <4>1, LenProperties
        <5>2. pending[i].h \in Handlers
          BY <5>1 DEF Entry, AsUsed
        <5> QED BY <5>2, Inv DEF Handlers, InputTypeOK
      <4> QED BY <1>1, <1>13, <4>1, <4>2, <4>3 DEF Later, Captured, Fresh
    <3> QED BY <1>3, <1>5, <2>3, <3>1, <3>2
  <2> QED BY <2>2, <2>3 DEF Revs, Later
<1>15. NoneFresh => (Asks(h) \/ NoneFresh')
  <2> SUFFICES ASSUME NoneFresh, ~Asks(h) PROVE NoneFresh'
    OBVIOUS
  <2>1. ~Fresh(e.h)
    BY <1>1 DEF Asks
  <2>2. \A x \in Range(pending') : ~Fresh(x.h)'
    BY <1>1, <1>5, <2>1, InputOnly DEF NoneFresh
  <2> QED BY <2>2 DEF NoneFresh
<1> DEFINE p == <<>>
<1>16. p = <<>> /\ p \in Seq(Range(p)) /\ Range(p) = {} /\ DOMAIN p = {} /\ todo' = p \o Tail(todo)
  <2>1. Tail(todo) \in Seq(Task)
    BY <1>1, Inv, HeadTailProperties DEF ProcInv, ProcTypeOK
  <2> QED BY <1>1, <2>1, ConcatEmptySeq, Few
<1> HIDE DEF p
<1>17. OnStack' = T /\ (todo' # <<>> => Head(todo') \in T)
  BY <1>1, <1>16, Replacing DEF T
<1>18. Stacked(todo)'
  BY <1>1, <1>16, InputOnly, Restacked DEF MInv
<1>19. \A y \in T : Fine(y) /\ Whole(y) /\ (y.op = "send" => y.line.op = "B") /\ y \in OnStack
  BY <1>2 DEF MInv, TasksFine, Over
<1>20. TasksFine'
  <2>1. ASSUME NEW y \in T PROVE Fine(y)'
    <3>1. ~Calling("type")
      BY <1>0, <1>1 DEF Calling
    <3>2. Asks(y) => NoneFresh'
      BY <1>2, <1>15, <1>19, <3>1 DEF Over, Fine
    <3> QED BY <1>1, <1>7, <1>19, <3>2, InputOnly DEF Fine, Told
  <2> QED BY <1>17, <2>1 DEF TasksFine
<1>21. TopFine'
  <2> SUFFICES ASSUME todo' # <<>> PROVE TopFine'
    BY DEF TopFine
  <2>1. \A S, x : x \in T => TopFits(x, S)'
    BY <1>1, <1>2, InputOnly DEF Over, TopFits, Says
  <2>2. TopFits(Head(todo), OnStack)'
    BY <1>17, <2>1 DEF TopFits, Whole, Says
  <2> QED BY <2>2 DEF TopFine
<1>22. End' = After(e)
  BY <1>3, <1>5, <1>6 DEF End, After, Adrift
<1>23. \A y \in T : y.op \in {"request", "type", "send"} => Asks(y)
  BY <1>19 DEF Asks, Fine
<1>24. /\ h.line.op \in {"B", "C", "S", "OPT", "SAVE"}
       /\ h.h.kind = "cand" => h.line.op \in {"B", "S"} /\ h.h.buf = buf
       /\ h.line.op = "B" => h.h.kind = "cand"
  <2>1. h.line \in Command
    BY <1>4 DEF AsUsed
  <2> QED BY <1>1, <1>2, <2>1 DEF Command, Fine, Captured
<1>25. ASSUME h.line.op \in {"C", "OPT"} PROVE \A y \in T : Due(y)'
  <2>1. End' = <<>>
    BY <1>1, <1>22, <1>25 DEF After
  <2>2. ASSUME NEW y \in T, y.op \in {"request", "type", "send"} PROVE Due(y)'
    <3>1. /\ y.op = "request" => y.keys = buf /\ <<>> \o buf = buf
          /\ y.op = "type" => y.replay \/ buf = <<>>
          /\ y.op = "send" => Follows(<<>>, y)
          /\ <<>> # Adrift
      BY <1>19, <2>2, FromEmpty
    <3>2. \A s : s = End' /\ Follows(<<>>, y) => Follows(s, y)'
      BY <1>1, <2>1, InputOnly
    <3>3. Follows(<<>>, y) => Follows(End, y)'
      BY <3>2 DEF Follows, Adrift, Astray
    <3> QED BY <1>1, <2>1, <3>1, <3>3 DEF Due, Adrift
  <2>3. \A y : y.op \notin {"request", "type", "send"} => Due(y)'
    BY DEF Due
  <2> QED BY <2>2, <2>3
<1>26. ASSUME h.line.op \notin {"C", "OPT"} PROVE \A y \in T : y.op = "request" \/ ~Asks(y)
  BY <1>1, <1>2, <1>13, <1>24, <1>26 DEF Over, Says
<1>27. Mirror'
  <2>1. CASE h.line.op = "C"
    <3>1. (\A y \in T : Mild(y)) => buf = <<>>
      <4>1. buf = <<>> \/ \E y \in OnStack : y.op = "request"
        BY <1>1, <1>2, <2>1 DEF TopFits, Says
      <4> QED BY <1>1, <1>2, <4>1 DEF Mild
    <3>2. End' = <<>>
      BY <1>1, <1>22, <2>1 DEF After
    <3> QED BY <1>1, <1>17, <1>25, <2>1, <3>1, <3>2 DEF Mirror, Mild
  <2>2. CASE h.line.op = "OPT"
    <3>1. (\A y \in T : Mild(y)) => buf = <<>>
      <4>1. (\E y \in OnStack : y.op \in {"request", "type"} \/ Says(y, {"B"})) \/ buf = <<>>
        BY <1>1, <1>2, <2>2 DEF TopFits, Says
      <4> QED BY <1>1, <1>2, <2>2, <4>1 DEF Mild, Says
    <3>2. End' = <<>>
      BY <1>1, <1>22, <2>2 DEF After
    <3> QED BY <1>1, <1>17, <1>25, <2>2, <3>1, <3>2 DEF Mirror, Mild
  <2>3. CASE h.h.kind = "cand"
    <3>1. \A y \in T : ~Asks(y)
      BY <1>2, <1>13, <2>3 DEF Over
    <3>2. \A y \in T : y.op \notin {"request", "type", "send"}
      BY <1>23, <3>1
    <3>3. End' \in {buf, Astray}
      BY <1>1, <1>22, <1>24, <2>3 DEF After
    <3> QED BY <1>1, <1>17, <3>2, <3>3 DEF Mirror, Mild, Due
  <2>4. CASE h.line.op \in {"S", "SAVE"} /\ h.h.kind # "cand"
    <3>1. \A y \in T : ~Asks(y)
      BY <1>1, <1>2, <2>4 DEF Over, Says
    <3>2. \A y \in T : y.op \notin {"request", "type", "send"}
      BY <1>23, <3>1
    <3>3. \E y \in T : ~Mild(y)
      BY <1>1, <1>2, <2>4 DEF TopFits, Says, Mild
    <3> QED BY <1>1, <1>17, <3>2, <3>3 DEF Mirror, Mild, Due
  <2> QED BY <1>24, <2>1, <2>2, <2>3, <2>4
<1>28. Piped'
  BY <1>1, <1>10, <1>11 DEF Piped, DeadFresh
<1> QED BY <1>12, <1>14, <1>18, <1>20, <1>21, <1>27, <1>28 DEF MInv

\* What is on its way, once a line read is handled.
LEMMA ComingOn ==
  ASSUME ProcTypeOK, rbuf # <<>>, rbuf' = Tail(rbuf), UNCHANGED <<outPipe, unwritten>>
  PROVE  /\ Coming' = Tail(Coming) /\ Coming # <<>> /\ Coming \in Seq(ReplyOrReady)
         /\ Coming[1] = Head(rbuf) /\ Head(rbuf) \in ReplyOrReady
<1> DEFINE r == <<Head(rbuf)>>
           u == Tail(rbuf)
<1>1. /\ r \in Seq(ReplyOrReady) /\ u \in Seq(ReplyOrReady) /\ rbuf = r \o u /\ Len(r) = 1 /\ r[1] = Head(rbuf)
      /\ Head(rbuf) \in ReplyOrReady
  BY HeadAndTail DEF ProcTypeOK
<1> HIDE DEF r, u
<1>2. outPipe \in Seq(ReplyOrReady) /\ unwritten \in Seq(ReplyOrReady)
  BY DEF ProcTypeOK
<1> DEFINE v == (u \o outPipe) \o unwritten
<1>3. u \o outPipe \in Seq(ReplyOrReady) /\ v \in Seq(ReplyOrReady)
  BY <1>1, <1>2, ConcatProperties
<1>4. Coming = r \o v
  <2>1. \A s, t, x \in Seq(ReplyOrReady) : (s \o t) \o x = s \o (t \o x)
    BY Assoc
  <2>2. (r \o u) \o outPipe = r \o (u \o outPipe)
    BY <1>1, <1>2, <2>1
  <2> DEFINE w == u \o outPipe
  <2>3. w \in Seq(ReplyOrReady)
    BY <1>3
  <2> HIDE DEF w
  <2>4. (r \o w) \o unwritten = r \o (w \o unwritten)
    BY <1>1, <1>2, <2>1, <2>3
  <2> QED BY <1>1, <2>2, <2>4 DEF Coming, w
<1>5. Coming' = v
  BY DEF Coming, u
<1> HIDE DEF v
<1>6. Coming \in Seq(ReplyOrReady) /\ Coming # <<>> /\ Coming[1] = r[1] /\ Tail(Coming) = v
  <2>1. /\ r \o v \in Seq(ReplyOrReady) /\ Len(r \o v) = 1 + Len(v)
        /\ \A i \in 1..1 + Len(v) : (r \o v)[i] = IF i <= 1 THEN r[i] ELSE v[i - 1]
    <3>1. /\ r \o v \in Seq(ReplyOrReady) /\ Len(r \o v) = Len(r) + Len(v)
          /\ \A i \in 1..Len(r) + Len(v) : (r \o v)[i] = IF i <= Len(r) THEN r[i] ELSE v[i - Len(r)]
      BY <1>1, <1>3, ConcatProperties
    <3> QED BY <1>1, <3>1
  <2>2. Len(v) \in Nat
    BY <1>3, LenProperties
  <2>3. Coming # <<>> /\ Coming[1] = r[1]
    BY <1>4, <2>1, <2>2, EmptySeq
  <2>4. Head(Coming) \in ReplyOrReady /\ Tail(Coming) \in Seq(ReplyOrReady) /\ Len(Tail(Coming)) = Len(Coming) - 1
        /\ \A i \in 1..Len(Tail(Coming)) : Tail(Coming)[i] = Coming[i + 1]
    BY <1>4, <2>1, <2>3, HeadTailProperties
  <2>5. Len(Tail(Coming)) = Len(v)
    BY <1>4, <2>1, <2>2, <2>4
  <2>6. \A i \in 1..Len(v) : Tail(Coming)[i] = v[i]
    <3> SUFFICES ASSUME NEW i \in 1..Len(v) PROVE Tail(Coming)[i] = v[i]
      OBVIOUS
    <3>1. i + 1 \in 1..1 + Len(v) /\ ~(i + 1 <= 1) /\ (i + 1) - 1 = i
      BY <2>2
    <3> QED BY <1>4, <2>1, <2>4, <2>5, <3>1
  <2> QED BY <1>3, <1>4, <2>1, <2>3, <2>4, <2>5, <2>6, SeqEqual
<1> QED BY <1>1, <1>5, <1>6

\* READY: from now on every line answers a request.
LEMMA MirrorReady ==
  ASSUME AsUsed, WInv, MInv, gone = "no", UNCHANGED gone, UNCHANGED typingVars, UNCHANGED sessionVars,
         LineBeforeReady
  PROVE  MInv'
<1>1. /\ rbuf # <<>> /\ state = "starting" /\ rbuf' = Tail(rbuf)
      /\ UNCHANGED <<todo, alive, pending, exited, inPipe, unwritten, outPipe>>
      /\ UNCHANGED <<buf, revision, epoch, icRef>> /\ UNCHANGED <<sent, known, spans, list, astray>>
      /\ Head(rbuf) = Ready => state' = "ready"
  BY DEF LineBeforeReady, typingVars, inputVars, ctxVars, sessionVars, childVars
<1>2. alive /\ Head(rbuf) = Ready
  BY <1>1, Inv, ReadyFirst DEF ProcInv, ProcShape
<1>3. Off = 1 /\ Off' = 0
  BY <1>1, <1>2 DEF Off
<1>4. /\ Coming' = Tail(Coming) /\ Coming # <<>> /\ Coming \in Seq(ReplyOrReady)
  BY <1>1, Inv, ComingOn DEF ProcInv
<1>5. /\ DOMAIN Coming' = 1..Len(Coming) - 1 /\ Len(Coming) \in Nat /\ DOMAIN Coming = 1..Len(Coming)
      /\ \A i \in 1..Len(Coming) - 1 : Coming'[i] = Coming[i + 1]
  <2>1. Tail(Coming) \in Seq(ReplyOrReady) /\ Len(Tail(Coming)) = Len(Coming) - 1
        /\ \A i \in 1..Len(Tail(Coming)) : Tail(Coming)[i] = Coming[i + 1]
    BY <1>4, HeadTailProperties
  <2>2. DOMAIN Tail(Coming) = 1..Len(Tail(Coming)) /\ Len(Coming) \in Nat /\ DOMAIN Coming = 1..Len(Coming)
    BY <1>4, <2>1, LenProperties
  <2> QED BY <1>4, <2>1, <2>2
<1>6. Replies'
  <2>1. ASSUME NEW i \in DOMAIN Coming' PROVE Serves(pending[i - 0].h, Coming[i].text)' /\ Skips(i)'
    <3>1. i \in Nat /\ i + 1 \in DOMAIN Coming /\ i + 1 > Off /\ (i + 1) - Off = i /\ i - 0 = i /\ Coming'[i] = Coming[i + 1]
      BY <1>3, <1>5, <2>1
    <3>2. Serves(pending[i].h, Coming[i + 1].text) /\ Skips(i + 1)
      BY <1>2, <3>1 DEF MInv, Piped, Replies
    <3> QED BY <1>1, <1>3, <3>1, <3>2 DEF Serves, Skips
  <2> QED BY <1>3, <2>1 DEF Replies
<1>7. End' = End /\ Chain'
  <2>1. Held' = Held /\ Taken' = Taken
    BY <1>1 DEF Held, Astray, Taken
  <2>2. \A e : After(e)' = After(e)
    BY DEF After, Adrift
  <2>3. \A k : Before(k)' = Before(k)
    BY <1>1, <2>1, <2>2 DEF Before
  <2>4. \A s, e : Follows(s, e)' <=> Follows(s, e)
    BY DEF Follows, Adrift, Astray
  <2>5. Chain'
    BY <1>1, <2>1, <2>3, <2>4 DEF MInv, Piped, Chain
  <2>6. pending[Len(pending)]' = pending[Len(pending)]
    BY <1>1
  <2> QED BY <1>1, <2>1, <2>2, <2>5, <2>6 DEF End
<1>8. Piped' /\ SpansOk' /\ (Live' => Live /\ End' = End)
  <2>1. SpansOk'
    BY <1>1 DEF MInv, SpansOk, Asking, Says
  <2> QED BY <1>1, <1>2, <1>6, <1>7, <2>1 DEF Piped, DeadFresh, Live, Dies, Calling, Idle
<1> QED BY <1>1, <1>8, StackStays

\* No line is read that nobody waits for, but after the process is gone.
LEMMA MirrorIgnored ==
  ASSUME AsUsed, WInv, MInv, gone = "no", UNCHANGED gone, UNCHANGED typingVars, UNCHANGED sessionVars,
         LineIgnored
  PROVE  MInv'
<1>1. /\ rbuf # <<>>
      /\ state = "dead" \/ (state = "ready" /\ pending = <<>>)
      /\ UNCHANGED <<todo, alive, pending, exited, inPipe, unwritten, outPipe>>
      /\ UNCHANGED <<buf, revision, epoch, icRef>> /\ UNCHANGED <<sent, known, spans, list, astray>>
  BY DEF LineIgnored, typingVars, inputVars, ctxVars, sessionVars, childVars
<1>2. ~alive
  BY <1>1, Inv, OldestFirst DEF ProcInv, ProcShape
<1>3. Piped' /\ SpansOk' /\ ~Live'
  BY <1>1, <1>2 DEF MInv, Piped, Chain, Replies, DeadFresh, SpansOk, Live
<1> QED BY <1>1, <1>3, StackStays

\* A line answers the oldest request.
LEMMA MirrorAnswers ==
  ASSUME AsUsed, WInv, FInv, MInv, gone = "no", UNCHANGED gone, UNCHANGED typingVars, UNCHANGED sessionVars,
         LineAnswers
  PROVE  MInv'
<1>0. PICK h, d, c : h = Head(todo) /\ d = Head(pending) /\ c = Call(d, Head(rbuf))
  OBVIOUS
<1> DEFINE n == Len(pending)
<1>1. /\ todo # <<>> /\ h.op = "lines" /\ rbuf # <<>> /\ state = "ready" /\ pending # <<>>
      /\ rbuf' = Tail(rbuf) /\ pending' = Tail(pending) /\ todo' = <<c>> \o todo
      /\ UNCHANGED <<alive, state, exited, inPipe, unwritten, outPipe>>
      /\ UNCHANGED <<buf, revision, epoch, icRef>> /\ UNCHANGED <<sent, known, spans, list, astray>>
  BY <1>0 DEF LineAnswers, Calling, Idle, typingVars, inputVars, ctxVars, sessionVars, childVars
<1>2. alive /\ Head(rbuf) \in Reply /\ todo \in Seq(Task) /\ Off = 0 /\ Off' = 0
  BY <1>1, Inv, OldestFirst DEF ProcInv, ProcShape, ProcTypeOK, Off
<1>3. OnStack = {h} /\ todo' = <<c, h>> \o Tail(todo) /\ Range(Tail(todo)) = {}
  <2>1. OnStack = {h} \cup Range(Tail(todo)) /\ \A t \in Range(Tail(todo)) : t.op \in Below(h)
    BY <1>0, <1>1, <1>2, TopAndRest DEF FInv, OnStack
  <2>2. Range(Tail(todo)) = {}
    BY <1>1, <2>1 DEF Below
  <2>3. <<c>> \o todo = <<c, h>> \o Tail(todo)
    BY <1>0, <1>1, <1>2, OnTop
  <2> QED BY <1>1, <2>1, <2>2, <2>3
<1>4. c.op = "call" /\ c.h = d.h /\ c.resp = Head(rbuf) /\ c.resp # Failed
  <2>1. Head(rbuf) # Failed
    BY <1>2, GhostAssumption DEF Reply
  <2> QED BY <1>0, <2>1 DEF Call
<1>5. /\ Coming \in Seq(ReplyOrReady) /\ Len(Coming) \in Nat /\ DOMAIN Coming = 1..Len(Coming)
      /\ pending \in Seq(Entry) /\ n \in Nat /\ DOMAIN pending = 1..n
      /\ inPipe \in Seq(Line) /\ Len(inPipe) \in Nat
      /\ Taken \in Nat /\ Len(Coming) = Taken /\ n = Taken + Len(inPipe)
  BY <1>1, <1>2, Inv, PairedUp
<1>6. Coming' = Tail(Coming) /\ Coming # <<>> /\ Coming[1] = Head(rbuf)
  BY <1>1, Inv, ComingOn DEF ProcInv
<1>7. /\ DOMAIN Coming' = 1..Len(Coming) - 1 /\ Len(Coming) # 0
      /\ \A i \in 1..Len(Coming) - 1 : Coming'[i] = Coming[i + 1]
  <2>1. Tail(Coming) \in Seq(ReplyOrReady) /\ Len(Tail(Coming)) = Len(Coming) - 1
        /\ \A i \in 1..Len(Tail(Coming)) : Tail(Coming)[i] = Coming[i + 1]
    BY <1>5, <1>6, HeadTailProperties
  <2>2. DOMAIN Tail(Coming) = 1..Len(Tail(Coming)) /\ Len(Coming) # 0
    BY <1>5, <1>6, <2>1, LenProperties, EmptySeq
  <2> QED BY <1>6, <2>1, <2>2
<1>8. /\ DOMAIN pending' = 1..n - 1 /\ Len(pending') = n - 1 /\ n # 0 /\ pending[1] = d
      /\ \A i \in 1..n - 1 : pending'[i] = pending[i + 1]
      /\ Range(pending') \subseteq Range(pending) /\ d \in Range(pending)
  <2>1. Tail(pending) \in Seq(Entry) /\ Len(Tail(pending)) = n - 1
        /\ \A i \in 1..Len(Tail(pending)) : Tail(pending)[i] = pending[i + 1]
    BY <1>1, <1>5, HeadTailProperties
  <2>2. DOMAIN Tail(pending) = 1..Len(Tail(pending)) /\ n # 0 /\ pending[1] = d
    BY <1>0, <1>1, <1>5, <2>1, LenProperties, EmptySeq
  <2>3. Range(pending) = {d} \cup Range(Tail(pending))
    BY <1>0, <1>1, <1>5, TopAndRest
  <2> QED BY <1>1, <2>1, <2>2, <2>3
<1> HIDE DEF n
<1>9. n - 1 \in Nat /\ Taken' = Taken - 1 /\ Taken # 0
  BY <1>1, <1>5, <1>7, <1>8 DEF Taken, n
<1>10. Held' = Held /\ (\A e : After(e)' = After(e)) /\ End' = End
  <2>1. Held' = Held /\ \A e : After(e)' = After(e)
    BY <1>1 DEF Held, Astray, After, Adrift
  <2>2. inPipe # <<>> => Len(inPipe) # 0
    BY <1>5, EmptySeq
  <2>3. inPipe # <<>> => n - 1 \in 1..n - 1 /\ (n - 1) + 1 = n
    BY <1>5, <1>9, <2>2
  <2>4. inPipe # <<>> => pending'[Len(pending')] = pending[n]
    BY <1>8, <2>3
  <2>5. \A e : e = pending'[Len(pending')] => After(e)' = After(pending[Len(pending)])' \/ inPipe = <<>>
    BY <2>1, <2>4 DEF n
  <2>6. inPipe # <<>> => After(pending[Len(pending)])' = After(pending[n])
    BY <2>1, <2>4 DEF After, Adrift
  <2> QED BY <1>1, <2>1, <2>6 DEF End, n
<1>11. Chain'
  <2> SUFFICES ASSUME ~exited, NEW k \in Taken' + 1..Len(pending') PROVE Follows(Before(k), pending[k])'
    BY <1>1 DEF Chain
  <2>1. k + 1 \in Taken + 1..n /\ k \in 1..n - 1
    BY <1>5, <1>8, <1>9
  <2>2. Follows(Before(k + 1), pending[k + 1])
    BY <1>2, <2>1 DEF MInv, Piped, Chain, n
  <2>3. pending'[k] = pending[k + 1]
    BY <1>8, <2>1
  <2>4. Before(k)' = Before(k + 1)
    <3>1. CASE k = Taken' + 1
      BY <1>5, <1>9, <1>10, <3>1 DEF Before
    <3>2. CASE k # Taken' + 1
      <4>1. k - 1 \in 1..n - 1 /\ (k - 1) + 1 = k /\ (k + 1) - 1 = k /\ k + 1 # Taken + 1
        BY <1>5, <1>9, <2>1, <3>2
      <4>2. pending'[k - 1] = pending[k]
        BY <1>8, <4>1
      <4>3. Before(k)' = After(pending[k])
        BY <1>10, <3>2, <4>2 DEF Before, After, Adrift
      <4> QED BY <4>1, <4>3 DEF Before
    <3> QED BY <3>1, <3>2
  <2>5. \A s, x : s = Before(k)' /\ x = pending'[k] => Follows(s, x)'
    BY <1>1, <2>2, <2>3, <2>4, InputOnly
  <2> QED BY <2>5 DEF Follows, Adrift, Astray
<1>12. Replies'
  <2>1. ASSUME NEW i \in DOMAIN Coming' PROVE Serves(pending[i - 0].h, Coming[i].text)' /\ Skips(i)'
    <3>1. /\ i \in Nat /\ i + 1 \in DOMAIN Coming /\ i + 1 > Off /\ (i + 1) - Off = i + 1 /\ i - 0 = i
          /\ Coming'[i] = Coming[i + 1] /\ i \in 1..n - 1
      BY <1>2, <1>5, <1>7, <1>9, <2>1
    <3>2. Serves(pending[i + 1].h, Coming[i + 1].text) /\ Skips(i + 1)
      BY <1>2, <3>1 DEF MInv, Piped, Replies
    <3>3. pending'[i] = pending[i + 1]
      BY <1>8, <3>1
    <3>4. Skips(i)'
      <4> SUFFICES ASSUME Coming'[i].text.kind = "SKIP" PROVE i - Off' < Len(pending') /\ pending'[(i - Off') + 1].h.kind = "cand"
        BY DEF Skips
      <4>1. i + 1 < n /\ pending[(i + 1) + 1].h.kind = "cand"
        BY <3>1, <3>2 DEF Skips, n
      <4>0. i - Off' = i
        BY <1>2, <3>1
      <4>2. i + 1 \in 1..n - 1
        <5>1. i \in Nat /\ n \in Nat /\ i + 1 < n
          BY <1>5, <3>1, <4>1
        <5> QED BY <5>1
      <4>3. pending'[i + 1] = pending[(i + 1) + 1]
        BY <1>8, <4>2
      <4> QED BY <1>8, <1>9, <3>1, <4>0, <4>1, <4>2, <4>3
    <3> QED BY <3>1, <3>2, <3>3, <3>4 DEF Serves
  <2> QED BY <1>2, <2>1 DEF Replies
<1>13. SpansOk'
  <2>1. ~Asking
    BY <1>0, <1>1 DEF Asking, Says
  <2> QED BY <1>1, <2>1 DEF MInv, SpansOk
<1>14. ASSUME NEW i \in DOMAIN pending PROVE pending[i].h.kind = "cand" => pending[i].h.revision \in Nat
  <2>1. pending[i] \in Entry
    BY <1>5, LenProperties
  <2>2. pending[i].h \in Handlers
    BY <2>1 DEF Entry, AsUsed
  <2> QED BY <2>2 DEF Handlers
<1>15. revision \in Nat
  BY Inv DEF InputTypeOK
<1>16. Revs'
  <2>1. \A x \in Range(pending') : Captured(x.h)'
    BY <1>1, <1>8, InputOnly DEF MInv, Revs
  <2>2. ASSUME NEW i \in DOMAIN pending', NEW j \in DOMAIN pending', i < j PROVE Later(pending'[i], pending'[j])
    <3>1. i + 1 \in DOMAIN pending /\ j + 1 \in DOMAIN pending /\ i + 1 < j + 1 /\ pending'[i] = pending[i + 1] /\ pending'[j] = pending[j + 1]
      BY <1>5, <1>8, <2>2
    <3> QED BY <3>1 DEF MInv, Revs
  <2> QED BY <2>1, <2>2 DEF Revs, Later
<1>17. Fresh(c.h) => NoneFresh'
  <2> SUFFICES ASSUME Fresh(d.h) PROVE NoneFresh'
    BY <1>4
  <2>1. ASSUME NEW x \in Range(pending') PROVE ~Fresh(x.h)
    <3>1. PICK j \in DOMAIN pending' : x = pending'[j]
      BY DEF Range
    <3>2. j + 1 \in DOMAIN pending /\ 1 \in DOMAIN pending /\ 1 < j + 1 /\ x = pending[j + 1]
      BY <1>5, <1>8, <3>1
    <3>3. Later(d, x)
      BY <1>8, <3>2 DEF MInv, Revs
    <3> QED BY <1>14, <1>15, <3>2, <3>3 DEF Later, Fresh
  <2>2. \A x \in Range(pending') : ~Fresh(x.h)'
    BY <1>1, <2>1, InputOnly
  <2> QED BY <2>2 DEF NoneFresh
<1>18. Serves(c.h, c.resp.text) /\ (c.resp.text.kind = "SKIP" => ~Fresh(c.h))
  <2>1. 1 \in DOMAIN Coming /\ 1 > Off /\ 1 - Off = 1
    BY <1>2, <1>5, <1>7
  <2>2. Serves(d.h, Head(rbuf).text) /\ Skips(1)
    BY <1>2, <1>6, <1>8, <2>1 DEF MInv, Piped, Replies
  <2>3. ASSUME Head(rbuf).text.kind = "SKIP" PROVE ~Fresh(d.h)
    <3>1. 1 < n /\ pending[2].h.kind = "cand"
      BY <1>6, <2>1, <2>2, <2>3 DEF Skips, n
    <3>2. 1 \in DOMAIN pending /\ 2 \in DOMAIN pending /\ pending[2] \in Range(pending)
      BY <1>5, <3>1 DEF Range
    <3>3. Later(d, pending[2]) /\ Captured(pending[2].h)
      BY <1>8, <3>2 DEF MInv, Revs
    <3> QED BY <1>14, <1>15, <1>8, <3>1, <3>2, <3>3 DEF Later, Captured, Fresh
  <2> QED BY <1>4, <2>2, <2>3
<1>19. Fine(c)'
  <2>1. Captured(c.h)'
    BY <1>1, <1>4, <1>8, InputOnly DEF MInv, Revs
  <2>2. Serves(c.h, c.resp.text)' /\ (c.resp.text.kind = "SKIP" => ~Fresh(c.h)')
    BY <1>1, <1>18, InputOnly
  <2>3. Asks(c)' => NoneFresh'
    BY <1>1, <1>4, <1>17, InputOnly DEF Asks
  <2> QED BY <1>4, <2>1, <2>2, <2>3 DEF Fine
<1>20. Fine(h)' /\ (\A S : TopFits(c, S)') /\ \A x, y : x = c /\ y = h => Over(x, y)'
  BY <1>1, <1>4 DEF Fine, TopFits, Over, Asks, Deep, Whole, Says, Told
<1> DEFINE p == <<c, h>>
<1>21. p = <<c, h>> /\ p \in Seq(Range(p)) /\ Range(p) = {c, h} /\ DOMAIN p = 1..2 /\ p # <<>> /\ Head(p) = c /\ todo' = p \o Tail(todo)
  BY <1>3, Few
<1> HIDE DEF p
<1>22. OnStack' = {c, h} /\ todo' # <<>> /\ Head(todo') = c
  BY <1>1, <1>3, <1>21, Replacing
<1>23. Stacked(todo)'
  <2>1. \A i, j \in DOMAIN p : i < j => Over(p[i], p[j])'
    <3> SUFFICES ASSUME NEW i \in DOMAIN p, NEW j \in DOMAIN p, i < j PROVE Over(p[i], p[j])'
      OBVIOUS
    <3>1. p[i] = c /\ p[j] = h
      BY <1>21
    <3> QED BY <1>20, <3>1
  <2> QED BY <1>1, <1>3, <1>21, <2>1, Restacked DEF MInv
<1>24. TasksFine' /\ TopFine'
  <2>1. \A x, S : x = Head(todo') => TopFits(x, S)'
    BY <1>20, <1>22
  <2>2. TopFits(Head(todo), OnStack)'
    BY <2>1 DEF TopFits, Whole, Says
  <2> QED BY <1>19, <1>20, <1>22, <2>2 DEF TasksFine, TopFine
<1>25. Mirror'
  <2> SUFFICES ASSUME Live' PROVE Mirror'
    BY DEF Mirror
  <2>1. Live
    BY <1>0, <1>1 DEF Live, Dies, Calling
  <2>2. End \in {buf, Astray}
    BY <1>1, <1>3, <2>1 DEF MInv, Mirror, Mild
  <2>3. Due(c)' /\ Due(h)'
    BY <1>1, <1>4 DEF Due
  <2> QED BY <1>1, <1>10, <1>22, <2>2, <2>3 DEF Mirror
<1>26. Piped'
  BY <1>1, <1>2, <1>11, <1>12 DEF Piped, DeadFresh
<1> QED BY <1>13, <1>16, <1>23, <1>24, <1>25, <1>26 DEF MInv

----------------------------------------------------------------------------
(* The engine's own moves, between callbacks.                              *)

\* Between callbacks the letters it will hold are the pinyin.
LEMMA WillHold ==
  ASSUME MInv, gone = "no", Idle, alive, ~exited
  PROVE  Live /\ End \in {buf, Astray}
<1>1. OnStack = {} /\ Live
  BY DEF Idle, OnStack, Range, Live, Dies, Calling
<1> QED BY <1>1 DEF MInv, Mirror

\* It takes some lines: what it holds then is what its client reckoned, unless it
\* is astray or that cannot be told.
LEMMA HarnessTook ==
  ASSUME AsUsed, WInv, MInv, gone = "no", UNCHANGED gone, Idle, UNCHANGED typingVars,
         NEW texts, Take(texts), unwritten' \in Seq(ReplyOrReady), spans',
         NEW e, e = pending[Taken + Len(texts)], After(e) = Adrift \/ Held' \in {After(e), Astray},
         \A j \in 1..Len(texts) :
           /\ Serves(pending[Taken + j].h, texts[j])
           /\ texts[j].kind = "SKIP" => j < Len(texts) /\ pending[Taken + j + 1].h.kind = "cand"
  PROVE  MInv'
<1> DEFINE n == Len(texts)
           C == rbuf \o outPipe
<1>1. /\ alive /\ ~exited /\ unwritten = <<>> /\ n \in 1..Len(inPipe)
      /\ unwritten' = [i \in 1..n |-> [re |-> inPipe[i], text |-> texts[i]]]
      /\ inPipe' = SubSeq(inPipe, n + 1, Len(inPipe))
      /\ UNCHANGED <<todo, alive, state, pending, rbuf, exited, outPipe>>
      /\ UNCHANGED <<buf, revision, epoch, icRef>>
  BY DEF Take, addonVars, typingVars, inputVars, ctxVars
<1>2. /\ Coming \in Seq(ReplyOrReady) /\ Len(Coming) \in Nat /\ DOMAIN Coming = 1..Len(Coming)
      /\ pending \in Seq(Entry) /\ Len(pending) \in Nat /\ DOMAIN pending = 1..Len(pending)
      /\ inPipe \in Seq(Line) /\ Len(inPipe) \in Nat
      /\ Off \in {0, 1} /\ Taken \in Nat /\ Len(Coming) = Taken + Off /\ Len(pending) = Taken + Len(inPipe)
  BY <1>1, Inv, PairedUp
<1>3. n \in Nat /\ n # 0
  BY <1>1, <1>2
<1>4. Coming' = Coming \o unwritten' /\ Off' = Off
  <2>1. C \in Seq(ReplyOrReady)
    BY Inv, ConcatProperties DEF ProcInv, ProcTypeOK
  <2>2. Coming = C
    BY <1>1, <2>1, ConcatEmptySeq DEF Coming
  <2> QED BY <1>1, <2>2 DEF Coming, Off
<1>5. Len(inPipe') = Len(inPipe) - n /\ (inPipe' = <<>> <=> n = Len(inPipe)) /\ Taken' = Taken + n
  <2>1. SubSeq(inPipe, n + 1, Len(inPipe)) \in Seq(Line) /\ Len(SubSeq(inPipe, n + 1, Len(inPipe))) = Len(inPipe) - n
    BY <1>1, <1>2, <1>3, SubSeqProperties
  <2>2. Len(inPipe') = Len(inPipe) - n /\ (inPipe' = <<>> <=> Len(inPipe') = 0)
    BY <1>1, <2>1, EmptySeq
  <2>3. Taken' = Len(pending) - Len(inPipe')
    BY <1>1 DEF Taken
  <2> QED BY <1>2, <1>3, <2>2, <2>3
<1> HIDE DEF n, C
<1>6. /\ Len(unwritten') = n /\ DOMAIN Coming' = 1..Len(Coming) + n
      /\ \A i \in 1..n : unwritten'[i].text = texts[i]
      /\ \A i \in 1..Len(Coming) : Coming'[i] = Coming[i]
      /\ \A i \in 1..n : Coming'[Len(Coming) + i] = unwritten'[i]
  <2>1. Len(unwritten') = n /\ \A i \in 1..n : unwritten'[i].text = texts[i]
    BY <1>1, <1>3
  <2>2. /\ Coming \o unwritten' \in Seq(ReplyOrReady) /\ Len(Coming \o unwritten') = Len(Coming) + Len(unwritten')
        /\ \A i \in 1..Len(Coming) + Len(unwritten') :
             (Coming \o unwritten')[i] = IF i <= Len(Coming) THEN Coming[i] ELSE unwritten'[i - Len(Coming)]
    <3>1. PICK c, u : c = Coming /\ u = unwritten'
      OBVIOUS
    <3>2. c \in Seq(ReplyOrReady) /\ u \in Seq(ReplyOrReady)
      BY <1>2, <3>1
    <3>3. /\ c \o u \in Seq(ReplyOrReady) /\ Len(c \o u) = Len(c) + Len(u)
          /\ \A i \in 1..Len(c) + Len(u) : (c \o u)[i] = IF i <= Len(c) THEN c[i] ELSE u[i - Len(c)]
      BY <3>2, ConcatProperties
    <3> QED BY <3>1, <3>3
  <2>3. DOMAIN (Coming \o unwritten') = 1..Len(Coming) + n
    BY <2>1, <2>2, LenProperties
  <2>4. \A i \in 1..Len(Coming) : (Coming \o unwritten')[i] = Coming[i]
    BY <1>2, <1>3, <2>1, <2>2
  <2>5. ASSUME NEW i \in 1..n PROVE (Coming \o unwritten')[Len(Coming) + i] = unwritten'[i]
    <3>1. Len(Coming) + i \in 1..Len(Coming) + n /\ ~(Len(Coming) + i <= Len(Coming)) /\ (Len(Coming) + i) - Len(Coming) = i
      BY <1>2, <1>3
    <3> QED BY <2>1, <2>2, <3>1
  <2> QED BY <1>4, <2>1, <2>3, <2>4, <2>5
<1>7. Replies'
  <2> SUFFICES ASSUME NEW i \in DOMAIN Coming', i > Off' PROVE Serves(pending[i - Off].h, Coming[i].text)' /\ Skips(i)'
    BY DEF Replies
  <2>1. CASE i \in 1..Len(Coming)
    <3>1. Serves(pending[i - Off].h, Coming[i].text) /\ Skips(i)
      BY <1>1, <1>2, <1>4, <2>1 DEF MInv, Piped, Replies
    <3> QED BY <1>1, <1>4, <1>6, <2>1, <3>1 DEF Serves, Skips, Astray
  <2>2. CASE i \notin 1..Len(Coming)
    <3>1. PICK j \in 1..n : i = Len(Coming) + j /\ i - Off = Taken + j
      <4>1. i \in 1..Len(Coming) + n
        BY <1>6
      <4>2. i \in Nat /\ Len(Coming) \in Nat /\ Taken \in Nat /\ Off \in Nat /\ Len(Coming) = Taken + Off
        BY <1>2, <1>3, <4>1
      <4>3. i - Len(Coming) \in 1..n
        BY <1>3, <2>2, <4>1, <4>2
      <4>4. i = Len(Coming) + (i - Len(Coming)) /\ i - Off = Taken + (i - Len(Coming))
        BY <4>2
      <4> QED BY <4>3, <4>4
    <3>2. Coming'[i].text = texts[j]
      BY <1>6, <3>1
    <3>3. /\ Serves(pending[Taken + j].h, texts[j])
          /\ texts[j].kind = "SKIP" => j < n /\ pending[(Taken + j) + 1].h.kind = "cand"
      BY DEF n
    <3>4. j < n => Taken + j < Len(pending)
      BY <1>1, <1>2, <1>3 DEF n
    <3> QED BY <1>1, <1>4, <3>1, <3>2, <3>3, <3>4 DEF Serves, Skips, Astray
  <2> QED BY <2>1, <2>2
<1>8. Live /\ End \in {buf, Astray} /\ buf \in Pinyin /\ buf # Adrift /\ Astray # Adrift
  <2>1. buf \in Pinyin
    BY Inv DEF InputTypeOK
  <2> QED BY <1>1, <2>1, WillHold, EndType
<1>9. \A x : After(x)' = After(x)
  BY <1>1, InputOnly
<1>10. Taken + n \in 1..Len(pending) /\ e = pending[Taken + n] /\ (Taken + n = Len(pending) <=> inPipe' = <<>>)
       /\ inPipe # <<>>
  <2>1. inPipe # <<>>
    BY <1>1, <1>2, EmptySeq
  <2>2. n \in 1..Len(inPipe)
    BY <1>1
  <2>3. Taken + n \in 1..Len(pending) /\ (Taken + n = Len(pending) <=> n = Len(inPipe))
    <3>1. PICK t, b, c : t = Taken /\ b = Len(inPipe) /\ c = Len(pending)
      OBVIOUS
    <3>2. t \in Nat /\ b \in Nat /\ c \in Nat /\ c = t + b
      BY <1>2, <3>1
    <3>3. n \in Nat /\ n # 0 /\ n <= b
      BY <1>3, <2>2, <3>1, <3>2
    <3>4. t + n \in 1..c /\ (t + n = c <=> n = b)
      BY <3>2, <3>3
    <3> QED BY <3>1, <3>4
  <2>4. e = pending[Taken + n]
    BY DEF n
  <2> QED BY <1>5, <2>1, <2>3, <2>4
<1>11. End' \in {End, Astray}
  <2>1. End = After(pending[Len(pending)])
    BY <1>10 DEF End
  <2>2. CASE inPipe' = <<>>
    BY <1>8, <1>10, <2>1, <2>2 DEF End
  <2>3. CASE inPipe' # <<>>
    <3>1. End' = After(pending[Len(pending)])'
      BY <2>3 DEF End
    <3>2. \A x : x = pending'[Len(pending')] => After(x)' = After(x)
      BY <1>9
    <3>3. After(pending[Len(pending)])' = After(pending[Len(pending)])
      BY <1>1, <3>2 DEF After, Adrift
    <3> QED BY <2>1, <3>1, <3>3
  <2> QED BY <2>2, <2>3
<1>13. Chain'
  <2> SUFFICES ASSUME NEW k \in Taken' + 1..Len(pending') PROVE Follows(Before(k), pending[k])'
    BY DEF Chain
  <2>1. k \in Taken + 1..Len(pending) /\ k # Taken + 1 /\ k \in (Taken + n) + 1..Len(pending)
    BY <1>1, <1>2, <1>3, <1>5
  <2>2. Follows(After(pending[k - 1]), pending[k])
    BY <1>1, <2>1 DEF MInv, Piped, Chain, Before
  <2>3. Follows(Before(k)', pending[k])
    <3>1. CASE k = Taken' + 1
      <4>1. k - 1 = Taken + n
        BY <1>2, <1>3, <1>5, <3>1
      <4>2. Follows(After(e), pending[k]) /\ Before(k)' = Held'
        BY <1>10, <2>2, <3>1, <4>1 DEF Before
      <4>3. CASE Held' \in {After(e), Astray}
        BY <4>2, <4>3, Fits
      <4>4. CASE After(e) = Adrift
        BY <4>2, <4>4, Fits
      <4> QED BY <4>3, <4>4
    <3>2. CASE k # Taken' + 1
      <4>1. Before(k)' = After(pending[k - 1])'
        BY <3>2 DEF Before
      <4>2. After(pending[k - 1])' = After(pending[k - 1])
        BY <1>1 DEF After, Adrift
      <4> QED BY <2>2, <4>1, <4>2
    <3> QED BY <3>1, <3>2
  <2>4. \A s, x : s = Before(k)' /\ x = pending'[k] => Follows(s, x)'
    BY <1>1, <2>3, InputOnly
  <2> QED BY <2>4 DEF Follows, Adrift, Astray
<1>14. Piped' /\ SpansOk' /\ (Live' => Live /\ End' \in {End, Astray})
  BY <1>1, <1>7, <1>8, <1>11, <1>13 DEF Piped, DeadFresh, SpansOk
<1> QED BY <1>1, <1>14, StackStays

\* The line the engine takes next fits what its session holds.
LEMMA NextLine ==
  ASSUME AsUsed, WInv, MInv, gone = "no", Idle, alive, ~exited, inPipe # <<>>
  PROVE  /\ Taken + 1 \in 1..Len(pending) /\ pending[Taken + 1] \in Entry
         /\ Head(inPipe) = pending[Taken + 1].line /\ inPipe[1] = pending[Taken + 1].line
         /\ Follows(Held, pending[Taken + 1])
         /\ inPipe[1].op # "OPT" => spans
<1>1. /\ pending \in Seq(Entry) /\ Len(pending) \in Nat /\ inPipe \in Seq(Line) /\ Len(inPipe) \in Nat
      /\ Taken \in Nat /\ Len(pending) = Taken + Len(inPipe)
      /\ \A k \in 1..Len(inPipe) : inPipe[k] = pending[Taken + k].line
  BY Inv, PairedUp
<1>2. Len(inPipe) # 0
  BY <1>1, EmptySeq
<1>3. Taken + 1 \in 1..Len(pending) /\ Taken + 1 \in Taken + 1..Len(pending) /\ 1 \in 1..Len(inPipe)
  BY <1>1, <1>2
<1>4. pending[Taken + 1] \in Entry
  BY <1>1, <1>3, LenProperties
<1>5. inPipe[1] = pending[Taken + 1].line /\ Head(inPipe) = inPipe[1]
  BY <1>1, <1>3
<1>6. Follows(Before(Taken + 1), pending[Taken + 1])
  BY <1>3 DEF MInv, Piped, Chain
<1>7. inPipe[1].op # "OPT" => spans
  BY DEF MInv, SpansOk
<1> QED BY <1>3, <1>4, <1>5, <1>6, <1>7 DEF Before

\* A pick that waits leaves what its candidate on the page did not cover.
LEMMA PickedFits ==
  ASSUME AsUsed, WInv, MInv, gone = "no", Idle, alive, ~exited, inPipe # <<>>, inPipe[1].op = "S",
         pending[Taken + 1].h.kind = "cand", ~astray
  PROVE  LET cover == Head(inPipe).cover
         IN  /\ spans /\ 0 < cover /\ cover < Len(sent)
             /\ pending[Taken + 1].h.buf = SubSeq(sent, cover + 1, Len(sent))
<1>0. PICK e : e = pending[Taken + 1]
  OBVIOUS
<1>1. e.line = Head(inPipe) /\ e.line.op = "S" /\ Follows(Held, e) /\ spans
  BY <1>0, NextLine
<1>2. Held = sent /\ Held # Astray
  <2>1. Held = sent
    BY DEF Held
  <2> QED BY <2>1, EndType, Inv DEF SessionTypeOK
<1> QED BY <1>0, <1>1, <1>2 DEF Follows

\* Batches taken together add up to what the last of their handlers waits for.
LEMMA Batched ==
  ASSUME AsUsed, WInv, MInv, gone = "no", Idle, alive, ~exited, NEW n \in 1..Len(inPipe),
         \A i \in 1..n : inPipe[i].op = "B"
  PROVE  /\ \A i \in 1..n : pending[Taken + i].h.kind = "cand"
         /\ ~astray => pending[Taken + n].h.buf = sent \o FlattenSeq([i \in 1..n |-> inPipe[i].keys])
<1>1. /\ pending \in Seq(Entry) /\ Len(pending) \in Nat /\ inPipe \in Seq(Line) /\ Len(inPipe) \in Nat
      /\ Taken \in Nat /\ Len(pending) = Taken + Len(inPipe)
      /\ \A k \in 1..Len(inPipe) : inPipe[k] = pending[Taken + k].line
  BY Inv, PairedUp
<1>2. n \in Nat /\ n # 0 /\ inPipe # <<>> /\ 1 \in 1..n
  BY <1>1, EmptySeq
<1> DEFINE k == [i \in 1..n |-> inPipe[i].keys]
<1>3. k \in Seq(Seq(Letter)) /\ Len(k) = n /\ k # <<>> /\ \A i \in 1..n : k[i] \in Seq(Letter) /\ k[i] = inPipe[i].keys
  <2>1. ASSUME NEW i \in 1..n PROVE inPipe[i].keys \in Seq(Letter)
    <3>1. i \in 1..Len(inPipe)
      BY <1>1
    <3>2. inPipe[i] \in Command
      BY <1>1, <3>1, ElementOfSeq DEF AsUsed
    <3> QED BY <3>2 DEF Command, Pinyin
  <2>2. k \in [1..n -> Seq(Letter)]
    BY <2>1
  <2>3. k \in Seq(Seq(Letter)) /\ Len(k) = n
    BY <1>2, <2>2
  <2> QED BY <1>2, <2>1, <2>3, EmptySeq
<1> HIDE DEF k
<1>4. ASSUME NEW i \in 1..n
      PROVE  /\ Follows(Before(Taken + i), pending[Taken + i]) /\ pending[Taken + i].line = inPipe[i]
             /\ i \in 1..Len(inPipe) /\ pending[Taken + i] \in Entry
  <2>1. Taken + i \in Taken + 1..Len(pending) /\ i \in 1..Len(inPipe) /\ Taken + i \in 1..Len(pending)
    BY <1>1
  <2>2. pending[Taken + i] \in Entry
    BY <1>1, <2>1, LenProperties
  <2> QED BY <1>1, <2>1, <2>2 DEF MInv, Piped, Chain
<1>5. ASSUME NEW i \in 1..n
      PROVE  /\ pending[Taken + i].h.kind = "cand" /\ pending[Taken + i].h.buf \in Pinyin
             /\ Before(Taken + i) # Astray => pending[Taken + i].h.buf = Before(Taken + i) \o k[i]
             /\ After(pending[Taken + i]) = pending[Taken + i].h.buf
  <2>1. pending[Taken + i].line.op = "B" /\ pending[Taken + i].line.keys = k[i]
    BY <1>3, <1>4
  <2>2. pending[Taken + i].h.kind = "cand"
    BY <1>4, <2>1 DEF Follows
  <2>3. pending[Taken + i].h \in Handlers
    BY <1>4 DEF Entry, AsUsed
  <2> QED BY <1>4, <2>1, <2>2, <2>3 DEF Follows, After, Handlers
<1> SUFFICES ASSUME ~astray
             PROVE  pending[Taken + n].h.buf = sent \o FlattenSeq([i \in 1..n |-> inPipe[i].keys])
  BY <1>5
<1>6. Before(Taken + 1) = sent /\ sent \in Seq(Letter) /\ sent # Astray /\ Astray \notin Pinyin
  <2>1. Before(Taken + 1) = sent
    BY DEF Before, Held
  <2> QED BY <2>1, Inv, EndType DEF SessionTypeOK, Pinyin
<1>7. PICK f : /\ Flattens(f, k) /\ FlattenSeq(k) = f[Len(k)] /\ \A i \in 1..Len(k) : f[i] \in Seq(Letter)
  BY <1>3, FlattenIs
<1> DEFINE T == {i \in Nat : i \in 1..n => pending[Taken + i].h.buf = sent \o f[i]}
<1>8. 0 \in T
  OBVIOUS
<1>9. ASSUME NEW i \in Nat, i \in T PROVE i + 1 \in T
  <2> SUFFICES ASSUME i + 1 \in 1..n PROVE pending[Taken + (i + 1)].h.buf = sent \o f[i + 1]
    OBVIOUS
  <2>1. CASE i = 0
    <3>1. f[1] = k[1]
      BY <1>2, <1>3, <1>7 DEF Flattens
    <3>2. pending[Taken + 1].h.buf = Before(Taken + 1) \o k[1]
      BY <1>2, <1>5, <1>6
    <3>3. i + 1 = 1
      BY <2>1
    <3> QED BY <1>6, <3>1, <3>2, <3>3
  <2>2. CASE i # 0
    <3>1. i \in 1..n /\ i + 1 # 1 /\ (i + 1) - 1 = i /\ Taken + (i + 1) # Taken + 1 /\ (Taken + (i + 1)) - 1 = Taken + i
      BY <1>1, <1>2, <2>2
    <3>2. f[i + 1] = f[i] \o k[i + 1] /\ f[i] \in Seq(Letter) /\ k[i + 1] \in Seq(Letter)
      BY <1>3, <1>7, <3>1 DEF Flattens
    <3>3. Before(Taken + (i + 1)) = After(pending[Taken + i])
      BY <3>1 DEF Before
    <3>4. After(pending[Taken + i]) = sent \o f[i] /\ After(pending[Taken + i]) # Astray
      BY <1>5, <1>6, <1>9, <3>1
    <3>5. pending[Taken + (i + 1)].h.buf = (sent \o f[i]) \o k[i + 1]
      BY <1>5, <3>3, <3>4
    <3>6. \A r, t, u \in Seq(Letter) : (r \o t) \o u = r \o (t \o u)
      BY Assoc
    <3>7. (sent \o f[i]) \o k[i + 1] = sent \o (f[i] \o k[i + 1])
      BY <1>6, <3>2, <3>6
    <3> QED BY <3>2, <3>5, <3>7
  <2> QED BY <2>1, <2>2
<1>10. n \in T
  <2> HIDE DEF T
  <2> QED BY <1>2, <1>8, <1>9, Induction
<1>11. pending[Taken + n].h.buf = sent \o FlattenSeq(k)
  BY <1>2, <1>3, <1>7, <1>10
<1> QED BY <1>11 DEF k

\* One line taken, that is not a batch.
LEMMA TookOne ==
  ASSUME AsUsed, WInv, MInv, gone = "no", UNCHANGED gone, Idle, UNCHANGED typingVars,
         NEW text, Take(<<text>>), unwritten' \in Seq(ReplyOrReady), spans',
         LET e == pending[Taken + 1]
         IN  (After(e) = Adrift \/ Held' \in {After(e), Astray}) /\ Serves(e.h, text),
         text.kind # "SKIP"
  PROVE  MInv'
<1>1. PICK texts, e : texts = <<text>> /\ e = pending[Taken + Len(texts)]
  OBVIOUS
<1>2. Len(texts) = 1 /\ texts[1] = text /\ Take(texts) /\ e = pending[Taken + 1] /\ 1..1 = {1}
  BY <1>1
<1>3. \A j \in 1..Len(texts) :
           /\ Serves(pending[Taken + j].h, texts[j])
           /\ texts[j].kind = "SKIP" => j < Len(texts) /\ pending[Taken + j + 1].h.kind = "cand"
  BY <1>2
<1>4. After(e) = Adrift \/ Held' \in {After(e), Astray}
  BY <1>2
<1> QED BY <1>1, <1>2, <1>3, <1>4, HarnessTook

\* Whichever search's list it is, the reply says what the session holds.
LEMMA Searched ==
  ASSUME NEW skips, Search(skips), NEW h, h.kind = "cand" => Held' \in {h.buf, Astray}
  PROVE  \E text : Take(skips \o <<text>>) /\ Serves(h, text) /\ text.kind # "SKIP"
<1>1. Serves(h, Say("EMPTY")) /\ Say("EMPTY").kind # "SKIP"
  BY DEF Serves, Say
<1>2. ASSUME NEW f PROVE Serves(h, Outcome(f)) /\ Outcome(f).kind # "SKIP"
  <2>1. Serves(h, Offer(f)) /\ Offer(f).kind # "SKIP"
    BY DEF Serves, Offer
  <2> QED BY <1>1, <2>1 DEF Outcome
<1> QED BY <1>1, <1>2 DEF Search

\* The engine takes whatever lines it takes.
LEMMA MirrorTakes ==
  ASSUME AsUsed, WInv, MInv, gone = "no", UNCHANGED gone, Idle, UNCHANGED typingVars, HarnessTakes
  PROVE  MInv'
<1> DEFINE e == pending[Taken + 1]
<1>1. ProcInv' /\ SessionTypeOK'
  BY HarnessTypes
<1>2. unwritten' \in Seq(ReplyOrReady) /\ sent' \in Pinyin
  BY <1>1 DEF ProcInv, ProcTypeOK, SessionTypeOK
<1>3. ASSUME NEW texts, Take(texts)
      PROVE  alive /\ ~exited /\ inPipe # <<>> /\ UNCHANGED <<inputVars, pending>> /\ Len(texts) \in 1..Len(inPipe)
  <2>1. Len(inPipe) # 0 /\ alive /\ ~exited /\ UNCHANGED <<inputVars, pending>> /\ Len(texts) \in 1..Len(inPipe)
    BY <1>3 DEF Take, typingVars, addonVars
  <2> QED BY <2>1
<1>0. astray \in BOOLEAN
  BY Inv DEF SessionTypeOK
<1>4. CASE TakeBadPick
  <2>1. Take(<<Say("ERR")>>) /\ UNCHANGED spans /\ Head(inPipe).op = "S" /\ astray' = TRUE
    BY <1>4 DEF TakeBadPick, Picking
  <2>2. alive /\ ~exited /\ inPipe # <<>> /\ Head(inPipe) = inPipe[1]
    BY <1>3, <2>1
  <2>3. spans'
    BY <2>1, <2>2, NextLine
  <2>4. Held' = Astray
    BY <2>1 DEF Held, Astray
  <2>5. Serves(e.h, Say("ERR")) /\ Say("ERR").kind # "SKIP"
    BY DEF Serves, Say
  <2> QED BY <1>2, <2>1, <2>3, <2>4, <2>5, TookOne
<1>5. CASE TakePrefixPick
  <2>1. /\ Head(inPipe).op = "S" /\ sent' = Leftover /\ Search(<<>>) /\ UNCHANGED spans
        /\ astray' = (astray \/ Cover # Head(inPipe).cover)
    BY <1>5 DEF TakePrefixPick, Listed, Picking
  <2>2. PICK text : Take(<<>> \o <<text>>)
    BY <2>1 DEF Search
  <2>3. alive /\ ~exited /\ inPipe # <<>> /\ Head(inPipe) = inPipe[1]
    BY <1>3, <2>2
  <2>4. e.line.op = "S" /\ spans'
    BY <2>1, <2>3, NextLine
  <2>5. PICK h : h = e.h
    OBVIOUS
  <2>6. h.kind = "cand" => Held' \in {h.buf, Astray}
    <3>1. CASE astray'
      BY <3>1 DEF Held, Astray
    <3>2. CASE ~astray' /\ h.kind = "cand"
      <4>1. ~astray /\ Cover = Head(inPipe).cover
        BY <1>0, <2>1, <3>2
      <4>2. h.buf = SubSeq(sent, Head(inPipe).cover + 1, Len(sent))
        BY <2>1, <2>3, <2>5, <3>2, <4>1, PickedFits
      <4> QED BY <2>1, <3>2, <4>1, <4>2 DEF Held, Leftover
    <3> QED BY <3>1, <3>2
  <2>7. PICK reply : Take(<<>> \o <<reply>>) /\ Serves(h, reply) /\ reply.kind # "SKIP"
    BY <2>1, <2>6, Searched
  <2>8. Take(<<reply>>)
    <3>1. <<>> \o <<reply>> = <<reply>>
      OBVIOUS
    <3> QED BY <2>7, <3>1
  <2>9. After(e) = Adrift \/ Held' \in {After(e), Astray}
    BY <2>4, <2>5, <2>6 DEF After
  <2> QED BY <1>2, <2>4, <2>5, <2>7, <2>8, <2>9, TookOne
<1>6. CASE TakeWholePick
  <2>1. /\ Take(<<Say("OK")>>) /\ Head(inPipe).op = "S" /\ UNCHANGED spans /\ ~PartialPick
        /\ astray' = (astray \/ ~known \/ Cover # Head(inPipe).cover)
    BY <1>6 DEF TakeWholePick, Listed, Picking
  <2>2. alive /\ ~exited /\ inPipe # <<>> /\ Head(inPipe) = inPipe[1]
    BY <1>3, <2>1
  <2>3. spans' /\ e.line.op = "S"
    BY <2>1, <2>2, NextLine
  <2>4. e.h.kind = "cand" => astray'
    <3> SUFFICES ASSUME e.h.kind = "cand", ~astray' PROVE FALSE
      BY <1>0, <2>1
    <3>1. ~astray /\ known /\ Cover = Head(inPipe).cover
      BY <1>0, <2>1
    <3>2. spans /\ 0 < Cover /\ Cover < Len(sent)
      BY <2>1, <2>2, <3>1, PickedFits
    <3> QED BY <2>1, <3>1, <3>2 DEF PartialPick
  <2>5. Serves(e.h, Say("OK")) /\ Say("OK").kind # "SKIP"
    BY DEF Serves, Say
  <2>6. After(e) = Adrift \/ Held' \in {After(e), Astray}
    BY <2>3, <2>4 DEF After, Held, Astray
  <2> QED BY <1>2, <2>1, <2>3, <2>5, <2>6, TookOne
<1>7. CASE TakeClear
  <2>1. Take(<<Say("OK")>>) /\ Head(inPipe).op = "C" /\ UNCHANGED spans /\ sent' = <<>> /\ astray' = FALSE
    BY <1>7 DEF TakeClear
  <2>2. alive /\ ~exited /\ inPipe # <<>> /\ Head(inPipe) = inPipe[1]
    BY <1>3, <2>1
  <2>3. spans' /\ e.line.op = "C" /\ e.h.kind # "cand"
    BY <2>1, <2>2, NextLine DEF Follows
  <2>4. Held' = <<>> /\ After(e) = <<>>
    BY <2>1, <2>3 DEF Held, Astray, After
  <2>5. Serves(e.h, Say("OK")) /\ Say("OK").kind # "SKIP"
    BY <2>3 DEF Serves, Say
  <2> QED BY <1>2, <2>1, <2>3, <2>4, <2>5, TookOne
<1>8. CASE TakeOption
  <2>1. /\ Take(<<Say("OK")>>) /\ Head(inPipe).op \in {"OPT", "SAVE"} /\ UNCHANGED <<sent, astray>>
        /\ spans' = (spans \/ Head(inPipe).op = "OPT")
    BY <1>8 DEF TakeOption
  <2>2. alive /\ ~exited /\ inPipe # <<>> /\ Head(inPipe) = inPipe[1]
    BY <1>3, <2>1
  <2>3. spans' /\ e.line.op \in {"OPT", "SAVE"} /\ Follows(Held, e)
    BY <2>1, <2>2, NextLine
  <2>4. e.h.kind # "cand" /\ Held' = Held
    BY <2>1, <2>3 DEF Follows, Held, Astray
  <2>5. After(e) = Adrift \/ Held' \in {After(e), Astray}
    BY <2>3, <2>4 DEF Follows, After
  <2>6. Serves(e.h, Say("OK")) /\ Say("OK").kind # "SKIP"
    BY <2>4 DEF Serves, Say
  <2> QED BY <1>2, <2>1, <2>3, <2>5, <2>6, TookOne
<1>9. CASE TakeBatches
  <2>1. PICK n, skips :
          /\ n \in 1..Len(inPipe)
          /\ \A j \in 1..n : inPipe[j].op = "B"
          /\ sent' = sent \o FlattenSeq([j \in 1..n |-> inPipe[j].keys])
          /\ UNCHANGED <<spans, astray>>
          /\ skips = [j \in 1..(n - 1) |-> Say("SKIP")] /\ Search(skips)
    BY <1>9 DEF TakeBatches
  <2>2. alive /\ ~exited /\ inPipe # <<>> /\ inPipe \in Seq(Line) /\ Len(inPipe) \in Nat
    <3>1. PICK texts : Take(texts)
      BY <2>1 DEF Search
    <3> QED BY <1>3, <3>1, Inv, LenProperties DEF ProcInv, ProcTypeOK
  <2>3. n \in Nat /\ n # 0 /\ 1 \in 1..n /\ n \in 1..n /\ n - 1 \in Nat
    BY <2>1, <2>2
  <2>4. /\ \A j \in 1..n : pending[Taken + j].h.kind = "cand"
        /\ ~astray => pending[Taken + n].h.buf = sent'
    BY <2>1, <2>2, Batched
  <2>5. spans'
    <3>1. inPipe[1].op # "OPT"
      BY <2>1, <2>3
    <3> QED BY <2>1, <2>2, <3>1, NextLine
  <2>6. PICK x : x = pending[Taken + n]
    OBVIOUS
  <2>7. Held' \in {x.h.buf, Astray}
    BY <2>1, <2>4, <2>6 DEF Held, Astray
  <2>8. PICK text : Take(skips \o <<text>>) /\ Serves(x.h, text) /\ text.kind # "SKIP"
    BY <2>1, <2>7, Searched
  <2>9. PICK texts : texts = skips \o <<text>>
    OBVIOUS
  <2>10. Len(texts) = n /\ (\A j \in 1..(n - 1) : texts[j] = Say("SKIP")) /\ texts[n] = text
    <3>1. skips \in Seq({Say("SKIP"), text}) /\ Len(skips) = n - 1 /\ <<text>> \in Seq({Say("SKIP"), text})
      BY <2>1, <2>3
    <3>2. /\ Len(skips \o <<text>>) = Len(skips) + 1
          /\ \A j \in 1..Len(skips) + 1 :
               (skips \o <<text>>)[j] = IF j <= Len(skips) THEN skips[j] ELSE <<text>>[j - Len(skips)]
      BY <3>1, ConcatProperties
    <3>3. (n - 1) + 1 = n /\ n - (n - 1) = 1 /\ ~(n <= n - 1) /\ \A j \in 1..(n - 1) : j \in 1..n /\ j <= n - 1
      BY <2>3
    <3>4. \A j \in 1..(n - 1) : texts[j] = Say("SKIP")
      BY <2>1, <2>9, <3>1, <3>2, <3>3
    <3>5. texts[n] = text
      <4>1. texts[n] = <<text>>[n - (n - 1)] /\ n - (n - 1) = 1
        BY <2>3, <2>9, <3>1, <3>2, <3>3
      <4> QED BY <4>1
    <3>6. Len(texts) = n
      BY <2>9, <3>1, <3>2, <3>3
    <3> QED BY <3>4, <3>5, <3>6
  <2>11. After(x) = x.h.buf
    <3>1. x.line.op = "B"
      <4>1. inPipe[n] = pending[Taken + n].line
        BY <2>1, <2>2, Inv, PairedUp
      <4> QED BY <2>1, <2>3, <2>6, <4>1
    <3>2. x.h.kind = "cand"
      BY <2>3, <2>4, <2>6
    <3> QED BY <3>1, <3>2 DEF After
  <2>12. ASSUME NEW j \in 1..Len(texts)
        PROVE  /\ Serves(pending[Taken + j].h, texts[j])
               /\ texts[j].kind = "SKIP" => j < Len(texts) /\ pending[Taken + j + 1].h.kind = "cand"
    <3>1. CASE j < n
      <4>1. j + 1 \in 1..n /\ j \in 1..(n - 1) /\ Taken + (j + 1) = Taken + j + 1
        <5>1. Taken \in Nat
          BY <2>2, Inv, PairedUp
        <5> QED BY <2>3, <2>10, <3>1, <5>1
      <4>2. texts[j] = Say("SKIP")
        BY <2>10, <4>1
      <4>3. pending[Taken + (j + 1)].h.kind = "cand"
        BY <2>4, <4>1
      <4> QED BY <2>10, <3>1, <4>1, <4>2, <4>3 DEF Serves, Say
    <3>2. CASE ~(j < n)
      <4>1. j = n
        BY <2>3, <2>10, <3>2
      <4> QED BY <2>6, <2>8, <2>10, <4>1
    <3> QED BY <3>1, <3>2
  <2>13. x = pending[Taken + Len(texts)] /\ (After(x) = Adrift \/ Held' \in {After(x), Astray}) /\ Take(texts)
    BY <2>6, <2>7, <2>8, <2>9, <2>10, <2>11
  <2> QED BY <1>2, <2>5, <2>12, <2>13, HarnessTook
<1> QED BY <1>4, <1>5, <1>6, <1>7, <1>8, <1>9 DEF HarnessTakes

\* A line written by the engine, or read by the addon, is on its way as before.
LEMMA MirrorMoves ==
  ASSUME WInv, MInv, gone = "no", UNCHANGED gone, UNCHANGED sessionVars, Idle,
         UNCHANGED <<todo, buf, revision, epoch, icRef, pending, alive, exited, inPipe, state>>,
         Coming' = Coming
  PROVE  MInv'
<1>1. Held' = Held /\ Taken' = Taken /\ Off' = Off
  BY DEF Held, Astray, Taken, sessionVars, Off
<1>2. \A e : After(e)' = After(e)
  BY DEF After, Adrift
<1>3. \A k : Before(k)' = Before(k)
  BY <1>1, <1>2 DEF Before
<1>4. \A s, e : Follows(s, e)' <=> Follows(s, e)
  BY DEF Follows, Adrift, Astray
<1>5. Chain'
  BY <1>1, <1>3, <1>4 DEF MInv, Piped, Chain
<1>6. Replies'
  BY <1>1 DEF MInv, Piped, Replies, Serves, Skips, Astray
<1>7. pending[Len(pending)]' = pending[Len(pending)]
  OBVIOUS
<1>8. End' = End
  BY <1>1, <1>2, <1>7 DEF End
<1>9. SpansOk' /\ DeadFresh' /\ (Live' => Live)
  BY DEF MInv, Piped, SpansOk, Asking, Says, DeadFresh, sessionVars, Live, Dies, Calling, Idle
<1> QED BY <1>5, <1>6, <1>8, <1>9, StackStays DEF Piped

----------------------------------------------------------------------------
(* The callbacks of Fcitx's loop.                                          *)

\* A callback starts with its calls alone on the stack.
LEMMA Begun ==
  ASSUME AsUsed, WInv, MInv, gone = "no", UNCHANGED gone, Idle,
         UNCHANGED <<buf, revision, epoch, icRef, alive, exited, pending, spans, inPipe>>, Piped', End' = End,
         NEW a, NEW b, NEW p, todo' = p, p = <<>> \/ p = <<a>> \/ p = <<a, b>>,
         p = <<a, b>> => \A x, y : x = a /\ y = b => Over(x, y)',
         \A x \in Range(p) : Fine(x)' /\ (Live' => Due(x)' \/ Put(x, a)),
         \A S, x : Range(p) \subseteq S /\ x = a /\ p # <<>> => TopFits(x, S)'
  PROVE  MInv'
<1>1. OnStack' = Range(p) /\ (p # <<>> => Head(todo') = a)
  BY DEF OnStack, Few
<1>2. Stacked(todo)'
  <2> SUFFICES ASSUME NEW i \in DOMAIN p, NEW j \in DOMAIN p, i < j PROVE Over(p[i], p[j])'
    <3>1. (\A i, j \in DOMAIN p : i < j => Over(p[i], p[j])')
      OBVIOUS
    <3>2. ASSUME NEW i \in DOMAIN todo', NEW j \in DOMAIN todo', i < j PROVE Over(todo[i], todo[j])'
      <4>1. \A x, y : x = todo'[i] /\ y = todo'[j] => Over(x, y)'
        BY <3>1, <3>2
      <4> QED BY <4>1 DEF Over, Asks, Deep, Whole, Says, Fresh
    <3> QED BY <3>2 DEF Stacked
  <2>1. CASE p = <<>>
    <3>1. DOMAIN <<>> = {}
      OBVIOUS
    <3> QED BY <2>1, <3>1
  <2>2. CASE p = <<a>>
    <3>1. DOMAIN p = 1..1
      BY <2>2
    <3> QED BY <3>1
  <2>3. CASE p = <<a, b>>
    <3>1. DOMAIN p = 1..2 /\ p[1] = a /\ p[2] = b
      BY <2>3
    <3>2. p[i] = a /\ p[j] = b
      BY <3>1
    <3> QED BY <2>3, <3>2
  <2> QED BY <2>1, <2>2, <2>3
<1>3. ~Asking /\ ~Dies
  BY DEF Asking, Dies, Calling, Idle
<1>4. SpansOk'
  BY <1>3 DEF MInv, SpansOk
<1>5. Revs'
  BY InputOnly DEF MInv
<1>6. TasksFine'
  BY <1>1 DEF TasksFine
<1>7. TopFine'
  <2> SUFFICES ASSUME todo' # <<>> PROVE TopFine'
    BY DEF TopFine
  <2>1. \A S, x : S = OnStack' /\ x = Head(todo') => TopFits(x, S)'
    BY <1>1
  <2>2. TopFits(Head(todo), OnStack)'
    BY <2>1 DEF TopFits, Whole, Says
  <2> QED BY <2>2 DEF TopFine
<1>8. Mirror'
  <2> SUFFICES ASSUME Live' PROVE Mirror'
    BY DEF Mirror
  <2>1. End' \in {buf', Astray}
    BY WillHold DEF Live
  <2>2. \A t \in OnStack' : Due(t)' \/ Put(t, Head(todo'))
    <3>1. \A x \in Range(p) : p # <<>>
      BY Few
    <3> QED BY <1>1, <3>1
  <2>3. \A t \in OnStack' : Due(t)' \/ Put(t, Head(todo))'
    BY <2>2 DEF Put, Says
  <2> QED BY <2>1, <2>3 DEF Mirror
<1> QED BY <1>2, <1>4, <1>5, <1>6, <1>7, <1>8 DEF MInv

\* With one call that sends nothing, or none.
LEMMA BegunCalm ==
  ASSUME AsUsed, WInv, MInv, gone = "no", UNCHANGED gone, Idle,
         UNCHANGED <<buf, revision, epoch, icRef>>, UNCHANGED engineVars,
         NEW a, todo' = <<a>> \/ (todo' = <<>> /\ a.op = "ui"), a.op \in Calm \cup {"commit", "clear"}
  PROVE  MInv'
<1>1. PICK p : p = todo'
  OBVIOUS
<1>2. Piped' /\ End' = End /\ UNCHANGED <<alive, exited, pending, spans, inPipe>>
  BY EngineSame DEF MInv, engineVars, wireVars
<1>3. Fine(a)' /\ Due(a)' /\ \A S : TopFits(a, S)'
  BY CalmFine
<1>4. \A x \in Range(p) : x = a
  BY <1>1, Few
<1>5. \A x \in Range(p) : Fine(x)' /\ (Live' => Due(x)' \/ Put(x, a))
  BY <1>3, <1>4
<1>6. \A S, x : Range(p) \subseteq S /\ x = a /\ p # <<>> => TopFits(x, S)'
  BY <1>3
<1>7. (p = <<>> \/ p = <<a>> \/ p = <<a, a>>) /\ todo' = p
  BY <1>1
<1>8. p # <<a, a>>
  <2>1. Len(<<a>>) = 1 /\ Len(<<a, a>>) = 2 /\ Len(<<>>) = 0
    OBVIOUS
  <2> QED BY <1>1, <2>1
<1> QED BY <1>2, <1>5, <1>6, <1>7, <1>8, Begun

\* The keys, the other events, and the timer of a Space that waits.
LEMMA MirrorEvents ==
  ASSUME AsUsed, WInv, MInv, gone = "no", UNCHANGED gone,
         KeyEvent \/ FocusOut \/ SwitchInputMethod \/ Click \/ OnPendingTimer
  PROVE  MInv'
<1>1. Idle /\ UNCHANGED <<buf, revision, epoch, icRef>> /\ UNCHANGED engineVars
  BY DEF KeyEvent, FocusOut, SwitchInputMethod, Click, OnPendingTimer, Happens, Turn, typingVars, quietVars, inputVars, ctxVars
<1>2. CASE KeyEvent
  <2>1. PICK key : todo' = <<Press(focus, key)>>
    BY <1>2 DEF KeyEvent
  <2>2. Press(focus, key).op \in Calm
    BY DEF Press, Calm
  <2> QED BY <1>1, <2>1, <2>2, BegunCalm
<1>3. CASE FocusOut \/ SwitchInputMethod
  <2>1. PICK x : todo' = <<x>> /\ x.op = "clear"
    BY <1>3 DEF FocusOut, SwitchInputMethod, ClearAll
  <2> QED BY <1>1, <2>1, BegunCalm
<1>4. CASE Click
  <2>1. PICK ic, i : todo' = <<Select(ic, i)>>
    BY <1>4 DEF Click
  <2>2. Select(ic, i).op \in Calm
    BY DEF Select, Calm
  <2> QED BY <1>1, <2>1, <2>2, BegunCalm
<1>5. CASE OnPendingTimer
  <2>1. Fallback(icRef).op \in Calm /\ Ui(icRef).op = "ui" /\ "ui" \in Calm
    BY DEF Fallback, Ui, Calm
  <2>2. todo' = <<Fallback(icRef)>> \/ todo' = <<>>
    BY <1>1, <1>5 DEF OnPendingTimer, Idle
  <2>3. CASE todo' = <<Fallback(icRef)>>
    BY <1>1, <2>1, <2>3, BegunCalm
  <2>4. CASE todo' = <<>>
    BY <1>1, <2>1, <2>4, BegunCalm
  <2> QED BY <2>2, <2>3, <2>4
<1> QED BY <1>2, <1>3, <1>4, <1>5

\* The context with the focus goes: who waits for it can no longer tell.
LEMMA MirrorClose ==
  ASSUME AsUsed, WInv, MInv, gone = "no", UNCHANGED gone, Close
  PROVE  MInv'
<1>1. /\ Idle /\ UNCHANGED todo /\ UNCHANGED engineVars /\ UNCHANGED <<buf, revision, epoch>>
      /\ icRef' \in {icRef, NoIc}
  BY DEF Close, Happens, Turn, inputVars
<1>2. Piped' /\ End' = End /\ UNCHANGED <<alive, exited, pending, spans, inPipe>>
  BY <1>1, EngineSame DEF MInv, engineVars, wireVars
<1>3. Revs'
  BY <1>1, <1>2 DEF MInv, Revs, Captured, Fresh, Later
<1>4. OnStack' = {} /\ todo' = <<>>
  BY <1>1 DEF Idle, OnStack, Range
<1>5. Stacked(todo)' /\ TasksFine' /\ TopFine'
  BY <1>4 DEF Stacked, TasksFine, TopFine
<1>6. SpansOk'
  BY <1>1, <1>2 DEF MInv, SpansOk, Asking, Idle
<1>7. Mirror'
  BY <1>1, <1>2, <1>4, WillHold DEF Mirror, Live
<1> QED BY <1>2, <1>3, <1>5, <1>6, <1>7 DEF MInv

\* reset() has the dictionary saved, then clears everything.
LEMMA MirrorReset ==
  ASSUME AsUsed, WInv, MInv, gone = "no", UNCHANGED gone, Reset
  PROVE  MInv'
<1>1. PICK a, b, p : a = Send(Plain("SAVE"), Nobody) /\ b = ClearAll(focus, Shown, TRUE) /\ p = <<a, b>> /\ todo' = p
  BY DEF Reset
<1>2. Idle /\ UNCHANGED <<buf, revision, epoch, icRef>> /\ UNCHANGED engineVars
  BY DEF Reset, Happens, Turn, typingVars, inputVars, ctxVars
<1>3. Piped' /\ End' = End /\ UNCHANGED <<alive, exited, pending, spans, inPipe>>
  BY <1>2, EngineSame DEF MInv, engineVars, wireVars
<1>4. a.op = "send" /\ a.line.op = "SAVE" /\ a.h = Nobody /\ a.h.kind = "none" /\ b.op = "clear"
  BY <1>1 DEF Send, Plain, Nobody, ClearAll
<1>5. Range(p) = {a, b} /\ p # <<>>
  BY <1>1, Few
<1>6. Fine(a)' /\ Due(a)'
  BY <1>4 DEF Fine, Captured, Fresh, Due, Follows, Says, Asks, Told
<1>7. Fine(b)' /\ Due(b)'
  BY <1>4, CalmFine
<1>8. \A x, y : x = a /\ y = b => Over(x, y)'
  BY <1>4 DEF Over, Asks, Fresh, Nobody, Deep, Says, Wires, Whole
<1>9. \A S, x : Range(p) \subseteq S /\ x = a /\ p # <<>> => TopFits(x, S)'
  BY <1>4, <1>5 DEF TopFits, Says, Whole
<1>10. \A x \in Range(p) : Fine(x)' /\ (Live' => Due(x)' \/ Put(x, a))
  BY <1>5, <1>6, <1>7
<1> QED BY <1>1, <1>2, <1>3, <1>8, <1>9, <1>10, Begun

\* A process that is gone, or never said READY, is given up.
LEMMA MirrorLost ==
  ASSUME AsUsed, WInv, MInv, gone = "no", UNCHANGED gone, UNCHANGED typingVars, UNCHANGED sessionVars,
         OnEof \/ OnStartTimeout
  PROVE  MInv'
<1>1. /\ Idle /\ UNCHANGED <<buf, revision, epoch, icRef>> /\ UNCHANGED wireVars
  BY DEF OnEof, OnStartTimeout, typingVars, inputVars, ctxVars, wireVars
<1>2. PICK a, p : a = Do("die") /\ p = <<a>> /\ todo' = p
  BY DEF OnEof, OnStartTimeout
<1>3. a.op = "die" /\ Range(p) = {a} /\ Head(p) = a /\ p # <<>>
  BY <1>2, Few DEF Do
<1>4. Piped' /\ End' = End /\ UNCHANGED <<alive, exited, pending, spans, inPipe>>
  BY <1>1, EngineSame DEF MInv
<1>5. Fine(a)' /\ \A S : TopFits(a, S)'
  BY <1>3 DEF Fine, Asks, Told, TopFits, Says, Whole
<1>6. Dies'
  BY <1>2, <1>3 DEF Dies, Calling, Idle
<1>7. \A x \in Range(p) : Fine(x)' /\ (Live' => Due(x)' \/ Put(x, a))
  BY <1>3, <1>5, <1>6 DEF Live
<1>8. \A S, x : Range(p) \subseteq S /\ x = a /\ p # <<>> => TopFits(x, S)'
  BY <1>5
<1>9. p # <<a, a>>
  <2>1. Len(<<a>>) = 1 /\ Len(<<a, a>>) = 2
    OBVIOUS
  <2> QED BY <1>2, <2>1
<1> QED BY <1>1, <1>2, <1>4, <1>7, <1>8, <1>9, Begun

\* The engine is started again, and the pinyin replayed.
LEMMA MirrorRestart ==
  ASSUME AsUsed, WInv, MInv, gone = "no", UNCHANGED gone, OnRestartTimer
  PROVE  MInv'
<1>1. Idle /\ UNCHANGED <<buf, revision, epoch, icRef>> /\ UNCHANGED engineVars
  BY DEF OnRestartTimer, Turn, inputVars, ctxVars
<1>2. Piped' /\ End' = End /\ UNCHANGED <<alive, exited, pending, spans, inPipe>>
  BY <1>1, EngineSame DEF MInv, engineVars, wireVars
<1>3. CASE alive
  <2>1. todo' = <<>> /\ Ui(icRef).op = "ui" /\ "ui" \in Calm
    BY <1>1, <1>3 DEF OnRestartTimer, Idle, Ui, Calm
  <2> QED BY <1>1, <2>1, BegunCalm
<1>4. CASE ~alive
  <2>1. PICK a, b, p : a = Do("ensure") /\ b = Request(buf) /\ p = <<a, b>> /\ todo' = p
    BY <1>4 DEF OnRestartTimer, Revive
  <2>2. a.op = "ensure" /\ b.op = "request" /\ b.keys = buf /\ buf' = buf /\ Range(p) = {a, b} /\ p # <<>>
    BY <1>1, <2>1, Few DEF Do, Request
  <2>3. NoneFresh' /\ ~alive' /\ ~Live'
    <3>1. pending = <<>>
      BY <1>4, Inv DEF ProcInv, ProcShape
    <3>2. Range(pending') = {}
      <4>1. pending' = <<>>
        BY <1>2, <3>1
      <4> QED BY <4>1 DEF Range
    <3> QED BY <1>2, <1>4, <3>2 DEF NoneFresh, Live
  <2>4. Fine(a)' /\ Fine(b)'
    BY <2>2, <2>3 DEF Fine, Asks, Told
  <2>5. \A x, y : x = a /\ y = b => Over(x, y)'
    BY <2>2 DEF Over, Asks, Fresh, Deep, Says, Wires, Whole
  <2>6. \A S, x : Range(p) \subseteq S /\ x = a /\ p # <<>> => TopFits(x, S)'
    BY <2>2 DEF TopFits, Says, Whole
  <2>7. \A x \in Range(p) : Fine(x)' /\ (Live' => Due(x)' \/ Put(x, a))
    BY <2>2, <2>3, <2>4
  <2> QED BY <1>1, <1>2, <2>1, <2>5, <2>6, <2>7, Begun
<1> QED BY <1>3, <1>4

\* Some of the lines are read.
LEMMA MirrorReads ==
  ASSUME AsUsed, WInv, MInv, gone = "no", UNCHANGED gone, UNCHANGED typingVars, UNCHANGED sessionVars, OnReadable
  PROVE  MInv'
<1>1. /\ Idle /\ UNCHANGED <<buf, revision, epoch, icRef>> /\ UNCHANGED <<sent, known, spans, list, astray>>
      /\ UNCHANGED <<alive, state, pending, exited, inPipe, unwritten>> /\ todo' = <<Do("lines")>>
  BY DEF OnReadable, typingVars, inputVars, ctxVars, sessionVars
<1>2. PICK n \in 1..Len(outPipe) :
        /\ rbuf' = rbuf \o SubSeq(outPipe, 1, n)
        /\ outPipe' = SubSeq(outPipe, n + 1, Len(outPipe))
  BY DEF OnReadable
<1>3. rbuf' \o outPipe' = rbuf \o outPipe
  <2> DEFINE s == SubSeq(outPipe, 1, n)
             t == SubSeq(outPipe, n + 1, Len(outPipe))
  <2>1. s \in Seq(ReplyOrReady) /\ t \in Seq(ReplyOrReady) /\ s \o t = outPipe /\ rbuf \in Seq(ReplyOrReady)
    BY Inv, Cut DEF ProcInv, ProcTypeOK
  <2>2. rbuf' = rbuf \o s /\ outPipe' = t
    BY <1>2
  <2> HIDE DEF s, t
  <2>3. \A x, y, z \in Seq(ReplyOrReady) : (x \o y) \o z = x \o (y \o z)
    BY Assoc
  <2>4. (rbuf \o s) \o t = rbuf \o (s \o t)
    BY <2>1, <2>3, Zenon
  <2> QED BY <2>1, <2>2, <2>4
<1>4. Coming' = Coming /\ Off' = Off
  BY <1>1, <1>3 DEF Coming, Off
<1>5. Held' = Held /\ Taken' = Taken
  BY <1>1 DEF Held, Astray, Taken
<1>6. \A e : After(e)' = After(e)
  BY DEF After, Adrift
<1>7. \A k : Before(k)' = Before(k)
  BY <1>1, <1>5, <1>6 DEF Before
<1>8. \A s, e : Follows(s, e)' <=> Follows(s, e)
  BY DEF Follows, Adrift, Astray
<1>9. Chain' /\ Replies' /\ DeadFresh'
  BY <1>1, <1>4, <1>5, <1>7, <1>8 DEF MInv, Piped, Chain, Replies, Serves, Skips, Astray, DeadFresh
<1>10. pending[Len(pending)]' = pending[Len(pending)]
  BY <1>1
<1>11. Piped' /\ End' = End
  BY <1>1, <1>5, <1>6, <1>9, <1>10 DEF Piped, End
<1>12. PICK a, p : a = Do("lines") /\ p = <<a>> /\ todo' = p
  BY <1>1
<1>13. a.op \in Calm /\ Range(p) = {a}
  BY <1>12, Few DEF Do, Calm
<1>14. Fine(a)' /\ Due(a)' /\ \A S : TopFits(a, S)'
  BY <1>13, CalmFine
<1>15. \A x \in Range(p) : Fine(x)' /\ (Live' => Due(x)' \/ Put(x, a))
  BY <1>13, <1>14
<1>16. \A S, x : Range(p) \subseteq S /\ x = a /\ p # <<>> => TopFits(x, S)'
  BY <1>14
<1>17. p # <<a, a>>
  <2>1. Len(<<a>>) = 1 /\ Len(<<a, a>>) = 2
    OBVIOUS
  <2> QED BY <1>12, <2>1
<1> QED BY <1>1, <1>11, <1>12, <1>15, <1>16, <1>17, Begun

\* The engine exits: what it held is gone, and nothing more is told.
LEMMA MirrorCrash ==
  ASSUME AsUsed, WInv, MInv, gone = "no", UNCHANGED gone, UNCHANGED typingVars,
         Idle \/ Calling("send"), ChildExit, FreshSession
  PROVE  MInv'
<1>1. /\ alive /\ exited' = TRUE /\ UNCHANGED <<buf, revision, epoch, icRef>>
      /\ UNCHANGED <<todo, alive, state, pending, rbuf, inPipe, unwritten, outPipe>>
  BY DEF ChildExit, addonVars, typingVars, inputVars, ctxVars
<1>2. Replies'
  <2>1. Coming' = Coming /\ Off' = Off
    BY <1>1 DEF Coming, Off
  <2> QED BY <1>1, <2>1 DEF MInv, Piped, Replies, Serves, Skips, Astray
<1>3. Piped' /\ SpansOk' /\ ~Live'
  BY <1>1, <1>2 DEF Piped, Chain, DeadFresh, SpansOk, Live
<1> QED BY <1>1, <1>3, StackStays

\* The engine writes a line.
LEMMA MirrorWrites ==
  ASSUME AsUsed, WInv, MInv, gone = "no", UNCHANGED gone, UNCHANGED typingVars, UNCHANGED sessionVars, Idle, WriteLine
  PROVE  MInv'
<1>1. /\ UNCHANGED <<todo, buf, revision, epoch, icRef, pending, alive, exited, inPipe, state>>
      /\ UNCHANGED rbuf /\ unwritten # <<>> /\ outPipe' = Append(outPipe, Head(unwritten)) /\ unwritten' = Tail(unwritten)
  BY DEF WriteLine, addonVars, typingVars, inputVars, ctxVars
<1>2. Coming' = Coming
  <2> DEFINE C == rbuf \o outPipe
             x == Head(unwritten)
             u == Tail(unwritten)
  <2>1. /\ rbuf \in Seq(ReplyOrReady) /\ outPipe \in Seq(ReplyOrReady) /\ unwritten \in Seq(ReplyOrReady)
        /\ x \in ReplyOrReady /\ u \in Seq(ReplyOrReady) /\ unwritten = <<x>> \o u
    BY <1>1, Inv, HeadAndTail DEF ProcInv, ProcTypeOK
  <2> HIDE DEF x, u
  <2>2. <<x>> \in Seq(ReplyOrReady) /\ C \in Seq(ReplyOrReady) /\ Append(outPipe, x) = outPipe \o <<x>>
    BY <2>1, ConcatProperties, AppendIsConcat
  <2>3. \A r, s, t \in Seq(ReplyOrReady) : (r \o s) \o t = r \o (s \o t)
    BY Assoc
  <2>4. rbuf \o (outPipe \o <<x>>) = C \o <<x>>
    BY <2>1, <2>2, <2>3
  <2>5. (C \o <<x>>) \o u = C \o unwritten
    BY <2>1, <2>2, <2>3
  <2>6. Coming' = (rbuf \o (outPipe \o <<x>>)) \o u
    BY <1>1, <2>2 DEF Coming, x, u
  <2> QED BY <2>4, <2>5, <2>6 DEF Coming
<1> QED BY <1>1, <1>2, MirrorMoves

----------------------------------------------------------------------------
(* Every step.                                                             *)

\* A new addon has one call to make, and no engine yet.
LEMMA MirrorInit ==
  ASSUME Init
  PROVE  MInv /\ CurrentMatches
<1>0. PICK a : a = Do("ensure")
  OBVIOUS
<1>1. /\ todo = <<a>> /\ ~alive /\ pending = <<>> /\ buf = <<>> /\ ~current /\ sent = <<>> /\ known /\ ~astray
  BY <1>0 DEF Init, ProcInit, SessionInit, CompositionInit
<1>2. a.op = "ensure"
  BY <1>0 DEF Do
<1>3. OnStack = {a} /\ Head(todo) = a /\ todo # <<>> /\ DOMAIN todo = 1..1
  BY <1>1, Few DEF OnStack
<1>4. Piped /\ SpansOk /\ Mirror
  BY <1>1 DEF Piped, Chain, Replies, DeadFresh, SpansOk, Mirror, Live
<1>5. Range(pending) = {} /\ DOMAIN pending = {}
  <2>1. DOMAIN <<>> = {}
    OBVIOUS
  <2> QED BY <1>1, <2>1 DEF Range
<1>6. Revs
  BY <1>5 DEF Revs
<1>7. Stacked(todo)
  BY <1>3 DEF Stacked
<1>8. TasksFine
  BY <1>2, <1>3 DEF TasksFine, Fine, Asks, Told
<1>9. TopFine
  BY <1>1, <1>2, <1>3 DEF TopFine, TopFits, Whole, Says
<1> QED BY <1>1, <1>4, <1>6, <1>7, <1>8, <1>9 DEF MInv, CurrentMatches

\* The calls of the composition.
LEMMA MirrorCalls ==
  ASSUME AsUsed, WInv, FInv, SInv, MInv, gone = "no", CompositionCalls, UNCHANGED worldVars
  PROVE  MInv'
<1>1. UNCHANGED gone
  BY DEF worldVars
<1>2. CASE CommitText
  BY <1>1, <1>2, MirrorClears
<1>3. CASE SelectNothing \/ UpdateUI \/ FallbackPending \/ ArmPending \/ DrainQueued \/ DrainNext
  BY <1>1, <1>3, MirrorCalm
<1>4. CASE SelectWhole
  BY <1>1, <1>4, MirrorPick
<1>5. CASE SelectPrefix
  BY <1>1, <1>5, MirrorPrefix
<1>6. CASE HandleNothing \/ HandleSpans \/ HandleStale \/ ScheduleRestart
  BY <1>1, <1>6, MirrorPops
<1>7. CASE HandleLost
  <2>1. CASE buf = <<>> \/ tried
    BY <1>1, <1>7, <2>1, MirrorPops
  <2>2. CASE buf # <<>> /\ ~tried
    BY <1>1, <1>7, <2>2, MirrorReplay
  <2>3. tried \in BOOLEAN
    BY Inv DEF InputTypeOK
  <2> QED BY <2>1, <2>2, <2>3
<1>8. CASE RequestCandidates
  <2>1. CASE buf = <<>> \/ Head(todo).keys = <<>>
    BY <1>1, <1>8, <2>1, MirrorPops
  <2>2. CASE buf # <<>> /\ Head(todo).keys # <<>>
    BY <1>1, <1>8, <2>2, MirrorRequest
  <2> QED BY <2>1, <2>2
<1>9. CASE EnsureEngine
  <2>1. CASE alive \/ gaveUp \/ StartRefused
    BY <1>1, <1>9, <2>1, MirrorPops
  <2>2. CASE ~alive /\ ~gaveUp /\ StartFork(Greeting)
    BY <1>1, <1>9, <2>2, MirrorFork
  <2>3. alive \/ gaveUp \/ StartRefused \/ (~alive /\ ~gaveUp /\ StartFork(Greeting))
    BY <1>9 DEF EnsureEngine
  <2> QED BY <2>1, <2>2, <2>3
<1>10. CASE HandleRefused
  BY <1>1, <1>10, MirrorRefused
<1>11. CASE HandleCandidates
  BY <1>1, <1>11, MirrorCandidates
<1> QED BY <1>2, <1>3, <1>4, <1>5, <1>6, <1>7, <1>8, <1>9, <1>10, <1>11 DEF CompositionCalls

\* The keys.
LEMMA MirrorKeys ==
  ASSUME AsUsed, WInv, FInv, SInv, MInv, gone = "no", UNCHANGED gone, KeyCalls
  PROVE  MInv'
<1>1. CASE ClearEverything \/ KeyElsewhere \/ KeyBack \/ PendingBackPinyin
  BY <1>1, MirrorClears
<1>2. CASE \/ PendingEsc \/ PendingBackQueued \/ PendingOvertaken \/ PendingQueued
           \/ KeyNext \/ KeyDigit \/ KeySpace \/ KeyReturn \/ KeyEsc \/ KeyPasses
           \/ (KeyPunctuation /\ ~Selectable)
  BY <1>2, MirrorCalm
<1>3. CASE KeyPunctuation /\ Selectable
  BY <1>3, MirrorPick
<1>4. CASE KeyLetter
  BY <1>4, MirrorKeyLetter
<1>5. CASE TypeLetter
  BY <1>5, MirrorType
<1> QED BY <1>1, <1>2, <1>3, <1>4, <1>5 DEF KeyCalls

\* The calls of EngineProc.
LEMMA MirrorProc ==
  ASSUME AsUsed, WInv, FInv, SInv, MInv, gone = "no", ProcStep
  PROVE  MInv'
<1>1. UNCHANGED gone /\ UNCHANGED typingVars
  BY DEF ProcStep, worldVars
<1>2. CASE Stop
  <2>1. FreshSession
    BY <1>2 DEF ProcStep, Stop
  <2> QED BY <1>1, <1>2, <2>1, MirrorStop
<1>3. CASE Die \/ SendDead \/ SendBroken \/ SendWritten \/ LinesDone \/ LineBeforeReady \/ LineIgnored \/ LineAnswers
  <2>1. UNCHANGED sessionVars
    BY <1>3 DEF ProcStep, Die, SendDead, SendBroken, SendWritten, LinesDone, LineBeforeReady, LineIgnored,
       LineAnswers, Calling
  <2>2. CASE Die \/ SendBroken \/ SendDead
    BY <1>1, <2>1, <2>2, MirrorDying
  <2>3. CASE SendWritten
    BY <1>1, <2>1, <2>3, MirrorWritten
  <2>4. CASE LinesDone
    BY <1>1, <2>1, <2>4, MirrorPops
  <2>5. CASE LineBeforeReady
    BY <1>1, <2>1, <2>5, MirrorReady
  <2>6. CASE LineIgnored
    BY <1>1, <2>1, <2>6, MirrorIgnored
  <2>7. CASE LineAnswers
    BY <1>1, <2>1, <2>7, MirrorAnswers
  <2> QED BY <1>3, <2>2, <2>3, <2>4, <2>5, <2>6, <2>7
<1> QED BY <1>2, <1>3 DEF ProcStep, ProcCalls

\* The addon's buffer and the engine's session stay in step.
LEMMA MirrorNext ==
  ASSUME AsUsed, WInv, FInv, SInv, MInv, [Next]_vars
  PROVE  MInv'
<1>1. CASE gone # "no"
  BY <1>1, GoneStays DEF MInv
<1>2. CASE gone = "no" /\ gone' # "no"
  BY <1>2 DEF MInv
<1>3. CASE gone = "no" /\ gone' = "no"
  <2>1. CASE UNCHANGED vars
    <3>1. UNCHANGED <<todo, buf, revision, epoch, icRef, spans>> /\ UNCHANGED wireVars
      BY <2>1 DEF vars, procVars, addonVars, typingVars, inputVars, ctxVars, sessionVars, wireVars
    <3>2. Piped' /\ End' = End /\ UNCHANGED <<alive, exited, pending, spans, inPipe>>
      BY <1>3, <3>1, EngineSame DEF MInv
    <3>3. SpansOk' /\ (Live' => Live)
      BY <1>3, <3>1, <3>2 DEF MInv, SpansOk, Asking, Says, Live, Dies, Calling, Idle
    <3> QED BY <1>3, <3>1, <3>2, <3>3, StackStays
  <2>2. CASE CompositionCalls /\ UNCHANGED worldVars
    BY <1>3, <2>2, MirrorCalls
  <2>3. CASE KeyCalls
    BY <1>3, <2>3, MirrorKeys
  <2>4. CASE KeyEvent \/ FocusOut \/ SwitchInputMethod \/ Click \/ OnPendingTimer
    BY <1>3, <2>4, MirrorEvents
  <2>5. CASE Reset
    BY <1>3, <2>5, MirrorReset
  <2>6. CASE Close
    BY <1>3, <2>6, MirrorClose
  <2>7. CASE OnRestartTimer
    BY <1>3, <2>7, MirrorRestart
  <2>8. CASE ProcEvent(OnReadable) \/ ProcEvent(OnEof) \/ ProcEvent(OnStartTimeout)
    BY <1>3, <2>8, MirrorReads, MirrorLost DEF ProcEvent
  <2>9. CASE HarnessStep
    BY <1>3, <2>9, MirrorTakes, MirrorWrites DEF HarnessStep
  <2>10. CASE Crash
    BY <1>3, <2>10, MirrorCrash DEF Crash
  <2>11. CASE ProcStep
    BY <1>3, <2>11, MirrorProc
  <2>12. CASE Destroy \/ DestroyMembers
    BY <1>3, <2>12 DEF Destroy, DestroyMembers
  <2> QED BY <2>1, <2>2, <2>3, <2>4, <2>5, <2>6, <2>7, <2>8, <2>9, <2>10, <2>11, <2>12
       DEF Next, AddonCalls, Callback, Timers
<1> QED BY <1>1, <1>2, <1>3

\* A handler that is told of candidates still has its addon.
LEMMA ToldInTime ==
  ASSUME WInv, Unloading, HandleCandidates
  PROVE  gone = "no"
<1>1. todo # <<>> /\ Head(todo).op = "call" /\ Head(todo).resp # Failed
  BY DEF HandleCandidates, Calling, Idle, Kind, Lost
<1>2. gone \in {"no", "stopping", "destroyed"}
  BY Inv DEF WorldTypeOK
<1>3. ASSUME gone = "stopping" PROVE FALSE
  <2>1. PICK s : s \in Seq(Range(s)) /\ todo = s \o Bottom /\ \A t \in Range(s) : Low(t)
    BY <1>3 DEF Unloading, Stopping
  <2>2. Head(todo) = Do("members") \/ Low(Head(todo))
    BY <2>1, AtBottom
  <2> QED BY <1>1, <2>2 DEF Low, Do
<1>4. ASSUME gone = "destroyed" PROVE FALSE
  <2>1. Head(todo) \in OnStack
    <3>1. todo \in Seq(Task)
      BY Inv DEF ProcInv, ProcTypeOK
    <3> QED BY <1>1, <3>1, TopAndRest DEF OnStack
  <2>2. todo = <<Do("stop")>> => Head(todo).op = "stop"
    BY DEF Do
  <2> QED BY <1>1, <1>4, <2>1, <2>2 DEF Unloading, Destroyed
<1> QED BY <1>2, <1>3, <1>4

\* What is shown and can be selected came from a session that held the pinyin, or
\* was astray.
LEMMA CandsNext ==
  ASSUME AsUsed, WInv, FInv, SInv, Unloading, MInv, CurrentMatches, [Next]_vars
  PROVE  CurrentMatches'
<1>1. CASE UNCHANGED <<buf, cands, current>> \/ ~current' \/ cands' = <<>>
  <2>1. DOMAIN <<>> = {}
    OBVIOUS
  <2> QED BY <1>1, <2>1 DEF CurrentMatches, Astray
<1>2. CASE HandleCandidates
  <2> SUFFICES ASSUME current', cands' # <<>> PROVE CurrentMatches'
    BY <1>1
  <2>1. gone = "no"
    BY <1>2, ToldInTime
  <2>2. PICK t, h : t = Head(todo) /\ h = t.h
    OBVIOUS
  <2>3. /\ todo # <<>> /\ t.op = "call" /\ h.kind = "cand" /\ t.resp # Failed /\ h.buf = buf /\ UNCHANGED buf
        /\ t.resp.text.kind = "CAND" /\ cands' = Parse(t.resp.text)
    BY <1>2, <2>2 DEF HandleCandidates, Calling, Idle, Kind, Lost, ForNow
  <2>4. Told(t) /\ t \in OnStack
    BY <2>2, <2>3, Beneath, <2>1 DEF Told, MInv
  <2>5. t.resp.text.at \in {buf, Astray}
    BY <2>1, <2>2, <2>3, <2>4 DEF MInv, TasksFine, Fine, Serves
  <2>6. \A i \in DOMAIN Parse(t.resp.text) : Parse(t.resp.text)[i].at = t.resp.text.at
    BY DEF Parse
  <2> QED BY <2>3, <2>5, <2>6 DEF CurrentMatches, Astray
<1>3. CASE CompositionCalls /\ ~HandleCandidates
  <2>1. UNCHANGED <<buf, cands, current>> \/ ~current'
    BY <1>3 DEF CompositionCalls, CommitText, SelectNothing, SelectWhole, SelectPrefix, UpdateUI, EnsureEngine,
       RequestCandidates, ScheduleRestart, HandleNothing, HandleSpans, HandleStale, HandleLost, HandleRefused,
       FallbackPending, ArmPending, DrainQueued, DrainNext, NewInput, NoCandidates, typingVars, inputVars, quietVars
  <2> QED BY <1>1, <2>1
<1>4. CASE KeyCalls
  <2>1. UNCHANGED <<buf, cands, current>> \/ ~current'
    BY <1>4 DEF KeyCalls, ClearEverything, KeyElsewhere, PendingEsc, PendingBackQueued, PendingBackPinyin,
       PendingOvertaken, PendingQueued, KeyLetter, TypeLetter, KeyNext, KeyPunctuation, KeyDigit, KeySpace,
       KeyReturn, KeyBack, KeyEsc, KeyPasses, Forget, NewInput, NoCandidates, inputVars
  <2> QED BY <1>1, <2>1
<1>5. CASE Callback \/ Timers \/ DestroyMembers
  <2>1. UNCHANGED <<buf, cands, current>>
    BY <1>5 DEF Callback, Timers, KeyEvent, Reset, FocusOut, Close, SwitchInputMethod, Click, Destroy, DestroyMembers,
       OnPendingTimer, OnRestartTimer, typingVars, inputVars, quietVars
  <2> QED BY <1>1, <2>1
<1>6. CASE \/ UNCHANGED vars \/ ProcStep \/ HarnessStep \/ Crash
           \/ ProcEvent(OnReadable) \/ ProcEvent(OnEof) \/ ProcEvent(OnStartTimeout)
  <2>1. UNCHANGED <<buf, cands, current>>
    BY <1>6 DEF vars, ProcStep, HarnessStep, Crash, ProcEvent, typingVars, inputVars
  <2> QED BY <1>1, <2>1
<1> QED BY <1>2, <1>3, <1>4, <1>5, <1>6 DEF Next, AddonCalls

\* Candidates that can be selected were sent by a session that held the pinyin as
\* it is, or that had gone astray: whatever is typed, erased, picked, cleared,
\* lost and replayed, the addon's buffer and the session of the engine stay in
\* step, line by line, up to a refused or a different pick, and again after the
\* next C (candidateHandler, requestCandidates, commitCandidate, run_daemon).
THEOREM CurrentMatchesCorrect ==
  ASSUME AsUsed
  PROVE  Spec => []CurrentMatches
<1>1. Init => SInv /\ Unloading /\ MInv /\ CurrentMatches
  BY SpansInit, MirrorInit DEF Init, Unloading
<1>2. WInv /\ SInv /\ [Next]_vars => SInv'
  BY SpansNext
<1>3. WInv /\ FInv /\ Unloading /\ [Next]_vars => Unloading'
  BY UnloadingNext
<1>4. WInv /\ FInv /\ SInv /\ MInv /\ [Next]_vars => MInv'
  BY MirrorNext
<1>5. WInv /\ FInv /\ SInv /\ Unloading /\ MInv /\ CurrentMatches /\ [Next]_vars => CurrentMatches'
  BY CandsNext
<1> QED BY <1>1, <1>2, <1>3, <1>4, <1>5, WInductive, FInductive, PTL DEF Spec

----------------------------------------------------------------------------
(* Pinyin without candidates has an answer on its way.                     *)

\* A handler for pinyin that is no longer so.
Stale(h) == h.kind = "cand" /\ ~Fresh(h)

\* Once candidates can be selected, or are about to be, no reply to an older
\* request can follow: it would be taken for a preview and unmake them.
Answering == \E t \in OnStack : Told(t) /\ Fresh(t.h)
Settled   ==
  current \/ Answering =>
    /\ \A e \in Range(pending) : ~Stale(e.h)
    /\ \A t \in OnStack : Told(t) => ~Stale(t.h)

\* Pinyin that lacks its candidates, and was not refused for good: a handler for
\* it waits, or a call at hand will make one wait, give the pinyin up, or lose the
\* engine.
Lacking  == buf # <<>> /\ ~current /\ icRef # NoIc /\ spurned # revision
Seeks(t) == Asks(t) \/ t.op \in {"commit", "clear", "fallback", "die", "stop"}
Sought   == Lacking => ~alive \/ ~NoneFresh \/ \E t \in OnStack : Seeks(t)

HInv == gone = "no" => Settled /\ Sought

\* A step that leaves the revision, and adds no handler but fresh ones.
LEMMA SettledOn ==
  ASSUME Settled, UNCHANGED revision, current' => current \/ Answering,
         \A e \in Range(pending)' : e \in Range(pending) \/ ~Stale(e.h),
         \A t \in OnStack' : Told(t) => t \in OnStack
  PROVE  Settled'
<1>1. \A h : Fresh(h)' <=> Fresh(h)
  BY DEF Fresh
<1>2. (current \/ Answering)' => current \/ Answering
  BY <1>1 DEF Answering, Told
<1>3. SUFFICES ASSUME (current \/ Answering)' 
               PROVE  /\ \A e \in Range(pending)' : ~Stale(e.h)'
                      /\ \A t \in OnStack' : Told(t)' => ~Stale(t.h)'
  BY DEF Settled
<1> QED BY <1>1, <1>2, <1>3 DEF Settled, Stale, Told

\* A handler older than the input is older still than the next.
LEMMA Outdated ==
  ASSUME AsUsed, WInv, NEW t \in Task, t.op = "call", Captured(t.h), revision' = revision + 1
  PROVE  ~Fresh(t.h)'
<1>1. revision \in Nat
  BY Inv DEF InputTypeOK
<1>2. t.h.kind = "cand" => t.h.revision \in Nat
  <2>1. t.h \in Handlers
    BY ClientShape
  <2> QED BY <2>1 DEF Handlers
<1> QED BY <1>1, <1>2 DEF Captured, Fresh

\* A step that begins another revision, not selectable yet.
LEMMA SettledAnew ==
  ASSUME AsUsed, WInv, MInv, gone = "no", revision' = revision + 1, ~current',
         \A t \in OnStack' : Told(t) => t \in OnStack
  PROVE  Settled'
<1>1. ASSUME NEW t \in OnStack', Told(t) PROVE ~Fresh(t.h)'
  <2>1. t \in OnStack /\ t.op = "call"
    BY <1>1 DEF Told
  <2>2. t \in Task
    <3>1. \A i \in DOMAIN todo : todo[i] \in Task
      BY Inv, LenProperties DEF ProcInv, ProcTypeOK
    <3> QED BY <2>1, <3>1 DEF OnStack, Range
  <2>3. Captured(t.h)
    BY <2>1 DEF MInv, TasksFine, Fine
  <2> QED BY <2>1, <2>2, <2>3, Outdated
<1> QED BY <1>1 DEF Settled, Answering, Told

\* A call is replaced by others, one of which seeks if it did.
LEMMA SoughtOn ==
  ASSUME WInv, Sought, todo # <<>>, NEW p, p \in Seq(Range(p)), todo' = p \o Tail(todo),
         UNCHANGED <<alive, pending, revision>>, Lacking' => Lacking,
         Lacking /\ Lacking' /\ Seeks(Head(todo)) => ~alive \/ \E t \in Range(p) : Seeks(t)'
  PROVE  Sought'
<1>1. OnStack = {Head(todo)} \cup Range(Tail(todo)) /\ OnStack' = Range(p) \cup Range(Tail(todo))
  BY Replacing
<1>2. \A t : Seeks(t)' <=> Seeks(t)
  BY DEF Seeks, Asks, Fresh
<1>3. NoneFresh' <=> NoneFresh
  BY DEF NoneFresh, Fresh
<1> SUFFICES ASSUME Lacking' PROVE ~alive' \/ ~NoneFresh' \/ \E t \in OnStack' : Seeks(t)'
  BY DEF Sought
<1> QED BY <1>1, <1>2, <1>3 DEF Sought

\* The client's calls, but the handler that shows the candidates, leave the
\* revision and the candidates as they were, or begin another revision.
LEMMA RevisionMoves ==
  ASSUME ClientCalls, ~HandleCandidates
  PROVE  UNCHANGED <<revision, current>> \/ (revision' = revision + 1 /\ ~current')
<1>1. CASE KeyCalls
  BY <1>1 DEF KeyCalls, ClearEverything, KeyElsewhere, PendingEsc, PendingBackQueued, PendingBackPinyin,
     PendingOvertaken, PendingQueued, KeyLetter, TypeLetter, KeyNext, KeyPunctuation, KeyDigit, KeySpace,
     KeyReturn, KeyBack, KeyEsc, KeyPasses, Forget, NewInput, NoCandidates, inputVars
<1>2. CASE ~KeyCalls
  BY <1>2 DEF ClientCalls, CommitText, SelectNothing, SelectWhole, SelectPrefix, UpdateUI,
     RequestCandidates, HandleNothing, HandleStale, HandleLost, HandleRefused,
     FallbackPending, ArmPending, DrainQueued, DrainNext, NewInput, NoCandidates, typingVars, inputVars
<1> QED BY <1>1, <1>2

\* A handler for the input as it is, where there is a context to show it to.
LEMMA FreshIsNow ==
  ASSUME AsUsed, WInv, NEW h, Captured(h), h.kind = "cand", icRef # NoIc
  PROVE  Fresh(h) <=> SameInput(h) /\ ForNow(h)
BY DEF Captured, Fresh, SameInput, ForNow

\* What is done with an answer: it is useless, or the engine was lost, or the
\* candidates are shown, the pinyin's own or those of a part of it.
LEMMA SoughtHandled ==
  ASSUME AsUsed, WInv, FInv, SInv, MInv, HInv, gone = "no", HandleStale \/ HandleLost \/ HandleCandidates
  PROVE  /\ todo # <<>> /\ UNCHANGED <<alive, pending, revision, buf, icRef, spurned>>
         /\ Lacking /\ Lacking' /\ Fresh(Head(todo).h) => ~alive
         /\ Lacking' => Lacking
<1>0. PICK t, h : t = Head(todo) /\ h = t.h
  OBVIOUS
<1>1. /\ todo # <<>> /\ t.op = "call" /\ h.kind = "cand" /\ UNCHANGED <<alive, pending, revision, buf, icRef, spurned>>
      /\ HandleStale \/ HandleLost => UNCHANGED current
  BY <1>0 DEF HandleStale, HandleLost, HandleCandidates, Calling, Idle, engineVars, typingVars, inputVars, ctxVars, outVars
<1>2. t \in OnStack /\ Fine(t) /\ Captured(h)
  <2>1. t \in OnStack
    BY <1>0, <1>1, Beneath DEF MInv
  <2> QED BY <1>0, <1>1, <2>1 DEF MInv, TasksFine, Fine
<1>3. Lacking => (Fresh(h) <=> SameInput(h) /\ ForNow(h))
  BY <1>1, <1>2, FreshIsNow DEF Lacking
<1>4. CASE HandleStale
  <2>1. ~Wanted(h, t.resp)
    BY <1>0, <1>4 DEF HandleStale
  <2>2. Lacking /\ Fresh(h) => Kind(t.resp) = "SKIP"
    BY <1>3, <2>1 DEF Wanted
  <2>3. Kind(t.resp) = "SKIP" => ~Fresh(h)
    BY <1>0, <1>1, <1>2 DEF Kind, Lost, Fine, Told
  <2> QED BY <1>0, <1>1, <1>4, <2>2, <2>3 DEF Lacking
<1>5. CASE HandleLost
  <2>1. t.resp = Failed
    BY <1>0, <1>5 DEF HandleLost, Lost
  <2>2. ~Dies
    BY <1>0, <1>1 DEF Dies, Calling
  <2> QED BY <1>0, <1>1, <1>2, <1>5, <2>1, <2>2 DEF Fine, Lacking
<1>6. CASE HandleCandidates
  <2>1. current' = ForNow(h) /\ Told(t) /\ Wanted(h, t.resp)
    BY <1>0, <1>1, <1>6 DEF HandleCandidates, Told, Kind, Lost
  <2>2. Lacking /\ Lacking' => ~Fresh(h)
    BY <1>3, <2>1 DEF Lacking
  <2>3. ASSUME Lacking' PROVE ~current
    <3>1. ~ForNow(h)
      BY <2>1, <2>3 DEF Lacking
    <3>2. buf # <<>> /\ icRef # NoIc
      BY <1>1, <2>3 DEF Lacking
    <3>3. ~Fresh(h)
      BY <1>1, <1>2, <3>1, <3>2, FreshIsNow DEF SameInput, Wanted
    <3> QED BY <1>0, <1>1, <1>2, <2>1, <3>3 DEF HInv, Settled, Stale
  <2> QED BY <1>0, <1>1, <2>2, <2>3 DEF Lacking
<1> QED BY <1>4, <1>5, <1>6

\* Calls that replace the one at hand are on the stack.
LEMMA Atop ==
  ASSUME WInv, todo # <<>>, NEW a, NEW b, NEW c
  PROVE  /\ todo' = <<a>> \o Tail(todo) => a \in OnStack'
         /\ todo' = <<a, b>> \o Tail(todo) => a \in OnStack' /\ b \in OnStack'
         /\ todo' = <<a, b, c>> \o Tail(todo) => b \in OnStack'
<1>1. ASSUME NEW p, p = <<a>> \/ p = <<a, b>> \/ p = <<a, b, c>>, todo' = p \o Tail(todo)
      PROVE  Range(p) \subseteq OnStack'
  <2>1. p \in Seq(Range(p))
    <3>1. CASE p = <<a>>
      BY <3>1, Few
    <3>2. CASE p = <<a, b>>
      BY <3>2, Few
    <3>3. CASE p = <<a, b, c>>
      BY <3>3, Few
    <3> QED BY <1>1, <3>1, <3>2, <3>3
  <2> QED BY <1>1, <2>1, Replacing
<1>2. a \in Range(<<a>>) /\ {a, b} \subseteq Range(<<a, b>>) /\ b \in Range(<<a, b, c>>)
  <2>1. Range(<<a>>) = {a}
    BY Few
  <2>2. Range(<<a, b>>) = {a, b}
    BY Few
  <2>3. Range(<<a, b, c>>) = {a, b, c}
    BY Few
  <2> QED BY <2>1, <2>2, <2>3
<1> QED BY <1>1, <1>2

\* The client's calls.
LEMMA HeldClient ==
  ASSUME AsUsed, WInv, FInv, SInv, MInv, HInv, gone = "no", UNCHANGED gone, ClientCalls
  PROVE  HInv'
<1>1. /\ Replaced /\ todo # <<>> /\ UNCHANGED <<alive, pending>>
  BY ClientReplaces DEF Replaced, engineVars
<1>2. PICK p : p \in Seq(Range(p)) /\ todo' = p \o Tail(todo) /\ \A t \in Range(p) : Plainly(t)
  BY <1>1 DEF Replaced
<1>3. OnStack = {Head(todo)} \cup Range(Tail(todo)) /\ OnStack' = Range(p) \cup Range(Tail(todo))
  BY <1>1, <1>2, Replacing
<1>4. \A t \in OnStack' : Told(t) => t \in OnStack
  BY <1>2, <1>3 DEF Plainly, Told
<1>5. Settled'
  <2>1. CASE HandleCandidates
    <3>0. PICK h : h = Head(todo)
      OBVIOUS
    <3>1. /\ UNCHANGED revision /\ Told(h) /\ h \in OnStack /\ h.h.kind = "cand"
          /\ current' = ForNow(h.h)
      BY <1>3, <2>1, <3>0 DEF HandleCandidates, Calling, Told, Kind, Lost
    <3>2. current' => Answering
      BY <3>1 DEF Answering, ForNow, Fresh
    <3> QED BY <1>1, <1>4, <3>1, <3>2, SettledOn DEF HInv
  <2>2. CASE ~HandleCandidates
    <3>1. CASE UNCHANGED <<revision, current>>
      BY <1>1, <1>4, <3>1, SettledOn DEF HInv
    <3>2. CASE revision' = revision + 1 /\ ~current'
      BY <1>4, <3>2, SettledAnew
    <3> QED BY <2>2, <3>1, <3>2, RevisionMoves
  <2> QED BY <2>1, <2>2
<1>6. Sought'
  <2>1. CASE ~Lacking'
    BY <2>1 DEF Sought
  <2>2. CASE CommitText \/ ClearEverything \/ KeyElsewhere
    <3>1. buf' = <<>>
      BY <2>2 DEF CommitText, ClearEverything, KeyElsewhere, Forget, NewInput
    <3> QED BY <2>1, <3>1 DEF Lacking
  <2>3. CASE SelectPrefix
    <3>1. PICK a, b : /\ a.op = "send" /\ a.h = HandlerFor(buf', revision')
                      /\ todo' = <<a, b>> \o Tail(todo)
      BY <2>3 DEF SelectPrefix, Then, Rest, Send
    <3>2. a.op = "send" /\ Fresh(a.h)'
      BY <3>1 DEF HandlerFor, Fresh
    <3>3. a \in OnStack'
      BY <1>1, <3>1, Atop
    <3> QED BY <3>2, <3>3 DEF Sought, Seeks, Asks
  <2>4. CASE (PendingBackPinyin \/ KeyBack) /\ buf' # <<>>
    <3>1. PICK a, b, c : /\ a = Clear /\ b = Request(buf') /\ c = Ui(icRef)
                         /\ todo' = <<a, b, c>> \o Tail(todo)
      <4>1. \A x, y, z : <<x>> \o <<y, z>> = <<x, y, z>>
        BY Triple
      <4>2. CASE KeyBack
        BY <2>4, <4>2 DEF KeyBack, Then, Rest
      <4>3. CASE PendingBackPinyin
        <5>1. todo' = (<<Clear>> \o <<Request(buf'), Ui(icRef)>>) \o Tail(todo)
          BY <2>4, <4>3 DEF PendingBackPinyin, Then, Rest
        <5>2. <<Clear>> \o <<Request(buf'), Ui(icRef)>> = <<Clear, Request(buf'), Ui(icRef)>>
          BY <4>1
        <5> QED BY <5>1, <5>2
      <4> QED BY <2>4, <4>2, <4>3
    <3>2. b.op = "request"
      BY <3>1 DEF Request
    <3>3. b \in OnStack'
      BY <1>1, <3>1, Atop
    <3> QED BY <3>2, <3>3 DEF Sought, Seeks, Asks
  <2>5. CASE (PendingBackPinyin \/ KeyBack) /\ buf' = <<>>
    BY <2>1, <2>5 DEF Lacking
  <2>6. CASE TypeLetter
    <3>1. PICK a : a.op = "request" /\ todo' = <<a>> \o Tail(todo)
      <4>1. \A k : Request(k).op = "request"
        BY DEF Request
      <4>2. PICK k : k = IF Head(todo).replay THEN buf' ELSE <<Head(todo).c>>
        OBVIOUS
      <4>3. todo' = <<Request(k)>> \o Tail(todo)
        BY <2>6, <4>2 DEF TypeLetter, Then, Rest
      <4> QED BY <4>1, <4>3
    <3>2. a \in OnStack'
      BY <1>1, <3>1, Atop
    <3> QED BY <3>1, <3>2 DEF Sought, Seeks, Asks
  <2>7. CASE RequestCandidates
    <3>0. PICK h : h = Head(todo)
      OBVIOUS
    <3>1. h \in OnStack /\ h.op = "request" /\ UNCHANGED <<buf, revision>> /\ Fine(h)
      BY <1>3, <2>7, <3>0 DEF RequestCandidates, Calling, typingVars, inputVars, MInv, TasksFine
    <3>2. CASE buf = <<>> \/ h.keys = <<>>
      BY <2>1, <3>1, <3>2 DEF Fine, Lacking
    <3>3. CASE buf # <<>> /\ h.keys # <<>>
      <4>1. PICK a, e : /\ a = Send(Batch(h.keys), HandlerFor(buf, revision)) /\ e = Do("ensure")
                        /\ todo' = <<a>> \o Tail(todo) \/ todo' = <<e, a>> \o Tail(todo)
        <5>1. <<Do("ensure")>> \o <<Send(Batch(h.keys), HandlerFor(buf, revision))>>
              = <<Do("ensure"), Send(Batch(h.keys), HandlerFor(buf, revision))>>
          BY Pair
        <5>2. <<>> \o <<Send(Batch(h.keys), HandlerFor(buf, revision))>>
              = <<Send(Batch(h.keys), HandlerFor(buf, revision))>>
          BY Few, ConcatEmptySeq
        <5> QED BY <2>7, <3>0, <3>3, <5>1, <5>2 DEF RequestCandidates, Then, Rest, IfDead
      <4>2. a.op = "send" /\ Fresh(a.h)'
        BY <3>1, <4>1 DEF Send, HandlerFor, Fresh
      <4>3. a \in OnStack'
        <5>1. CASE todo' = <<a>> \o Tail(todo)
          BY <1>1, <5>1, Atop
        <5>2. CASE todo' = <<e, a>> \o Tail(todo)
          BY <1>1, <5>2, Atop
        <5> QED BY <4>1, <5>1, <5>2
      <4> QED BY <4>2, <4>3 DEF Sought, Seeks, Asks
    <3> QED BY <3>2, <3>3
  <2>8. CASE HandleStale \/ HandleLost \/ HandleCandidates
    <3>1. /\ UNCHANGED <<alive, pending, revision>> /\ (Lacking' => Lacking)
          /\ Lacking /\ Lacking' /\ Fresh(Head(todo).h) => ~alive
      BY <2>8, SoughtHandled
    <3>2. Head(todo).op = "call"
      BY <2>8 DEF HandleStale, HandleLost, HandleCandidates, Calling
    <3>3. Seeks(Head(todo)) => Fresh(Head(todo).h)
      BY <3>2 DEF Seeks, Asks
    <3> QED BY <1>1, <1>2, <3>1, <3>3, SoughtOn DEF HInv
  <2>9. CASE SelectWhole
    BY <2>1, <2>9 DEF SelectWhole, Lacking, typingVars, inputVars
  <2>10. CASE HandleRefused
    <3>1. CASE tried /\ ~pend
      BY <2>10, <3>1 DEF HandleRefused, Lacking, Sought
    <3>2. CASE tried /\ pend
      <4>1. PICK a : a.op = "fallback" /\ todo' = <<a>> \o Tail(todo)
        BY <2>10, <3>2 DEF HandleRefused, Then, Rest, Fallback
      <4>2. a \in OnStack'
        BY <1>1, <4>1, Atop
      <4> QED BY <4>1, <4>2 DEF Sought, Seeks
    <3>3. CASE ~tried
      <4>1. PICK a, b : b.op = "request" /\ todo' = <<a, b>> \o Tail(todo)
        BY <2>10, <3>3 DEF HandleRefused, Then, Rest, Request
      <4>2. b \in OnStack'
        BY <1>1, <4>1, Atop
      <4> QED BY <4>1, <4>2 DEF Sought, Seeks, Asks
    <3> QED BY <3>1, <3>2, <3>3
  <2>11. CASE FallbackPending
    <3>1. PICK a : a.op = "commit" /\ todo' = <<a>> \o Tail(todo)
      BY <2>11 DEF FallbackPending, Then, Rest, Commit
    <3>2. a \in OnStack'
      BY <1>1, <3>1, Atop
    <3> QED BY <3>1, <3>2 DEF Sought, Seeks
  <2>12. CASE \/ SelectNothing \/ UpdateUI \/ HandleNothing \/ ArmPending \/ DrainQueued \/ DrainNext
              \/ PendingEsc \/ PendingBackQueued \/ PendingOvertaken \/ PendingQueued
              \/ KeyNext \/ KeyPunctuation \/ KeyDigit \/ KeySpace \/ KeyReturn \/ KeyEsc \/ KeyPasses \/ KeyLetter
    <3>1. UNCHANGED <<buf, current, icRef, revision, spurned>>
      BY <2>12 DEF SelectNothing, UpdateUI, HandleNothing, ArmPending, DrainQueued, DrainNext,
         PendingEsc, PendingBackQueued, PendingOvertaken, PendingQueued, KeyNext, KeyPunctuation, KeyDigit, KeySpace,
         KeyReturn, KeyEsc, KeyPasses, KeyLetter, quietVars, typingVars, inputVars, ctxVars, outVars
    <3>2. \/ Head(todo).op \in {"select", "ui", "arm", "drain", "drainOn", "key"}
          \/ Head(todo).op = "call" /\ Head(todo).h = Nobody
      BY <2>12 DEF SelectNothing, UpdateUI, HandleNothing, ArmPending, DrainQueued, DrainNext,
         PendingEsc, PendingBackQueued, PendingOvertaken, PendingQueued, KeyNext, KeyPunctuation, KeyDigit, KeySpace,
         KeyReturn, KeyEsc, KeyPasses, KeyLetter, KeyNow, WaitingKey, Calling
    <3>3. ~Seeks(Head(todo))
      BY <3>2 DEF Seeks, Asks, Fresh, Nobody
    <3>4. Lacking' => Lacking
      BY <3>1 DEF Lacking
    <3> QED BY <1>1, <1>2, <3>1, <3>3, <3>4, SoughtOn DEF HInv
  <2> QED BY <2>2, <2>3, <2>4, <2>5, <2>6, <2>7, <2>8, <2>9, <2>10, <2>11, <2>12 DEF ClientCalls, KeyCalls
<1> QED BY <1>5, <1>6 DEF HInv

\* The engine is started, and greeted first: what was to be sent comes next.
LEMMA HeldStart ==
  ASSUME AsUsed, WInv, FInv, SInv, MInv, HInv, gone = "no", UNCHANGED gone, EnsureEngine \/ ScheduleRestart \/ HandleSpans
  PROVE  HInv'
<1>0. PICK h : h = Head(todo)
  OBVIOUS
<1>1. /\ todo # <<>> /\ UNCHANGED <<revision, buf, current, icRef, pending, spurned>>
      /\ h.op \in {"ensure", "exit"} \/ (h.op = "call" /\ h.h.kind = "spans")
  BY <1>0 DEF EnsureEngine, StartFork, StartRefused, ScheduleRestart, HandleSpans, Calling, Idle, engineVars, inputVars,
     ctxVars, outVars
<1>2. PICK p : /\ p \in Seq(Range(p)) /\ todo' = p \o Tail(todo) /\ \A t \in Range(p) : t.op = "send"
  <2>1. PICK g : g = Send(Plain("OPT"), [kind |-> "spans"])
    OBVIOUS
  <2>2. todo' = Tail(todo) \/ todo' = <<g>> \o Tail(todo)
    BY <2>1 DEF EnsureEngine, StartFork, StartRefused, ScheduleRestart, HandleSpans, Rest, Greeting
  <2>3. <<>> \o Tail(todo) = Tail(todo)
    <3>1. Tail(todo) \in Seq(Task)
      BY <1>1, Inv, HeadTailProperties DEF ProcInv, ProcTypeOK
    <3> QED BY <3>1, ConcatEmptySeq
  <2>4. <<>> \in Seq(Range(<<>>)) /\ Range(<<>>) = {}
    BY Few
  <2>5. <<g>> \in Seq(Range(<<g>>)) /\ Range(<<g>>) = {g} /\ g.op = "send"
    BY <2>1, Few DEF Send
  <2> QED BY <2>2, <2>3, <2>4, <2>5
<1>3. OnStack = {h} \cup Range(Tail(todo)) /\ OnStack' = Range(p) \cup Range(Tail(todo))
  BY <1>0, <1>1, <1>2, Replacing
<1>4. Settled'
  <2>1. \A t \in OnStack' : Told(t) => t \in OnStack
    BY <1>2, <1>3 DEF Told
  <2> QED BY <1>1, <2>1, SettledOn DEF HInv
<1>5. ~Seeks(h) /\ (Lacking' <=> Lacking)
  BY <1>1 DEF Seeks, Asks, Fresh, Lacking
<1>6. Sought'
  <2>1. CASE UNCHANGED alive
    BY <1>0, <1>1, <1>2, <1>5, <2>1, SoughtOn DEF HInv
  <2>2. CASE ~UNCHANGED alive
    <3>1. EnsureEngine /\ ~alive
      BY <2>2 DEF EnsureEngine, ScheduleRestart, HandleSpans, StartRefused, engineVars
    <3>2. h.op = "ensure" /\ h \in OnStack
      BY <1>0, <1>3, <3>1 DEF EnsureEngine, Calling
    <3>3. (\E y \in OnStack : y.op \in {"request", "type"} \/ Says(y, {"B"})) \/ buf = <<>>
      BY <1>0, <1>1, <3>2 DEF MInv, TopFine, TopFits
    <3> SUFFICES ASSUME Lacking' PROVE \E y \in OnStack' : Seeks(y)'
      BY DEF Sought
    <3>4. PICK y \in OnStack : y.op \in {"request", "type"} \/ Says(y, {"B"})
      BY <1>5, <3>3 DEF Lacking
    <3>5. y \in OnStack'
      BY <1>3, <3>2, <3>4 DEF Says
    <3>6. Says(y, {"B"}) => y.h.kind = "cand" /\ Fresh(y.h)
      BY DEF MInv, TasksFine, Fine, Says
    <3>7. Seeks(y)'
      BY <1>1, <3>4, <3>6 DEF Seeks, Asks, Fresh, Says
    <3> QED BY <3>5, <3>7
  <2> QED BY <2>1, <2>2
<1> QED BY <1>4, <1>6 DEF HInv

\* The calls of EngineProc: a handler waits or is called, and when the engine is
\* lost it is dead.
LEMMA HeldProc ==
  ASSUME AsUsed, WInv, FInv, SInv, MInv, HInv, gone = "no", UNCHANGED gone, ProcStep
  PROVE  HInv'
<1>0. PICK h : h = Head(todo)
  OBVIOUS
<1>1. UNCHANGED <<revision, buf, current, icRef, spurned>>
  BY DEF ProcStep, typingVars, inputVars, ctxVars, outVars
<1>2. todo # <<>> /\ todo \in Seq(Task) /\ pending \in Seq(Entry) /\ (Lacking' <=> Lacking)
  BY <1>1, Inv DEF ProcStep, ProcCalls, Stop, Die, SendDead, SendBroken, SendWritten, LinesDone, LineBeforeReady,
     LineIgnored, LineAnswers, Calling, Idle, ProcInv, ProcTypeOK, Lacking
<1>3. \A x : (Seeks(x)' <=> Seeks(x)) /\ (Fresh(x)' <=> Fresh(x))
  BY <1>1 DEF Seeks, Asks, Fresh
<1>4. OnStack = {h} \cup Range(Tail(todo)) /\ h \in OnStack
  BY <1>0, <1>2, TopAndRest DEF OnStack
<1>5. CASE Stop
  <2>1. ~alive' /\ pending' = <<>> /\ todo' = FailPendingHandlers \o Tail(todo)
    BY <1>5 DEF Stop
  <2>2. PICK p : p = FailPendingHandlers
    OBVIOUS
  <2>3. p \in Seq(Range(p)) /\ \A t \in Range(p) : ~Told(t)
    <3>1. Len(pending) \in Nat /\ DOMAIN pending = 1..Len(pending)
      BY <1>2, LenProperties
    <3>2. DOMAIN p = 1..Len(pending) /\ \A i \in 1..Len(pending) : p[i] = Call(pending[i], Failed)
      BY <2>2, <3>1 DEF FailPendingHandlers
    <3>3. p \in Seq(Range(p))
      BY <2>2, Inv, FailedOk DEF FInv
    <3> QED BY <3>2, <3>3 DEF Range, Told, Call
  <2>4. OnStack' = Range(p) \cup Range(Tail(todo))
    BY <1>2, <2>1, <2>2, <2>3, Replacing
  <2>5. Settled'
    <3>1. \A t \in OnStack' : Told(t) => t \in OnStack
      BY <1>4, <2>3, <2>4
    <3>2. Range(pending') = {}
      BY <2>1, Few
    <3> QED BY <1>1, <3>1, <3>2, SettledOn DEF HInv
  <2> QED BY <2>1, <2>5 DEF HInv, Sought
<1>6. CASE Die \/ SendDead \/ SendBroken
  <2>1. PICK a, b, p :
          /\ p \in Seq(Range(p)) /\ todo' = p \o Tail(todo) /\ (\A t \in Range(p) : ~Told(t))
          /\ UNCHANGED <<alive, pending>>
          /\ ~alive \/ \E t \in Range(p) : t.op \in {"die", "stop"}
    <3>1. PICK a, b, c, d : a = Do("stop") /\ b = Do("exit") /\ c = Do("die") /\ d = Call(h, Failed)
      OBVIOUS
    <3>2. a.op = "stop" /\ c.op = "die" /\ ~Told(a) /\ ~Told(b) /\ ~Told(c) /\ ~Told(d)
      BY <3>1 DEF Do, Call, Told
    <3>3. CASE Die
      <4>1. <<a, b>> \in Seq(Range(<<a, b>>)) /\ Range(<<a, b>>) = {a, b}
        BY Few
      <4>2. todo' = <<a, b>> \o Tail(todo) /\ UNCHANGED <<alive, pending>>
        BY <3>1, <3>3 DEF Die
      <4> QED BY <3>2, <4>1, <4>2
    <3>4. CASE SendDead
      <4>1. <<d>> \in Seq(Range(<<d>>)) /\ Range(<<d>>) = {d}
        BY Few
      <4>2. todo' = <<d>> \o Tail(todo) /\ UNCHANGED <<alive, pending>> /\ ~alive
        BY <1>0, <3>1, <3>4 DEF SendDead
      <4> QED BY <3>2, <4>1, <4>2
    <3>5. CASE SendBroken
      <4>1. <<c, d>> \in Seq(Range(<<c, d>>)) /\ Range(<<c, d>>) = {c, d}
        BY Few
      <4>2. todo' = <<c, d>> \o Tail(todo) /\ UNCHANGED <<alive, pending>>
        BY <1>0, <3>1, <3>5 DEF SendBroken
      <4> QED BY <3>2, <4>1, <4>2
    <3> QED BY <1>6, <3>3, <3>4, <3>5
  <2>2. OnStack' = Range(p) \cup Range(Tail(todo))
    BY <1>2, <2>1, Replacing
  <2>3. Settled'
    <3>1. \A t \in OnStack' : Told(t) => t \in OnStack
      BY <1>4, <2>1, <2>2
    <3> QED BY <1>1, <2>1, <3>1, SettledOn DEF HInv
  <2>4. Sought'
    BY <2>1, <2>2 DEF Sought, Seeks
  <2> QED BY <2>3, <2>4 DEF HInv
<1>7. CASE SendWritten
  <2>1. PICK e : e = [line |-> h.line, h |-> h.h]
    OBVIOUS
  <2>2. h.op = "send" /\ todo' = Tail(todo) /\ pending' = Append(pending, e) /\ UNCHANGED alive
    BY <1>0, <1>7, <2>1 DEF SendWritten, Calling
  <2>3. Range(pending') = Range(pending) \cup {e}
    <3>1. h.line \in Line /\ h.h \in Handler
      <4>1. Calling("send") /\ LocalApart
        BY <1>7, Apart DEF SendWritten
      <4> QED BY <1>0, <4>1, Inv, NextCall DEF ProcInv, ProcTypeOK
    <3>2. e \in Entry
      BY <2>1, <3>1 DEF Entry
    <3> QED BY <1>2, <2>2, <3>2, RangeAppend
  <2>4. OnStack' = Range(Tail(todo))
    BY <2>2 DEF OnStack
  <2>5. Settled'
    <3>1. e.h.kind = "cand" => Fresh(e.h)
      BY <1>4, <2>1, <2>2 DEF MInv, TasksFine, Fine
    <3> QED BY <1>1, <1>4, <2>3, <2>4, <3>1, SettledOn DEF HInv, Stale
  <2>6. Sought'
    <3>1. ~NoneFresh => ~NoneFresh'
      BY <1>3, <2>3 DEF NoneFresh
    <3>2. Seeks(h) => ~NoneFresh'
      BY <1>3, <2>1, <2>2, <2>3 DEF Seeks, Asks, NoneFresh
    <3> QED BY <1>2, <1>3, <1>4, <2>2, <2>4, <3>1, <3>2 DEF HInv, Sought
  <2> QED BY <2>5, <2>6 DEF HInv
<1>8. CASE LinesDone
  <2>1. h.op = "lines" /\ todo' = Tail(todo) /\ UNCHANGED <<alive, pending>>
    BY <1>0, <1>8 DEF LinesDone, Calling
  <2>2. OnStack' = Range(Tail(todo))
    BY <2>1 DEF OnStack
  <2>3. Settled'
    BY <1>1, <1>4, <2>1, <2>2, SettledOn DEF HInv
  <2>4. ~Seeks(h) /\ NoneFresh' = NoneFresh
    BY <1>3, <2>1 DEF Seeks, Asks, NoneFresh
  <2> QED BY <1>2, <1>3, <1>4, <2>1, <2>2, <2>3, <2>4 DEF HInv, Sought
<1>9. CASE LineBeforeReady \/ LineIgnored
  <2>1. UNCHANGED <<todo, alive, pending>>
    BY <1>9 DEF LineBeforeReady, LineIgnored
  <2>2. OnStack' = OnStack /\ NoneFresh' = NoneFresh
    BY <1>3, <2>1 DEF OnStack, NoneFresh
  <2>3. Settled'
    BY <1>1, <2>1, <2>2, SettledOn DEF HInv
  <2> QED BY <1>2, <1>3, <2>1, <2>2, <2>3 DEF HInv, Sought
<1>10. CASE LineAnswers
  <2>1. PICK d, c : d = Head(pending) /\ c = Call(d, Head(rbuf))
    OBVIOUS
  <2>2. /\ pending # <<>> /\ pending' = Tail(pending) /\ todo' = <<c>> \o todo /\ UNCHANGED alive /\ h.op = "lines"
        /\ c.op = "call" /\ c.h = d.h
    BY <1>0, <1>10, <2>1 DEF LineAnswers, Calling, Call
  <2>3. Range(pending) = {d} \cup Range(pending') /\ d \in Range(pending)
    BY <1>2, <2>1, <2>2, TopAndRest
  <2>4. OnStack = {h} /\ OnStack' = {c, h}
    <3>1. \A t \in Range(Tail(todo)) : t.op \in Below(h)
      BY <1>0, <1>2, TopAndRest DEF FInv
    <3>2. OnStack = {h}
      BY <1>4, <2>2, <3>1 DEF Below
    <3>3. <<c>> \o todo = <<c, h>> \o Tail(todo)
      BY <1>0, <1>2, OnTop
    <3>4. PICK p : p = <<c, h>> /\ p \in Seq(Range(p)) /\ Range(p) = {c, h}
      <4>1. <<c, h>> \in Seq(Range(<<c, h>>)) /\ Range(<<c, h>>) = {c, h}
        BY Few
      <4> QED BY <4>1
    <3>5. OnStack' = {c, h} \cup Range(Tail(todo))
      BY <1>2, <2>2, <3>3, <3>4, Replacing
    <3> QED BY <1>4, <3>2, <3>5
  <2>5. Fresh(d.h) => \A e \in Range(pending') : e.h.kind # "cand"
    <3> SUFFICES ASSUME Fresh(d.h), NEW e \in Range(pending'), e.h.kind = "cand" PROVE FALSE
      OBVIOUS
    <3>1. PICK i \in 1..Len(pending) : 1 < i /\ pending[i] = e
      <4>1. /\ Tail(pending) \in Seq(Entry) /\ Len(Tail(pending)) = Len(pending) - 1 /\ Len(pending) \in Nat
            /\ \A i \in 1..Len(Tail(pending)) : Tail(pending)[i] = pending[i + 1]
        BY <1>2, <2>2, HeadTailProperties, LenProperties
      <4>2. PICK k \in 1..Len(pending) - 1 : e = pending[k + 1]
        BY <2>2, <4>1, LenProperties DEF Range
      <4> QED BY <4>1, <4>2
    <3>2. 1 \in 1..Len(pending) /\ pending[1] = d /\ DOMAIN pending = 1..Len(pending)
      BY <1>2, <2>1, <3>1, LenProperties
    <3>3. Later(d, e) /\ Captured(e.h)
      BY <2>3, <3>1, <3>2 DEF MInv, Revs
    <3>4. e.h.revision \in Nat /\ revision \in Nat
      <4>1. \A k \in 1..Len(pending) : pending[k] \in Entry
        BY <1>2, LenProperties
      <4>2. e.h \in Handlers
        BY <3>1, <4>1 DEF Entry, AsUsed
      <4> QED BY <4>2, Inv DEF Handlers, InputTypeOK
    <3> QED BY <3>3, <3>4 DEF Later, Captured, Fresh
  <2>6. Settled'
    <3>1. CASE current
      <4>1. \A e \in Range(pending) : ~Stale(e.h)
        BY <3>1 DEF HInv, Settled
      <4>2. ~Stale(c.h) /\ ~Told(h)
        BY <2>2, <2>3, <4>1 DEF Told
      <4> QED BY <1>3, <2>2, <2>3, <2>4, <4>1, <4>2 DEF Settled, Stale, Told
    <3>2. CASE ~current
      <4>1. ~Told(h)
        BY <2>2 DEF Told
      <4>2. (current \/ Answering)' => Fresh(d.h)
        BY <1>1, <1>3, <2>2, <2>4, <3>2, <4>1 DEF Answering, Told
      <4> QED BY <1>3, <2>2, <2>4, <2>5, <4>1, <4>2 DEF Settled, Stale, Told
    <3> QED BY <3>1, <3>2
  <2>7. Sought'
    <3>1. ~Seeks(h)
      BY <2>2 DEF Seeks, Asks
    <3>2. ~NoneFresh => ~NoneFresh' \/ Seeks(c)'
      BY <1>3, <2>2, <2>3 DEF NoneFresh, Seeks, Asks
    <3> QED BY <1>2, <1>3, <2>2, <2>4, <3>1, <3>2 DEF HInv, Sought
  <2> QED BY <2>6, <2>7 DEF HInv
<1> QED BY <1>5, <1>6, <1>7, <1>8, <1>9, <1>10 DEF ProcStep, ProcCalls

\* Events begin in an idle addon, whose pinyin has its handler waiting.
LEMMA HeldBegun ==
  ASSUME HInv, gone = "no", Idle, UNCHANGED <<alive, pending, revision, buf, current, spurned>>,
         icRef' = icRef \/ icRef' = NoIc, \A t \in OnStack' : ~Told(t)
  PROVE  HInv'
<1>1. OnStack = {}
  BY Few DEF Idle, OnStack
<1>2. NoneFresh' <=> NoneFresh
  BY DEF NoneFresh, Fresh
<1>3. Settled'
  BY SettledOn DEF HInv
<1>4. Sought'
  BY <1>1, <1>2 DEF HInv, Sought, Lacking
<1> QED BY <1>3, <1>4 DEF HInv

\* A stack of calls that tell nobody anything.
LEMMA NoneTold ==
  ASSUME NEW a, NEW b, ~Told(a), ~Told(b), todo' = <<>> \/ todo' = <<a>> \/ todo' = <<a, b>>
  PROVE  \A t \in OnStack' : ~Told(t)
<1>1. Range(<<>>) = {} /\ Range(<<a>>) = {a} /\ Range(<<a, b>>) = {a, b}
  BY Few
<1> QED BY <1>1 DEF OnStack

\* The callbacks and the timers, but the destructor.
LEMMA HeldEvents ==
  ASSUME HInv, gone = "no",
         \/ ProcEvent(OnReadable) \/ ProcEvent(OnEof) \/ ProcEvent(OnStartTimeout)
         \/ KeyEvent \/ Reset \/ SwitchInputMethod \/ Click \/ FocusOut \/ Close \/ Timers
  PROVE  HInv'
<1>1. /\ Idle /\ UNCHANGED <<alive, pending, revision, buf, current, spurned>>
      /\ icRef' = icRef \/ icRef' = NoIc
  BY DEF ProcEvent, OnReadable, OnEof, OnStartTimeout, KeyEvent, Reset, SwitchInputMethod, Click, FocusOut, Close,
     Timers, OnPendingTimer, OnRestartTimer, Happens, Turn, engineVars, typingVars, inputVars, ctxVars, outVars, quietVars
<1>2. \A t \in OnStack' : ~Told(t)
  <2>1. /\ \A op : Do(op).op = op
        /\ \A ic, x, y : /\ Press(ic, x).op = "key" /\ Select(ic, x).op = "select" /\ Fallback(ic).op = "fallback"
                         /\ ClearAll(ic, x, y).op = "clear"
        /\ \A x, y : Send(x, y).op = "send"
        /\ \A x : Request(x).op = "request"
    BY DEF Do, Press, Select, Fallback, ClearAll, Send, Request
  <2>2. \E a, b : /\ todo' = <<>> \/ todo' = <<a>> \/ todo' = <<a, b>>
                  /\ a.op # "call" /\ b.op # "call"
    <3>1. CASE ProcEvent(OnReadable) \/ ProcEvent(OnEof) \/ ProcEvent(OnStartTimeout)
      BY <2>1, <3>1 DEF ProcEvent, OnReadable, OnEof, OnStartTimeout
    <3>2. CASE KeyEvent
      BY <2>1, <3>2 DEF KeyEvent
    <3>3. CASE Reset
      BY <2>1, <3>3 DEF Reset
    <3>4. CASE SwitchInputMethod \/ FocusOut
      BY <2>1, <3>4 DEF SwitchInputMethod, FocusOut
    <3>5. CASE Click
      BY <2>1, <3>5 DEF Click
    <3>6. CASE Close
      <4>1. todo' = <<>>
        BY <3>6 DEF Close, Happens, Turn, Idle
      <4> QED BY <2>1, <4>1
    <3>7. CASE OnPendingTimer
      BY <2>1, <3>7 DEF OnPendingTimer, Turn, Idle
    <3>8. CASE OnRestartTimer
      BY <2>1, <3>8 DEF OnRestartTimer, Turn, Idle, Revive
    <3> QED BY <3>1, <3>2, <3>3, <3>4, <3>5, <3>6, <3>7, <3>8 DEF Timers
  <2> QED BY <2>2, NoneTold DEF Told
<1> QED BY <1>1, <1>2, HeldBegun

\* Every step.
LEMMA HeldNext ==
  ASSUME AsUsed, WInv, FInv, SInv, MInv, HInv, [Next]_vars
  PROVE  HInv'
<1>1. CASE gone # "no"
  BY <1>1, GoneStays DEF HInv
<1>2. CASE gone = "no" /\ gone' # "no"
  BY <1>2 DEF HInv
<1>3. CASE gone = "no" /\ gone' = "no"
  <2>1. CASE UNCHANGED vars \/ HarnessStep \/ Crash
    <3>1. UNCHANGED <<todo, alive, pending, revision, buf, current, icRef, spurned>>
      BY <2>1 DEF vars, procVars, addonVars, typingVars, inputVars, ctxVars, outVars, HarnessStep, HarnessTakes, TakeBatches,
         TakeBadPick, TakePrefixPick, TakeWholePick, TakeClear, TakeOption, Search, Take, WriteLine, Crash, ChildExit
    <3>2. OnStack' = OnStack
      BY <3>1 DEF OnStack
    <3>3. Settled'
      BY <1>3, <3>1, <3>2, SettledOn DEF HInv
    <3>4. Sought'
      BY <1>3, <3>1, <3>2 DEF HInv, Sought, Lacking, NoneFresh, Seeks, Asks, Fresh
    <3> QED BY <3>3, <3>4 DEF HInv
  <2>2. CASE ClientCalls
    BY <1>3, <2>2, HeldClient
  <2>3. CASE EnsureEngine \/ ScheduleRestart \/ HandleSpans
    BY <1>3, <2>3, HeldStart
  <2>4. CASE ProcStep
    BY <1>3, <2>4, HeldProc
  <2>5. CASE \/ ProcEvent(OnReadable) \/ ProcEvent(OnEof) \/ ProcEvent(OnStartTimeout)
             \/ KeyEvent \/ Reset \/ SwitchInputMethod \/ Click \/ FocusOut \/ Close \/ Timers
    BY <1>3, <2>5, HeldEvents
  <2>6. CASE Destroy \/ DestroyMembers
    BY <1>3, <2>6 DEF Destroy, DestroyMembers
  <2> QED BY <2>1, <2>2, <2>3, <2>4, <2>5, <2>6
          DEF Next, AddonCalls, Callback, Timers, CompositionCalls, ClientCalls
<1> QED BY <1>1, <1>2, <1>3

\* Pinyin on the panel is never left without an answer on its way, but that which
\* was refused with its recovery spent (candidateHandler, scheduleRestart): while
\* the engine lives a handler waits that will accept its candidates, and when it is
\* dead its restart is due, unless it was given up.
THEOREM RequestHeldCorrect ==
  ASSUME AsUsed, ~ForkMayFail
  PROVE  Spec => []RequestHeld
<1>1. Init => SInv /\ MInv /\ HInv
  <2>1. Init => HInv
    <3> SUFFICES ASSUME Init PROVE HInv
      OBVIOUS
    <3>1. PICK a : a = Do("ensure")
      OBVIOUS
    <3>2. todo = <<a>> /\ pending = <<>> /\ buf = <<>> /\ ~Told(a)
      BY <3>1 DEF Init, ProcInit, CompositionInit, Do, Told
    <3>3. OnStack = {a} /\ Range(pending) = {}
      BY <3>2, Few DEF OnStack
    <3> QED BY <3>2, <3>3 DEF HInv, Settled, Sought, Lacking
  <2> QED BY <2>1, SpansInit, MirrorInit
<1>2. WInv /\ SInv /\ [Next]_vars => SInv'
  BY SpansNext
<1>3. WInv /\ FInv /\ SInv /\ MInv /\ [Next]_vars => MInv'
  BY MirrorNext
<1>4. WInv /\ FInv /\ SInv /\ MInv /\ HInv /\ [Next]_vars => HInv'
  BY HeldNext
<1>5. MInv /\ HInv /\ EngineComesBack => RequestHeld
  <2> SUFFICES ASSUME MInv, HInv, EngineComesBack, Turn, Composing, ~current, icRef # NoIc, spurned # revision
               PROVE  IF alive THEN Waiting ELSE restart \/ gaveUp
    BY DEF RequestHeld
  <2>1. gone = "no" /\ OnStack = {} /\ Lacking
    BY Few DEF Turn, Idle, Composing, OnStack, Lacking
  <2>2. CASE alive
    <3>1. PICK e \in Range(pending) : Fresh(e.h)
      BY <2>1, <2>2 DEF HInv, Sought, NoneFresh
    <3>2. Captured(e.h)
      BY <2>1 DEF MInv, Revs
    <3>3. e.h.kind = "cand" /\ SameInput(e.h) /\ ForNow(e.h)
      BY <2>1, <3>1, <3>2 DEF Captured, Fresh, SameInput, ForNow, Lacking
    <3>4. \E i \in DOMAIN pending : pending[i] = e
      BY DEF Range
    <3> QED BY <2>2, <3>3, <3>4 DEF Waiting
  <2>3. CASE ~alive
    BY <2>3 DEF EngineComesBack
  <2> QED BY <2>2, <2>3
<1>6. Spec => []EngineComesBack
  BY EngineComesBackCorrect
<1> QED BY <1>1, <1>2, <1>3, <1>4, <1>5, <1>6, WInductive, FInductive, PTL DEF Spec
=============================================================================
