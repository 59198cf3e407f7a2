------------------------- MODULE WeTypeEngineProofs -------------------------
(***************************************************************************)
(* What the addon's callbacks leave behind, for any keys, contexts,        *)
(* answers, deaths and limits: a pending Space is frozen, the panel shows  *)
(* what is composed, what is composed has the focus, the engine never      *)
(* stays down or outlives the addon, and no candidates are read before the *)
(* answer to "OPT spans".  And no letter is lost, doubled or moved, as     *)
(* long as the candidates that can be selected are those of the pinyin as  *)
(* it is.  All of it rests on what may lie on the call stack above what    *)
(* (the code of wetype.cpp that runs between a call and the rest of its    *)
(* caller), and on what each call may assume.                              *)
(***************************************************************************)
EXTENDS WeTypeTypeProofs

----------------------------------------------------------------------------
(* The invariant.                                                          *)

\* The calls that may wait for others to return: stop() and die() are made last.
Ops == {"send", "call", "exit", "lines", "ensure", "request",
        "ui", "fallback", "drain", "drainOn", "commit", "select", "key", "type", "clear"}

\* Those that may wait below a call: Fcitx calls processKey() with nothing
\* below, drainQueued() inside onReadable() at most, a handler given a line
\* there only, and what a key does there or in the drain of queued keys.
Below(t) ==
  IF t.op = "lines" \/ (t.op = "key" /\ t.src = "user") THEN {}
  ELSE IF t.op \in {"drain", "drainOn"} \/ (t.op = "call" /\ t.resp # Failed) THEN {"lines"}
  ELSE IF t.op \in {"type", "arm", "key"} THEN {"drainOn", "lines"}
  ELSE Ops

Ordered(s) == \A i, j \in DOMAIN s : i < j => s[j].op \in Below(s[i])

OnStack == Range(todo)
Has(ops) == \E t \in OnStack : t.op \in ops
Empty   == buf = <<>> /\ cands = <<>> /\ ~pend

\* No request is made for no pinyin.
HandlerOk(h) == h.kind = "cand" => h.buf # <<>>

\* What a call may assume of the contexts by the time it is made; the destructor
\* makes none.
Ok(t) ==
  /\ t.op \in {"type", "arm", "drain", "drainOn"} => t.ic = icRef /\ icRef = focus
  /\ t.op \in {"select", "commit", "fallback"} => t.ic = icRef
  /\ t.op = "key" => t.ic = focus /\ (t.src = "queue" => icRef = focus)
  /\ t.op = "ui" => t.ic = icRef \/ (icRef = NoIc /\ Empty)
  /\ t.op = "clear" => IF t.redraw THEN t.ic = icRef \/ icRef = NoIc ELSE Empty
  /\ t.op \in {"send", "call"} => HandlerOk(t.h)
  /\ t.op # "members"

TasksOk   == \A t \in OnStack : Ok(t)
EntriesOk == \A e \in Range(pending) : HandlerOk(e.h)

\* Only a deactivate() about to clear finds its composition out of focus.
FocusOk == ~Empty => icRef \in {focus, NoIc} \/ Calling("clear")

\* A pending Space: what freezes the pinyin, what ends the wait, what is queued.
WaitOk ==
  /\ pend /\ buf = <<>> => Has({"fallback"})
  /\ pend /\ current => Calling("fallback")
  /\ pend => ~Has({"commit"})
  /\ Calling("arm") => ~Selectable /\ Composing
  /\ pend => timer = [ic |-> icRef, epoch |-> epoch] \/ icRef = NoIc
  /\ ~pend => timer = NoTimer /\ (queued = <<>> \/ Has({"drain", "drainOn"}))
  /\ draining => Has({"drainOn"})

\* The panels: drawn, or a call that draws, or commits, is still to be made.
Blank    == Panel(<<>>, <<>>)
Drawn    == IF pend THEN Raw ELSE buf
Clean    == icRef \in IC => panel[icRef] = Panel(Drawn, cands)
Selecting == Calling("select") /\ current /\ Head(todo).idx \in DOMAIN cands
PanelOk ==
  /\ \A ic \in IC : ic # icRef => panel[ic] = Blank
  /\ Clean \/ Has({"ui", "commit", "fallback"}) \/ Selecting

\* Until the destructor runs; it leaves a composition behind in any state.
FInv == gone = "no" =>
  Ordered(todo) /\ TasksOk /\ EntriesOk /\ FocusOk /\ WaitOk /\ PanelOk

----------------------------------------------------------------------------
(* The stack.                                                              *)

\* Small sequences, as sets and in order.
LEMMA Few ==
  /\ Range(<<>>) = {} /\ Ordered(<<>>) /\ <<>> \in Seq({})
  /\ \A a : /\ Range(<<a>>) = {a} /\ Head(<<a>>) = a /\ <<a>> # <<>> /\ <<a>> \in Seq({a})
            /\ Ordered(<<a>>)
  /\ \A a, b : /\ Range(<<a, b>>) = {a, b} /\ Head(<<a, b>>) = a /\ <<a, b>> # <<>> /\ <<a, b>> \in Seq({a, b})
               /\ b.op \in Below(a) => Ordered(<<a, b>>)
  /\ \A a, b, c : /\ Range(<<a, b, c>>) = {a, b, c} /\ Head(<<a, b, c>>) = a
                  /\ <<a, b, c>> # <<>> /\ <<a, b, c>> \in Seq({a, b, c})
                  /\ b.op \in Below(a) /\ c.op \in Below(a) /\ c.op \in Below(b) => Ordered(<<a, b, c>>)
<1>1. Range(<<>>) = {} /\ Ordered(<<>>) /\ <<>> \in Seq({})
  <2>1. DOMAIN <<>> = {}
    OBVIOUS
  <2> QED BY <2>1, EmptySeq DEF Range, Ordered
<1>2. ASSUME NEW a
      PROVE  /\ Range(<<a>>) = {a} /\ Head(<<a>>) = a /\ <<a>> # <<>> /\ <<a>> \in Seq({a})
             /\ Ordered(<<a>>)
  <2> DEFINE s == <<a>>
  <2>1. DOMAIN s = 1..1 /\ s[1] = a /\ Head(s) = a /\ s # <<>> /\ s \in Seq({a})
    OBVIOUS
  <2> HIDE DEF s
  <2>2. Range(s) = {a} /\ Ordered(s)
    BY <2>1 DEF Range, Ordered
  <2> QED BY <2>1, <2>2 DEF s
<1>3. ASSUME NEW a, NEW b
      PROVE  /\ Range(<<a, b>>) = {a, b} /\ Head(<<a, b>>) = a /\ <<a, b>> # <<>> /\ <<a, b>> \in Seq({a, b})
             /\ b.op \in Below(a) => Ordered(<<a, b>>)
  <2> DEFINE s == <<a, b>>
  <2>1. DOMAIN s = 1..2 /\ s[1] = a /\ s[2] = b /\ Head(s) = a /\ s # <<>> /\ s \in Seq({a, b})
    OBVIOUS
  <2> HIDE DEF s
  <2>2. Range(s) = {a, b}
    BY <2>1 DEF Range
  <2>3. b.op \in Below(a) => Ordered(s)
    BY <2>1 DEF Ordered
  <2> QED BY <2>1, <2>2, <2>3 DEF s
<1>4. ASSUME NEW a, NEW b, NEW c
      PROVE  /\ Range(<<a, b, c>>) = {a, b, c} /\ Head(<<a, b, c>>) = a
             /\ <<a, b, c>> # <<>> /\ <<a, b, c>> \in Seq({a, b, c})
             /\ b.op \in Below(a) /\ c.op \in Below(a) /\ c.op \in Below(b) => Ordered(<<a, b, c>>)
  <2> DEFINE s == <<a, b, c>>
  <2>1. DOMAIN s = 1..3 /\ s[1] = a /\ s[2] = b /\ s[3] = c /\ Head(s) = a /\ s # <<>> /\ s \in Seq({a, b, c})
    OBVIOUS
  <2> HIDE DEF s
  <2>2. Range(s) = {a, b, c}
    BY <2>1 DEF Range
  <2>3. b.op \in Below(a) /\ c.op \in Below(a) /\ c.op \in Below(b) => Ordered(s)
    BY <2>1 DEF Ordered
  <2> QED BY <2>1, <2>2, <2>3 DEF s
<1> QED BY <1>1, <1>2, <1>3, <1>4

\* One stack on another.
LEMMA OrderedConcat ==
  ASSUME NEW S, NEW p \in Seq(S), NEW q \in Seq(S),
         Ordered(p), Ordered(q), \A x \in Range(p), y \in Range(q) : y.op \in Below(x)
  PROVE  Ordered(p \o q) /\ Range(p \o q) = Range(p) \cup Range(q)
<1> DEFINE R == {r \in S \X S : r[2].op \in Below(r[1])}
<1>1. \A x, y \in S : <<x, y>> \in R <=> y.op \in Below(x)
  OBVIOUS
<1> HIDE DEF R
<1>2. ASSUME NEW t \in Seq(S) PROVE Range(t) \subseteq S /\ (Ordered(t) <=> Sorted(t, R))
  <2>1. \A i \in DOMAIN t : t[i] \in S
    BY LenProperties
  <2> QED BY <1>1, <2>1 DEF Ordered, Sorted, Range
<1>3. Sorted(p, R) /\ Sorted(q, R) /\ p \o q \in Seq(S)
  BY <1>2, ConcatProperties
<1>4. \A x \in Range(p), y \in Range(q) : <<x, y>> \in R
  BY <1>1, <1>2
<1>5. Sorted(p \o q, R) /\ Range(p \o q) = Range(p) \cup Range(q)
  BY <1>3, <1>4, SortedConcat
<1> QED BY <1>2, <1>3, <1>5

\* The call at hand and those below it.
LEMMA TopAndRest ==
  ASSUME NEW S, NEW s \in Seq(S), s # <<>>
  PROVE  /\ Range(s) = {Head(s)} \cup Range(Tail(s))
         /\ Ordered(s) => Ordered(Tail(s)) /\ \A t \in Range(Tail(s)) : t.op \in Below(Head(s))
<1> DEFINE R == {r \in S \X S : r[2].op \in Below(r[1])}
<1>1. \A x, y \in S : <<x, y>> \in R <=> y.op \in Below(x)
  OBVIOUS
<1> HIDE DEF R
<1>2. ASSUME NEW t \in Seq(S) PROVE Range(t) \subseteq S /\ (Ordered(t) <=> Sorted(t, R))
  <2>1. \A i \in DOMAIN t : t[i] \in S
    BY LenProperties
  <2> QED BY <1>1, <2>1 DEF Ordered, Sorted, Range
<1>3. Head(s) \in S /\ Tail(s) \in Seq(S)
  BY HeadTailProperties
<1>4. /\ Range(s) = {Head(s)} \cup Range(Tail(s))
      /\ Sorted(s, R) => Sorted(Tail(s), R) /\ \A t \in Range(Tail(s)) : <<Head(s), t>> \in R
  BY SortedTail
<1>5. ASSUME Ordered(s) PROVE Ordered(Tail(s)) /\ \A t \in Range(Tail(s)) : t.op \in Below(Head(s))
  <2>1. Sorted(Tail(s), R) /\ \A t \in Range(Tail(s)) : t \in S /\ <<Head(s), t>> \in R
    BY <1>2, <1>3, <1>4, <1>5
  <2> QED BY <1>1, <1>2, <1>3, <2>1
<1> QED BY <1>4, <1>5

\* A call made by the one at hand, which goes on after it.
LEMMA OnTop ==
  ASSUME todo \in Seq(Task), todo # <<>>, NEW c
  PROVE  <<c>> \o todo = <<c, Head(todo)>> \o Tail(todo)
<1> DEFINE S == {c} \cup Task
           h == Head(todo)
           q == Tail(todo)
<1>1. todo = <<h>> \o q /\ h \in Task /\ q \in Seq(Task)
  BY HeadAndTail
<1> HIDE DEF h, q
<1>2. <<c>> \in Seq(S) /\ <<h>> \in Seq(S) /\ q \in Seq(S)
  <2>1. c \in S /\ h \in S
    BY <1>1
  <2> HIDE DEF S
  <2>2. <<c>> \in Seq(S) /\ <<h>> \in Seq(S)
    BY <2>1
  <2>3. Task \subseteq S
    BY DEF S
  <2> QED BY <1>1, <2>2, <2>3, SeqMonotonic
<1>3. (<<c>> \o <<h>>) \o q = <<c>> \o (<<h>> \o q)
  BY <1>2, Assoc
<1>4. <<c>> \o <<h>> = <<c, h>>
  BY Pair
<1> QED BY <1>1, <1>3, <1>4 DEF h, q

\* A call replaced by the calls it makes.
LEMMA Pushed ==
  ASSUME ProcInv, Ordered(todo), todo # <<>>, NEW p, p \in Seq(Range(p)), Ordered(p),
         \A t \in Range(p) : Below(Head(todo)) \subseteq Below(t),
         todo' = p \o Tail(todo)
  PROVE  /\ Ordered(todo')
         /\ OnStack = {Head(todo)} \cup Range(Tail(todo))
         /\ OnStack' = Range(p) \cup Range(Tail(todo))
         /\ \A t \in Range(Tail(todo)) : t.op \in Below(Head(todo))
         /\ p # <<>> => todo' # <<>> /\ Head(todo') = Head(p)
         /\ todo' # <<>> => Head(todo') \in OnStack'
<1> DEFINE S == Task \cup Range(p)
           q == Tail(todo)
<1>1. todo \in Seq(Task) /\ q \in Seq(Task)
  BY HeadTailProperties DEF ProcInv, ProcTypeOK
<1>2. p \in Seq(S) /\ q \in Seq(S)
  BY <1>1, SeqMonotonic
<1>3. /\ OnStack = {Head(todo)} \cup Range(q) /\ Ordered(q)
      /\ \A t \in Range(q) : t.op \in Below(Head(todo))
  BY <1>1, TopAndRest DEF OnStack
<1> HIDE DEF S, q
<1>4. Ordered(p \o q) /\ Range(p \o q) = Range(p) \cup Range(q)
  BY <1>2, <1>3, OrderedConcat
<1>5. todo' = p \o q /\ OnStack' = Range(p \o q) /\ p \o q \in Seq(S)
  BY <1>2, ConcatProperties DEF OnStack, q
<1>6. p # <<>> => todo' # <<>> /\ Head(todo') = Head(p)
  BY <1>2, <1>5
<1>7. todo' # <<>> => Head(todo') \in OnStack'
  BY <1>5, TopAndRest
<1> QED BY <1>3, <1>4, <1>5, <1>6, <1>7 DEF q

----------------------------------------------------------------------------
(* Steps.                                                                  *)

\* A call replaced by those it makes: if each of them has what it assumes, the
\* calls below still have, for they are the ones that may be there.
LEMMA Moved ==
  ASSUME WInv, FInv, gone = "no", todo # <<>>,
         NEW p, p \in Seq(Range(p)), Ordered(p), todo' = p \o Tail(todo),
         \A t \in Range(p) : Below(Head(todo)) \subseteq Below(t),
         \A t \in Range(p) : Ok(t)',
         UNCHANGED <<icRef, focus>>,
         (Empty => Empty') \/ Below(Head(todo)) \subseteq {"drainOn", "lines"}
  PROVE  /\ Ordered(todo)' /\ TasksOk'
         /\ OnStack = {Head(todo)} \cup Range(Tail(todo))
         /\ OnStack' = Range(p) \cup Range(Tail(todo))
         /\ \A t \in Range(Tail(todo)) : t.op \in Below(Head(todo))
         /\ p # <<>> => todo' # <<>> /\ Head(todo') = Head(p)
         /\ todo' # <<>> => Head(todo') \in OnStack'
         /\ \A ops : Has(ops) /\ Head(todo).op \notin ops => Has(ops)'
         /\ \A ops : (\E t \in Range(p) : t.op \in ops) => Has(ops)'
         /\ (\A t \in Range(p) : t.op # "arm") => ~Calling("arm")'
<1>1. ProcInv /\ Ordered(todo) /\ TasksOk
  BY Inv DEF FInv
<1>2. /\ Ordered(todo')
      /\ OnStack = {Head(todo)} \cup Range(Tail(todo))
      /\ OnStack' = Range(p) \cup Range(Tail(todo))
      /\ \A t \in Range(Tail(todo)) : t.op \in Below(Head(todo))
      /\ p # <<>> => todo' # <<>> /\ Head(todo') = Head(p)
      /\ todo' # <<>> => Head(todo') \in OnStack'
  BY <1>1, Pushed
<1>3. ASSUME NEW t \in Range(Tail(todo)) PROVE Ok(t)'
  <2>1. Ok(t) /\ t.op \in Below(Head(todo))
    BY <1>1, <1>2 DEF TasksOk
  <2>2. CASE Empty => Empty'
    BY <2>1, <2>2 DEF Ok
  <2>3. CASE Below(Head(todo)) \subseteq {"drainOn", "lines"}
    <3>1. t.op \in {"drainOn", "lines"}
      BY <2>1, <2>3
    <3> QED BY <2>1, <3>1 DEF Ok
  <2> QED BY <2>2, <2>3
<1>4. TasksOk'
  BY <1>2, <1>3 DEF TasksOk
<1>5. Ordered(todo)'
  BY <1>2 DEF Ordered
<1>6. /\ \A ops : Has(ops) /\ Head(todo).op \notin ops => Has(ops)'
      /\ \A ops : (\E t \in Range(p) : t.op \in ops) => Has(ops)'
  BY <1>2 DEF Has
<1>7. (\A t \in Range(p) : t.op # "arm") => ~Calling("arm")'
  <2>1. \A t \in Range(Tail(todo)) : t.op # "arm"
    BY <1>2 DEF Below, Ops
  <2> QED BY <1>2, <2>1 DEF Calling, Idle
<1> QED BY <1>2, <1>4, <1>5, <1>6, <1>7

\* What the invariant says of, apart from the calls.
heldVars == <<buf, cands, current, pend, queued, timer, draining, epoch, icRef, focus, gone, panel>>

\* The calls that answer for something the invariant says of the rest.
Charged == {"ui", "commit", "fallback", "clear", "drain", "drainOn"}

\* A step that changes none of that and makes calls that may be made.
LEMMA Quiet ==
  ASSUME WInv, FInv, gone = "no", todo # <<>>,
         NEW p, p \in Seq(Range(p)), Ordered(p), todo' = p \o Tail(todo),
         \A t \in Range(p) : Below(Head(todo)) \subseteq Below(t) /\ Ok(t),
         \A t \in Range(p) : /\ t.op = "commit" => ~pend
                             /\ t.op = "arm" => ~Selectable /\ Composing,
         Head(todo).op \notin Charged,
         Selecting => \E t \in Range(p) : t.op = "commit",
         UNCHANGED heldVars, EntriesOk'
  PROVE  FInv'
<1>1. FocusOk /\ WaitOk /\ PanelOk
  BY DEF FInv
<1>2. \A t : Ok(t)' <=> Ok(t)
  BY DEF heldVars, Ok, Empty, HandlerOk
<1>3. Empty => Empty'
  BY DEF heldVars, Empty
<1>4. /\ Ordered(todo)' /\ TasksOk'
      /\ OnStack = {Head(todo)} \cup Range(Tail(todo))
      /\ OnStack' = Range(p) \cup Range(Tail(todo))
      /\ \A t \in Range(Tail(todo)) : t.op \in Below(Head(todo))
      /\ todo' # <<>> => Head(todo') \in OnStack'
  BY <1>2, <1>3, Moved DEF heldVars
<1>5. \A S : Has(S) /\ Head(todo).op \notin S => Has(S)'
  BY <1>4 DEF Has
<1>6. Has({"commit"})' => Has({"commit"}) \/ ~pend
  BY <1>4 DEF Has
<1>7. Calling("arm")' => ~Selectable /\ Composing
  <2>1. \A t \in Range(Tail(todo)) : t.op # "arm"
    BY <1>4 DEF Below, Ops
  <2> QED BY <1>4, <2>1 DEF Calling, Idle
<1>8. FocusOk'
  BY <1>1 DEF FocusOk, Empty, Calling, Charged, heldVars
<1>9. WaitOk'
  <2>1. /\ pend /\ buf = <<>> => Has({"fallback"})'
        /\ ~(pend /\ current)
        /\ pend => ~Has({"commit"})'
        /\ queued = <<>> \/ pend \/ Has({"drain", "drainOn"})'
        /\ draining => Has({"drainOn"})'
    BY <1>1, <1>5, <1>6 DEF WaitOk, Calling, Charged
  <2> QED BY <1>1, <1>7, <2>1 DEF WaitOk, heldVars, Selectable, Composing
<1>10. PanelOk'
  <2>1. (Clean <=> Clean') /\ Blank' = Blank
    BY DEF Clean, Drawn, Raw, Panel, LettersOf, heldVars, Blank
  <2>2. Selecting => Has({"ui", "commit", "fallback"})'
    BY <1>4 DEF Has
  <2>3. Has({"ui", "commit", "fallback"}) => Has({"ui", "commit", "fallback"})'
    BY <1>5 DEF Charged
  <2> QED BY <1>1, <2>1, <2>2, <2>3 DEF PanelOk, heldVars
<1> QED BY <1>4, <1>8, <1>9, <1>10 DEF FInv

\* So for what Fcitx's loop starts.
LEMMA Started ==
  ASSUME FInv, gone = "no", todo = <<>>,
         NEW p, p \in Seq(Range(p)), Ordered(p), todo' = p,
         \A t \in Range(p) : Ok(t) /\ t.op \notin {"commit", "arm"},
         UNCHANGED heldVars, EntriesOk'
  PROVE  FInv'
<1>1. FocusOk /\ WaitOk /\ PanelOk /\ OnStack = {}
  BY Few DEF FInv, OnStack
<1>2. \A t : Ok(t)' <=> Ok(t)
  BY DEF heldVars, Ok, Empty, HandlerOk
<1>3. OnStack' = Range(p) /\ (todo' # <<>> => Head(todo') \in Range(p))
  BY TopAndRest DEF OnStack
<1>4. Ordered(todo)' /\ TasksOk'
  BY <1>2, <1>3 DEF TasksOk, Ordered
<1>5. \A S : ~Has(S)
  BY <1>1 DEF Has
<1>6. ~Has({"commit"})' /\ ~Calling("arm")'
  BY <1>3 DEF Has, Calling, Idle
<1>7. \A op : ~Calling(op)
  BY DEF Calling, Idle
<1>8. FocusOk'
  BY <1>1, <1>7 DEF FocusOk, Empty, heldVars
<1>9. WaitOk'
  BY <1>1, <1>5, <1>6, <1>7 DEF WaitOk, heldVars
<1>10. PanelOk'
  <2>1. (Clean <=> Clean') /\ Blank' = Blank
    BY DEF Clean, Drawn, Raw, Panel, LettersOf, heldVars, Blank
  <2> QED BY <1>1, <1>5, <1>7, <2>1 DEF PanelOk, Selecting, heldVars
<1> QED BY <1>4, <1>8, <1>9, <1>10 DEF FInv

\* A call that may be made by the one at hand.
Good(t) ==
  /\ Below(Head(todo)) \subseteq Below(t) /\ Ok(t)
  /\ t.op = "commit" => ~pend
  /\ t.op = "arm" => ~Selectable /\ Composing

\* The same for a step that makes one call, or two, or none.
LEMMA QuietFew ==
  ASSUME WInv, FInv, gone = "no", todo # <<>>, Head(todo).op \notin Charged,
         UNCHANGED heldVars, EntriesOk', NEW a, NEW b,
         \/ todo' = Tail(todo) /\ ~Selecting
         \/ todo' = <<a>> \o Tail(todo) /\ Good(a) /\ (Selecting => a.op = "commit")
         \/ /\ todo' = <<a, b>> \o Tail(todo) /\ Good(a) /\ Good(b) /\ b.op \in Below(a)
            /\ Selecting => b.op = "commit"
  PROVE  FInv'
<1>1. CASE todo' = Tail(todo) /\ ~Selecting
  <2>1. todo \in Seq(Task)
    BY Inv DEF ProcInv, ProcTypeOK
  <2>2. Tail(todo) \in Seq(Task)
    BY <2>1, HeadTailProperties
  <2>3. todo' = <<>> \o Tail(todo)
    BY <1>1, <2>2, ConcatEmptySeq
  <2> DEFINE p == <<>>
  <2>4. p \in Seq(Range(p)) /\ Ordered(p) /\ Range(p) = {} /\ todo' = p \o Tail(todo)
    BY <2>3, Few
  <2> HIDE DEF p
  <2> QED BY <1>1, <2>4, Quiet
<1>2. CASE todo' = <<a>> \o Tail(todo) /\ Good(a) /\ (Selecting => a.op = "commit")
  <2> DEFINE p == <<a>>
  <2>1. p \in Seq(Range(p)) /\ Ordered(p) /\ Range(p) = {a} /\ todo' = p \o Tail(todo)
    BY <1>2, Few
  <2> HIDE DEF p
  <2> QED BY <1>2, <2>1, Quiet DEF Good
<1>3. CASE /\ todo' = <<a, b>> \o Tail(todo) /\ Good(a) /\ Good(b) /\ b.op \in Below(a)
           /\ Selecting => b.op = "commit"
  <2> DEFINE p == <<a, b>>
  <2>1. p \in Seq(Range(p)) /\ Ordered(p) /\ Range(p) = {a, b} /\ todo' = p \o Tail(todo)
    BY <1>3, Few
  <2> HIDE DEF p
  <2> QED BY <1>3, <2>1, Quiet DEF Good
<1> QED BY <1>1, <1>2, <1>3

----------------------------------------------------------------------------
(* The engine's calls and events.                                          *)

\* The handlers of a process that is gone, called one after another.
LEMMA FailedOk ==
  ASSUME ProcInv, EntriesOk
  PROVE  LET p == FailPendingHandlers
         IN  /\ p \in Seq(Range(p)) /\ Ordered(p)
             /\ \A t \in Range(p) : t.op = "call" /\ Below(t) = Ops /\ Ok(t)
<1> DEFINE p == FailPendingHandlers
<1>1. pending \in Seq(Entry) /\ DOMAIN pending = 1..Len(pending) /\ Len(pending) \in Nat
  BY LenProperties DEF ProcInv, ProcTypeOK
<1>2. /\ DOMAIN p = 1..Len(pending)
      /\ \A i \in 1..Len(pending) : p[i] = Call(pending[i], Failed)
  BY <1>1 DEF FailPendingHandlers
<1>3. p \in [1..Len(pending) -> Range(p)]
  BY <1>1 DEF FailPendingHandlers, Range
<1> HIDE DEF p
<1>4. p \in Seq(Range(p))
  BY <1>1, <1>3
<1>5. ASSUME NEW i \in 1..Len(pending) PROVE p[i].op = "call" /\ Below(p[i]) = Ops /\ Ok(p[i])
  <2>1. pending[i] \in Range(pending)
    BY <1>1 DEF Range
  <2>2. HandlerOk(pending[i].h)
    BY <2>1 DEF EntriesOk
  <2>3. p[i].op = "call" /\ p[i].h = pending[i].h /\ p[i].resp = Failed
    BY <1>2 DEF Call
  <2> QED BY <2>2, <2>3 DEF Below, Ok
<1>6. \A t \in Range(p) : t.op = "call" /\ Below(t) = Ops /\ Ok(t)
  BY <1>2, <1>5 DEF Range
<1>7. Ordered(p)
  BY <1>2, <1>5 DEF Ordered, Ops
<1> QED BY <1>4, <1>6, <1>7 DEF p

\* EngineProc's calls.
LEMMA ProcFlow ==
  ASSUME AsUsed, WInv, FInv, gone = "no", ProcStep
  PROVE  FInv'
<1>1. ProcInv /\ TasksOk /\ EntriesOk /\ Ordered(todo)
  BY Inv DEF FInv
<1>2. ProcCalls /\ UNCHANGED heldVars
  BY DEF ProcStep, typingVars, inputVars, pendVars, ctxVars, outVars, worldVars, heldVars
<1>3. /\ todo # <<>> /\ Head(todo).op \in {"stop", "die", "send", "lines"}
      /\ todo \in Seq(Task) /\ pending \in Seq(Entry)
  BY <1>1, <1>2 DEF ProcCalls, Stop, Die, SendDead, SendBroken, SendWritten, LinesDone,
     LineBeforeReady, LineIgnored, LineAnswers, Calling, Idle, ProcInv, ProcTypeOK
<1>4. Ok(Head(todo)) /\ ~Selecting /\ Head(todo).op \notin Charged
  <2>1. Head(todo) \in OnStack
    BY <1>3, TopAndRest DEF OnStack
  <2> QED BY <1>1, <1>3, <2>1 DEF TasksOk, Selecting, Calling, Charged
<1>5. todo = <<Head(todo)>> \o Tail(todo) /\ Tail(todo) = <<>> \o Tail(todo)
  <2>1. Tail(todo) \in Seq(Task)
    BY <1>3, HeadTailProperties
  <2> QED BY <1>3, <2>1, HeadAndTail, ConcatEmptySeq
<1>6. ASSUME UNCHANGED pending \/ pending' = <<>> PROVE EntriesOk'
  BY <1>1, <1>6, Few DEF EntriesOk
<1>7. CASE Stop
  <2> DEFINE p == FailPendingHandlers
  <2>1. todo' = p \o Tail(todo) /\ pending' = <<>> /\ Head(todo).op = "stop"
    BY <1>7 DEF Stop, Calling
  <2>2. p \in Seq(Range(p)) /\ Ordered(p) /\ \A t \in Range(p) : t.op = "call" /\ Below(t) = Ops /\ Ok(t)
    BY <1>1, FailedOk
  <2> HIDE DEF p
  <2>3. Below(Head(todo)) = Ops
    BY <2>1 DEF Below
  <2> QED BY <1>2, <1>3, <1>4, <1>6, <2>1, <2>2, <2>3, Quiet
<1>8. CASE Die \/ SendBroken \/ SendDead
  <2> DEFINE c == Call(Head(todo), Failed)
  <2>1. Head(todo).op \in {"die", "send"} /\ UNCHANGED pending
    BY <1>8 DEF Die, SendBroken, SendDead, Calling
  <2>2. Below(Head(todo)) = Ops
    BY <2>1 DEF Below
  <2>3. Head(todo).op = "send" => c.op = "call" /\ Good(c)
    BY <1>4, <2>2 DEF Good, Below, Ok, Call, HandlerOk
  <2>4. \A op \in {"stop", "exit", "die"} : Do(op).op = op /\ Good(Do(op)) /\ Below(Do(op)) = Ops
    BY <2>2 DEF Good, Below, Ok, Do
  <2> HIDE DEF c
  <2>5. CASE Die
    <3> DEFINE a == Do("stop")
               b == Do("exit")
    <3>1. todo' = <<a, b>> \o Tail(todo)
      BY <2>5 DEF Die
    <3>2. Good(a) /\ Good(b) /\ b.op \in Below(a) /\ ~Selecting
      BY <1>4, <2>4 DEF Ops
    <3> HIDE DEF a, b
    <3> QED BY <1>2, <1>3, <1>4, <1>6, <2>1, <3>1, <3>2, QuietFew
  <2>6. CASE SendBroken
    <3> DEFINE a == Do("die")
    <3>1. todo' = <<a, c>> \o Tail(todo) /\ Head(todo).op = "send"
      BY <2>6 DEF SendBroken, Calling, c
    <3>2. Good(a) /\ Good(c) /\ c.op \in Below(a) /\ ~Selecting
      BY <1>4, <2>3, <2>4, <3>1 DEF Ops
    <3> HIDE DEF a
    <3> QED BY <1>2, <1>3, <1>4, <1>6, <2>1, <3>1, <3>2, QuietFew
  <2>7. CASE SendDead
    <3>1. todo' = <<c>> \o Tail(todo) /\ Head(todo).op = "send"
      BY <2>7 DEF SendDead, Calling, c
    <3> QED BY <1>2, <1>3, <1>4, <1>6, <2>1, <2>3, <3>1, QuietFew
  <2> QED BY <1>8, <2>5, <2>6, <2>7
<1>9. CASE SendWritten
  <2> DEFINE e == [line |-> Head(todo).line, h |-> Head(todo).h]
  <2>1. pending' = Append(pending, e) /\ todo' = Tail(todo) /\ Head(todo).op = "send"
    BY <1>9 DEF SendWritten, Calling
  <2>2. HandlerOk(e.h)
    BY <1>4, <2>1 DEF Ok
  <2>5. e \in Entry
    <3>1. Calling("send") /\ LocalApart
      BY <1>3, <2>1, Apart DEF Calling, Idle
    <3>2. Head(todo).line \in Line /\ Head(todo).h \in Handler
      BY <1>3, <3>1, NextCall
    <3> QED BY <3>2 DEF Entry
  <2> HIDE DEF e
  <2>3. Range(pending') = Range(pending) \cup {e}
    BY <1>3, <2>1, <2>5, RangeAppend
  <2>4. EntriesOk'
    BY <1>1, <2>2, <2>3 DEF EntriesOk
  <2> QED BY <1>2, <1>3, <1>4, <2>1, <2>4, QuietFew
<1>10. CASE LinesDone
  <2>1. todo' = Tail(todo) /\ UNCHANGED pending
    BY <1>10 DEF LinesDone
  <2> QED BY <1>2, <1>3, <1>4, <1>6, <2>1, QuietFew
<1>11. CASE LineBeforeReady \/ LineIgnored
  <2>1. UNCHANGED <<todo, pending>> /\ Head(todo).op = "lines"
    BY <1>11 DEF LineBeforeReady, LineIgnored, Calling
  <2>2. todo' = <<Head(todo)>> \o Tail(todo) /\ Good(Head(todo))
    BY <1>4, <1>5, <2>1 DEF Good
  <2> QED BY <1>2, <1>3, <1>4, <1>6, <2>1, <2>2, QuietFew
<1>12. CASE LineAnswers
  <2> DEFINE c == Call(Head(pending), Head(rbuf))
  <2>1. /\ pending # <<>> /\ pending' = Tail(pending) /\ Head(todo).op = "lines"
        /\ todo' = <<c>> \o todo
    BY <1>12 DEF LineAnswers, Calling
  <2>2. Range(pending) = {Head(pending)} \cup Range(Tail(pending))
    BY <1>3, <2>1, TopAndRest
  <2>3. EntriesOk' /\ HandlerOk(Head(pending).h)
    BY <1>1, <2>1, <2>2 DEF EntriesOk
  <2>4. c.op = "call" /\ c.h = Head(pending).h
    BY DEF Call
  <2>5. todo' = <<c, Head(todo)>> \o Tail(todo)
    <3> HIDE DEF c
    <3> QED BY <1>3, <2>1, OnTop
  <2>6. Good(c) /\ Good(Head(todo)) /\ "lines" \in Below(c)
    BY <1>4, <2>1, <2>3, <2>4 DEF Good, Below, Ok, Ops
  <2> HIDE DEF c
  <2> QED BY <1>2, <1>3, <1>4, <2>1, <2>3, <2>5, <2>6, QuietFew
<1> QED BY <1>2, <1>7, <1>8, <1>9, <1>10, <1>11, <1>12 DEF ProcCalls

\* What the loop starts is one call, or two, or none.
LEMMA StartedFew ==
  ASSUME FInv, gone = "no", todo = <<>>, UNCHANGED heldVars, UNCHANGED pending, NEW a, NEW b,
         \/ todo' = <<>>
         \/ todo' = <<a>> /\ Ok(a) /\ a.op \notin {"commit", "arm"}
         \/ /\ todo' = <<a, b>> /\ Ok(a) /\ Ok(b) /\ b.op \in Below(a)
            /\ a.op \notin {"commit", "arm"} /\ b.op \notin {"commit", "arm"}
  PROVE  FInv'
<1>1. EntriesOk'
  BY DEF FInv, EntriesOk
<1>2. CASE todo' = <<>>
  <2> DEFINE p == <<>>
  <2>1. p \in Seq(Range(p)) /\ Ordered(p) /\ Range(p) = {} /\ todo' = p
    BY <1>2, Few
  <2> HIDE DEF p
  <2> QED BY <1>1, <2>1, Started
<1>3. CASE todo' = <<a>> /\ Ok(a) /\ a.op \notin {"commit", "arm"}
  <2> DEFINE p == <<a>>
  <2>1. p \in Seq(Range(p)) /\ Ordered(p) /\ Range(p) = {a} /\ todo' = p
    BY <1>3, Few
  <2> HIDE DEF p
  <2> QED BY <1>1, <1>3, <2>1, Started
<1>4. CASE /\ todo' = <<a, b>> /\ Ok(a) /\ Ok(b) /\ b.op \in Below(a)
           /\ a.op \notin {"commit", "arm"} /\ b.op \notin {"commit", "arm"}
  <2> DEFINE p == <<a, b>>
  <2>1. p \in Seq(Range(p)) /\ Ordered(p) /\ Range(p) = {a, b} /\ todo' = p
    BY <1>4, Few
  <2> HIDE DEF p
  <2> QED BY <1>1, <1>4, <2>1, Started
<1> QED BY <1>2, <1>3, <1>4

\* The harness leaves alone what is the addon's.
LEMMA HarnessApart ==
  ASSUME HarnessStep \/ Crash
  PROVE  UNCHANGED addonVars
<1>1. \A texts : Take(texts) => UNCHANGED addonVars
  BY DEF Take
<1>2. \A skips : Search(skips) => UNCHANGED addonVars
  BY <1>1 DEF Search
<1> QED BY <1>1, <1>2 DEF HarnessStep, HarnessTakes, TakeBatches, TakeBadPick, TakePrefixPick, TakeWholePick,
        TakeClear, TakeOption, WriteLine, Crash, ChildExit

\* Its events, the harness's steps, and its death.
LEMMA EngineFlow ==
  ASSUME WInv, FInv, gone = "no",
         \/ ProcEvent(OnReadable) \/ ProcEvent(OnEof) \/ ProcEvent(OnStartTimeout)
         \/ HarnessStep \/ Crash
  PROVE  FInv'
<1>1. UNCHANGED heldVars
  BY DEF ProcEvent, HarnessStep, Crash, typingVars, inputVars, pendVars, ctxVars, outVars, worldVars, heldVars
<1>2. CASE ProcEvent(OnReadable) \/ ProcEvent(OnEof) \/ ProcEvent(OnStartTimeout)
  <2> DEFINE a == Do("lines")
             b == Do("die")
  <2>1. todo = <<>> /\ UNCHANGED pending /\ (todo' = <<a>> \/ todo' = <<b>>)
    BY <1>2 DEF ProcEvent, OnReadable, OnEof, OnStartTimeout, Idle
  <2>2. Ok(a) /\ Ok(b) /\ a.op = "lines" /\ b.op = "die"
    BY DEF Ok, Do
  <2> HIDE DEF a, b
  <2> QED BY <1>1, <2>1, <2>2, StartedFew
<1>3. CASE HarnessStep \/ Crash
  <2>1. UNCHANGED <<todo, pending>>
    BY <1>3, HarnessApart DEF addonVars
  <2> QED BY <1>1, <2>1 DEF heldVars, FInv, Ordered, TasksOk, EntriesOk, FocusOk, WaitOk, PanelOk, OnStack, Has,
       Ok, HandlerOk, Empty, Calling, Idle, Selectable, Composing, Clean, Drawn, Raw, Blank, Selecting
<1> QED BY <1>2, <1>3

----------------------------------------------------------------------------
(* Composition: the link to the engine.                                    *)

\* The call at hand has what it assumes.
LEMMA AtTop ==
  ASSUME WInv, FInv, gone = "no", NEW op, Calling(op)
  PROVE  todo # <<>> /\ Head(todo).op = op /\ Ok(Head(todo)) /\ todo \in Seq(Task)
<1>1. todo # <<>> /\ Head(todo).op = op /\ todo \in Seq(Task)
  BY Inv DEF Calling, Idle, ProcInv, ProcTypeOK
<1>2. Head(todo) \in OnStack
  BY <1>1, TopAndRest DEF OnStack
<1> QED BY <1>1, <1>2 DEF FInv, TasksOk

\* A handler made for some pinyin is one for pinyin.
LEMMA LinkFlow ==
  ASSUME WInv, FInv, gone = "no", UNCHANGED worldVars,
         RequestCandidates \/ EnsureEngine \/ ScheduleRestart \/ HandleNothing \/ HandleSpans \/ HandleStale
  PROVE  FInv'
<1>1. UNCHANGED heldVars /\ UNCHANGED pending
  BY DEF RequestCandidates, EnsureEngine, StartFork, StartRefused, ScheduleRestart, HandleNothing,
     HandleSpans, HandleStale, engineVars, typingVars, inputVars, pendVars, ctxVars, outVars, worldVars, heldVars
<1>2. EntriesOk'
  BY <1>1 DEF FInv, EntriesOk
<1>3. /\ todo # <<>> /\ Head(todo).op \in {"request", "ensure", "exit", "call"} /\ ~Selecting
      /\ Head(todo).op \notin Charged
  BY AtTop DEF RequestCandidates, EnsureEngine, ScheduleRestart, HandleNothing, HandleSpans, HandleStale,
     Selecting, Calling, Charged
<1>4. CASE ScheduleRestart \/ HandleNothing \/ HandleSpans \/ HandleStale
  <2>1. todo' = Tail(todo)
    BY <1>4 DEF ScheduleRestart, HandleNothing, HandleSpans, HandleStale, Rest
  <2> QED BY <1>1, <1>2, <1>3, <2>1, QuietFew
<1>5. CASE EnsureEngine
  <2> DEFINE a == Send(Plain("OPT"), [kind |-> "spans"])
  <2>1. todo' = Tail(todo) \/ todo' = <<a>> \o Tail(todo)
    BY <1>5 DEF EnsureEngine, StartFork, StartRefused, Rest, Greeting
  <2>2. Head(todo).op = "ensure"
    BY <1>5 DEF EnsureEngine, Calling
  <2>3. Good(a)
    BY <2>2 DEF Good, Below, Ok, HandlerOk, Send
  <2> HIDE DEF a
  <2> QED BY <1>1, <1>2, <1>3, <2>1, <2>3, QuietFew
<1>6. CASE RequestCandidates
  <2> DEFINE a == Do("ensure")
             b == Send(Batch(Head(todo).keys), HandlerFor(buf, revision))
  <2>1. \/ todo' = Tail(todo)
        \/ buf # <<>> /\ (todo' = <<a, b>> \o Tail(todo) \/ todo' = <<b>> \o Tail(todo))
    <3>1. <<b>> \in Seq({b})
      BY Few
    <3>2. <<>> \o <<b>> = <<b>> /\ <<a>> \o <<b>> = <<a, b>>
      BY <3>1, ConcatEmptySeq, Pair
    <3> QED BY <1>6, <3>2 DEF RequestCandidates, Rest, Then, IfDead
  <2>2. Head(todo).op = "request"
    BY <1>6 DEF RequestCandidates, Calling
  <2>3. Good(a) /\ a.op = "ensure" /\ Below(a) = Ops
    BY <2>2 DEF Good, Below, Ok, Do
  <2>4. b.op = "send" /\ "send" \in Ops
    BY DEF Send, Ops
  <2>5. buf # <<>> => Good(b)
    BY <2>2 DEF Good, Below, Ok, HandlerOk, HandlerFor, Send
  <2> HIDE DEF a, b
  <2> QED BY <1>1, <1>2, <1>3, <2>1, <2>3, <2>4, <2>5, QuietFew
<1> QED BY <1>4, <1>5, <1>6

----------------------------------------------------------------------------
(* Composition: committing.                                                *)

\* A panel drawn is clean, and no other has changed.
LEMMA DrawnClean ==
  ASSUME WInv, PanelOk, UNCHANGED icRef, NEW ic, ic = icRef,
         panel' = [panel EXCEPT ![ic] = Panel(Drawn', cands')]
  PROVE  Clean' /\ \A k \in IC : k # icRef' => panel'[k] = Blank
<1>1. DOMAIN panel = IC
  BY Inv DEF OutTypeOK
<1>2. icRef' \in IC => panel'[icRef'] = Panel(Drawn', cands')
  BY <1>1
<1>3. \A k \in IC : k # icRef' => panel'[k] = panel[k]
  BY <1>1
<1> QED BY <1>2, <1>3 DEF PanelOk, Clean

\* So is one that updateUI() draws, unless the context is gone.
LEMMA ShowClean ==
  ASSUME WInv, PanelOk, UNCHANGED icRef, NEW ic, ic = icRef \/ (icRef = NoIc /\ Empty'), Show(ic)
  PROVE  PanelOk'
<1>1. panel' = [panel EXCEPT ![ic] = Panel(Drawn', cands')]
  BY DEF Show, Drawn, Raw
<1>2. Blank' = Blank
  BY DEF Blank
<1>3. CASE ic = icRef
  BY <1>1, <1>2, <1>3, DrawnClean DEF PanelOk
<1>4. CASE icRef = NoIc /\ Empty'
  <2>1. Drawn' = <<>> /\ cands' = <<>> /\ DOMAIN panel = IC /\ icRef' \notin IC
    BY <1>4, Inv, EngineAssumption DEF Drawn, Empty, OutTypeOK
  <2>2. \A k \in IC : panel'[k] = panel[k] \/ panel'[k] = Blank
    BY <1>1, <2>1 DEF Blank
  <2> QED BY <1>2, <1>4, <2>1, <2>2, EngineAssumption DEF PanelOk, Clean
<1> QED BY <1>3, <1>4

\* commitText() and updateUI().
LEMMA CommitFlow ==
  ASSUME AsUsed, WInv, FInv, gone = "no", UNCHANGED worldVars, CommitText \/ UpdateUI
  PROVE  FInv'
<1>1. FocusOk /\ WaitOk /\ PanelOk /\ UNCHANGED <<focus, gone, icRef, pending>>
  BY DEF FInv, CommitText, UpdateUI, worldVars, ctxVars, engineVars
<1>2. EntriesOk'
  BY <1>1 DEF FInv, EntriesOk
<1>3. CASE CommitText
  <2> DEFINE a == Clear
             b == Ui(Head(todo).ic)
             p == <<a, b>>
  <2>1. todo # <<>> /\ Head(todo).op = "commit" /\ Ok(Head(todo)) /\ todo \in Seq(Task)
    BY <1>3, AtTop DEF CommitText
  <2>2. ~pend
    <3>1. Has({"commit"})
      BY <2>1, TopAndRest DEF Has, OnStack
    <3> QED BY <1>1, <3>1 DEF WaitOk
  <2>3. /\ buf' = <<>> /\ cands' = <<>> /\ current' = FALSE /\ UNCHANGED <<pend, queued, timer, draining, epoch, panel>>
        /\ todo' = p \o Tail(todo)
    BY <1>3 DEF CommitText, NewInput, NoCandidates, pendVars, ctxVars, Then, Rest
  <2>4. Empty'
    BY <2>2, <2>3 DEF Empty
  <2>5. /\ a.op = "send" /\ Below(a) = Ops /\ b.op = "ui" /\ Below(b) = Ops
        /\ \A t \in {a, b} : Ok(t)'
    <3>1. a.op = "send" /\ a.h.kind = "none" /\ b.op = "ui" /\ b.ic = icRef'
      BY <1>1, <2>1 DEF Ok, Clear, Send, Nobody, Ui
    <3> HIDE DEF a, b
    <3> QED BY <3>1 DEF Ok, HandlerOk, Below
  <2>6. p \in Seq(Range(p)) /\ Ordered(p) /\ Range(p) = {a, b}
    BY <2>5, Few DEF Ops
  <2>7. Below(Head(todo)) = Ops
    BY <2>1 DEF Below
  <2> HIDE DEF a, b, p
  <2>8. /\ Ordered(todo)' /\ TasksOk' /\ Has({"ui", "commit", "fallback"})' /\ ~Calling("arm")'
        /\ \A ops : Has(ops) /\ Head(todo).op \notin ops => Has(ops)'
    BY <1>1, <2>1, <2>3, <2>4, <2>5, <2>6, <2>7, Moved
  <2>9. FocusOk'
    BY <2>4 DEF FocusOk
  <2>10. WaitOk'
    BY <1>1, <2>1, <2>2, <2>3, <2>8 DEF WaitOk
  <2>11. PanelOk'
    BY <1>1, <2>3, <2>8 DEF PanelOk, Blank
  <2> QED BY <1>2, <2>8, <2>9, <2>10, <2>11 DEF FInv
<1>4. CASE UpdateUI
  <2> DEFINE p == <<>>
  <2>1. todo # <<>> /\ Head(todo).op = "ui" /\ Ok(Head(todo)) /\ todo \in Seq(Task) /\ Calling("ui")
    BY <1>4, AtTop DEF UpdateUI
  <2>2. /\ UNCHANGED <<buf, cands, current, pend, queued, timer, draining, epoch>> /\ Show(Head(todo).ic)
        /\ todo' = p \o Tail(todo)
    <3>1. Tail(todo) \in Seq(Task)
      BY <2>1, HeadTailProperties
    <3> QED BY <1>4, <3>1, ConcatEmptySeq DEF UpdateUI, inputVars, pendVars, ctxVars, Rest
  <2>3. p \in Seq(Range(p)) /\ Ordered(p) /\ Range(p) = {} /\ (Empty <=> Empty')
    BY <2>2, Few DEF Empty
  <2> HIDE DEF p
  <2>4. /\ Ordered(todo)' /\ TasksOk' /\ ~Calling("arm")'
        /\ OnStack = {Head(todo)} \cup Range(Tail(todo)) /\ OnStack' = Range(Tail(todo))
        /\ \A ops : Has(ops) /\ Head(todo).op \notin ops => Has(ops)'
    BY <1>1, <2>1, <2>2, <2>3, Moved
  <2>5. FocusOk'
    BY <1>1, <2>1, <2>3 DEF FocusOk, Calling
  <2>6. WaitOk'
    <3>1. ~(pend /\ current) /\ (Has({"commit"})' => Has({"commit"}))
      BY <1>1, <2>1, <2>4 DEF WaitOk, Calling, Has
    <3> QED BY <1>1, <2>1, <2>2, <2>4, <3>1 DEF WaitOk
  <2>7. PanelOk'
    BY <1>1, <2>1, <2>2, <2>3, ShowClean DEF Ok
  <2> QED BY <1>2, <2>4, <2>5, <2>6, <2>7 DEF FInv
<1> QED BY <1>3, <1>4

\* commitCandidate().
LEMMA SelectFlow ==
  ASSUME AsUsed, WInv, FInv, gone = "no", UNCHANGED worldVars,
         SelectNothing \/ SelectWhole \/ SelectPrefix
  PROVE  FInv'
<1> DEFINE h == Head(todo)
<1>1. FocusOk /\ WaitOk /\ PanelOk /\ UNCHANGED <<focus, gone, icRef, pending>>
  BY DEF FInv, SelectNothing, SelectWhole, SelectPrefix, worldVars, typingVars, ctxVars, engineVars
<1>2. EntriesOk'
  BY <1>1 DEF FInv, EntriesOk
<1>3. Calling("select")
  BY DEF SelectNothing, SelectWhole, SelectPrefix
<1>4. todo # <<>> /\ h.op = "select" /\ Ok(h) /\ h.ic = icRef /\ Below(h) = Ops
  BY <1>3, AtTop DEF Ok, Below
<1>5. ~(pend /\ current)
  BY <1>1, <1>4 DEF WaitOk, Calling
<1>6. CASE SelectNothing
  <2>1. todo' = Tail(todo) /\ ~Selecting
    BY <1>6 DEF SelectNothing, Rest, Selecting
  <2>2. UNCHANGED heldVars
    BY <1>6 DEF SelectNothing, typingVars, inputVars, pendVars, ctxVars, outVars, worldVars, heldVars
  <2> QED BY <1>2, <1>4, <2>1, <2>2, QuietFew DEF Charged
<1>7. CASE SelectWhole
  <2> DEFINE a == Send(Pick(h.idx, cands[h.idx].cover), Nobody)
             b == Commit(h.ic, cands[h.idx].spells)
  <2>1. todo' = <<a, b>> \o Tail(todo) /\ current
    BY <1>7 DEF SelectWhole, Rest, Then
  <2>2. UNCHANGED heldVars
    BY <1>7 DEF SelectWhole, inputVars, pendVars, ctxVars, worldVars, heldVars
  <2>3. a.op = "send" /\ a.h.kind = "none" /\ b.op = "commit" /\ b.ic = icRef
    BY <1>4 DEF Send, Nobody, Commit
  <2> HIDE DEF a, b
  <2>4. Good(a) /\ Good(b) /\ b.op \in Below(a)
    BY <1>4, <1>5, <2>1, <2>3 DEF Good, Below, Ok, HandlerOk, Ops
  <2> QED BY <1>2, <1>4, <2>1, <2>2, <2>3, <2>4, QuietFew DEF Charged
<1>8. CASE SelectPrefix
  <2> DEFINE cover == cands[h.idx].cover
             a == Send(Pick(h.idx, cover), HandlerFor(buf', revision'))
             b == Ui(h.ic)
             p == <<a, b>>
  <2>1. /\ current /\ cands # <<>> /\ cover < Len(buf) /\ cover \in Nat /\ buf' = Remaining(cover)
        /\ cands' = <<>> /\ current' = FALSE
        /\ UNCHANGED <<pend, queued, timer, draining, epoch, panel>> /\ todo' = p \o Tail(todo)
    <3>1. h.idx \in DOMAIN cands
      BY <1>8 DEF SelectPrefix
    <3>2. cands \in Seq(Cand)
      BY Inv DEF InputTypeOK
    <3>3. cands[h.idx] \in Cand /\ cands # <<>>
      BY <3>1, <3>2, LenProperties, ElementOfSeq, EmptySeq
    <3>4. cover \in Nat
      BY <3>3 DEF Cand
    <3> QED BY <1>8, <3>3, <3>4 DEF SelectPrefix, NoCandidates, pendVars, ctxVars, Then, Rest
  <2> HIDE DEF cover
  <2>2. buf' # <<>>
    <3>1. buf \in Seq(Letter) /\ Len(buf) \in Nat
      BY Inv, LenProperties DEF InputTypeOK, Pinyin
    <3>2. \A k \in (cover + 1)..Len(buf) : buf[k] \in Letter
      <4> SUFFICES ASSUME NEW k \in (cover + 1)..Len(buf) PROVE buf[k] \in Letter
        OBVIOUS
      <4>1. k \in 1..Len(buf)
        BY <2>1, <3>1
      <4> QED BY <3>1, <4>1, ElementOfSeq
    <3>3. cover + 1 \in Int /\ Len(buf) \in Int /\ cover + 1 <= Len(buf)
      BY <2>1, <3>1
    <3>4. Len(buf') = Len(buf) - (cover + 1) + 1
      BY <2>1, <3>2, <3>3, SubSeqProperties DEF Remaining
    <3>5. Len(<<>>) = 0
      OBVIOUS
    <3> QED BY <2>1, <3>1, <3>3, <3>4, <3>5
  <2>3. ~pend /\ ~Empty
    BY <1>5, <2>1 DEF Empty
  <2>4. /\ a.op = "send" /\ Below(a) = Ops /\ b.op = "ui" /\ Below(b) = Ops
        /\ \A t \in {a, b} : Ok(t)'
    <3>1. a.op = "send" /\ a.h.buf = buf' /\ b.op = "ui" /\ b.ic = icRef'
      BY <1>1, <1>4 DEF Ok, Send, HandlerFor, Ui
    <3> HIDE DEF a, b
    <3> QED BY <2>2, <3>1 DEF Ok, HandlerOk, Below
  <2>5. p \in Seq(Range(p)) /\ Ordered(p) /\ Range(p) = {a, b}
    BY <2>4, Few DEF Ops
  <2> HIDE DEF a, b, p
  <2>6. /\ Ordered(todo)' /\ TasksOk' /\ Has({"ui", "commit", "fallback"})' /\ ~Calling("arm")'
        /\ \A ops : Has(ops) /\ h.op \notin ops => Has(ops)'
    BY <1>1, <1>4, <2>1, <2>3, <2>4, <2>5, Moved
  <2>7. FocusOk'
    BY <1>1, <1>4, <2>3 DEF FocusOk, Calling
  <2>8. WaitOk'
    BY <1>1, <1>4, <2>1, <2>3, <2>6 DEF WaitOk
  <2>9. PanelOk'
    BY <1>1, <2>1, <2>6 DEF PanelOk, Blank
  <2> QED BY <1>2, <2>6, <2>7, <2>8, <2>9 DEF FInv
<1> QED BY <1>6, <1>7, <1>8

----------------------------------------------------------------------------
(* Composition: replies.                                                   *)

\* What may be put in place of the call at hand: one call, two, or none.
LEMMA SomeCalls ==
  ASSUME WInv, todo # <<>>, NEW a, NEW b, b.op \in Below(a),
         \/ todo' = Tail(todo)
         \/ todo' = <<a>> \o Tail(todo)
         \/ todo' = <<a, b>> \o Tail(todo)
  PROVE  \E p : /\ todo' = p \o Tail(todo) /\ p \in Seq(Range(p)) /\ Ordered(p)
                /\ \/ todo' = Tail(todo) /\ Range(p) = {}
                   \/ todo' = <<a>> \o Tail(todo) /\ Range(p) = {a} /\ p # <<>> /\ Head(p) = a
                   \/ todo' = <<a, b>> \o Tail(todo) /\ Range(p) = {a, b} /\ p # <<>> /\ Head(p) = a
<1>1. CASE todo' = Tail(todo)
  <2>1. todo \in Seq(Task)
    BY Inv DEF ProcInv, ProcTypeOK
  <2>2. Tail(todo) \in Seq(Task)
    BY <2>1, HeadTailProperties
  <2>3. <<>> \o Tail(todo) = Tail(todo)
    BY <2>2, ConcatEmptySeq
  <2>4. <<>> \in Seq(Range(<<>>)) /\ Ordered(<<>>) /\ Range(<<>>) = {}
    BY Few
  <2> QED BY <1>1, <2>3, <2>4
<1>2. CASE todo' = <<a>> \o Tail(todo)
  <2>1. <<a>> \in Seq(Range(<<a>>)) /\ Ordered(<<a>>) /\ Range(<<a>>) = {a} /\ <<a>> # <<>> /\ Head(<<a>>) = a
    BY Few
  <2> QED BY <1>2, <2>1
<1>3. CASE todo' = <<a, b>> \o Tail(todo)
  <2>1. /\ <<a, b>> \in Seq(Range(<<a, b>>)) /\ Ordered(<<a, b>>) /\ Range(<<a, b>>) = {a, b}
        /\ <<a, b>> # <<>> /\ Head(<<a, b>>) = a
    BY Few
  <2> QED BY <1>3, <2>1
<1> QED BY <1>1, <1>2, <1>3

\* An answer that is wanted is wanted by the context in focus, for its pinyin.
LEMMA WantedNow ==
  ASSUME AsUsed, WInv, FInv, gone = "no", Calling("call"),
         Head(todo).h.kind = "cand", Wanted(Head(todo).h, Head(todo).resp)
  PROVE  /\ buf # <<>> /\ icRef = focus /\ icRef \in IC
         /\ todo # <<>> /\ Head(todo).op = "call" /\ ~(pend /\ current)
<1>1. todo # <<>> /\ Head(todo).op = "call" /\ Ok(Head(todo))
  BY AtTop
<1>2. Head(todo).h \in Handlers /\ ProcInv /\ buf \in Seq(Letter) /\ focus \in IC
  BY Inv, AtHand DEF InputTypeOK, Pinyin, WorldTypeOK
<1>3. Head(todo).h.buf \in Seq(Letter) /\ Head(todo).h.buf # <<>>
  BY <1>1, <1>2 DEF Handlers, Ok, HandlerOk, Pinyin
<1>4. buf # <<>>
  <2>1. ForNow(Head(todo).h) \/ Preview(Head(todo).h, Head(todo).resp)
    BY DEF Wanted
  <2>2. CASE ForNow(Head(todo).h)
    BY <1>3, <2>2 DEF ForNow
  <2>3. CASE Preview(Head(todo).h, Head(todo).resp)
    <3>1. Len(Head(todo).h.buf) <= Len(buf)
      BY <2>3 DEF Preview, IsStrictPrefix, IsPrefix
    <3>2. Len(Head(todo).h.buf) \in Nat \ {0} /\ Len(<<>>) = 0
      BY <1>3, LenProperties, EmptySeq
    <3> QED BY <3>1, <3>2
  <2> QED BY <2>1, <2>2, <2>3
<1>5. icRef # NoIc
  BY DEF Wanted, SameInput
<1>6. icRef = focus
  BY <1>1, <1>4, <1>5 DEF FInv, FocusOk, Empty, Calling
<1>7. ~(pend /\ current)
  BY <1>1 DEF FInv, WaitOk, Calling
<1> QED BY <1>1, <1>2, <1>4, <1>6, <1>7

\* A request lost, and a reply that is no list.
LEMMA LostFlow ==
  ASSUME AsUsed, WInv, FInv, gone = "no", UNCHANGED worldVars, HandleLost \/ HandleRefused
  PROVE  FInv'
<1>1. FocusOk /\ WaitOk /\ PanelOk /\ UNCHANGED <<focus, gone, icRef, pending>>
  BY DEF FInv, HandleLost, HandleRefused, worldVars, ctxVars, engineVars
<1>2. EntriesOk'
  BY <1>1 DEF FInv, EntriesOk
<1>3. /\ buf # <<>> /\ icRef = focus /\ todo # <<>> /\ Head(todo).op = "call" /\ ~(pend /\ current)
  BY WantedNow DEF HandleLost, HandleRefused
<1> DEFINE a == Do("ensure")
           b == Request(buf)
           c == Clear
           d == Fallback(icRef)
<1>4. /\ a.op = "ensure" /\ b.op = "request" /\ c.op = "send" /\ c.h.kind = "none"
      /\ d.op = "fallback" /\ d.ic = icRef
  BY DEF Do, Request, Clear, Send, Nobody, Fallback
<1> HIDE DEF a, b, c, d
<1>5. \A t \in {a, b, c, d} : Below(t) = Ops /\ Ok(t)
  BY <1>4 DEF Below, Ok, HandlerOk
<1>6. Below(Head(todo)) \subseteq Ops
  BY DEF Below, Ops
<1>7. CASE HandleRefused
  <2>1. \/ todo' = <<c, b>> \o Tail(todo)
        \/ todo' = <<d>> \o Tail(todo)
        \/ todo' = <<>> \o Tail(todo)
    BY <1>7 DEF HandleRefused, Then, Rest, b, c, d
  <2>2. <<>> \o Tail(todo) = Tail(todo)
    <3>1. todo \in Seq(Task)
      BY Inv DEF ProcInv, ProcTypeOK
    <3>2. Tail(todo) \in Seq(Task)
      BY <1>3, <3>1, HeadTailProperties
    <3> QED BY <3>2, ConcatEmptySeq
  <2>3. UNCHANGED heldVars
    BY <1>7 DEF HandleRefused, pendVars, ctxVars, outVars, worldVars, heldVars
  <2>4. Good(b) /\ Good(c) /\ Good(d) /\ b.op \in Below(c) /\ ~Selecting /\ Head(todo).op \notin Charged
    BY <1>3, <1>4, <1>5, <1>6 DEF Good, Ops, Selecting, Calling, Charged
  <2> QED BY <1>2, <1>3, <2>1, <2>2, <2>3, <2>4, QuietFew
<1>8. CASE HandleLost
  <2>1. /\ UNCHANGED <<buf, cands, current, pend, queued, timer, draining, epoch>> /\ Show(icRef)
        /\ todo' = <<a, b>> \o Tail(todo) \/ todo' = Tail(todo)
    BY <1>8 DEF HandleLost, pendVars, ctxVars, Then, Rest, Revive, a, b
  <2>2. (Empty => Empty') /\ \A t : Ok(t)' <=> Ok(t)
    BY <1>1, <2>1 DEF Empty, Ok, HandlerOk
  <2>3. b.op \in Below(a)
    BY <1>4 DEF Below, Ops
  <2>4. PICK p : /\ todo' = p \o Tail(todo) /\ p \in Seq(Range(p)) /\ Ordered(p)
                 /\ \A t \in Range(p) : t \in {a, b}
    BY <1>3, <2>1, <2>3, SomeCalls
  <2>5. \A t \in Range(p) : /\ Below(Head(todo)) \subseteq Below(t) /\ t.op \in {"ensure", "request"}
                            /\ Ok(t)'
    BY <1>4, <1>5, <1>6, <2>2, <2>4
  <2>6. /\ Ordered(todo)' /\ TasksOk' /\ ~Calling("arm")'
        /\ OnStack = {Head(todo)} \cup Range(Tail(todo)) /\ OnStack' = Range(p) \cup Range(Tail(todo))
        /\ \A ops : Has(ops) /\ Head(todo).op \notin ops => Has(ops)'
    BY <1>1, <1>3, <2>2, <2>4, <2>5, Moved
  <2>7. FocusOk'
    BY <1>1, <1>3 DEF FocusOk
  <2>8. WaitOk'
    <3>1. Has({"commit"})' => Has({"commit"})
      BY <2>5, <2>6 DEF Has
    <3> QED BY <1>1, <1>3, <2>1, <2>6, <3>1 DEF WaitOk
  <2>9. PanelOk'
    BY <1>1, <2>1, ShowClean
  <2> QED BY <1>2, <2>6, <2>7, <2>8, <2>9 DEF FInv
<1> QED BY <1>7, <1>8

\* Candidates, or none, for the pinyin or for a part of it.
LEMMA CandidatesFlow ==
  ASSUME AsUsed, WInv, WInv', FInv, gone = "no", UNCHANGED worldVars, HandleCandidates
  PROVE  FInv'
<1> DEFINE h == Head(todo).h
           resp == Head(todo).resp
           found == IF Kind(resp) = "CAND" THEN Parse(resp.text) ELSE <<>>
           chosen == ForNow(h) /\ pend
           s == Select(icRef, 1)
           d == Drain(icRef)
           f == Fallback(icRef)
<1>1. FocusOk /\ WaitOk /\ PanelOk /\ UNCHANGED <<focus, gone, icRef, pending>>
  BY DEF FInv, HandleCandidates, worldVars, ctxVars, engineVars
<1>2. EntriesOk'
  BY <1>1 DEF FInv, EntriesOk
<1>3. /\ buf # <<>> /\ icRef = focus /\ icRef \in IC /\ todo # <<>> /\ Head(todo).op = "call"
      /\ ~(pend /\ current)
  BY WantedNow DEF HandleCandidates
<1>4. Below(Head(todo)) = {"lines"}
  <2>1. Kind(resp) \in {"CAND", "EMPTY"}
    BY DEF HandleCandidates
  <2>2. resp # Failed
    BY <2>1 DEF Kind, Lost
  <2> QED BY <1>3, <2>2 DEF Below
<1>5. /\ cands' = found /\ current' = ForNow(h) /\ UNCHANGED <<buf, queued, draining, epoch>>
      /\ panel' = [panel EXCEPT ![icRef] = Panel(IF pend THEN Raw ELSE buf, cands')]
      /\ IF chosen /\ cands' # <<>> THEN pend' = FALSE /\ timer' = NoTimer ELSE UNCHANGED <<pend, timer>>
      /\ \/ todo' = <<>> \o Tail(todo) /\ ~chosen
         \/ todo' = <<f>> \o Tail(todo) /\ chosen /\ cands' = <<>>
         \/ todo' = <<s, d>> \o Tail(todo) /\ chosen /\ cands' # <<>>
  BY DEF HandleCandidates, ctxVars, Then, Rest
<1>6. /\ s.op = "select" /\ s.ic = icRef /\ s.idx = 1 /\ d.op = "drain" /\ d.ic = icRef
      /\ f.op = "fallback" /\ f.ic = icRef
  BY DEF Select, Drain, Fallback
<1>7. cands' # <<>> => 1 \in DOMAIN cands'
  <2>1. cands' \in Seq(Cand)
    BY Inv DEF WInv, TypeOK, InputTypeOK
  <2> QED BY <2>1, LenProperties, EmptySeq
<1> HIDE DEF found, s, d, f
<1>8. <<>> \o Tail(todo) = Tail(todo)
  <2>1. todo \in Seq(Task)
    BY Inv DEF ProcInv, ProcTypeOK
  <2>2. Tail(todo) \in Seq(Task)
    BY <1>3, <2>1, HeadTailProperties
  <2> QED BY <2>2, ConcatEmptySeq
<1>9. \A t \in {s, d, f} : Ok(t)' /\ Below(Head(todo)) \subseteq Below(t)
  BY <1>1, <1>3, <1>4, <1>6 DEF Ok, Below, Ops
<1>10. Empty => Empty'
  BY <1>3 DEF Empty
<1>11. CASE ~chosen \/ cands' = <<>>
  <2> DEFINE p == IF chosen THEN <<f>> ELSE <<>>
  <2>1. /\ p \in Seq(Range(p)) /\ Ordered(p) /\ todo' = p \o Tail(todo) /\ UNCHANGED <<pend, timer>>
        /\ chosen => Range(p) = {f} /\ Head(p) = f /\ p # <<>>
        /\ \A t \in Range(p) : t = f
    <3>1. CASE chosen
      <4>1. p = <<f>> /\ todo' = <<f>> \o Tail(todo) /\ UNCHANGED <<pend, timer>>
        BY <1>5, <1>11, <3>1
      <4> HIDE DEF p
      <4> QED BY <3>1, <4>1, Few
    <3>2. CASE ~chosen
      <4>1. p = <<>> /\ todo' = <<>> \o Tail(todo) /\ UNCHANGED <<pend, timer>>
        BY <1>5, <3>2
      <4> HIDE DEF p
      <4> QED BY <3>2, <4>1, Few
    <3> QED BY <3>1, <3>2
  <2> HIDE DEF p
  <2>2. /\ Ordered(todo)' /\ TasksOk' /\ ~Calling("arm")'
        /\ OnStack = {Head(todo)} \cup Range(Tail(todo)) /\ OnStack' = Range(p) \cup Range(Tail(todo))
        /\ \A t \in Range(Tail(todo)) : t.op \in Below(Head(todo))
        /\ p # <<>> => todo' # <<>> /\ Head(todo') = Head(p)
        /\ \A ops : Has(ops) /\ Head(todo).op \notin ops => Has(ops)'
    BY <1>1, <1>3, <1>6, <1>9, <1>10, <2>1, Moved
  <2>3. FocusOk'
    BY <1>1, <1>3 DEF FocusOk
  <2>4. ~Has({"commit"})'
    BY <1>4, <1>6, <2>1, <2>2 DEF Has
  <2>5. pend' /\ current' => Calling("fallback")'
    BY <1>5, <1>6, <2>1, <2>2 DEF Calling, Idle
  <2>6. WaitOk'
    BY <1>1, <1>3, <1>5, <2>1, <2>2, <2>4, <2>5 DEF WaitOk
  <2>7. panel' = [panel EXCEPT ![icRef] = Panel(Drawn', cands')]
    BY <1>5, <2>1 DEF Drawn, Raw
  <2>8. PanelOk'
    BY <1>1, <2>7, DrawnClean DEF PanelOk, Blank
  <2> QED BY <1>2, <2>2, <2>3, <2>6, <2>8 DEF FInv
<1>12. CASE chosen /\ cands' # <<>>
  <2> DEFINE p == <<s, d>>
  <2>1. "drain" \in Below(s)
    BY <1>6 DEF Below, Ops
  <2>2. /\ p \in Seq(Range(p)) /\ Ordered(p) /\ todo' = p \o Tail(todo) /\ pend' = FALSE /\ timer' = NoTimer
        /\ Range(p) = {s, d} /\ Head(p) = s /\ p # <<>>
    BY <1>5, <1>6, <1>12, <2>1, Few
  <2> HIDE DEF p
  <2>3. /\ Ordered(todo)' /\ TasksOk' /\ ~Calling("arm")' /\ Has({"drain", "drainOn"})'
        /\ todo' # <<>> /\ Head(todo') = s
        /\ \A ops : Has(ops) /\ Head(todo).op \notin ops => Has(ops)'
    BY <1>1, <1>3, <1>6, <1>9, <1>10, <2>2, Moved
  <2>4. FocusOk'
    BY <1>1, <1>3 DEF FocusOk
  <2>5. WaitOk'
    BY <1>1, <1>3, <1>5, <2>2, <2>3 DEF WaitOk
  <2>6. Selecting'
    BY <1>5, <1>6, <1>7, <1>12, <2>3 DEF Selecting, Calling, Idle
  <2>7. \A k \in IC : k # icRef' => panel'[k] = panel[k]
    <3>1. DOMAIN panel = IC
      BY Inv DEF OutTypeOK
    <3> QED BY <1>1, <1>5, <3>1
  <2>8. PanelOk'
    BY <1>1, <2>6, <2>7 DEF PanelOk, Blank
  <2> QED BY <1>2, <2>3, <2>4, <2>5, <2>8 DEF FInv
<1> QED BY <1>11, <1>12

----------------------------------------------------------------------------
(* Composition: a pending Space.                                           *)

\* fallbackPending() and armPending(): a wait ends, a wait begins.
LEMMA WaitFlow ==
  ASSUME AsUsed, WInv, FInv, gone = "no", UNCHANGED worldVars, FallbackPending \/ ArmPending
  PROVE  FInv'
<1>1. FocusOk /\ WaitOk /\ PanelOk /\ UNCHANGED <<focus, gone, icRef, pending, buf, cands, current, draining, epoch>>
  BY DEF FInv, FallbackPending, ArmPending, worldVars, ctxVars, engineVars, inputVars
<1>2. EntriesOk'
  BY <1>1 DEF FInv, EntriesOk
<1>3. CASE FallbackPending
  <2> DEFINE a == Commit(Head(todo).ic, Raw)
             p == <<a>>
  <2>1. todo # <<>> /\ Head(todo).op = "fallback" /\ Ok(Head(todo))
    BY <1>3, AtTop DEF FallbackPending
  <2>2. /\ pend' = FALSE /\ timer' = NoTimer /\ queued' = <<>> /\ UNCHANGED panel
        /\ todo' = p \o Tail(todo)
    BY <1>3 DEF FallbackPending, Then, Rest, outVars
  <2>3. a.op = "commit" /\ a.ic = icRef
    BY <2>1 DEF Commit, Ok
  <2>4. Empty => Empty'
    BY <1>1, <2>2 DEF Empty
  <2>5. p \in Seq(Range(p)) /\ Ordered(p) /\ Range(p) = {a}
    BY Few
  <2> HIDE DEF a, p
  <2>6. \A t \in Range(p) : Below(Head(todo)) \subseteq Below(t) /\ Ok(t)'
    BY <1>1, <2>1, <2>3, <2>5 DEF Ok, Below
  <2>7. /\ Ordered(todo)' /\ TasksOk' /\ Has({"ui", "commit", "fallback"})' /\ ~Calling("arm")'
        /\ \A ops : Has(ops) /\ Head(todo).op \notin ops => Has(ops)'
    BY <1>1, <2>1, <2>2, <2>3, <2>4, <2>5, <2>6, Moved
  <2>8. FocusOk'
    BY <1>1, <2>1, <2>4 DEF FocusOk, Calling, Empty
  <2>9. WaitOk'
    BY <1>1, <2>1, <2>2, <2>7 DEF WaitOk
  <2>10. PanelOk'
    BY <1>1, <2>2, <2>7 DEF PanelOk, Blank
  <2> QED BY <1>2, <2>7, <2>8, <2>9, <2>10 DEF FInv
<1>4. CASE ArmPending
  <2> DEFINE a == Fallback(Head(todo).ic)
             quit == (current /\ cands = <<>>) \/ gaveUp
  <2>1. /\ todo # <<>> /\ Head(todo).op = "arm" /\ Ok(Head(todo)) /\ ~Selectable /\ Composing
    BY <1>1, <1>4, AtTop DEF ArmPending, WaitOk
  <2>2. /\ pend' = TRUE /\ timer' = [ic |-> icRef, epoch |-> epoch] /\ UNCHANGED queued
        /\ Show(Head(todo).ic) /\ Head(todo).ic = icRef /\ icRef = focus
        /\ todo' = <<a>> \o Tail(todo) \/ (~quit /\ todo' = <<>> \o Tail(todo))
        /\ quit => todo' = <<a>> \o Tail(todo)
    BY <1>4, <2>1 DEF ArmPending, Then, Rest, Ok
  <2>3. a.op = "fallback" /\ a.ic = icRef
    BY <2>2 DEF Fallback
  <2>4. \E p : /\ todo' = p \o Tail(todo) /\ p \in Seq(Range(p)) /\ Ordered(p) /\ \A t \in Range(p) : t = a
               /\ quit => p # <<>> /\ Head(p) = a
    <3> HIDE DEF a, quit
    <3>1. CASE todo' = <<a>> \o Tail(todo)
      <4>1. <<a>> \in Seq(Range(<<a>>)) /\ Ordered(<<a>>) /\ Range(<<a>>) = {a} /\ <<a>> # <<>> /\ Head(<<a>>) = a
        BY Few
      <4> QED BY <3>1, <4>1
    <3>2. CASE ~quit /\ todo' = <<>> \o Tail(todo)
      <4>1. <<>> \in Seq(Range(<<>>)) /\ Ordered(<<>>) /\ Range(<<>>) = {}
        BY Few
      <4> QED BY <3>2, <4>1
    <3> QED BY <2>2, <3>1, <3>2
  <2>5. PICK p : /\ todo' = p \o Tail(todo) /\ p \in Seq(Range(p)) /\ Ordered(p) /\ \A t \in Range(p) : t = a
                 /\ quit => p # <<>> /\ Head(p) = a
    BY <2>4
  <2> HIDE DEF a
  <2>6. Below(Head(todo)) = {"drainOn", "lines"}
    BY <2>1 DEF Below
  <2>7. \A t \in Range(p) : Below(Head(todo)) \subseteq Below(t) /\ Ok(t)' /\ t.op = "fallback"
    BY <1>1, <2>3, <2>5, <2>6 DEF Ok, Below, Ops
  <2>8. /\ Ordered(todo)' /\ TasksOk' /\ ~Calling("arm")'
        /\ OnStack' = Range(p) \cup Range(Tail(todo))
        /\ \A t \in Range(Tail(todo)) : t.op \in Below(Head(todo))
        /\ p # <<>> => todo' # <<>> /\ Head(todo') = Head(p)
        /\ \A ops : Has(ops) /\ Head(todo).op \notin ops => Has(ops)'
    BY <1>1, <2>1, <2>5, <2>6, <2>7, Moved
  <2>9. FocusOk'
    BY <1>1, <2>2 DEF FocusOk
  <2>10. WaitOk'
    <3>1. ~Has({"commit"})'
      BY <2>6, <2>7, <2>8 DEF Has
    <3>2. current => Calling("fallback")'
      BY <2>1, <2>3, <2>5, <2>8 DEF Calling, Idle, Selectable
    <3> QED BY <1>1, <2>1, <2>2, <2>8, <3>1, <3>2 DEF WaitOk, Composing
  <2>11. PanelOk'
    BY <1>1, <2>2, ShowClean
  <2> QED BY <1>2, <2>8, <2>9, <2>10, <2>11 DEF FInv
<1> QED BY <1>3, <1>4

\* drainQueued(): the keys typed meanwhile.
LEMMA DrainFlow ==
  ASSUME AsUsed, WInv, FInv, gone = "no", UNCHANGED worldVars, DrainQueued \/ DrainNext
  PROVE  FInv'
<1> DEFINE a == DrainOn(Head(todo).ic)
           k == Replay(icRef, Head(queued))
           h == Head(todo)
<1>1. FocusOk /\ WaitOk /\ PanelOk
      /\ UNCHANGED <<focus, gone, icRef, pending, buf, cands, current, pend, timer, epoch, panel>>
  BY DEF FInv, DrainQueued, DrainNext, worldVars, ctxVars, engineVars, inputVars, outVars
<1>2. EntriesOk'
  BY <1>1 DEF FInv, EntriesOk
<1>3. todo # <<>> /\ h.op \in {"drain", "drainOn"} /\ h.ic = icRef /\ icRef = focus /\ todo \in Seq(Task)
  BY AtTop DEF DrainQueued, DrainNext, Ok
<1>4. Below(h) = {"lines"} /\ (Empty <=> Empty')
  BY <1>1, <1>3 DEF Below, Empty
<1>5. FocusOk'
  BY <1>1, <1>3 DEF FocusOk
<1>6. a.op = "drainOn" /\ a.ic = icRef /\ k.op = "key" /\ k.ic = icRef /\ k.src = "queue"
  BY <1>3 DEF DrainOn, Replay
<1>7. \A t \in {a, k, h} : Below(h) \subseteq Below(t) /\ Ok(t)' /\ t.op \in {"drain", "drainOn", "key"}
  <2> HIDE DEF a, k, h
  <2> QED BY <1>1, <1>3, <1>4, <1>6 DEF Ok, Below
<1>8. CASE DrainQueued
  <2>1. /\ IF draining THEN todo' = Tail(todo) ELSE todo' = <<a>> \o Tail(todo)
        /\ draining' = TRUE /\ UNCHANGED queued /\ h.op = "drain"
    BY <1>8 DEF DrainQueued, Then, Rest, Calling
  <2> HIDE DEF a, k, h
  <2>2. ~draining
    <3>1. OnStack = {h} \cup Range(Tail(todo)) /\ \A t \in Range(Tail(todo)) : t.op \in Below(h)
      BY <1>3, TopAndRest DEF FInv, OnStack, h
    <3> QED BY <1>1, <1>4, <2>1, <3>1 DEF WaitOk, Has
  <2> DEFINE p == <<a>>
  <2>3. p \in Seq(Range(p)) /\ Ordered(p) /\ Range(p) = {a} /\ todo' = p \o Tail(todo)
    BY <2>1, <2>2, Few
  <2> HIDE DEF p
  <2>4. /\ Ordered(todo)' /\ TasksOk' /\ ~Calling("arm")' /\ Has({"drain", "drainOn"})' /\ Has({"drainOn"})'
        /\ OnStack' = Range(p) \cup Range(Tail(todo))
        /\ \A t \in Range(Tail(todo)) : t.op \in Below(h)
        /\ \A ops : Has(ops) /\ h.op \notin ops => Has(ops)'
    BY <1>1, <1>3, <1>4, <1>6, <1>7, <2>3, Moved DEF h
  <2>5. ~Has({"commit"})'
    BY <1>4, <1>6, <2>3, <2>4 DEF Has
  <2>6. WaitOk'
    BY <1>1, <1>3, <2>1, <2>4, <2>5 DEF WaitOk, Calling, h
  <2>7. PanelOk'
    <3>1. Clean <=> Clean'
      BY <1>1, <2>1 DEF Clean, Drawn, Raw, Panel, LettersOf
    <3>2. ~Selecting
      BY <2>1 DEF Selecting, Calling, h
    <3> QED BY <1>1, <2>1, <2>4, <3>1, <3>2 DEF PanelOk, Blank
  <2> QED BY <1>2, <1>5, <2>4, <2>6, <2>7 DEF FInv
<1>9. CASE DrainNext
  <2>1. /\ h.op = "drainOn"
        /\ \/ ~pend /\ todo' = <<k>> \o todo /\ UNCHANGED draining
           \/ (pend \/ queued = <<>>) /\ todo' = Tail(todo) /\ draining' = FALSE /\ UNCHANGED queued
    BY <1>3, <1>9 DEF DrainNext, Rest, Calling
  <2> HIDE DEF a, k, h
  <2>3. \A op \in {"ui", "commit", "fallback", "select"} : h.op # op
    BY <2>1
  <2>4. CASE ~pend /\ todo' = <<k, h>> \o Tail(todo) /\ UNCHANGED draining
    <3> DEFINE p == <<k, h>>
    <3>1. p \in Seq(Range(p)) /\ Ordered(p) /\ Range(p) = {k, h} /\ todo' = p \o Tail(todo)
      <4>1. h.op \in Below(k)
        BY <1>6, <2>1 DEF Below
      <4> QED BY <2>4, <4>1, Few
    <3> HIDE DEF p
    <3>2. /\ Ordered(todo)' /\ TasksOk' /\ ~Calling("arm")' /\ Has({"drain", "drainOn"})' /\ Has({"drainOn"})'
          /\ \A ops : Has(ops) /\ h.op \notin ops => Has(ops)'
      BY <1>1, <1>3, <1>4, <1>6, <1>7, <2>1, <3>1, Moved DEF h
    <3>3. WaitOk'
      BY <1>1, <2>4, <3>2 DEF WaitOk
    <3>4. PanelOk'
      <4>1. Clean <=> Clean'
        BY <1>1, <2>4 DEF Clean, Drawn, Panel
      <4>2. ~Selecting
        BY <2>3 DEF Selecting, Calling, h
      <4> QED BY <1>1, <2>3, <3>2, <4>1, <4>2 DEF PanelOk, Blank
    <3> QED BY <1>2, <1>5, <3>2, <3>3, <3>4 DEF FInv
  <2>5. CASE (pend \/ queued = <<>>) /\ todo' = <<>> \o Tail(todo) /\ draining' = FALSE /\ UNCHANGED queued
    <3> DEFINE p == <<>>
    <3>1. p \in Seq(Range(p)) /\ Ordered(p) /\ Range(p) = {} /\ todo' = p \o Tail(todo)
      BY <2>5, Few
    <3> HIDE DEF p
    <3>2. /\ Ordered(todo)' /\ TasksOk' /\ ~Calling("arm")'
          /\ OnStack' = Range(Tail(todo))
          /\ \A t \in Range(Tail(todo)) : t.op \in Below(h)
          /\ \A ops : Has(ops) /\ h.op \notin ops => Has(ops)'
      BY <1>1, <1>3, <1>4, <3>1, Moved DEF h
    <3>3. ~Has({"commit"})'
      BY <1>4, <3>2 DEF Has
    <3>4. WaitOk'
      BY <1>1, <2>1, <2>5, <3>2, <3>3 DEF WaitOk, Calling, h
    <3>5. PanelOk'
      <4>1. Clean <=> Clean'
        BY <1>1, <2>5 DEF Clean, Drawn, Raw, Panel, LettersOf
      <4>2. ~Selecting
        BY <2>3 DEF Selecting, Calling, h
      <4> QED BY <1>1, <2>3, <3>2, <4>1, <4>2 DEF PanelOk, Blank
    <3> QED BY <1>2, <1>5, <3>2, <3>4, <3>5 DEF FInv
  <2>6. Tail(todo) = <<>> \o Tail(todo)
    BY <1>3, HeadAndTail, ConcatEmptySeq
  <2>7. ~pend /\ todo' = <<k>> \o todo => todo' = <<k, h>> \o Tail(todo)
    BY <1>3, OnTop DEF h
  <2> QED BY <2>1, <2>4, <2>5, <2>6, <2>7
<1> QED BY <1>8, <1>9

----------------------------------------------------------------------------
(* Keys.                                                                   *)

\* Keys that only make calls, or move the selection.
LEMMA KeyFlow ==
  ASSUME WInv, FInv, gone = "no", KeyMakesCalls \/ KeyNext \/ KeyLetter
  PROVE  FInv'
<1>1. Calling("key") /\ icRef = Head(todo).ic /\ UNCHANGED heldVars /\ UNCHANGED pending
  BY DEF KeyMakesCalls, PendingEsc, PendingOvertaken, KeyPunctuation, KeyDigit, KeySpace, KeyReturn, KeyEsc,
     KeyPasses, KeyNext, KeyLetter, WaitingKey, KeyNow, quietVars, inputVars, pendVars, ctxVars, outVars, worldVars,
     engineVars, heldVars
<1>2. todo # <<>> /\ Head(todo).op = "key" /\ Ok(Head(todo)) /\ ~Selecting
  BY <1>1, AtTop DEF Selecting, Calling
<1>3. EntriesOk' /\ Head(todo).op \notin Charged
  BY <1>1, <1>2 DEF FInv, EntriesOk, Charged
<1>4. Below(Head(todo)) \subseteq {"drainOn", "lines"} /\ icRef = focus
  BY <1>1, <1>2 DEF Below, Ok
<1> DEFINE clear == ClearAll(icRef, TRUE, TRUE)
           fall == Fallback(icRef)
           arm == [op |-> "arm", ic |-> icRef]
           ensure == Do("ensure")
<1>5. /\ Good(clear) /\ Good(fall) /\ Good(ensure) /\ Below(ensure) = Ops
      /\ ~Selectable /\ Composing => Good(arm)
  BY <1>4 DEF Good, Below, Ok, Ops, ClearAll, Fallback, Do
<1>6. \A t : (todo' = <<t>> \o Tail(todo) /\ Good(t)) => FInv'
  BY <1>1, <1>2, <1>3, QuietFew
<1> HIDE DEF clear, fall, arm, ensure
<1>7. CASE PendingEsc \/ KeyEsc
  <2>1. todo' = <<clear>> \o Tail(todo)
    BY <1>7 DEF PendingEsc, KeyEsc, Then, Rest, clear
  <2> QED BY <1>5, <1>6, <2>1
<1>8. CASE PendingOvertaken
  <2>1. todo' = <<fall>> \o Tail(todo)
    BY <1>8 DEF PendingOvertaken, Then, Rest, fall
  <2> QED BY <1>5, <1>6, <2>1
<1>9. CASE KeyReturn
  <2> DEFINE t == Commit(icRef, buf)
  <2>1. todo' = <<t>> \o Tail(todo) /\ ~pend
    BY <1>9 DEF KeyReturn, KeyNow, Then, Rest
  <2>2. Good(t)
    BY <1>4, <2>1 DEF Good, Below, Ok, Ops, Commit
  <2> HIDE DEF t
  <2> QED BY <1>6, <2>1, <2>2
<1>10. CASE KeyDigit
  <2>1. PICK key \in Keys : Then(<<Select(icRef, key.c)>>)
    BY <1>10 DEF KeyDigit
  <2> DEFINE t == Select(icRef, key.c)
  <2>2. todo' = <<t>> \o Tail(todo)
    BY <2>1 DEF Then, Rest
  <2>3. Good(t)
    BY <1>4 DEF Good, Below, Ok, Ops, Select
  <2> HIDE DEF t
  <2> QED BY <1>6, <2>2, <2>3
<1>11. CASE KeySpace
  <2> DEFINE t == Select(icRef, selected)
  <2>1. (todo' = <<t>> \o Tail(todo)) \/ (todo' = <<arm>> \o Tail(todo) /\ ~Selectable /\ Composing)
    BY <1>11 DEF KeySpace, Then, Rest, arm
  <2>2. Good(t)
    BY <1>4 DEF Good, Below, Ok, Ops, Select
  <2> HIDE DEF t
  <2> QED BY <1>5, <1>6, <2>1, <2>2
<1>12. CASE KeyPunctuation
  <2> DEFINE a == Send(Pick(selected, cands[selected].cover), Nobody)
             b == Commit(icRef, cands[selected].spells)
             c == Commit(icRef, buf)
  <2>1. (todo' = <<a, b>> \o Tail(todo) \/ todo' = <<c>> \o Tail(todo)) /\ ~pend
    BY <1>12 DEF KeyPunctuation, KeyNow, Then, Rest
  <2>2. Good(a) /\ Good(b) /\ Good(c) /\ b.op \in Below(a)
    BY <1>4, <2>1 DEF Good, Below, Ok, Ops, HandlerOk, Send, Nobody, Commit
  <2> HIDE DEF a, b, c
  <2> QED BY <1>1, <1>2, <1>3, <2>1, <2>2, QuietFew
<1>13. CASE KeyPasses \/ KeyNext
  <2>1. todo' = Tail(todo)
    BY <1>13 DEF KeyPasses, KeyNext, Rest
  <2> QED BY <1>1, <1>2, <1>3, <2>1, QuietFew
<1>14. CASE KeyLetter
  <2>1. PICK key \in Keys : Then(IfDead(<<ensure>>) \o <<Type(key)>>)
    BY <1>14 DEF KeyLetter, ensure
  <2> DEFINE t == Type(key)
  <2>2. (todo' = <<ensure, t>> \o Tail(todo)) \/ (todo' = <<t>> \o Tail(todo))
    <3>1. <<t>> \in Seq({t})
      BY Few
    <3>2. <<>> \o <<t>> = <<t>> /\ <<ensure>> \o <<t>> = <<ensure, t>>
      BY <3>1, ConcatEmptySeq, Pair
    <3> QED BY <2>1, <3>2 DEF Then, Rest, IfDead
  <2>3. Good(t) /\ t.op = "type"
    BY <1>1, <1>4 DEF Good, Below, Ok, Type
  <2> HIDE DEF t
  <2>4. t.op \in Below(ensure)
    BY <1>5, <2>3 DEF Ops
  <2> QED BY <1>1, <1>2, <1>3, <1>5, <2>2, <2>3, <2>4, QuietFew
<1> QED BY <1>7, <1>8, <1>9, <1>10, <1>11, <1>12, <1>13, <1>14 DEF KeyMakesCalls

\* clearAll(), and a key that finds the context changed.
LEMMA ClearFlow ==
  ASSUME AsUsed, WInv, FInv, gone = "no", ClearEverything \/ KeyElsewhere
  PROVE  FInv'
<1> DEFINE c == Clear
           h == Head(todo)
           u == Ui(h.ic)
<1>1. FocusOk /\ WaitOk /\ PanelOk
      /\ UNCHANGED <<focus, gone, pending, draining, panel>>
      /\ pend' = FALSE /\ timer' = NoTimer /\ queued' = <<>>
      /\ buf' = <<>> /\ cands' = <<>> /\ current' = FALSE
  BY DEF FInv, ClearEverything, KeyElsewhere, Forget, NewInput, NoCandidates, worldVars, engineVars
<1>2. EntriesOk' /\ Empty' /\ Drawn' = <<>>
  BY <1>1 DEF FInv, EntriesOk, Empty, Drawn
<1>3. FocusOk'
  BY <1>2 DEF FocusOk
<1>4. c.op = "send" /\ c.h.kind = "none" /\ u.op = "ui" /\ u.ic = h.ic
  BY DEF Clear, Send, Nobody, Ui
<1>5. CASE ClearEverything
  <2>1. todo # <<>> /\ h.op = "clear" /\ Ok(h) /\ UNCHANGED icRef /\ todo \in Seq(Task)
        /\ todo' = (<<c>> \o (IF h.redraw THEN <<u>> ELSE <<>>)) \o Tail(todo)
    BY <1>5, AtTop DEF ClearEverything, ctxVars, Then, Rest
  <2> HIDE DEF c, u
  <2>2. (h.redraw /\ todo' = <<c, u>> \o Tail(todo)) \/ (~h.redraw /\ todo' = <<c>> \o Tail(todo))
    <3>1. <<c>> \in Seq({c})
      BY Few
    <3>2. <<c>> \o <<>> = <<c>> /\ <<c>> \o <<u>> = <<c, u>>
      BY <3>1, ConcatEmptySeq, Pair
    <3> QED BY <2>1, <3>2
  <2>3. /\ Below(h) = Ops /\ Below(c) = Ops /\ Below(u) = Ops
        /\ \A t : t = c \/ (t = u /\ h.redraw) => Ok(t)'
    BY <1>2, <1>4, <2>1 DEF Below, Ok, HandlerOk
  <2>4. PICK p : /\ todo' = p \o Tail(todo) /\ p \in Seq(Range(p)) /\ Ordered(p)
                 /\ \A t \in Range(p) : t = c \/ (t = u /\ h.redraw)
                 /\ h.redraw => u \in Range(p)
    <3>1. CASE h.redraw
      <4>1. /\ <<c, u>> \in Seq(Range(<<c, u>>)) /\ Ordered(<<c, u>>) /\ Range(<<c, u>>) = {c, u}
        BY <1>4, <2>3, Few DEF Ops
      <4> QED BY <2>2, <3>1, <4>1
    <3>2. CASE ~h.redraw
      <4>1. /\ <<c>> \in Seq(Range(<<c>>)) /\ Ordered(<<c>>) /\ Range(<<c>>) = {c}
        BY Few
      <4> QED BY <2>2, <3>2, <4>1
    <3> QED BY <3>1, <3>2
  <2>5. \A t \in Range(p) : Below(h) \subseteq Below(t) /\ Ok(t)' /\ t.op # "arm"
    BY <1>4, <2>3, <2>4
  <2>6. /\ Ordered(todo)' /\ TasksOk' /\ ~Calling("arm")' /\ (h.redraw => Has({"ui", "commit", "fallback"})')
        /\ \A ops : Has(ops) /\ h.op \notin ops => Has(ops)'
    BY <1>1, <1>2, <1>4, <2>1, <2>4, <2>5, Moved
  <2>7. WaitOk'
    BY <1>1, <2>1, <2>6 DEF WaitOk
  <2>8. PanelOk'
    <3>1. CASE h.redraw
      BY <1>1, <2>1, <2>6, <3>1 DEF PanelOk, Blank
    <3>2. CASE ~h.redraw
      <4>1. Empty
        BY <2>1, <3>2 DEF Ok
      <4>2. Clean <=> Clean'
        BY <1>1, <1>2, <2>1, <4>1 DEF Clean, Drawn, Empty, Panel
      <4> QED BY <1>1, <2>1, <2>6, <4>2 DEF PanelOk, Blank, Selecting, Calling
    <3> QED BY <3>1, <3>2
  <2> QED BY <1>2, <1>3, <2>6, <2>7, <2>8 DEF FInv
<1>6. CASE KeyElsewhere
  <2>1. /\ todo # <<>> /\ h.op = "key" /\ Ok(h) /\ icRef' = h.ic /\ icRef # h.ic /\ todo \in Seq(Task)
        /\ todo' = <<c>> \o todo
    BY <1>6, AtTop DEF KeyElsewhere
  <2>2. h.ic = focus /\ h.src = "user" /\ Below(h) = {}
    <3>1. h.src \in {"user", "queue"}
      <4>1. Calling("key") /\ ProcInv
        BY <1>6, Inv DEF KeyElsewhere
      <4> QED BY <4>1, AtHand
    <3> QED BY <2>1, <3>1 DEF Ok, Below
  <2>3. OnStack = {h} /\ Range(Tail(todo)) = {}
    BY <2>1, <2>2, TopAndRest DEF FInv, OnStack
  <2>4. \A k \in IC : panel[k] = Blank
    <3>1. ~Selecting /\ ~Has({"ui", "commit", "fallback"}) /\ ~Calling("clear")
      BY <2>1, <2>3 DEF Selecting, Calling, Has
    <3>2. icRef \in IC => Empty /\ Clean
      BY <1>1, <2>1, <2>2, <3>1, EngineAssumption DEF FocusOk, PanelOk
    <3>3. icRef \in IC => panel[icRef] = Blank
      BY <3>2 DEF Clean, Drawn, Empty, Blank
    <3> QED BY <1>1, <3>3 DEF PanelOk
  <2>5. PanelOk'
    BY <1>1, <1>2, <2>4 DEF PanelOk, Clean, Blank
  <2>6. ~draining /\ WaitOk'
    <3>1. ~draining
      BY <1>1, <2>1, <2>3 DEF WaitOk, Has
    <3>2. ~Calling("arm")'
      <4>1. Head(todo') = c
        BY <2>1
      <4> QED BY <1>4, <4>1 DEF Calling
    <3> QED BY <1>1, <3>1, <3>2 DEF WaitOk
  <2> DEFINE p == <<c, h>>
  <2>7. todo' = p \o Tail(todo)
    BY <2>1, OnTop
  <2>8. h.op \in Below(c)
    BY <1>4, <2>1 DEF Below, Ops
  <2>9. p \in Seq(Range(p)) /\ Ordered(p) /\ Range(p) = {c, h}
    BY <2>8, Few
  <2> HIDE DEF c, u, p
  <2>10. OnStack' = {c, h} /\ Ordered(todo')
    <3>1. ProcInv /\ Ordered(todo)
      BY Inv DEF FInv
    <3> HIDE DEF h
    <3>2. \A t \in Range(p) : Below(Head(todo)) \subseteq Below(t)
      BY <2>2 DEF h
    <3> QED BY <2>1, <2>3, <2>7, <2>9, <3>1, <3>2, Pushed
  <2>11. \A t \in {c, h} : Ok(t)'
    BY <1>1, <1>4, <2>1, <2>2 DEF Ok, HandlerOk
  <2>12. TasksOk' /\ Ordered(todo)'
    BY <2>10, <2>11 DEF TasksOk, Ordered
  <2> QED BY <1>2, <1>3, <2>5, <2>6, <2>12 DEF FInv
<1> QED BY <1>5, <1>6

\* A key queued, or taken back, behind a pending Space.
LEMMA QueueFlow ==
  ASSUME AsUsed, WInv, FInv, gone = "no", PendingBackQueued \/ PendingQueued
  PROVE  FInv'
<1> DEFINE f == Fallback(icRef)
           h == Head(todo)
<1>1. /\ FocusOk /\ WaitOk /\ PanelOk /\ Calling("key") /\ icRef = h.ic /\ pend
      /\ UNCHANGED <<focus, gone, icRef, pending, buf, cands, current, pend, timer, draining, epoch>>
      /\ \/ todo' = <<>> \o Tail(todo) /\ Show(icRef)
         \/ todo' = <<f>> \o Tail(todo) /\ UNCHANGED panel
  <2>1. todo \in Seq(Task)
    BY Inv DEF ProcInv, ProcTypeOK
  <2>2. CASE PendingBackQueued
    <3>1. todo # <<>> /\ todo' = Tail(todo)
      BY <2>2 DEF PendingBackQueued, WaitingKey, Calling, Idle, Rest
    <3>2. Tail(todo) \in Seq(Task)
      BY <2>1, <3>1, HeadTailProperties
    <3>3. <<>> \o Tail(todo) = Tail(todo)
      BY <3>2, ConcatEmptySeq
    <3> QED BY <2>2, <3>1, <3>3 DEF FInv, PendingBackQueued, WaitingKey, quietVars, inputVars, ctxVars, worldVars, engineVars
  <2>3. CASE PendingQueued
    <3>1. PICK key \in Keys :
            /\ WaitingKey(key) /\ UNCHANGED <<quietVars, inputVars, pend, timer, draining>>
            /\ (todo' = <<f>> \o Tail(todo) /\ UNCHANGED panel) \/ (todo' = Rest /\ Show(icRef))
      BY <2>3 DEF PendingQueued, Then, Rest
    <3>2. todo # <<>>
      BY <3>1 DEF WaitingKey, Calling, Idle
    <3>3. Tail(todo) \in Seq(Task)
      BY <2>1, <3>2, HeadTailProperties
    <3>4. <<>> \o Tail(todo) = Tail(todo)
      BY <3>3, ConcatEmptySeq
    <3> HIDE DEF f
    <3> QED BY <3>1, <3>4 DEF FInv, WaitingKey, quietVars, inputVars, ctxVars, worldVars, engineVars, Rest
  <2> QED BY <2>2, <2>3
<1>2. EntriesOk'
  BY <1>1 DEF FInv, EntriesOk
<1>3. todo # <<>> /\ h.op = "key" /\ Ok(h)
  BY <1>1, AtTop
<1>4. Below(h) \subseteq {"drainOn", "lines"} /\ f.op = "fallback" /\ f.ic = icRef
  BY <1>3 DEF Below, Fallback
<1> HIDE DEF f
<1>5. \E p : /\ todo' = p \o Tail(todo) /\ p \in Seq(Range(p)) /\ Ordered(p) /\ \A t \in Range(p) : t = f
             /\ (f \in Range(p) /\ UNCHANGED panel) \/ Show(icRef)
  <2>1. <<f>> \in Seq(Range(<<f>>)) /\ Ordered(<<f>>) /\ Range(<<f>>) = {f}
    BY Few
  <2>2. <<>> \in Seq(Range(<<>>)) /\ Ordered(<<>>) /\ Range(<<>>) = {}
    BY Few
  <2> QED BY <1>1, <2>1, <2>2
<1>6. PICK p : /\ todo' = p \o Tail(todo) /\ p \in Seq(Range(p)) /\ Ordered(p) /\ \A t \in Range(p) : t = f
               /\ (f \in Range(p) /\ UNCHANGED panel) \/ Show(icRef)
  BY <1>5
<1>7. \A t \in Range(p) : Below(h) \subseteq Below(t) /\ Ok(t)' /\ t.op = "fallback"
  BY <1>1, <1>4, <1>6 DEF Ok, Below, Ops
<1>8. Empty => Empty'
  BY <1>1 DEF Empty
<1>9. /\ Ordered(todo)' /\ TasksOk' /\ ~Calling("arm")'
      /\ OnStack' = Range(p) \cup Range(Tail(todo))
      /\ \A t \in Range(Tail(todo)) : t.op \in Below(h)
      /\ \A ops : Has(ops) /\ h.op \notin ops => Has(ops)'
      /\ f \in Range(p) => Has({"ui", "commit", "fallback"})'
  BY <1>1, <1>3, <1>4, <1>6, <1>7, <1>8, Moved
<1>10. FocusOk'
  BY <1>1, <1>3, <1>8 DEF FocusOk, Calling, Empty
<1>11. WaitOk'
  <2>1. ~Has({"commit"})' /\ ~current
    BY <1>1, <1>3, <1>4, <1>7, <1>9 DEF Has, WaitOk, Calling
  <2> QED BY <1>1, <1>3, <1>9, <2>1 DEF WaitOk
<1>12. PanelOk'
  <2>1. CASE Show(icRef)
    BY <1>1, <2>1, ShowClean
  <2>2. CASE f \in Range(p) /\ UNCHANGED panel
    BY <1>1, <1>9, <2>2 DEF PanelOk, Blank
  <2> QED BY <1>6, <2>1, <2>2
<1> QED BY <1>1, <1>2, <1>9, <1>10, <1>11, <1>12 DEF FInv

\* BackSpace on the pinyin, with a Space pending or not.
LEMMA BackFlow ==
  ASSUME AsUsed, WInv, FInv, gone = "no", PendingBackPinyin \/ KeyBack
  PROVE  FInv'
<1> DEFINE c == Clear
           r == Request(buf')
           u == Ui(icRef)
           f == Fallback(icRef)
           h == Head(todo)
<1>1. /\ FocusOk /\ WaitOk /\ PanelOk /\ Calling("key") /\ icRef = h.ic
      /\ UNCHANGED <<focus, gone, icRef, pending, pend, queued, timer, draining, epoch, panel>>
      /\ current' = FALSE
      /\ \/ todo' = <<c, r, u>> \o Tail(todo) /\ (pend => buf' # <<>>)
         \/ todo' = <<c, u>> \o Tail(todo) /\ ~pend
         \/ todo' = <<c, f>> \o Tail(todo)
  <2>1. CASE PendingBackPinyin
    <3>1. <<c>> \o <<f>> = <<c, f>>
      BY Pair
    <3>2. <<c>> \o <<r, u>> = <<c, r, u>>
      BY Triple
    <3>3. PICK key \in Keys :
            /\ WaitingKey(key) /\ current' = FALSE /\ UNCHANGED <<quietVars, pendVars, panel>>
            /\ IF buf' = <<>> THEN todo' = (<<c>> \o <<f>>) \o Tail(todo)
                              ELSE todo' = (<<c>> \o <<r, u>>) \o Tail(todo)
      BY <2>1 DEF PendingBackPinyin, Then, Rest
    <3> HIDE DEF c, r, u, f
    <3> QED BY <3>1, <3>2, <3>3 DEF FInv, WaitingKey, quietVars, pendVars, ctxVars, worldVars, engineVars
  <2>2. CASE KeyBack
    <3>1. PICK key \in Keys :
            /\ KeyNow(key) /\ current' = FALSE /\ UNCHANGED <<quietVars, pendVars, panel>>
            /\ todo' = <<c, u>> \o Tail(todo) \/ todo' = <<c, r, u>> \o Tail(todo)
      BY <2>2 DEF KeyBack, NoCandidates, Then, Rest
    <3> HIDE DEF c, r, u, f
    <3> QED BY <3>1 DEF FInv, KeyNow, quietVars, pendVars, ctxVars, worldVars, engineVars
  <2> QED BY <2>1, <2>2
<1>2. EntriesOk'
  BY <1>1 DEF FInv, EntriesOk
<1>3. todo # <<>> /\ h.op = "key" /\ Ok(h)
  BY <1>1, AtTop
<1>4. /\ Below(h) \subseteq {"drainOn", "lines"} /\ f.op = "fallback" /\ f.ic = icRef
      /\ c.op = "send" /\ c.h.kind = "none" /\ r.op = "request" /\ u.op = "ui" /\ u.ic = icRef
  BY <1>3 DEF Below, Fallback, Clear, Send, Nobody, Request, Ui
<1> HIDE DEF c, r, u, f
<1>5. \A t \in {c, r, u, f} : Below(t) = Ops /\ t.op \in Ops /\ Ok(t)'
  BY <1>1, <1>4 DEF Below, Ok, HandlerOk, Ops
<1>6. \E p : /\ todo' = p \o Tail(todo) /\ p \in Seq(Range(p)) /\ Ordered(p) /\ Range(p) \subseteq {c, r, u, f}
             /\ u \in Range(p) \/ f \in Range(p)
             /\ pend /\ buf' = <<>> => f \in Range(p)
  <2>1. <<c, r, u>> \in Seq(Range(<<c, r, u>>)) /\ Ordered(<<c, r, u>>) /\ Range(<<c, r, u>>) = {c, r, u}
    BY <1>5, Few
  <2>2. <<c, u>> \in Seq(Range(<<c, u>>)) /\ Ordered(<<c, u>>) /\ Range(<<c, u>>) = {c, u}
    BY <1>5, Few
  <2>3. <<c, f>> \in Seq(Range(<<c, f>>)) /\ Ordered(<<c, f>>) /\ Range(<<c, f>>) = {c, f}
    BY <1>5, Few
  <2> QED BY <1>1, <2>1, <2>2, <2>3
<1>7. PICK p : /\ todo' = p \o Tail(todo) /\ p \in Seq(Range(p)) /\ Ordered(p) /\ Range(p) \subseteq {c, r, u, f}
               /\ u \in Range(p) \/ f \in Range(p)
               /\ pend /\ buf' = <<>> => f \in Range(p)
  BY <1>6
<1>8. \A t \in Range(p) : Below(h) \subseteq Below(t) /\ Ok(t)' /\ t.op \in {"send", "request", "ui", "fallback"}
  BY <1>4, <1>5, <1>7 DEF Ops
<1>9. /\ Ordered(todo)' /\ TasksOk' /\ ~Calling("arm")'
      /\ OnStack' = Range(p) \cup Range(Tail(todo))
      /\ \A t \in Range(Tail(todo)) : t.op \in Below(h)
      /\ \A ops : Has(ops) /\ h.op \notin ops => Has(ops)'
      /\ Has({"ui", "commit", "fallback"})'
      /\ f \in Range(p) => Has({"fallback"})'
  BY <1>1, <1>3, <1>4, <1>7, <1>8, Moved
<1>10. FocusOk'
  BY <1>1, <1>3 DEF FocusOk, Calling, Ok
<1>11. WaitOk'
  <2>1. ~Has({"commit"})'
    BY <1>4, <1>8, <1>9 DEF Has
  <2> QED BY <1>1, <1>3, <1>7, <1>9, <2>1 DEF WaitOk
<1>12. PanelOk'
  BY <1>1, <1>9 DEF PanelOk, Blank
<1> QED BY <1>1, <1>2, <1>9, <1>10, <1>11, <1>12 DEF FInv

\* A letter joins the pinyin.
LEMMA TypeFlow ==
  ASSUME AsUsed, WInv, FInv, gone = "no", TypeLetter
  PROVE  FInv'
<1> DEFINE h == Head(todo)
           r == Request(IF h.replay THEN buf' ELSE <<h.c>>)
           p == <<r>>
<1>1. FocusOk /\ WaitOk /\ PanelOk /\ current' = FALSE /\ buf' = Append(buf, h.c) /\ Show(h.ic)
      /\ UNCHANGED <<focus, gone, icRef, pending, pend, queued, timer, draining, epoch, cands>>
      /\ todo' = p \o Tail(todo)
  BY DEF FInv, TypeLetter, quietVars, pendVars, ctxVars, worldVars, engineVars, Then, Rest
<1>2. EntriesOk'
  BY <1>1 DEF FInv, EntriesOk
<1>3. todo # <<>> /\ h.op = "type" /\ h.ic = icRef /\ icRef = focus
  BY AtTop DEF TypeLetter, Ok
<1>4. buf' # <<>>
  <2>1. buf \in Seq(Letter) /\ ProcInv
    BY Inv DEF InputTypeOK, Pinyin
  <2>2. h.c \in Letter
    BY <2>1, AtHand DEF TypeLetter
  <2> QED BY <1>1, <2>1, <2>2, AppendProperties
<1>5. Below(h) = {"drainOn", "lines"} /\ r.op = "request"
  BY <1>3 DEF Below, Request
<1>6. p \in Seq(Range(p)) /\ Ordered(p) /\ Range(p) = {r}
  BY Few
<1> HIDE DEF r, p
<1>7. \A t \in Range(p) : Below(h) \subseteq Below(t) /\ Ok(t)' /\ t.op = "request"
  BY <1>5, <1>6 DEF Below, Ok, Ops
<1>8. /\ Ordered(todo)' /\ TasksOk' /\ ~Calling("arm")'
      /\ OnStack' = Range(p) \cup Range(Tail(todo))
      /\ \A t \in Range(Tail(todo)) : t.op \in Below(h)
      /\ \A ops : Has(ops) /\ h.op \notin ops => Has(ops)'
  BY <1>1, <1>3, <1>5, <1>6, <1>7, Moved
<1>9. FocusOk'
  BY <1>1, <1>3 DEF FocusOk
<1>10. WaitOk'
  <2>1. ~Has({"commit"})'
    BY <1>5, <1>7, <1>8 DEF Has
  <2> QED BY <1>1, <1>3, <1>4, <1>8, <2>1 DEF WaitOk
<1>11. PanelOk'
  BY <1>1, <1>3, ShowClean
<1> QED BY <1>1, <1>2, <1>8, <1>9, <1>10, <1>11 DEF FInv

----------------------------------------------------------------------------
(* What Fcitx's loop starts.                                               *)

\* When the loop has its turn everything is drawn, and a composition, if there
\* is one, has the focus or lost its context.
LEMMA AtRest ==
  ASSUME FInv, gone = "no", todo = <<>>
  PROVE  /\ OnStack = {} /\ Clean /\ ~draining
         /\ pend => buf # <<>> /\ ~current
         /\ ~pend => queued = <<>> /\ timer = NoTimer
         /\ ~Empty => icRef \in {focus, NoIc}
         /\ Shown <=> ~Empty
         /\ \A r \in BOOLEAN : Ok(ClearAll(focus, Shown, r))
<1>1. FocusOk /\ WaitOk /\ PanelOk /\ OnStack = {}
  BY Few DEF FInv, OnStack
<1>2. (\A S : ~Has(S)) /\ (\A op : ~Calling(op))
  BY <1>1 DEF Has, Calling, Idle
<1>3. /\ Clean /\ ~draining
      /\ pend => buf # <<>> /\ ~current
      /\ ~pend => queued = <<>> /\ timer = NoTimer
      /\ ~Empty => icRef \in {focus, NoIc}
  BY <1>1, <1>2 DEF FocusOk, WaitOk, PanelOk, Selecting
<1>4. Shown <=> ~Empty
  BY <1>3 DEF Shown, Empty
<1>5. ASSUME NEW r \in BOOLEAN PROVE Ok(ClearAll(focus, Shown, r))
  BY <1>3, <1>4 DEF Ok, ClearAll
<1> QED BY <1>1, <1>3, <1>4, <1>5

\* Keys, clicks, resets, a switch of input method, and the two timers.
LEMMA LoopFlow ==
  ASSUME WInv, FInv, gone = "no",
         KeyEvent \/ Reset \/ SwitchInputMethod \/ Click \/ OnPendingTimer \/ OnRestartTimer
  PROVE  FInv'
<1>1. todo = <<>> /\ FocusOk /\ WaitOk /\ PanelOk
  BY DEF FInv, KeyEvent, Reset, SwitchInputMethod, Click, OnPendingTimer, OnRestartTimer, Happens, Turn, Idle
<1>2. CASE KeyEvent
  <2>1. PICK key \in Keys : todo' = <<Press(focus, key)>>
    BY <1>2 DEF KeyEvent
  <2> DEFINE a == Press(focus, key)
  <2>2. UNCHANGED heldVars /\ UNCHANGED pending
    BY <1>2 DEF KeyEvent, engineVars, typingVars, inputVars, pendVars, ctxVars, outVars, heldVars
  <2>3. Ok(a) /\ a.op = "key" /\ todo' = <<a>>
    BY <2>1 DEF Ok, Press
  <2> HIDE DEF a
  <2> QED BY <1>1, <2>2, <2>3, StartedFew
<1>3. CASE Reset
  <2> DEFINE a == Send(Plain("SAVE"), Nobody)
             b == ClearAll(focus, Shown, TRUE)
  <2>1. todo' = <<a, b>> /\ UNCHANGED heldVars /\ UNCHANGED pending
    BY <1>3 DEF Reset, engineVars, typingVars, inputVars, pendVars, ctxVars, outVars, heldVars
  <2>2. Ok(b)
    BY <1>1, AtRest
  <2>3. Ok(a) /\ a.op = "send" /\ b.op = "clear" /\ b.op \in Below(a)
    BY DEF Ok, HandlerOk, Send, Nobody, ClearAll, Below, Ops
  <2> HIDE DEF a, b
  <2> QED BY <1>1, <2>1, <2>2, <2>3, StartedFew
<1>4. CASE SwitchInputMethod
  <2> DEFINE a == ClearAll(focus, Shown, FALSE)
  <2>1. todo' = <<a>> /\ UNCHANGED heldVars /\ UNCHANGED pending
    BY <1>4 DEF SwitchInputMethod, engineVars, inputVars, pendVars, ctxVars, heldVars
  <2>2. Ok(a) /\ a.op = "clear"
    BY <1>1, AtRest DEF ClearAll
  <2> HIDE DEF a
  <2> QED BY <1>1, <2>1, <2>2, StartedFew
<1>5. CASE Click
  <2>0. PICK ic \in IC : \E i \in DOMAIN panel[ic].cands : todo' = <<Select(ic, i)>>
    BY <1>5 DEF Click
  <2>1. PICK i \in DOMAIN panel[ic].cands : todo' = <<Select(ic, i)>>
    BY <2>0
  <2> DEFINE a == Select(ic, i)
  <2>2. UNCHANGED heldVars /\ UNCHANGED pending
    BY <1>5 DEF Click, engineVars, typingVars, inputVars, pendVars, ctxVars, outVars, heldVars
  <2>3. ic = icRef
    <3>1. Blank.cands = <<>> /\ DOMAIN <<>> = {}
      BY DEF Blank, Panel
    <3> QED BY <1>1, <2>1, <3>1 DEF PanelOk
  <2>4. Ok(a) /\ a.op = "select" /\ todo' = <<a>>
    BY <2>1, <2>3 DEF Ok, Select
  <2> HIDE DEF a
  <2> QED BY <1>1, <2>2, <2>4, StartedFew
<1>6. CASE OnPendingTimer
  <2>1. CASE timer.ic = icRef /\ timer.epoch = epoch /\ pend
    <3> DEFINE a == Fallback(icRef)
    <3>1. todo' = <<a>> /\ UNCHANGED heldVars /\ UNCHANGED pending
      BY <1>6, <2>1 DEF OnPendingTimer, quietVars, engineVars, inputVars, ctxVars, worldVars, outVars, heldVars
    <3>2. Ok(a) /\ a.op = "fallback"
      BY DEF Ok, Fallback
    <3> HIDE DEF a
    <3> QED BY <1>1, <3>1, <3>2, StartedFew
  <2>2. CASE ~(timer.ic = icRef /\ timer.epoch = epoch /\ pend)
    <3>1. timer # NoTimer /\ timer' = NoTimer
          /\ UNCHANGED <<todo, pending, buf, cands, current, pend, queued, draining, epoch, icRef, focus, gone, panel>>
      BY <1>6, <2>2 DEF OnPendingTimer, quietVars, engineVars, inputVars, ctxVars, worldVars, outVars
    <3>2. pend /\ icRef = NoIc
      BY <1>1, <2>2, <3>1, AtRest DEF WaitOk
    <3>3. WaitOk'
      BY <1>1, <3>1, <3>2 DEF WaitOk, Has, OnStack, Calling, Idle, Selectable, Composing
    <3> QED BY <3>1, <3>3 DEF FInv, Ordered, TasksOk, EntriesOk, FocusOk, PanelOk, OnStack, Has,
         Ok, HandlerOk, Empty, Calling, Idle, Clean, Drawn, Raw, Blank, Selecting
  <2> QED BY <2>1, <2>2
<1>7. CASE OnRestartTimer
  <2> DEFINE a == Do("ensure")
             b == Request(buf)
  <2>1. (todo' = <<>> \/ todo' = <<a, b>>) /\ UNCHANGED heldVars /\ UNCHANGED pending
    BY <1>1, <1>7 DEF OnRestartTimer, Revive, engineVars, inputVars, pendVars, ctxVars, worldVars, outVars, heldVars
  <2>2. Ok(a) /\ Ok(b) /\ a.op = "ensure" /\ b.op = "request" /\ b.op \in Below(a)
    BY DEF Ok, Do, Request, Below, Ops
  <2> HIDE DEF a, b
  <2> QED BY <1>1, <2>1, <2>2, StartedFew
<1> QED BY <1>2, <1>3, <1>4, <1>5, <1>6, <1>7

\* The focus moves: deactivate() clears, or the context is destroyed.
LEMMA FocusFlow ==
  ASSUME WInv, FInv, gone = "no", FocusOut \/ Close
  PROVE  FInv'
<1>1. /\ todo = <<>> /\ FocusOk /\ WaitOk /\ PanelOk /\ EntriesOk /\ UNCHANGED <<pending, gone>>
      /\ UNCHANGED <<buf, cands, current, pend, queued, timer, draining, epoch>>
  BY DEF FInv, FocusOut, Close, Happens, Turn, Idle, typingVars, engineVars, inputVars, pendVars, ctxVars
<1>2. EntriesOk' /\ (Empty' <=> Empty) /\ Drawn' = Drawn /\ Blank' = Blank
  BY <1>1 DEF EntriesOk, Empty, Drawn, Raw, LettersOf, Blank, Panel
<1>3. /\ OnStack = {} /\ Clean /\ ~draining
      /\ pend => buf # <<>> /\ ~current
      /\ ~pend => queued = <<>> /\ timer = NoTimer
      /\ ~Empty => icRef \in {focus, NoIc}
      /\ Ok(ClearAll(focus, Shown, TRUE))
  BY <1>1, AtRest
<1>4. CASE FocusOut
  <2> DEFINE a == ClearAll(focus, Shown, TRUE)
  <2>1. todo' = <<a>> /\ UNCHANGED <<icRef, panel>>
    BY <1>4 DEF FocusOut, typingVars, ctxVars, outVars
  <2>2. a.op = "clear" /\ Ok(a)
    BY <1>3 DEF ClearAll
  <2> HIDE DEF a
  <2>3. todo' # <<>> /\ Head(todo') = a /\ OnStack' = {a} /\ Ordered(todo)'
    <3>1. <<a>> # <<>> /\ Head(<<a>>) = a /\ Range(<<a>>) = {a} /\ Ordered(<<a>>)
      BY Few
    <3> QED BY <2>1, <3>1 DEF OnStack, Ordered
  <2>4. TasksOk'
    <3>1. \A t \in {a} : Ok(t)'
      BY <1>2, <2>1, <2>2 DEF Ok
    <3> QED BY <2>3, <3>1 DEF TasksOk
  <2>5. Calling("clear")' /\ ~Calling("arm")'
    BY <2>2, <2>3 DEF Calling, Idle
  <2>6. FocusOk' /\ WaitOk' /\ PanelOk'
    <3>1. ~Has({"commit"})'
      BY <2>2, <2>3 DEF Has
    <3>2. Clean'
      BY <1>1, <1>2, <1>3, <2>1 DEF Clean
    <3> QED BY <1>1, <1>2, <1>3, <2>1, <2>5, <3>1, <3>2 DEF FocusOk, WaitOk, PanelOk
  <2> QED BY <1>2, <2>3, <2>4, <2>6 DEF FInv
<1>5. CASE Close
  <2>1. /\ todo' = <<>> /\ icRef' = (IF icRef = focus THEN NoIc ELSE icRef)
        /\ panel' = [panel EXCEPT ![focus] = Blank] /\ DOMAIN panel = IC
    BY <1>1, <1>5, Inv DEF Close, Blank, OutTypeOK
  <2>2. OnStack' = {} /\ Ordered(todo)' /\ TasksOk' /\ \A op : ~Calling(op)'
    BY <2>1, Few DEF OnStack, Ordered, TasksOk, Calling, Idle
  <2>3. ~Empty => icRef' = NoIc
    BY <1>3, <2>1
  <2>4. FocusOk' /\ WaitOk'
    <3>1. ~Has({"commit"})'
      BY <2>2 DEF Has
    <3>2. pend => icRef' = NoIc
      BY <2>3 DEF Empty
    <3> QED BY <1>1, <1>2, <1>3, <2>2, <2>3, <3>1, <3>2 DEF FocusOk, WaitOk
  <2>5. PanelOk'
    <3>1. \A k \in IC : panel'[k] = IF k = focus THEN Blank ELSE panel[k]
      BY <2>1
    <3>2. \A k \in IC : k # icRef' => panel'[k] = Blank
      BY <1>1, <2>1, <3>1 DEF PanelOk
    <3>3. Clean'
      BY <1>1, <1>2, <1>3, <2>1, <3>1, EngineAssumption DEF Clean
    <3> QED BY <1>2, <3>2, <3>3 DEF PanelOk
  <2> QED BY <1>2, <2>2, <2>4, <2>5 DEF FInv
<1> QED BY <1>4, <1>5

----------------------------------------------------------------------------
(* The whole.                                                              *)

\* Only the destructor's steps change how far it has come.
LEMMA GoneMoves ==
  ASSUME [Next]_vars, gone' # gone
  PROVE  Destroy \/ DestroyMembers
<1>1. CASE UNCHANGED vars
  BY <1>1 DEF vars, worldVars
<1>2. CASE (CompositionCalls /\ UNCHANGED worldVars) \/ ProcStep \/ HarnessStep \/ Crash
  BY <1>2 DEF worldVars, ProcStep, HarnessStep, Crash
<1>3. CASE KeyCalls
  BY <1>3 DEF KeyCalls, ClearEverything, KeyElsewhere, PendingEsc, PendingBackQueued, PendingBackPinyin,
     PendingOvertaken, PendingQueued, KeyLetter, TypeLetter, KeyNext, KeyPunctuation, KeyDigit, KeySpace,
     KeyReturn, KeyBack, KeyEsc, KeyPasses, quietVars, worldVars
<1>4. CASE Callback \/ Timers
  BY <1>4 DEF Callback, Timers, KeyEvent, Reset, FocusOut, Close, SwitchInputMethod, Click,
     OnPendingTimer, OnRestartTimer, quietVars, worldVars
<1>5. CASE ProcEvent(OnReadable) \/ ProcEvent(OnEof) \/ ProcEvent(OnStartTimeout)
  BY <1>5 DEF ProcEvent, worldVars
<1> QED BY <1>1, <1>2, <1>3, <1>4, <1>5 DEF Next, AddonCalls

\* A destructor that began does not stop.
LEMMA GoneStays ==
  ASSUME gone # "no", [Next]_vars
  PROVE  gone' # "no"
BY GoneMoves DEF Destroy, DestroyMembers

\* A new addon composes nothing and has one call to make.
LEMMA InitFlow ==
  ASSUME Init
  PROVE  FInv
<1> DEFINE a == Do("ensure")
<1>1. /\ todo = <<a>> /\ pending = <<>> /\ gone = "no"
      /\ buf = <<>> /\ cands = <<>> /\ current = FALSE /\ pend = FALSE /\ queued = <<>> /\ timer = NoTimer
      /\ draining = FALSE /\ icRef = NoIc /\ panel = [ic \in IC |-> Panel(<<>>, <<>>)]
  BY DEF Init, ProcInit, CompositionInit
<1>2. a.op = "ensure" /\ Ok(a)
  BY DEF Do, Ok
<1> HIDE DEF a
<1>3. OnStack = {a} /\ Ordered(todo) /\ todo # <<>> /\ Head(todo) = a /\ Range(pending) = {}
  BY <1>1, Few DEF OnStack
<1>4. TasksOk /\ EntriesOk
  BY <1>2, <1>3 DEF TasksOk, EntriesOk
<1>5. Empty /\ FocusOk
  BY <1>1 DEF Empty, FocusOk
<1>6. WaitOk
  BY <1>1, <1>2, <1>3 DEF WaitOk, Calling
<1>7. PanelOk
  BY <1>1, EngineAssumption DEF PanelOk, Clean, Blank
<1> QED BY <1>3, <1>4, <1>5, <1>6, <1>7 DEF FInv

\* Every step.
LEMMA NextFlow ==
  ASSUME AsUsed, WInv, WInv', FInv, [Next]_vars
  PROVE  FInv'
<1>1. CASE gone # "no"
  BY <1>1, GoneStays DEF FInv
<1>2. CASE gone = "no"
  <2>1. CASE UNCHANGED vars
    BY <2>1 DEF vars, procVars, addonVars, childVars, sessionVars, typingVars, inputVars, pendVars, ctxVars, linkVars,
       outVars, worldVars, FInv, Ordered, TasksOk, EntriesOk, FocusOk, WaitOk, PanelOk, OnStack, Has, Ok, HandlerOk,
       Empty, Calling, Idle, Selectable, Composing, Clean, Drawn, Raw, Blank, Selecting
  <2>2. CASE CompositionCalls /\ UNCHANGED worldVars
    BY <1>2, <2>2, CommitFlow, SelectFlow, LinkFlow, LostFlow, CandidatesFlow, WaitFlow, DrainFlow
       DEF CompositionCalls
  <2>3. CASE KeyCalls
    BY <1>2, <2>3, ClearFlow, KeyFlow, QueueFlow, BackFlow, TypeFlow DEF KeyCalls, KeyMakesCalls
  <2>4. CASE KeyEvent \/ Reset \/ SwitchInputMethod \/ Click \/ FocusOut \/ Close \/ Timers
    BY <1>2, <2>4, LoopFlow, FocusFlow DEF Timers
  <2>5. CASE Destroy \/ DestroyMembers
    BY <2>5 DEF Destroy, DestroyMembers, FInv
  <2>6. CASE \/ ProcStep \/ ProcEvent(OnReadable) \/ ProcEvent(OnEof) \/ ProcEvent(OnStartTimeout)
             \/ HarnessStep \/ Crash
    BY <1>2, <2>6, ProcFlow, EngineFlow
  <2> QED BY <2>1, <2>2, <2>3, <2>4, <2>5, <2>6 DEF Next, AddonCalls, Callback
<1> QED BY <1>1, <1>2

\* What the addon may assume of its own state at every call it makes, and what
\* it leaves to the calls still on the stack (all of wetype.cpp's callbacks).
THEOREM FInductive ==
  ASSUME AsUsed
  PROVE  Spec => []FInv
<1>1. Init => FInv
  BY InitFlow
<1>2. WInv /\ WInv' /\ FInv /\ [Next]_vars => FInv'
  BY NextFlow
<1> QED BY <1>1, <1>2, WInductive, PTL DEF Spec

\* A pending Space freezes the pinyin and its timer is the wait's own, however
\* keys, clicks, replies, deaths and contexts interleave with it (armPending,
\* handleCandidates, fallbackPending, cancelPending).
THEOREM PendingFrozenCorrect ==
  ASSUME AsUsed
  PROVE  Spec => []PendingFrozen
<1>1. FInv => PendingFrozen
  BY AtRest DEF PendingFrozen, Turn, Idle, Composing, FInv, WaitOk
<1> QED BY <1>1, FInductive, PTL

\* Whatever is composed is in the context with the focus, or in one destroyed,
\* so that deactivate() clears the right one (wetype.cpp:478-490).
THEOREM ComposedInFocusCorrect ==
  ASSUME AsUsed
  PROVE  Spec => []ComposedInFocus
<1>1. FInv => ComposedInFocus
  BY AtRest DEF ComposedInFocus, Turn, Idle, Composing, Empty
<1> QED BY <1>1, FInductive, PTL

\* The preedit of the context composed in is all that was consumed, that of
\* any other is empty: no path through the callbacks forgets updateUI().
THEOREM PreeditCompleteCorrect ==
  ASSUME AsUsed
  PROVE  Spec => []PreeditComplete
<1>1. ASSUME WInv, FInv, Turn PROVE \A ic \in IC : panel[ic].preedit = IF ic = icRef THEN Raw ELSE <<>>
  <2>1. /\ gone = "no" /\ todo = <<>> /\ Clean
        /\ ~pend => queued = <<>>
        /\ \A ic \in IC : ic # icRef => panel[ic] = Blank
    BY <1>1, AtRest DEF Turn, Idle, FInv, PanelOk
  <2>2. ~pend => Raw = buf
    <3>1. LettersOf(<<>>) = <<>>
      <4>1. [i \in DOMAIN <<>> |-> IF IsLetter(<<>>[i]) THEN <<<<>>[i].c>> ELSE <<>>] = <<>>
        OBVIOUS
      <4> QED BY <4>1, FlattenEmpty DEF LettersOf
    <3>2. buf \in Seq(Letter)
      BY <1>1, Inv DEF InputTypeOK, Pinyin
    <3>3. buf \o <<>> = buf
      BY <3>2, ConcatEmptySeq
    <3> QED BY <2>1, <3>1, <3>3 DEF Raw
  <2>3. Drawn = Raw
    BY <2>2 DEF Drawn
  <2> QED BY <2>1, <2>3 DEF Clean, Blank, Panel
<1>2. WInv /\ FInv => PreeditComplete
  BY <1>1 DEF PreeditComplete
<1> QED BY <1>2, FInductive, WInductive, PTL

\* What a click or a digit selects from is what the panel of the context
\* composed in shows, and other panels show nothing to click on.
THEOREM ShownIsSelectedCorrect ==
  ASSUME AsUsed
  PROVE  Spec => []ShownIsSelected
<1>1. FInv => ShownIsSelected
  BY AtRest DEF ShownIsSelected, Turn, Idle, FInv, PanelOk, Clean, Blank, Panel
<1> QED BY <1>1, FInductive, PTL

----------------------------------------------------------------------------
(* The calls the client makes, whatever it is called with.                 *)

\* Calls that leave the engine's process and its greeting alone.
Plainly(t) ==
  /\ t.op \in {"send", "ensure", "request", "ui", "fallback", "drain", "drainOn", "commit", "select",
              "key", "type", "arm", "clear"}
  /\ t.op = "send" => t.h.kind # "spans" /\ t.line.op # "OPT"

\* The call at hand is replaced by such calls, perhaps with one of them after
\* which it goes on.
Replaced ==
  /\ todo # <<>>
  /\ \E p : p \in Seq(Range(p)) /\ todo' = p \o Tail(todo) /\ \A t \in Range(p) : Plainly(t)

\* None, one, or two calls, the last two perhaps after another.
LEMMA ReplacedFew ==
  ASSUME WInv, todo # <<>>, NEW a, NEW b,
         \/ todo' = Tail(todo)
         \/ todo' = <<a>> \o Tail(todo) /\ Plainly(a)
         \/ todo' = <<a, b>> \o Tail(todo) /\ Plainly(a) /\ Plainly(b)
  PROVE  Replaced
<1>1. CASE todo' = Tail(todo)
  <2>1. Tail(todo) \in Seq(Task)
    BY Inv, HeadTailProperties DEF ProcInv, ProcTypeOK
  <2>2. todo' = <<>> \o Tail(todo)
    BY <1>1, <2>1, ConcatEmptySeq
  <2> DEFINE p == <<>>
  <2>3. p \in Seq(Range(p)) /\ Range(p) = {} /\ todo' = p \o Tail(todo)
    BY <2>2, Few
  <2> HIDE DEF p
  <2> QED BY <2>3 DEF Replaced
<1>2. CASE todo' = <<a>> \o Tail(todo) /\ Plainly(a)
  <2> DEFINE p == <<a>>
  <2>1. p \in Seq(Range(p)) /\ Range(p) = {a} /\ todo' = p \o Tail(todo)
    BY <1>2, Few
  <2> HIDE DEF p
  <2> QED BY <1>2, <2>1 DEF Replaced
<1>3. CASE todo' = <<a, b>> \o Tail(todo) /\ Plainly(a) /\ Plainly(b)
  <2> DEFINE p == <<a, b>>
  <2>1. p \in Seq(Range(p)) /\ Range(p) = {a, b} /\ todo' = p \o Tail(todo)
    BY <1>3, Few
  <2> HIDE DEF p
  <2> QED BY <1>3, <2>1 DEF Replaced
<1> QED BY <1>1, <1>2, <1>3

\* The calls there are.
LEMMA PlainCalls ==
  /\ \A ic : Plainly(Ui(ic)) /\ Plainly(Fallback(ic)) /\ Plainly(Drain(ic)) /\ Plainly(DrainOn(ic))
             /\ Plainly([op |-> "arm", ic |-> ic])
  /\ \A ic, x : /\ Plainly(Commit(ic, x)) /\ Plainly(Select(ic, x)) /\ Plainly(Replay(ic, x))
                /\ Plainly(Press(ic, x))
  /\ \A ic, r, c : Plainly(ClearAll(ic, r, c))
  /\ \A key : Plainly(Type(key))
  /\ \A keys : Plainly(Request(keys))
  /\ Plainly(Do("ensure")) /\ Plainly(Clear) /\ Plainly(Send(Plain("SAVE"), Nobody))
  /\ \A i, n : Plainly(Send(Pick(i, n), Nobody))
  /\ \A i, n, x, r : Plainly(Send(Pick(i, n), HandlerFor(x, r)))
  /\ \A i, x, r : Plainly(Send(Batch(i), HandlerFor(x, r)))
<1>1. /\ \A ic : Plainly(Ui(ic)) /\ Plainly(Fallback(ic)) /\ Plainly(Drain(ic)) /\ Plainly(DrainOn(ic))
      /\ \A ic : Plainly([op |-> "arm", ic |-> ic])
  BY DEF Plainly, Ui, Fallback, Drain, DrainOn
<1>2. \A ic, x : /\ Plainly(Commit(ic, x)) /\ Plainly(Select(ic, x)) /\ Plainly(Replay(ic, x))
                 /\ Plainly(Press(ic, x))
  BY DEF Plainly, Commit, Select, Replay, Press
<1>3. (\A ic, r, c : Plainly(ClearAll(ic, r, c))) /\ (\A keys : Plainly(Request(keys))) /\ Plainly(Do("ensure"))
  BY DEF Plainly, ClearAll, Request, Do
<1>4. ASSUME NEW key PROVE Plainly(Type(key))
  BY DEF Plainly, Type
<1>5. /\ Plainly(Clear) /\ Plainly(Send(Plain("SAVE"), Nobody))
      /\ \A i, n : Plainly(Send(Pick(i, n), Nobody))
      /\ \A i, n, x, r : Plainly(Send(Pick(i, n), HandlerFor(x, r)))
      /\ \A i, x, r : Plainly(Send(Batch(i), HandlerFor(x, r)))
  BY DEF Plainly, Clear, Send, Plain, Pick, Batch, Nobody, HandlerFor
<1> QED BY <1>1, <1>2, <1>3, <1>4, <1>5

\* The client's calls that have nothing to do with the engine's life.
ClientCalls ==
  \/ CommitText \/ SelectNothing \/ SelectWhole \/ SelectPrefix \/ UpdateUI \/ RequestCandidates
  \/ HandleNothing \/ HandleStale \/ HandleLost \/ HandleRefused \/ HandleCandidates
  \/ FallbackPending \/ ArmPending \/ DrainQueued \/ DrainNext \/ KeyCalls

\* What they make of the stack, and what they leave alone.
LEMMA ClientReplaces ==
  ASSUME WInv, ClientCalls
  PROVE  /\ Replaced /\ UNCHANGED <<engineVars, linkVars>>
         /\ Head(todo).op \notin {"send", "stop", "die", "exit", "ensure", "lines", "members"}
         /\ Head(todo).op = "call" => Head(todo).h.kind # "spans"
<1>1. CASE CommitText \/ UpdateUI \/ SelectNothing \/ SelectWhole \/ SelectPrefix
  <2>1. todo # <<>> /\ UNCHANGED <<engineVars, linkVars>> /\ Head(todo).op \in {"commit", "ui", "select"}
    BY <1>1 DEF CommitText, UpdateUI, SelectNothing, SelectWhole, SelectPrefix, Calling, Idle, typingVars
  <2> DEFINE c == Clear
             u == Ui(Head(todo).ic)
             x == cands[Head(todo).idx]
             k == Send(Pick(Head(todo).idx, x.cover), Nobody)
             m == Commit(Head(todo).ic, x.spells)
             l == Send(Pick(Head(todo).idx, x.cover), HandlerFor(buf', revision'))
  <2>2. \/ todo' = Tail(todo) \/ todo' = <<c, u>> \o Tail(todo) \/ todo' = <<k, m>> \o Tail(todo)
        \/ todo' = <<l, u>> \o Tail(todo)
    BY <1>1 DEF CommitText, UpdateUI, SelectNothing, SelectWhole, SelectPrefix, Then, Rest
  <2>3. Plainly(c) /\ Plainly(u) /\ Plainly(k) /\ Plainly(m)
    BY PlainCalls
  <2>4. Plainly(l)
    BY DEF Plainly, Send, Pick, HandlerFor
  <2> HIDE DEF c, u, k, m, l
  <2>5. Replaced
    BY <2>1, <2>2, <2>3, <2>4, ReplacedFew
  <2> QED BY <2>1, <2>5
<1>2. CASE RequestCandidates
  <2>1. todo # <<>> /\ UNCHANGED <<engineVars, linkVars>> /\ Head(todo).op = "request"
    BY <1>2 DEF RequestCandidates, Calling, Idle, typingVars
  <2> DEFINE a == Do("ensure")
             b == Send(Batch(Head(todo).keys), HandlerFor(buf, revision))
  <2>2. <<b>> \in Seq({b})
    BY Few
  <2>3. <<>> \o <<b>> = <<b>> /\ <<a>> \o <<b>> = <<a, b>>
    BY <2>2, ConcatEmptySeq, Pair
  <2>4. todo' = Tail(todo) \/ todo' = <<a, b>> \o Tail(todo) \/ todo' = <<b>> \o Tail(todo)
    BY <1>2, <2>3 DEF RequestCandidates, Rest, Then, IfDead
  <2>5. Plainly(a) /\ Plainly(b)
    BY PlainCalls
  <2> HIDE DEF a, b
  <2>6. Replaced
    BY <2>1, <2>4, <2>5, ReplacedFew
  <2> QED BY <2>1, <2>6
<1>3. CASE HandleNothing \/ HandleStale \/ HandleLost \/ HandleRefused \/ HandleCandidates
  <2>1. todo # <<>> /\ UNCHANGED <<engineVars, linkVars>> /\ Head(todo).op = "call" /\ Head(todo).h.kind # "spans"
    BY <1>3 DEF HandleNothing, HandleStale, HandleLost, HandleRefused, HandleCandidates, Calling, Idle, typingVars,
       Nobody
  <2> DEFINE a == Do("ensure")
             c == Clear
             r == Request(buf)
             f == Fallback(icRef)
             l == Select(icRef, 1)
             d == Drain(icRef)
  <2>2. Plainly(a) /\ Plainly(c) /\ Plainly(r) /\ Plainly(f) /\ Plainly(l) /\ Plainly(d)
    BY PlainCalls
  <2>3. \/ todo' = Tail(todo) \/ todo' = <<>> \o Tail(todo) \/ todo' = <<f>> \o Tail(todo)
        \/ todo' = <<a, r>> \o Tail(todo) \/ todo' = <<c, r>> \o Tail(todo) \/ todo' = <<l, d>> \o Tail(todo)
    BY <1>3 DEF HandleNothing, HandleStale, HandleLost, HandleRefused, HandleCandidates, Revive, Then, Rest
  <2>4. <<>> \o Tail(todo) = Tail(todo)
    <3>1. Tail(todo) \in Seq(Task)
      BY <2>1, Inv, HeadTailProperties DEF ProcInv, ProcTypeOK
    <3> QED BY <3>1, ConcatEmptySeq
  <2> HIDE DEF a, c, r, f, l, d
  <2>5. Replaced
    BY <2>1, <2>2, <2>3, <2>4, ReplacedFew
  <2> QED BY <2>1, <2>5
<1>4. CASE FallbackPending \/ ArmPending \/ DrainQueued \/ DrainNext
  <2>1. todo # <<>> /\ todo \in Seq(Task) /\ Tail(todo) \in Seq(Task)
        /\ UNCHANGED <<engineVars, linkVars>> /\ Head(todo).op \in {"fallback", "arm", "drain", "drainOn"}
    BY <1>4, Inv, HeadTailProperties DEF FallbackPending, ArmPending, DrainQueued, DrainNext, Calling, Idle,
       ProcInv, ProcTypeOK
  <2> DEFINE m == Commit(Head(todo).ic, Raw)
             f == Fallback(Head(todo).ic)
             o == DrainOn(Head(todo).ic)
             k == Replay(icRef, Head(queued))
             h == Head(todo)
  <2>2. Plainly(m) /\ Plainly(f) /\ Plainly(o) /\ Plainly(k)
    BY PlainCalls
  <2>3. \/ todo' = Tail(todo) \/ todo' = <<>> \o Tail(todo) \/ todo' = <<m>> \o Tail(todo)
        \/ todo' = <<f>> \o Tail(todo) \/ todo' = <<o>> \o Tail(todo)
        \/ todo' = <<k>> \o todo /\ h.op = "drainOn"
    BY <1>4 DEF FallbackPending, ArmPending, DrainQueued, DrainNext, Calling, Then, Rest
  <2>4. <<>> \o Tail(todo) = Tail(todo)
    BY <2>1, ConcatEmptySeq
  <2>5. <<k>> \o todo = <<k, h>> \o Tail(todo)
    <3> HIDE DEF k
    <3> QED BY <2>1, OnTop
  <2>6. h.op = "drainOn" => Plainly(h)
    BY DEF Plainly
  <2> HIDE DEF m, f, o, k, h
  <2>7. Replaced
    BY <2>1, <2>2, <2>3, <2>4, <2>5, <2>6, ReplacedFew
  <2> QED BY <2>1, <2>7
<1>5. CASE ClearEverything \/ KeyElsewhere
  <2>1. todo # <<>> /\ todo \in Seq(Task) /\ UNCHANGED <<engineVars, linkVars>> /\ Head(todo).op \in {"clear", "key"}
    BY <1>5, Inv DEF ClearEverything, KeyElsewhere, Calling, Idle, ProcInv, ProcTypeOK
  <2> DEFINE c == Clear
             u == Ui(Head(todo).ic)
             h == Head(todo)
  <2>2. Plainly(c) /\ Plainly(u)
    BY PlainCalls
  <2>3. <<c>> \o <<>> = <<c>> /\ <<c>> \o <<u>> = <<c, u>>
    <3>1. <<c>> \in Seq({c})
      BY Few
    <3> QED BY <3>1, ConcatEmptySeq, Pair
  <2>4. \/ todo' = <<c>> \o Tail(todo) \/ todo' = <<c, u>> \o Tail(todo)
        \/ todo' = <<c>> \o todo /\ h.op = "key"
    BY <1>5, <2>3 DEF ClearEverything, KeyElsewhere, Calling, Then, Rest
  <2>5. <<c>> \o todo = <<c, h>> \o Tail(todo)
    <3> HIDE DEF c
    <3> QED BY <2>1, OnTop
  <2>6. h.op = "key" => Plainly(h)
    BY DEF Plainly
  <2> HIDE DEF c, u, h
  <2>7. Replaced
    BY <2>1, <2>2, <2>4, <2>5, <2>6, ReplacedFew
  <2> QED BY <2>1, <2>7
<1>6. CASE KeyCalls /\ ~(ClearEverything \/ KeyElsewhere)
  <2>1. todo # <<>> /\ UNCHANGED <<engineVars, linkVars>> /\ Head(todo).op \in {"key", "type"}
        /\ Tail(todo) \in Seq(Task)
    <3>1. todo # <<>> /\ UNCHANGED <<engineVars, linkVars>> /\ Head(todo).op \in {"key", "type"}
      BY <1>6 DEF KeyCalls, PendingEsc, PendingBackQueued, PendingBackPinyin, PendingOvertaken, PendingQueued,
         KeyLetter, TypeLetter, KeyNext, KeyPunctuation, KeyDigit, KeySpace, KeyReturn, KeyBack, KeyEsc, KeyPasses,
         quietVars, WaitingKey, KeyNow, Calling, Idle
    <3> QED BY <3>1, Inv, HeadTailProperties DEF ProcInv, ProcTypeOK
  <2> DEFINE c == Clear
             u == Ui(icRef)
             f == Fallback(icRef)
             q == Request(buf')
             x == ClearAll(icRef, TRUE, TRUE)
             e == Do("ensure")
             o == Send(Pick(selected, cands[selected].cover), Nobody)
             m == Commit(icRef, cands[selected].spells)
             n == Commit(icRef, buf)
             a == [op |-> "arm", ic |-> icRef]
             l == Select(icRef, selected)
  <2>2. /\ Plainly(c) /\ Plainly(u) /\ Plainly(f) /\ Plainly(q) /\ Plainly(x) /\ Plainly(e) /\ Plainly(o)
        /\ Plainly(m) /\ Plainly(n) /\ Plainly(a) /\ Plainly(l)
    BY PlainCalls
  <2>3. CASE PendingEsc \/ PendingBackQueued \/ PendingOvertaken \/ PendingQueued \/ KeyNext \/ KeyEsc \/ KeyPasses
             \/ KeyReturn
    <3>1. \/ todo' = Tail(todo) \/ todo' = <<x>> \o Tail(todo) \/ todo' = <<f>> \o Tail(todo)
          \/ todo' = <<n>> \o Tail(todo)
      BY <2>3 DEF PendingEsc, PendingBackQueued, PendingOvertaken, PendingQueued, KeyNext, KeyEsc, KeyPasses,
         KeyReturn, Then, Rest
    <3> HIDE DEF c, u, f, q, x, e, o, m, n, a, l
    <3> QED BY <2>1, <2>2, <3>1, ReplacedFew
  <2>4. CASE KeyPunctuation \/ KeySpace
    <3>1. \/ todo' = <<o, m>> \o Tail(todo) \/ todo' = <<n>> \o Tail(todo)
          \/ todo' = <<l>> \o Tail(todo) \/ todo' = <<a>> \o Tail(todo)
      BY <2>4 DEF KeyPunctuation, KeySpace, Then, Rest
    <3> HIDE DEF c, u, f, q, x, e, o, m, n, a, l
    <3> QED BY <2>1, <2>2, <3>1, ReplacedFew
  <2>5. CASE KeyDigit
    <3>1. PICK key \in Keys : todo' = <<Select(icRef, key.c)>> \o Tail(todo)
      BY <2>5 DEF KeyDigit, Then, Rest
    <3> DEFINE s == Select(icRef, key.c)
    <3>2. Plainly(s) /\ todo' = <<s>> \o Tail(todo)
      BY <3>1, PlainCalls
    <3> HIDE DEF s
    <3> QED BY <2>1, <3>2, ReplacedFew
  <2>6. CASE KeyLetter
    <3>1. PICK key \in Keys : todo' = (IfDead(<<e>>) \o <<Type(key)>>) \o Tail(todo)
      BY <2>6 DEF KeyLetter, Then, Rest
    <3> DEFINE t == Type(key)
    <3>2. Plainly(t)
      BY PlainCalls
    <3>3. <<t>> \in Seq({t})
      <4> HIDE DEF t
      <4> QED BY Few
    <3>4. <<>> \o <<t>> = <<t>> /\ <<e>> \o <<t>> = <<e, t>>
      <4> HIDE DEF t
      <4> QED BY <3>3, ConcatEmptySeq, Pair
    <3>5. todo' = <<t>> \o Tail(todo) \/ todo' = <<e, t>> \o Tail(todo)
      BY <3>1, <3>4 DEF IfDead
    <3> HIDE DEF c, u, f, q, x, e, o, m, n, a, l, t
    <3> QED BY <2>1, <2>2, <3>2, <3>5, ReplacedFew
  <2>7. CASE TypeLetter
    <3> DEFINE r == Request(IF Head(todo).replay THEN buf' ELSE <<Head(todo).c>>)
    <3>1. todo' = <<r>> \o Tail(todo)
      BY <2>7 DEF TypeLetter, Then, Rest
    <3>2. Plainly(r)
      BY PlainCalls
    <3> HIDE DEF r
    <3> QED BY <2>1, <3>1, <3>2, ReplacedFew
  <2>8. CASE PendingBackPinyin \/ KeyBack
    <3>1. <<c>> \o <<f>> = <<c, f>> /\ <<c>> \o <<q, u>> = <<c, q, u>>
      BY Pair, Triple
    <3>2. \/ todo' = <<c, f>> \o Tail(todo) \/ todo' = <<c, q, u>> \o Tail(todo)
          \/ todo' = <<c, u>> \o Tail(todo)
      <4>1. CASE PendingBackPinyin
        <5>1. \/ todo' = (<<c>> \o <<f>>) \o Tail(todo) \/ todo' = (<<c>> \o <<q, u>>) \o Tail(todo)
          BY <4>1 DEF PendingBackPinyin, Then, Rest
        <5> QED BY <3>1, <5>1
      <4>2. CASE KeyBack
        BY <4>2 DEF KeyBack, Then, Rest
      <4> QED BY <2>8, <4>1, <4>2
    <3> HIDE DEF c, u, f, q, x, e, o, m, n, a, l
    <3>3. CASE todo' = <<c, q, u>> \o Tail(todo)
      <4> DEFINE p == <<c, q, u>>
      <4>1. p \in Seq(Range(p)) /\ Range(p) = {c, q, u} /\ todo' = p \o Tail(todo)
        BY <3>3, Few
      <4> HIDE DEF p
      <4> QED BY <2>1, <2>2, <4>1 DEF Replaced
    <3> QED BY <2>1, <2>2, <3>2, <3>3, ReplacedFew
  <2> QED BY <1>6, <2>1, <2>3, <2>4, <2>5, <2>6, <2>7, <2>8 DEF KeyCalls
<1> QED BY <1>1, <1>2, <1>3, <1>4, <1>5, <1>6 DEF ClientCalls

\* The stack after a call was replaced by others.
LEMMA Replacing ==
  ASSUME WInv, todo # <<>>, NEW p, p \in Seq(Range(p)), todo' = p \o Tail(todo)
  PROVE  /\ OnStack = {Head(todo)} \cup Range(Tail(todo))
         /\ OnStack' = Range(p) \cup Range(Tail(todo))
         /\ p # <<>> => todo' # <<>> /\ Head(todo') = Head(p) /\ Head(p) \in Range(p)
         /\ todo' # <<>> => Head(todo') \in OnStack' /\ Range(Tail(todo')) \subseteq OnStack'
<1> DEFINE S == Task \cup Range(p)
           q == Tail(todo)
<1>1. todo \in Seq(Task) /\ q \in Seq(Task)
  BY Inv, HeadTailProperties DEF ProcInv, ProcTypeOK
<1>2. p \in Seq(S) /\ q \in Seq(S)
  BY <1>1, SeqMonotonic
<1>3. OnStack = {Head(todo)} \cup Range(q)
  BY <1>1, TopAndRest DEF OnStack
<1> HIDE DEF S, q
<1>5. Range(p \o q) = Range(p) \cup Range(q)
  BY <1>2, RangeConcatenation
<1>6. todo' = p \o q /\ OnStack' = Range(p \o q) /\ p \o q \in Seq(S)
  BY <1>2, ConcatProperties DEF OnStack, q
<1>7. p # <<>> => todo' # <<>> /\ Head(todo') = Head(p) /\ Head(p) \in Range(p)
  <2>1. p # <<>> => Head(p) \in Range(p)
    BY HeadTailProperties
  <2> QED BY <1>2, <1>6, <2>1
<1>8. todo' # <<>> => Head(todo') \in OnStack' /\ Range(Tail(todo')) \subseteq OnStack'
  BY <1>6, TopAndRest
<1> QED BY <1>3, <1>5, <1>6, <1>7, <1>8 DEF q

----------------------------------------------------------------------------
(* The engine comes back.                                                  *)

\* Dead, it will be started again: by the timer, or a call still to be made.
Back == gone = "no" =>
  /\ alive \/ restart \/ gaveUp \/ Has({"ensure", "exit"})
  /\ Calling("stop") => Has({"exit"})

\* A step that puts none of the engine's calls on the stack.
LEMMA BackKept ==
  ASSUME WInv, FInv, Back, gone = "no", todo # <<>>, Head(todo).op \notin {"ensure", "exit", "stop"},
         NEW p, p \in Seq(Range(p)), todo' = p \o Tail(todo), \A t \in Range(p) : t.op # "stop",
         UNCHANGED <<alive, restart, gaveUp>>
  PROVE  Back'
<1>1. /\ OnStack = {Head(todo)} \cup Range(Tail(todo))
      /\ OnStack' = Range(p) \cup Range(Tail(todo))
      /\ todo' # <<>> => Head(todo') \in OnStack'
  BY Replacing
<1>2. Has({"ensure", "exit"}) => Has({"ensure", "exit"})'
  BY <1>1 DEF Has
<1>3. \A t \in Range(Tail(todo)) : t.op # "stop"
  <2>1. \A t \in Range(Tail(todo)) : t.op \in Below(Head(todo))
    BY Inv, TopAndRest DEF FInv, ProcInv, ProcTypeOK
  <2> QED BY <2>1 DEF Below, Ops
<1>4. ~Calling("stop")'
  BY <1>1, <1>3 DEF Calling, Idle
<1> QED BY <1>2, <1>4 DEF Back

\* What the loop starts, while nothing is called.
LEMMA BackStarted ==
  ASSUME Back, gone = "no", todo = <<>>, UNCHANGED <<alive, restart, gaveUp>>,
         ~Calling("stop")'
  PROVE  Back'
<1>1. ~Has({"ensure", "exit"})
  BY Few DEF Has, OnStack
<1> QED BY <1>1 DEF Back

\* EngineProc's calls.
LEMMA BackProc ==
  ASSUME WInv, FInv, Back, gone = "no", ProcStep
  PROVE  Back'
<1>1. ProcCalls /\ UNCHANGED <<restart, gone, gaveUp>>
  BY DEF ProcStep, typingVars, linkVars, worldVars, ProcCalls, Stop, Die, SendDead, SendBroken, SendWritten,
     LinesDone, LineBeforeReady, LineIgnored, LineAnswers
<1>2. todo # <<>> /\ todo \in Seq(Task) /\ Tail(todo) \in Seq(Task)
  <2>1. todo # <<>> /\ todo \in Seq(Task)
    BY <1>1, Inv DEF ProcCalls, Stop, Die, SendDead, SendBroken, SendWritten, LinesDone,
       LineBeforeReady, LineIgnored, LineAnswers, Calling, Idle, ProcInv, ProcTypeOK
  <2> QED BY <2>1, HeadTailProperties
<1>3. CASE Stop
  <2> DEFINE p == FailPendingHandlers
  <2>1. todo' = p \o Tail(todo) /\ Head(todo).op = "stop" /\ Has({"exit"})
    BY <1>3 DEF Stop, Calling, Idle, Back
  <2>2. p \in Seq(Range(p)) /\ \A t \in Range(p) : t.op = "call"
    BY Inv, FailedOk DEF FInv
  <2> HIDE DEF p
  <2>3. /\ OnStack = {Head(todo)} \cup Range(Tail(todo))
        /\ OnStack' = Range(p) \cup Range(Tail(todo))
        /\ todo' # <<>> => Head(todo') \in OnStack'
    BY <1>2, <2>1, <2>2, Replacing
  <2>4. Has({"exit"})' /\ Has({"ensure", "exit"})'
    BY <2>1, <2>3 DEF Has
  <2> QED BY <2>4 DEF Back
<1>4. CASE Die
  <2> DEFINE a == Do("stop")
             b == Do("exit")
             p == <<a, b>>
  <2>1. todo' = p \o Tail(todo) /\ b.op = "exit"
    BY <1>4 DEF Die, Do
  <2>2. p \in Seq(Range(p)) /\ b \in Range(p)
    <3> HIDE DEF a, b
    <3> QED BY Few
  <2> HIDE DEF p, a, b
  <2>3. OnStack' = Range(p) \cup Range(Tail(todo))
    BY <1>2, <2>1, <2>2, Replacing
  <2>4. Has({"exit"})' /\ Has({"ensure", "exit"})'
    BY <2>1, <2>2, <2>3 DEF Has
  <2> QED BY <2>4 DEF Back
<1>5. CASE SendDead \/ SendBroken \/ SendWritten \/ LinesDone
  <2> DEFINE a == Do("die")
             c == Call(Head(todo), Failed)
  <2>1. /\ UNCHANGED alive /\ Head(todo).op \in {"send", "lines"}
        /\ todo' = Tail(todo) \/ todo' = <<c>> \o Tail(todo) \/ todo' = <<a, c>> \o Tail(todo)
    BY <1>5 DEF SendDead, SendBroken, SendWritten, LinesDone, Calling
  <2>2. a.op = "die" /\ c.op = "call"
    BY DEF Do, Call
  <2>3. <<>> \o Tail(todo) = Tail(todo)
    BY <1>2, ConcatEmptySeq
  <2> HIDE DEF a, c
  <2>4. \E p : p \in Seq(Range(p)) /\ todo' = p \o Tail(todo) /\ \A t \in Range(p) : t.op # "stop"
    <3>1. <<>> \in Seq(Range(<<>>)) /\ Range(<<>>) = {}
      BY Few
    <3>2. <<c>> \in Seq(Range(<<c>>)) /\ Range(<<c>>) = {c}
      BY Few
    <3>3. <<a, c>> \in Seq(Range(<<a, c>>)) /\ Range(<<a, c>>) = {a, c}
      BY Few
    <3>4. CASE todo' = Tail(todo)
      BY <2>3, <3>1, <3>4
    <3>5. CASE todo' = <<c>> \o Tail(todo)
      BY <2>2, <3>2, <3>5
    <3>6. CASE todo' = <<a, c>> \o Tail(todo)
      BY <2>2, <3>3, <3>6
    <3> QED BY <2>1, <3>4, <3>5, <3>6
  <2>5. PICK p : p \in Seq(Range(p)) /\ todo' = p \o Tail(todo) /\ \A t \in Range(p) : t.op # "stop"
    BY <2>4
  <2> QED BY <1>1, <1>2, <2>1, <2>5, BackKept
<1>6. CASE LineBeforeReady \/ LineIgnored
  <2>1. UNCHANGED <<todo, alive>>
    BY <1>6 DEF LineBeforeReady, LineIgnored
  <2> QED BY <1>1, <2>1 DEF Back, Has, OnStack, Calling, Idle
<1>7. CASE LineAnswers
  <2> DEFINE c == Call(Head(pending), Head(rbuf))
             h == Head(todo)
             p == <<c, h>>
  <2>1. UNCHANGED alive /\ h.op = "lines" /\ todo' = <<c>> \o todo /\ c.op = "call"
    BY <1>7 DEF LineAnswers, Calling, Call
  <2>2. todo' = p \o Tail(todo)
    <3> HIDE DEF c
    <3> QED BY <1>2, <2>1, OnTop
  <2> HIDE DEF c
  <2>3. p \in Seq(Range(p)) /\ Range(p) = {c, h}
    BY Few
  <2> HIDE DEF p
  <2> QED BY <1>1, <1>2, <2>1, <2>2, <2>3, BackKept
<1> QED BY <1>1, <1>3, <1>4, <1>5, <1>6, <1>7 DEF ProcCalls

\* Every step, if a process can always be had.
LEMMA BackNext ==
  ASSUME AsUsed, ~ForkMayFail, WInv, FInv, Back, [Next]_vars
  PROVE  Back'
<1>1. CASE gone # "no"
  BY <1>1, GoneStays DEF Back
<1>2. CASE gone = "no" /\ UNCHANGED vars
  BY <1>2 DEF vars, procVars, addonVars, typingVars, linkVars, worldVars, Back, Has, OnStack, Calling, Idle
<1>3. CASE gone = "no" /\ ClientCalls
  <2>1. /\ Replaced /\ UNCHANGED <<alive, restart, gaveUp>>
        /\ Head(todo).op \notin {"ensure", "exit", "stop"}
    BY <1>3, ClientReplaces DEF engineVars, linkVars
  <2>2. PICK p : p \in Seq(Range(p)) /\ todo' = p \o Tail(todo) /\ \A t \in Range(p) : Plainly(t)
    BY <2>1 DEF Replaced
  <2>3. \A t \in Range(p) : t.op # "stop"
    BY <2>2 DEF Plainly
  <2> QED BY <1>3, <2>1, <2>2, <2>3, BackKept DEF Replaced
<1>4. CASE gone = "no" /\ (ScheduleRestart \/ HandleSpans \/ EnsureEngine)
  <2>1. todo # <<>> /\ Tail(todo) \in Seq(Task) /\ todo \in Seq(Task)
    BY <1>4, Inv, HeadTailProperties DEF ScheduleRestart, HandleSpans, EnsureEngine, Calling, Idle, ProcInv, ProcTypeOK
  <2> DEFINE g == Send(Plain("OPT"), [kind |-> "spans"])
  <2>2. todo' = <<>> \o Tail(todo) \/ todo' = <<g>> \o Tail(todo)
    <3>1. <<>> \o Tail(todo) = Tail(todo)
      BY <2>1, ConcatEmptySeq
    <3> QED BY <1>4, <3>1 DEF ScheduleRestart, HandleSpans, EnsureEngine, StartFork, StartRefused, Rest, Greeting
  <2>3. g.op = "send"
    BY DEF Send
  <2> HIDE DEF g
  <2>4. \E p : p \in Seq(Range(p)) /\ todo' = p \o Tail(todo) /\ \A t \in Range(p) : t.op # "stop"
    <3>1. <<>> \in Seq(Range(<<>>)) /\ Range(<<>>) = {}
      BY Few
    <3>2. <<g>> \in Seq(Range(<<g>>)) /\ Range(<<g>>) = {g}
      BY Few
    <3> QED BY <2>2, <2>3, <3>1, <3>2
  <2>5. PICK p : p \in Seq(Range(p)) /\ todo' = p \o Tail(todo) /\ \A t \in Range(p) : t.op # "stop"
    BY <2>4
  <2>6. CASE HandleSpans
    <3>1. UNCHANGED <<alive, restart, gaveUp>> /\ Head(todo).op = "call"
      BY <2>6 DEF HandleSpans, Calling, engineVars
    <3> QED BY <1>4, <2>1, <2>5, <3>1, BackKept
  <2>7. CASE ScheduleRestart \/ EnsureEngine
    <3>1. alive' \/ restart' \/ gaveUp'
      <4>1. CASE ScheduleRestart
        <5>1. gaveUp' = gaveUp /\ restart' = (restart \/ ~gaveUp)
          BY <4>1 DEF ScheduleRestart, engineVars
        <5> QED BY <5>1
      <4>2. CASE EnsureEngine /\ (alive \/ gaveUp)
        <5>1. alive' = alive /\ gaveUp' = gaveUp
          BY <4>2 DEF EnsureEngine, engineVars
        <5> QED BY <4>2, <5>1
      <4>3. CASE EnsureEngine /\ ~(alive \/ gaveUp)
        <5>1. StartFork(Greeting) \/ StartRefused
          BY <4>3 DEF EnsureEngine
        <5>2. StartFork(Greeting) => alive' = TRUE
          BY DEF StartFork
        <5>3. StartRefused => gaveUp' = TRUE
          BY DEF StartRefused
        <5> QED BY <5>1, <5>2, <5>3
      <4> QED BY <2>7, <4>1, <4>2, <4>3
    <3>2. \A t \in Range(Tail(todo)) : t.op # "stop"
      <4>1. \A t \in Range(Tail(todo)) : t.op \in Below(Head(todo))
        BY <1>4, <2>1, TopAndRest DEF FInv
      <4> QED BY <4>1 DEF Below, Ops
    <3>3. ~Calling("stop")'
      BY <2>1, <2>5, <3>2, Replacing DEF Calling, Idle
    <3> QED BY <3>1, <3>3 DEF Back
  <2> QED BY <1>4, <2>6, <2>7
<1>5. CASE gone = "no" /\ ProcStep
  BY <1>5, BackProc
<1>6. CASE gone = "no" /\ (ProcEvent(OnReadable) \/ ProcEvent(OnEof) \/ ProcEvent(OnStartTimeout))
  <2> DEFINE a == Do("lines")
             b == Do("die")
  <2>1. todo = <<>> /\ UNCHANGED <<alive, restart, gaveUp>> /\ (todo' = <<a>> \/ todo' = <<b>>)
    BY <1>6 DEF ProcEvent, OnReadable, OnEof, OnStartTimeout, Idle, typingVars, linkVars
  <2>2. ~Calling("stop")'
    BY <2>1 DEF Calling, Idle, Do
  <2> QED BY <1>6, <2>1, <2>2, BackStarted
<1>7. CASE gone = "no" /\ (HarnessStep \/ Crash)
  <2>1. UNCHANGED <<todo, alive, restart, gaveUp>>
    BY <1>7, HarnessApart DEF HarnessStep, Crash, addonVars, typingVars, linkVars
  <2> QED BY <1>7, <2>1 DEF Back, Has, OnStack, Calling, Idle
<1>8. CASE gone = "no" /\ (KeyEvent \/ Reset \/ SwitchInputMethod \/ Click \/ FocusOut \/ Close \/ OnPendingTimer)
  <2>1. todo = <<>> /\ UNCHANGED <<alive, restart, gaveUp>>
    BY <1>8 DEF KeyEvent, Reset, SwitchInputMethod, Click, FocusOut, Close, OnPendingTimer, Happens, Turn, Idle,
       engineVars, typingVars, linkVars, quietVars
  <2>2. ~Calling("stop")'
    BY <1>8, <2>1 DEF KeyEvent, Reset, SwitchInputMethod, Click, FocusOut, Close, OnPendingTimer,
       Calling, Idle, Press, Send, ClearAll, Select, Fallback
  <2> QED BY <1>8, <2>1, <2>2, BackStarted
<1>9. CASE gone = "no" /\ OnRestartTimer
  <2> DEFINE a == Do("ensure")
             b == Request(buf)
  <2>1. alive' \/ todo' = <<a, b>>
    BY <1>9 DEF OnRestartTimer, engineVars, Revive
  <2>2. todo = <<>> /\ (todo' = <<>> \/ todo' = <<a, b>>)
    BY <1>9 DEF OnRestartTimer, Revive, Turn, Idle
  <2>3. a.op = "ensure"
    BY DEF Do
  <2> HIDE DEF a, b
  <2>4. ~Calling("stop")' /\ (todo' = <<a, b>> => Has({"ensure", "exit"})')
    BY <2>2, <2>3, Few DEF Calling, Idle, Has, OnStack
  <2> QED BY <2>1, <2>4 DEF Back
<1>10. CASE Destroy \/ DestroyMembers
  BY <1>10 DEF Destroy, DestroyMembers, Back
<1> QED BY <1>1, <1>2, <1>3, <1>4, <1>5, <1>6, <1>7, <1>8, <1>9, <1>10
     DEF Next, AddonCalls, Callback, Timers, CompositionCalls, ClientCalls

\* "bring the engine back as soon as it exits" (wetype.cpp:457): however it was
\* lost and whatever was being done then, it runs, or will be started, or was
\* given up, as long as fork() does not fail.
THEOREM EngineComesBackCorrect ==
  ASSUME AsUsed, ~ForkMayFail
  PROVE  Spec => []EngineComesBack
<1>1. Init => Back
  <2>1. ASSUME Init PROVE Back
    <3> DEFINE a == Do("ensure")
    <3>1. todo = <<a>> /\ a.op = "ensure"
      BY <2>1 DEF Init, ProcInit, Do
    <3> HIDE DEF a
    <3> QED BY <3>1, Few DEF Back, Has, OnStack, Calling
  <2> QED BY <2>1
<1>2. WInv /\ FInv /\ Back /\ [Next]_vars => Back'
  BY BackNext
<1>3. Back => EngineComesBack
  BY Few DEF Back, EngineComesBack, Turn, Idle, Has, OnStack
<1> QED BY <1>1, <1>2, <1>3, WInductive, FInductive, PTL DEF Spec

----------------------------------------------------------------------------
(* The destructor.                                                         *)

\* The calls it may have left to make above its own two: handlers told of a
\* loss, and what one of them, the first that wants its answer, does about it.
Low(t) ==
  t.op \in {"ensure", "request", "send", "die", "stop", "exit"} \/ (t.op = "call" /\ t.resp = Failed)
Bottom == <<Do("members"), Do("stop")>>

\* No handler will start the engine again.
Quenched(s) == (alive \/ \E t \in Range(s) : t.op # "call") => tried

\* After ~WeTypeEngine's stop() was called, and after the members are gone.
Stopping ==
  \E s : /\ s \in Seq(Range(s)) /\ todo = s \o Bottom /\ \A t \in Range(s) : Low(t)
         /\ s = <<Do("stop")>> \/ Quenched(s)
Destroyed ==
  \/ todo = <<Do("stop")>> /\ (alive => tried)
  \/ ~alive /\ (todo = <<>> \/ tried) /\ \A t \in OnStack : t.op = "call" /\ t.resp = Failed

Unloading == (gone = "stopping" => Stopping) /\ (gone = "destroyed" => Destroyed)

\* What is on the stack of the destructor, and how it changes.
LEMMA AtBottom ==
  ASSUME NEW s, s \in Seq(Range(s)), todo = s \o Bottom
  PROVE  /\ todo # <<>>
         /\ s = <<>> => Head(todo) = Do("members") /\ Tail(todo) = <<Do("stop")>>
         /\ s # <<>> => /\ Head(todo) = Head(s) /\ Head(s) \in Range(s)
                        /\ Range(s) = {Head(s)} \cup Range(Tail(s))
                        /\ \A p : p \in Seq(Range(p)) /\ todo' = p \o Tail(todo)
                             => \E z : /\ z \in Seq(Range(z)) /\ todo' = z \o Bottom
                                       /\ Range(z) = Range(p) \cup Range(Tail(s))
<1> DEFINE b == Bottom
           B == Range(b)
<1>1. b \in Seq(B) /\ b # <<>> /\ Head(b) = Do("members") /\ Tail(b) = <<Do("stop")>>
  <2> DEFINE x == Do("members")
             y == Do("stop")
             c == <<x, y>>
  <2> HIDE DEF x, y
  <2>1. c \in Seq({x, y}) /\ c # <<>> /\ Head(c) = x /\ Tail(c) = <<y>>
    OBVIOUS
  <2> HIDE DEF c
  <2>2. c \in Seq(Range(c))
    BY <2>1, SeqOfRange
  <2>3. b = c
    BY DEF c, x, y, Bottom
  <2> QED BY <2>1, <2>2, <2>3 DEF x, y
<1> HIDE DEF b, B
<1>2. CASE s = <<>>
  <2>1. todo = b
    BY <1>1, <1>2, ConcatEmptySeq DEF b
  <2> QED BY <1>1, <1>2, <2>1
<1>3. CASE s # <<>>
  <2> DEFINE S == Range(s) \cup B
             q == Tail(s)
             a == Head(s)
  <2>1. Range(s) \subseteq S /\ B \subseteq S
    BY DEF S
  <2> HIDE DEF S, q, a
  <2>2. s \in Seq(S) /\ b \in Seq(S)
    BY <1>1, <2>1, SeqMonotonic
  <2>3. a \in S /\ q \in Seq(S) /\ s = <<a>> \o q /\ <<a>> \in Seq(S)
    BY <1>3, <2>2, HeadAndTail DEF a, q
  <2>4. todo = <<a>> \o (q \o b) /\ q \o b \in Seq(S)
    <3>1. todo = (<<a>> \o q) \o b
      BY <2>3 DEF b
    <3>2. (<<a>> \o q) \o b = <<a>> \o (q \o b)
      BY <2>2, <2>3, Assoc
    <3> QED BY <2>2, <2>3, <3>1, <3>2, ConcatProperties
  <2>5. todo # <<>> /\ Head(todo) = a /\ Tail(todo) = q \o b
    <3> DEFINE r == q \o b
    <3>1. r \in Seq(S) /\ todo = <<a>> \o r
      BY <2>4
    <3> HIDE DEF r
    <3>2. <<a>> \o r # <<>> /\ Head(<<a>> \o r) = a /\ Tail(<<a>> \o r) = r
      BY <2>3, <3>1, OneOnAny
    <3> QED BY <3>1, <3>2 DEF r
  <2>6. Range(s) = {a} \cup Range(q) /\ a \in Range(s)
    BY <1>3, <2>2, TopAndRest DEF a, q
  <2>7. ASSUME NEW p, p \in Seq(Range(p)), todo' = p \o Tail(todo)
        PROVE  \E z : z \in Seq(Range(z)) /\ todo' = z \o Bottom /\ Range(z) = Range(p) \cup Range(q)
    <3> DEFINE T == S \cup Range(p)
    <3>1. S \subseteq T /\ Range(p) \subseteq T
      BY DEF T
    <3> HIDE DEF T
    <3>2. p \in Seq(T) /\ q \in Seq(T) /\ b \in Seq(T)
      BY <2>2, <2>3, <2>7, <3>1, SeqMonotonic
    <3>3. Range(p \o q) = Range(p) \cup Range(q) /\ p \o q \in Seq(T)
      BY <3>2, RangeConcatenation, ConcatProperties
    <3>4. p \o q \in Seq(Range(p \o q))
      BY <3>3, SeqOfRange
    <3>5. (p \o q) \o b = p \o (q \o b)
      BY <3>2, Assoc
    <3>6. todo' = (p \o q) \o b
      BY <2>5, <2>7, <3>5
    <3> QED BY <3>3, <3>4, <3>6 DEF b
  <2> QED BY <1>3, <2>5, <2>6, <2>7 DEF a, q
<1> QED BY <1>2, <1>3

\* A call of the destructor's replaced by others: none are left that start the
\* engine but by the handler that starts it once.
LEMMA Lowered ==
  ASSUME NEW s, s \in Seq(Range(s)), todo = s \o Bottom, s # <<>>, \A t \in Range(s) : Low(t),
         NEW p, p \in Seq(Range(p)), todo' = p \o Tail(todo), \A t \in Range(p) : Low(t),
         \/ tried'
         \/ ~alive' /\ \A t \in Range(p) \cup Range(Tail(s)) : t.op = "call"
  PROVE  Stopping'
<1>1. PICK z : z \in Seq(Range(z)) /\ todo' = z \o Bottom /\ Range(z) = Range(p) \cup Range(Tail(s))
  BY AtBottom
<1>2. \A t \in Range(z) : Low(t)
  BY <1>1, AtBottom
<1>3. (alive' \/ \E t \in Range(z) : t.op # "call") => tried'
  BY <1>1
<1>4. \E w : /\ w \in Seq(Range(w)) /\ todo' = w \o Bottom /\ \A t \in Range(w) : Low(t)
             /\ w = <<Do("stop")>> \/ ((alive' \/ \E t \in Range(w) : t.op # "call") => tried')
  BY <1>1, <1>2, <1>3
<1>5. Bottom' = Bottom
  BY DEF Bottom, Do
<1>6. \A t : Low(t)' <=> Low(t)
  BY DEF Low
<1> QED BY <1>4 DEF Stopping, Quenched, Bottom, Low, Do

\* The same where at most two calls are made.
LEMMA LoweredFew ==
  ASSUME WInv, NEW s, s \in Seq(Range(s)), todo = s \o Bottom, s # <<>>, \A t \in Range(s) : Low(t),
         NEW a, NEW b,
         \/ /\ todo' = Tail(todo)
            /\ tried' \/ (~alive' /\ \A t \in Range(Tail(s)) : t.op = "call")
         \/ tried' /\ todo' = <<a>> \o Tail(todo) /\ Low(a)
         \/ tried' /\ todo' = <<a, b>> \o Tail(todo) /\ Low(a) /\ Low(b)
  PROVE  Stopping'
<1>1. <<>> \o Tail(todo) = Tail(todo)
  <2>1. todo # <<>> /\ todo \in Seq(Task)
    BY AtBottom, Inv DEF ProcInv, ProcTypeOK
  <2>2. Tail(todo) \in Seq(Task)
    BY <2>1, HeadTailProperties
  <2> QED BY <2>2, ConcatEmptySeq
<1>2. <<>> \in Seq(Range(<<>>)) /\ Range(<<>>) = {}
  BY Few
<1>3. <<a>> \in Seq(Range(<<a>>)) /\ Range(<<a>>) = {a}
  BY Few
<1>4. <<a, b>> \in Seq(Range(<<a, b>>)) /\ Range(<<a, b>>) = {a, b}
  BY Few
<1>5. CASE todo' = Tail(todo) /\ (tried' \/ (~alive' /\ \A t \in Range(Tail(s)) : t.op = "call"))
  <2> DEFINE p == <<>>
  <2>1. p \in Seq(Range(p)) /\ Range(p) = {} /\ todo' = p \o Tail(todo)
    BY <1>1, <1>2, <1>5
  <2> HIDE DEF p
  <2> QED BY <1>5, <2>1, Lowered
<1>6. CASE tried' /\ todo' = <<a>> \o Tail(todo) /\ Low(a)
  <2> DEFINE p == <<a>>
  <2>1. p \in Seq(Range(p)) /\ Range(p) = {a} /\ todo' = p \o Tail(todo)
    BY <1>3, <1>6
  <2> HIDE DEF p
  <2> QED BY <1>6, <2>1, Lowered
<1>7. CASE tried' /\ todo' = <<a, b>> \o Tail(todo) /\ Low(a) /\ Low(b)
  <2> DEFINE p == <<a, b>>
  <2>1. p \in Seq(Range(p)) /\ Range(p) = {a, b} /\ todo' = p \o Tail(todo)
    BY <1>4, <1>7
  <2> HIDE DEF p
  <2> QED BY <1>7, <2>1, Lowered
<1> QED BY <1>5, <1>6, <1>7

\* What handlers told of a loss may do, and the engine's calls: nothing else
\* is called while the addon is unloaded.
UnloadCalls ==
  \/ Stop \/ Die \/ SendDead \/ SendBroken \/ SendWritten
  \/ EnsureEngine \/ RequestCandidates \/ ScheduleRestart
  \/ HandleNothing \/ HandleSpans \/ HandleStale \/ HandleLost

LEMMA LowCalls ==
  ASSUME Low(Head(todo)), AddonCalls
  PROVE  /\ UnloadCalls /\ UNCHANGED gone
         /\ ~HandleLost => UNCHANGED tried
<1>1. Head(todo).op \notin {"lines", "key", "type", "clear", "members", "ui", "fallback", "drain", "drainOn",
                            "commit", "select", "arm"}
  BY DEF Low
<1>2. Head(todo).op = "call" => Kind(Head(todo).resp) = "none"
  BY DEF Low, Kind, Lost
<1>3. ~DestroyMembers
  BY <1>1 DEF DestroyMembers, Calling
<1>4. ~KeyCalls
  BY <1>1 DEF KeyCalls, ClearEverything, KeyElsewhere, PendingEsc, PendingBackQueued, PendingBackPinyin,
     PendingOvertaken, PendingQueued, KeyLetter, TypeLetter, KeyNext, KeyPunctuation, KeyDigit, KeySpace,
     KeyReturn, KeyBack, KeyEsc, KeyPasses, WaitingKey, KeyNow, Calling
<1>5. ASSUME ProcStep
      PROVE  /\ Stop \/ Die \/ SendDead \/ SendBroken \/ SendWritten
             /\ UNCHANGED <<tried, gone>>
  BY <1>1, <1>5 DEF ProcStep, ProcCalls, LinesDone, LineBeforeReady, LineIgnored, LineAnswers, Calling,
     typingVars, inputVars, worldVars
<1>6. ASSUME CompositionCalls, UNCHANGED worldVars
      PROVE  /\ \/ EnsureEngine \/ RequestCandidates \/ ScheduleRestart
                \/ HandleNothing \/ HandleSpans \/ HandleStale \/ HandleLost
             /\ UNCHANGED gone
  BY <1>1, <1>2, <1>6 DEF CompositionCalls, CommitText, SelectNothing, SelectWhole, SelectPrefix, UpdateUI,
     HandleRefused, HandleCandidates, FallbackPending, ArmPending, DrainQueued, DrainNext, Calling, worldVars
<1>7. ASSUME EnsureEngine \/ RequestCandidates \/ ScheduleRestart \/ HandleNothing \/ HandleSpans \/ HandleStale
      PROVE  UNCHANGED tried
  BY <1>7 DEF EnsureEngine, RequestCandidates, ScheduleRestart, HandleNothing, HandleSpans, HandleStale,
     typingVars, inputVars
<1> QED BY <1>3, <1>4, <1>5, <1>6, <1>7 DEF AddonCalls, UnloadCalls

\* While the destructor's stop() is under way.
LEMMA StoppingCall ==
  ASSUME WInv, NEW s, s \in Seq(Range(s)), todo = s \o Bottom, s # <<>>, \A t \in Range(s) : Low(t),
         s = <<Do("stop")>> \/ Quenched(s), UnloadCalls, ~HandleLost => UNCHANGED tried
  PROVE  Stopping'
<1> DEFINE h == Head(todo)
<1>1. /\ todo # <<>> /\ h = Head(s) /\ h \in Range(s) /\ Low(h) /\ Range(Tail(s)) \subseteq Range(s)
  BY AtBottom
<1>2. h.op # "stop" => Quenched(s)
  <2>1. s = <<Do("stop")>> => Head(s) = Do("stop")
    OBVIOUS
  <2>2. Do("stop").op = "stop"
    BY DEF Do
  <2> QED BY <1>1, <2>1, <2>2
<1>3. h.op \notin {"stop", "call"} => tried
  BY <1>1, <1>2 DEF Quenched
<1>4. h.op = "call" => tried \/ (~alive /\ \A t \in Range(Tail(s)) : t.op = "call")
  BY <1>1, <1>2 DEF Quenched
<1>5. CASE Stop
  <2> DEFINE p == FailPendingHandlers
  <2>1. todo' = p \o Tail(todo) /\ ~alive' /\ h.op = "stop" /\ tried' = tried
    BY <1>5 DEF Stop, Calling, HandleLost
  <2>2. p \in Seq(Range(p)) /\ \A t \in Range(p) : t.op = "call" /\ t.resp = Failed
    <3>1. pending \in Seq(Entry) /\ DOMAIN pending = 1..Len(pending)
      BY Inv, LenProperties DEF ProcInv, ProcTypeOK
    <3>2. p \in Seq(Task) /\ \A i \in DOMAIN pending : p[i] = Call(pending[i], Failed)
      BY <3>1, FailShape
    <3>3. DOMAIN p = DOMAIN pending
      BY DEF FailPendingHandlers
    <3>4. p \in Seq(Range(p))
      BY <3>2, SeqOfRange
    <3> HIDE DEF p
    <3> QED BY <3>2, <3>3, <3>4 DEF Range, Call
  <2> HIDE DEF p
  <2>3. \A t \in Range(p) : Low(t)
    BY <2>2 DEF Low
  <2>4. tried' \/ \A t \in Range(p) \cup Range(Tail(s)) : t.op = "call"
    <3>1. CASE s = <<Do("stop")>>
      <4> DEFINE y == Do("stop")
      <4>1. Tail(s) = <<>>
        <5> HIDE DEF y
        <5>1. Tail(<<y>>) = <<>>
          OBVIOUS
        <5> QED BY <3>1, <5>1 DEF y
      <4> QED BY <2>2, <4>1, Few
    <3>2. CASE Quenched(s)
      BY <1>1, <2>1, <3>2 DEF Quenched
    <3> QED BY <3>1, <3>2
  <2> QED BY <2>1, <2>2, <2>3, <2>4, Lowered
<1>6. CASE Die
  <2> DEFINE a == Do("stop")
             b == Do("exit")
  <2>1. todo' = <<a, b>> \o Tail(todo) /\ h.op = "die" /\ Low(a) /\ Low(b) /\ tried' = tried
    BY <1>6 DEF Die, Calling, Low, Do, HandleLost
  <2> HIDE DEF a, b, h
  <2> QED BY <1>3, <2>1, LoweredFew
<1>7. CASE SendDead \/ SendBroken \/ SendWritten
  <2> DEFINE a == Do("die")
             b == Call(h, Failed)
  <2>1. /\ todo' = <<b>> \o Tail(todo) \/ todo' = <<a, b>> \o Tail(todo) \/ todo' = Tail(todo)
        /\ h.op = "send" /\ tried' = tried
    BY <1>7 DEF SendDead, SendBroken, SendWritten, Calling, HandleLost
  <2>2. Low(a) /\ Low(b)
    BY DEF Low, Do, Call
  <2> HIDE DEF a, b, h
  <2> QED BY <1>3, <2>1, <2>2, LoweredFew
<1>8. CASE EnsureEngine \/ RequestCandidates
  <2> DEFINE g == Send(Plain("OPT"), [kind |-> "spans"])
             a == Do("ensure")
             b == Send(Batch(h.keys), HandlerFor(buf, revision))
  <2>1. <<>> \o <<b>> = <<b>> /\ <<a>> \o <<b>> = <<a, b>>
    <3> HIDE DEF a, b
    <3>1. <<b>> \in Seq({b})
      BY Few
    <3> QED BY <3>1, ConcatEmptySeq, Pair
  <2>2. /\ \/ todo' = Tail(todo) \/ todo' = <<g>> \o Tail(todo) \/ todo' = <<b>> \o Tail(todo)
           \/ todo' = <<a, b>> \o Tail(todo)
        /\ h.op \in {"ensure", "request"} /\ tried' = tried
    BY <1>8, <2>1 DEF EnsureEngine, RequestCandidates, StartFork, StartRefused, Greeting, Then, Rest, IfDead,
       Calling, HandleLost
  <2>3. Low(g) /\ Low(a) /\ Low(b)
    BY DEF Low, Do, Send
  <2> HIDE DEF g, a, b, h
  <2> QED BY <1>3, <2>2, <2>3, LoweredFew
<1>9. CASE ScheduleRestart
  <2>1. todo' = Tail(todo) /\ h.op = "exit" /\ tried' = tried
    BY <1>9 DEF ScheduleRestart, Rest, Calling, HandleLost
  <2> HIDE DEF h
  <2> QED BY <1>3, <2>1, LoweredFew
<1>10. CASE HandleNothing \/ HandleSpans \/ HandleStale \/ HandleLost
  <2> DEFINE a == Do("ensure")
             b == Request(buf)
  <2>1. alive' = alive /\ h.op = "call"
    BY <1>10 DEF HandleNothing, HandleSpans, HandleStale, HandleLost, Calling, engineVars
  <2>2. \/ todo' = Tail(todo) /\ tried' = tried
        \/ todo' = <<a, b>> \o Tail(todo) /\ tried'
    BY <1>10 DEF HandleNothing, HandleSpans, HandleStale, HandleLost, Rest, Then, Revive
  <2>3. Low(a) /\ Low(b)
    BY DEF Low, Do, Request
  <2> HIDE DEF a, b, h
  <2>4. CASE todo' = Tail(todo) /\ tried' = tried
    <3>1. tried' \/ (~alive' /\ \A t \in Range(Tail(s)) : t.op = "call")
      BY <1>4, <2>1, <2>4
    <3> QED BY <2>3, <2>4, <3>1, LoweredFew
  <2>5. CASE todo' = <<a, b>> \o Tail(todo) /\ tried'
    BY <2>3, <2>5, LoweredFew
  <2> QED BY <2>2, <2>4, <2>5
<1> QED BY <1>5, <1>6, <1>7, <1>8, <1>9, <1>10 DEF UnloadCalls

\* The handlers ~EngineProc's stop() fails find the restart already tried.
LEMMA DestroyedCall ==
  ASSUME WInv, Destroyed, UnloadCalls, ~HandleLost => UNCHANGED tried
  PROVE  Destroyed'
<1> DEFINE y == Do("stop")
<1>1. todo # <<>> /\ todo \in Seq(Task) /\ Head(todo).op \in {"stop", "die", "send", "ensure", "request", "exit", "call"}
  BY Inv DEF UnloadCalls, Stop, Die, SendDead, SendBroken, SendWritten, EnsureEngine, RequestCandidates,
     ScheduleRestart, HandleNothing, HandleSpans, HandleStale, HandleLost, Calling, Idle, ProcInv, ProcTypeOK
<1>2. CASE todo = <<y>> /\ (alive => tried)
  <2>1. Head(todo).op = "stop" /\ Tail(todo) = <<>>
    <3>1. y.op = "stop"
      BY DEF Do
    <3> HIDE DEF y
    <3>2. Head(<<y>>) = y /\ Tail(<<y>>) = <<>>
      OBVIOUS
    <3> QED BY <1>2, <3>1, <3>2
  <2> DEFINE p == FailPendingHandlers
  <2>2. todo' = p \o <<>> /\ ~alive' /\ tried' = tried
    BY <2>1 DEF UnloadCalls, Stop, Die, SendDead, SendBroken, SendWritten, EnsureEngine, RequestCandidates,
       ScheduleRestart, HandleNothing, HandleSpans, HandleStale, HandleLost, Calling
  <2>3. /\ p \in Seq(Task) /\ DOMAIN p = DOMAIN pending /\ Len(p) = Len(pending)
        /\ \A i \in DOMAIN pending : p[i].op = "call" /\ p[i].resp = Failed
    <3>1. pending \in Seq(Entry) /\ DOMAIN pending = 1..Len(pending)
      BY Inv, LenProperties DEF ProcInv, ProcTypeOK
    <3>2. /\ p \in Seq(Task) /\ Len(p) = Len(pending)
          /\ \A i \in DOMAIN pending : p[i] = Call(pending[i], Failed)
      BY <3>1, FailShape
    <3> QED BY <3>2 DEF FailPendingHandlers, Call
  <2> HIDE DEF p
  <2>4. todo' = p
    BY <2>2, <2>3, ConcatEmptySeq
  <2>5. \A t \in Range(todo') : t.op = "call" /\ t.resp = Failed
    BY <2>3, <2>4 DEF Range
  <2>6. ~alive => todo' = <<>>
    <3>1. ~alive => Len(pending) = 0
      BY Inv DEF ProcInv, ProcShape
    <3> QED BY <2>3, <2>4, <3>1, EmptySeq
  <2> QED BY <1>2, <2>2, <2>5, <2>6 DEF Destroyed, OnStack
<1>3. CASE ~alive /\ (todo = <<>> \/ tried) /\ \A t \in OnStack : t.op = "call" /\ t.resp = Failed
  <2>1. Range(todo) = {Head(todo)} \cup Range(Tail(todo))
    BY <1>1, TopAndRest
  <2>2. tried /\ Head(todo).op = "call"
    BY <1>1, <1>3, <2>1 DEF OnStack
  <2>3. todo' = Tail(todo) /\ ~alive' /\ tried'
    <3>1. HandleNothing \/ HandleSpans \/ HandleStale \/ HandleLost
      BY <2>2 DEF UnloadCalls, Stop, Die, SendDead, SendBroken, SendWritten, EnsureEngine, RequestCandidates,
         ScheduleRestart, Calling
    <3>2. alive' = alive
      BY <3>1 DEF HandleNothing, HandleSpans, HandleStale, HandleLost, engineVars
    <3>3. CASE ~HandleLost
      <4>1. todo' = Tail(todo) /\ tried' = tried
        BY <3>1, <3>3 DEF HandleNothing, HandleSpans, HandleStale, Rest
      <4> QED BY <1>3, <2>2, <3>2, <4>1
    <3>4. CASE HandleLost
      <4>1. todo' = Tail(todo) /\ tried' = tried
        BY <2>2, <3>4 DEF HandleLost, Rest
      <4> QED BY <1>3, <2>2, <3>2, <4>1
    <3> QED BY <3>3, <3>4
  <2> QED BY <1>3, <2>1, <2>3 DEF Destroyed, OnStack
<1> QED BY <1>2, <1>3 DEF Destroyed

\* Every step.
LEMMA UnloadingNext ==
  ASSUME AsUsed, WInv, FInv, Unloading, [Next]_vars
  PROVE  Unloading'
<1>1. CASE UNCHANGED <<todo, alive, tried, gone>>
  BY <1>1 DEF Unloading, Stopping, Destroyed, Quenched, OnStack, Bottom, Low, Do
<1>2. CASE gone = "no" /\ gone' # "no"
  <2>1. CASE Destroy
    <3> DEFINE x == Do("stop")
               m == Do("members")
    <3>1. gone' = "stopping" /\ todo' = <<x, m, x>>
      BY <2>1 DEF Destroy
    <3>2. <<x>> \o <<m, x>> = <<x, m, x>> /\ <<x>> \in Seq(Range(<<x>>)) /\ Range(<<x>>) = {x}
      <4> HIDE DEF x, m
      <4> QED BY Triple, Few
    <3>3. Low(x)
      BY DEF Low, Do
    <3> DEFINE s == <<x>>
    <3>4. s \in Seq(Range(s)) /\ todo' = s \o Bottom /\ (\A t \in Range(s) : Low(t)) /\ s = <<Do("stop")>>
      BY <3>1, <3>2, <3>3 DEF Bottom
    <3> HIDE DEF s
    <3>5. \E w : /\ w \in Seq(Range(w)) /\ todo' = w \o Bottom /\ \A t \in Range(w) : Low(t)
                 /\ w = <<Do("stop")>> \/ ((alive' \/ \E t \in Range(w) : t.op # "call") => tried')
      BY <3>4
    <3>6. Stopping'
      BY <3>5 DEF Stopping, Quenched, Bottom, Low, Do
    <3> QED BY <3>1, <3>6 DEF Unloading
  <2>2. ~DestroyMembers
    <3> SUFFICES ASSUME DestroyMembers PROVE FALSE
      OBVIOUS
    <3>1. Calling("members")
      BY DEF DestroyMembers
    <3>2. Head(todo).op = "members" /\ Ok(Head(todo))
      BY <1>2, <3>1, AtTop
    <3> QED BY <3>2 DEF Ok
  <2> QED BY <1>2, <2>1, <2>2, GoneMoves
<1>3. CASE gone # "no"
  <2>1. ~Callback /\ ~Timers /\ ~(ProcEvent(OnReadable) \/ ProcEvent(OnEof) \/ ProcEvent(OnStartTimeout))
    BY <1>3 DEF Callback, Timers, KeyEvent, Reset, FocusOut, Close, SwitchInputMethod, Click, Destroy,
       OnPendingTimer, OnRestartTimer, Happens, Turn, ProcEvent
  <2>2. HarnessStep \/ Crash => UNCHANGED <<todo, alive, tried, gone>>
    BY HarnessApart DEF HarnessStep, Crash, addonVars, typingVars, inputVars, worldVars
  <2>3. UNCHANGED vars => UNCHANGED <<todo, alive, tried, gone>>
    BY DEF vars, procVars, addonVars, typingVars, inputVars, worldVars
  <2>4. CASE AddonCalls
    <3>1. gone \in {"stopping", "destroyed"}
      BY <1>3, Inv DEF WorldTypeOK
    <3>2. CASE gone = "stopping"
      <4>1. PICK s : /\ s \in Seq(Range(s)) /\ todo = s \o Bottom /\ \A t \in Range(s) : Low(t)
                     /\ s = <<Do("stop")>> \/ Quenched(s)
        BY <3>2 DEF Unloading, Stopping
      <4>2. CASE s = <<>>
        <5>1. todo # <<>> /\ Head(todo) = Do("members") /\ Tail(todo) = <<Do("stop")>>
          BY <4>1, <4>2, AtBottom
        <5>2. Head(todo).op = "members"
          BY <5>1 DEF Do
        <5>3. DestroyMembers
          BY <2>4, <5>2 DEF AddonCalls, ProcStep, ProcCalls, Stop, Die, SendDead, SendBroken, SendWritten, LinesDone,
             LineBeforeReady, LineIgnored, LineAnswers, CompositionCalls, CommitText, SelectNothing, SelectWhole,
             SelectPrefix, UpdateUI, EnsureEngine, RequestCandidates, ScheduleRestart, HandleNothing, HandleSpans,
             HandleStale, HandleLost, HandleRefused, HandleCandidates, FallbackPending, ArmPending, DrainQueued,
             DrainNext, KeyCalls, ClearEverything, KeyElsewhere, PendingEsc, PendingBackQueued, PendingBackPinyin,
             PendingOvertaken, PendingQueued, KeyLetter, TypeLetter, KeyNext, KeyPunctuation, KeyDigit, KeySpace,
             KeyReturn, KeyBack, KeyEsc, KeyPasses, WaitingKey, KeyNow, Calling
        <5>4. gone' = "destroyed" /\ todo' = <<Do("stop")>> /\ alive' = alive /\ tried' = tried
          BY <5>1, <5>3 DEF DestroyMembers, Rest, engineVars, inputVars
        <5>5. alive => tried
          <6>1. s # <<Do("stop")>>
            BY <4>2
          <6> QED BY <4>1, <6>1 DEF Quenched
        <5>6. Destroyed'
          BY <5>4, <5>5 DEF Destroyed, Do
        <5> QED BY <5>4, <5>6 DEF Unloading
      <4>3. CASE s # <<>>
        <5>1. Low(Head(todo))
          BY <4>1, <4>3, AtBottom
        <5>2. UnloadCalls /\ UNCHANGED gone /\ (~HandleLost => UNCHANGED tried)
          BY <2>4, <5>1, LowCalls
        <5>3. Stopping'
          BY <4>1, <4>3, <5>2, StoppingCall
        <5> QED BY <3>2, <5>2, <5>3 DEF Unloading
      <4> QED BY <4>2, <4>3
    <3>3. CASE gone = "destroyed"
      <4>1. Destroyed
        BY <3>3 DEF Unloading
      <4>2. todo # <<>>
        BY <2>4 DEF AddonCalls, ProcStep, ProcCalls, Stop, Die, SendDead, SendBroken, SendWritten, LinesDone,
           LineBeforeReady, LineIgnored, LineAnswers, CompositionCalls, CommitText, SelectNothing, SelectWhole,
           SelectPrefix, UpdateUI, EnsureEngine, RequestCandidates, ScheduleRestart, HandleNothing, HandleSpans,
           HandleStale, HandleLost, HandleRefused, HandleCandidates, FallbackPending, ArmPending, DrainQueued,
           DrainNext, KeyCalls, ClearEverything, KeyElsewhere, PendingEsc, PendingBackQueued, PendingBackPinyin,
           PendingOvertaken, PendingQueued, KeyLetter, TypeLetter, KeyNext, KeyPunctuation, KeyDigit, KeySpace,
           KeyReturn, KeyBack, KeyEsc, KeyPasses, WaitingKey, KeyNow, DestroyMembers, Calling, Idle
      <4>3. Head(todo) \in OnStack
        <5>1. todo \in Seq(Task)
          BY Inv DEF ProcInv, ProcTypeOK
        <5> QED BY <4>2, <5>1, TopAndRest DEF OnStack
      <4>4. Low(Head(todo))
        <5>1. CASE todo = <<Do("stop")>>
          <6>1. Head(todo) = Do("stop")
            BY <5>1
          <6> QED BY <6>1 DEF Low, Do
        <5>2. CASE todo # <<Do("stop")>>
          BY <4>1, <4>3, <5>2 DEF Destroyed, Low
        <5> QED BY <5>1, <5>2
      <4>5. UnloadCalls /\ UNCHANGED gone /\ (~HandleLost => UNCHANGED tried)
        BY <2>4, <4>4, LowCalls
      <4>6. Destroyed'
        BY <4>1, <4>5, DestroyedCall
      <4> QED BY <3>3, <4>5, <4>6 DEF Unloading
    <3> QED BY <3>1, <3>2, <3>3
  <2> QED BY <1>1, <2>1, <2>2, <2>3, <2>4 DEF Next
<1> QED BY <1>2, <1>3 DEF Unloading

\* No process outlives the addon: a handler told of the loss may start the
\* engine anew, but only once, and what it starts the last stop() ends
\* (wetype.cpp:460-464).
THEOREM NoProcessLeftCorrect ==
  ASSUME AsUsed
  PROVE  Spec => []NoProcessLeft
<1>1. Init => Unloading
  BY DEF Init, Unloading
<1>2. WInv /\ FInv /\ Unloading /\ [Next]_vars => Unloading'
  BY UnloadingNext
<1>3. Unloading => NoProcessLeft
  BY DEF Unloading, Destroyed, NoProcessLeft, Idle
<1> QED BY <1>1, <1>2, <1>3, WInductive, FInductive, PTL DEF Spec

----------------------------------------------------------------------------
(* The answer to "OPT spans" comes before any candidates.                  *)

Spans(h)  == h.kind = "spans"
Told(t)   == t.op = "call" /\ t.resp # Failed
Greets(t) == t.op = "send" /\ Spans(t.h)
Missed(t) == t.op = "call" /\ t.resp = Failed /\ Spans(t.h)
Dying     == {"die", "stop", "exit"}

\* The line asks for spans just when its handler is the one for that answer.
Matched(h, line) == Spans(h) <=> line.op = "OPT"

\* The harness's answer to it is OK.
Approves(r)  == r # Ready /\ r.re.op = "OPT" => r.text = Say("OK")
OptApproved  == \A r \in Range(rbuf) \cup Range(outPipe) \cup Range(unwritten) : Approves(r)
OptMatched   == /\ \A t \in OnStack : t.op \in {"send", "call"} => Matched(t.h, t.line)
                /\ \A e \in Range(pending) : Matched(e.h, e.line)

\* What may wait below what: no handler given a line, no sending of OPT, and the
\* handler of an OPT that was lost below the calls of die() only.
Hush(x, y) == ~Told(y) /\ ~Greets(y) /\ (Missed(y) => x.op \in Dying)
Hushed(s)  == \A i, j \in DOMAIN s : i < j => Hush(s[i], s[j])

\* OPT is asked first, with nothing pending before it and the process gone when
\* it was lost.
AskedFirst ==
  /\ pending # <<>> => \A e \in Range(Tail(pending)) : ~Spans(e.h)
  /\ todo # <<>> /\ Greets(Head(todo)) => pending = <<>>
  /\ (\E t \in OnStack : Missed(t)) => pending = <<>> /\ (alive => Calling("die") \/ Calling("stop"))

\* A handler is given a line with OPT answered, or is given its answer; until
\* then the question is still being asked, pending, or lost with its process.
ToldKnowing ==
  todo # <<>> /\ Told(Head(todo)) => IF Spans(Head(todo).h) THEN Head(todo).resp.text = Say("OK") ELSE spansOn
AskedYet ==
  alive /\ ~spansOn =>
    \/ pending # <<>> /\ Spans(Head(pending).h)
    \/ todo # <<>> /\ (Greets(Head(todo)) \/ (Told(Head(todo)) /\ Spans(Head(todo).h)))
    \/ Calling("die") \/ Calling("stop")

SInv == OptApproved /\ OptMatched /\ Hushed(todo) /\ AskedFirst /\ ToldKnowing /\ AskedYet

\* A hushed stack on another.
LEMMA HushedConcat ==
  ASSUME NEW S, NEW p \in Seq(S), NEW q \in Seq(S),
         Hushed(p), Hushed(q), \A x \in Range(p), y \in Range(q) : Hush(x, y)
  PROVE  Hushed(p \o q)
<1> DEFINE R == {r \in S \X S : Hush(r[1], r[2])}
<1>1. \A x, y \in S : <<x, y>> \in R <=> Hush(x, y)
  OBVIOUS
<1> HIDE DEF R
<1>2. ASSUME NEW t \in Seq(S) PROVE Range(t) \subseteq S /\ (Hushed(t) <=> Sorted(t, R))
  <2>1. \A i \in DOMAIN t : t[i] \in S
    BY LenProperties
  <2> QED BY <1>1, <2>1 DEF Hushed, Sorted, Range
<1>3. Sorted(p, R) /\ Sorted(q, R) /\ p \o q \in Seq(S)
  BY <1>2, ConcatProperties
<1>4. \A x \in Range(p), y \in Range(q) : <<x, y>> \in R
  BY <1>1, <1>2
<1>5. Sorted(p \o q, R)
  BY <1>3, <1>4, SortedConcat
<1> QED BY <1>2, <1>3, <1>5

\* A hushed stack without its head.
LEMMA HushedTail ==
  ASSUME NEW S, NEW s \in Seq(S), s # <<>>, Hushed(s)
  PROVE  Hushed(Tail(s)) /\ \A t \in Range(Tail(s)) : Hush(Head(s), t)
<1> DEFINE R == {r \in S \X S : Hush(r[1], r[2])}
<1>1. \A x, y \in S : <<x, y>> \in R <=> Hush(x, y)
  OBVIOUS
<1> HIDE DEF R
<1>2. ASSUME NEW t \in Seq(S) PROVE Range(t) \subseteq S /\ (Hushed(t) <=> Sorted(t, R))
  <2>1. \A i \in DOMAIN t : t[i] \in S
    BY LenProperties
  <2> QED BY <1>1, <2>1 DEF Hushed, Sorted, Range
<1>3. Head(s) \in S /\ Tail(s) \in Seq(S) /\ Sorted(s, R)
  BY <1>2, HeadTailProperties
<1>4. Sorted(Tail(s), R) /\ \A t \in Range(Tail(s)) : <<Head(s), t>> \in R
  BY <1>3, SortedTail
<1> QED BY <1>1, <1>2, <1>3, <1>4

\* Calls that tell no handler anything and do not ask for spans.
Bland(t) == t.op # "call" /\ (t.op = "send" => ~Spans(t.h) /\ t.line.op # "OPT")

\* The stack after the call at hand was replaced: what each of the new calls
\* and of those that stay may be.
LEMMA HushedStep ==
  ASSUME WInv, SInv, todo # <<>>, NEW p, p \in Seq(Range(p)), Hushed(p), todo' = p \o Tail(todo),
         \A t \in Range(p) : t.op \in Dying \/ Head(todo).op \notin Dying
                             \/ \A y \in Range(Tail(todo)) : ~Missed(y)
  PROVE  /\ Hushed(todo)'
         /\ OnStack = {Head(todo)} \cup Range(Tail(todo))
         /\ OnStack' = Range(p) \cup Range(Tail(todo))
         /\ \A t \in Range(Tail(todo)) : ~Told(t) /\ ~Greets(t) /\ (Missed(t) => Head(todo).op \in Dying)
         /\ p # <<>> => todo' # <<>> /\ Head(todo') = Head(p) /\ Head(p) \in Range(p)
         /\ p = <<>> /\ todo' # <<>> => Head(todo') \in Range(Tail(todo))
<1> DEFINE S == Task \cup Range(p)
           q == Tail(todo)
<1>1. todo \in Seq(Task) /\ q \in Seq(Task)
  BY Inv, HeadTailProperties DEF ProcInv, ProcTypeOK
<1>2. p \in Seq(S) /\ q \in Seq(S)
  BY <1>1, SeqMonotonic
<1>3. Hushed(q) /\ \A t \in Range(q) : Hush(Head(todo), t)
  BY <1>1, HushedTail DEF SInv
<1>4. /\ OnStack = {Head(todo)} \cup Range(q) /\ OnStack' = Range(p) \cup Range(q)
      /\ p # <<>> => todo' # <<>> /\ Head(todo') = Head(p) /\ Head(p) \in Range(p)
      /\ todo' # <<>> => Head(todo') \in OnStack'
  BY Replacing
<1> HIDE DEF S, q
<1>5. \A x \in Range(p), y \in Range(q) : Hush(x, y)
  BY <1>3 DEF Hush, q
<1>6. Hushed(p \o q)
  BY <1>2, <1>3, <1>5, HushedConcat
<1>7. p = <<>> => Range(p) = {}
  BY Few
<1> QED BY <1>3, <1>4, <1>6, <1>7 DEF Hush, q

\* A stack of bland calls is hushed.
LEMMA BlandHushed ==
  ASSUME NEW p, p \in Seq(Range(p)), \A t \in Range(p) : Bland(t)
  PROVE  Hushed(p)
<1>1. \A i \in DOMAIN p : Bland(p[i])
  BY DEF Range
<1> QED BY <1>1 DEF Hushed, Hush, Bland, Told, Greets, Missed

\* Bland calls put in the place of one that is neither the engine's death nor
\* the asking for spans, nor its answer.
LEMMA BlandStep ==
  ASSUME WInv, SInv, todo # <<>>, Head(todo).op \notin Dying \cup {"send"},
         Head(todo).op = "call" => ~Spans(Head(todo).h),
         NEW p, p \in Seq(Range(p)), todo' = p \o Tail(todo), \A t \in Range(p) : Bland(t),
         UNCHANGED <<alive, pending, rbuf, outPipe, unwritten, spansOn>>
  PROVE  SInv'
<1>1. Hushed(p)
  BY BlandHushed
<1>2. /\ Hushed(todo)'
      /\ OnStack = {Head(todo)} \cup Range(Tail(todo))
      /\ OnStack' = Range(p) \cup Range(Tail(todo))
      /\ \A t \in Range(Tail(todo)) : ~Told(t) /\ ~Greets(t) /\ (Missed(t) => Head(todo).op \in Dying)
      /\ p # <<>> => todo' # <<>> /\ Head(todo') = Head(p) /\ Head(p) \in Range(p)
      /\ p = <<>> /\ todo' # <<>> => Head(todo') \in Range(Tail(todo))
  BY <1>1, HushedStep
<1>3. \A t \in Range(p) : t.op # "call" /\ ~Told(t) /\ ~Greets(t) /\ ~Missed(t)
                          /\ (t.op = "send" => Matched(t.h, t.line))
  BY DEF Bland, Told, Greets, Missed, Matched
<1>4. todo' # <<>> => ~Told(Head(todo')) /\ ~Greets(Head(todo'))
  BY <1>2, <1>3
<1>5. \A t \in OnStack' : ~Missed(t)
  BY <1>2, <1>3
<1>6. OptApproved'
  BY DEF SInv, OptApproved, Approves
<1>7. OptMatched'
  BY <1>2, <1>3 DEF SInv, OptMatched, Matched
<1>8. AskedFirst'
  BY <1>4, <1>5 DEF SInv, AskedFirst
<1>9. ToldKnowing'
  BY <1>4 DEF ToldKnowing
<1>10. AskedYet'
  <2>1. ~Calling("die") /\ ~Calling("stop") /\ ~Greets(Head(todo)) /\ ~(Told(Head(todo)) /\ Spans(Head(todo).h))
    BY DEF Calling, Dying, Greets, Told
  <2>2. alive /\ ~spansOn => pending # <<>> /\ Spans(Head(pending).h)
    BY <2>1 DEF SInv, AskedYet
  <2> QED BY <2>2 DEF AskedYet
<1> QED BY <1>2, <1>6, <1>7, <1>8, <1>9, <1>10 DEF SInv

\* The stack the loop starts with.
LEMMA BlandStart ==
  ASSUME WInv, SInv, todo = <<>>, NEW p, p \in Seq(Range(p)), todo' = p, \A t \in Range(p) : Bland(t),
         UNCHANGED <<alive, pending, spansOn>>, OptApproved'
  PROVE  SInv'
<1>1. Hushed(todo)'
  BY BlandHushed DEF Hushed
<1>2. \A t \in Range(p) : t.op # "call" /\ ~Told(t) /\ ~Greets(t) /\ ~Missed(t)
                          /\ (t.op = "send" => Matched(t.h, t.line))
  BY DEF Bland, Told, Greets, Missed, Matched
<1>3. todo' # <<>> => Head(todo') \in Range(p)
  BY TopAndRest
<1>4. OptMatched'
  BY <1>2 DEF SInv, OptMatched, OnStack, Matched
<1>5. AskedFirst'
  BY <1>2, <1>3 DEF SInv, AskedFirst, OnStack
<1>6. ToldKnowing'
  BY <1>2, <1>3 DEF ToldKnowing
<1>7. AskedYet'
  <2>1. ~Calling("die") /\ ~Calling("stop")
    BY DEF Calling, Idle
  <2> QED BY <2>1 DEF SInv, AskedYet
<1> QED BY <1>1, <1>4, <1>5, <1>6, <1>7 DEF SInv

\* A step of the harness, or of the pipes alone.
LEMMA BlandPipes ==
  ASSUME SInv, UNCHANGED <<todo, alive, pending, spansOn>>, OptApproved'
  PROVE  SInv'
BY DEF SInv, OptMatched, Matched, OnStack, Hushed, AskedFirst, ToldKnowing, AskedYet, Calling, Idle,
   Missed, Greets, Told, Spans

\* What the client does with an answer or without, and the link to the engine.
LEMMA SpansLink ==
  ASSUME WInv, SInv, ClientCalls \/ HandleSpans \/ ScheduleRestart \/ EnsureEngine
  PROVE  SInv'
<1>1. CASE ClientCalls
  <2>1. PICK p : p \in Seq(Range(p)) /\ todo' = p \o Tail(todo) /\ \A t \in Range(p) : Plainly(t)
    BY <1>1, ClientReplaces DEF Replaced
  <2>2. \A t \in Range(p) : Bland(t)
    BY <2>1 DEF Plainly, Bland, Spans
  <2>3. /\ todo # <<>> /\ Head(todo).op \notin Dying \cup {"send"}
        /\ Head(todo).op = "call" => ~Spans(Head(todo).h)
    BY <1>1, ClientReplaces DEF Replaced, Dying, Spans
  <2>4. UNCHANGED <<alive, pending, rbuf, outPipe, unwritten, spansOn>>
    BY <1>1, ClientReplaces DEF engineVars, childVars, linkVars
  <2> QED BY <2>1, <2>2, <2>3, <2>4, BlandStep
<1>2. CASE HandleSpans \/ ScheduleRestart \/ (EnsureEngine /\ (alive \/ gaveUp \/ StartRefused))
  <2>1. /\ todo # <<>> /\ todo' = Tail(todo) /\ Head(todo).op \in {"call", "exit", "ensure"}
        /\ UNCHANGED <<alive, pending, rbuf, outPipe, unwritten>>
        /\ Head(todo).op \in {"exit"} => UNCHANGED spansOn
        /\ Head(todo).op = "ensure" => ~alive \/ UNCHANGED spansOn
        /\ Head(todo).op = "call" => /\ Spans(Head(todo).h)
                                     /\ spansOn' = (Head(todo).resp # Failed /\ Head(todo).resp.text = Say("OK"))
    BY <1>2 DEF HandleSpans, ScheduleRestart, EnsureEngine, StartRefused, Calling, Idle, Rest, engineVars, childVars,
       Spans
  <2> DEFINE p == <<>>
  <2>2. p \in Seq(Range(p)) /\ Hushed(p) /\ Range(p) = {} /\ todo' = p \o Tail(todo) /\ p = <<>>
    <3>1. Tail(todo) \in Seq(Task)
      BY <2>1, Inv, HeadTailProperties DEF ProcInv, ProcTypeOK
    <3>2. <<>> \o Tail(todo) = Tail(todo) /\ DOMAIN <<>> = {}
      BY <3>1, ConcatEmptySeq
    <3> QED BY <2>1, <3>2, Few DEF Hushed
  <2> HIDE DEF p
  <2>3. /\ Hushed(todo)'
        /\ OnStack = {Head(todo)} \cup Range(Tail(todo)) /\ OnStack' = Range(Tail(todo))
        /\ \A t \in Range(Tail(todo)) : ~Told(t) /\ ~Greets(t) /\ (Missed(t) => Head(todo).op \in Dying)
        /\ todo' # <<>> => Head(todo') \in Range(Tail(todo))
    BY <2>1, <2>2, HushedStep
  <2>4. OptApproved' /\ OptMatched'
    BY <2>1, <2>3 DEF SInv, OptApproved, Approves, OptMatched, Matched
  <2>5. \A t \in OnStack : Missed(t) => ~alive /\ pending = <<>>
    BY <2>1 DEF SInv, AskedFirst, Calling
  <2>6. AskedFirst'
    BY <2>1, <2>3, <2>5 DEF SInv, AskedFirst
  <2>7. ToldKnowing'
    BY <2>3 DEF ToldKnowing
  <2>8. AskedYet'
    <3>1. CASE Head(todo).op = "call" /\ Head(todo).resp # Failed
      <4>1. spansOn'
        BY <2>1, <3>1 DEF SInv, ToldKnowing, Told
      <4> QED BY <4>1 DEF AskedYet
    <3>2. CASE Head(todo).op = "call" /\ Head(todo).resp = Failed
      <4>1. Missed(Head(todo))
        BY <2>1, <3>2 DEF Missed
      <4> QED BY <2>1, <2>3, <2>5, <4>1 DEF AskedYet
    <3>3. CASE Head(todo).op # "call"
      <4>1. alive' = alive /\ pending' = pending /\ (alive /\ ~spansOn' => ~spansOn)
        BY <2>1, <3>3
      <4>2. alive /\ ~spansOn => pending # <<>> /\ Spans(Head(pending).h)
        BY <2>1, <3>3 DEF SInv, AskedYet, Greets, Told, Calling
      <4> QED BY <4>1, <4>2 DEF AskedYet
    <3> QED BY <3>1, <3>2, <3>3
  <2> QED BY <2>3, <2>4, <2>6, <2>7, <2>8 DEF SInv
<1>3. CASE EnsureEngine /\ ~alive /\ ~gaveUp /\ ~StartRefused
  <2> DEFINE g == Send(Plain("OPT"), [kind |-> "spans"])
             p == <<g>>
  <2>1. /\ todo # <<>> /\ Head(todo).op = "ensure" /\ todo' = p \o Tail(todo)
        /\ rbuf' = <<>> /\ outPipe' = <<>> /\ unwritten' = <<Ready>> /\ pending' = pending
    BY <1>3 DEF EnsureEngine, StartFork, Greeting, Calling, Idle
  <2>2. g.op = "send" /\ Spans(g.h) /\ g.line.op = "OPT"
    BY DEF Send, Plain, Spans
  <2> HIDE DEF g
  <2>3. p \in Seq(Range(p)) /\ Range(p) = {g} /\ p # <<>> /\ Head(p) = g /\ DOMAIN p = 1..1
    BY Few
  <2> HIDE DEF p
  <2>4. Hushed(p)
    BY <2>3 DEF Hushed
  <2>5. /\ Hushed(todo)'
        /\ OnStack = {Head(todo)} \cup Range(Tail(todo)) /\ OnStack' = {g} \cup Range(Tail(todo))
        /\ \A t \in Range(Tail(todo)) : ~Told(t) /\ ~Greets(t) /\ (Missed(t) => Head(todo).op \in Dying)
        /\ todo' # <<>> /\ Head(todo') = g
    BY <2>1, <2>3, <2>4, HushedStep DEF Dying
  <2>6. Greets(g) /\ ~Told(g) /\ ~Missed(g) /\ \A t \in Range(Tail(todo)) : ~Missed(t)
    BY <2>1, <2>2, <2>5 DEF Greets, Told, Missed, Dying
  <2>7. pending = <<>>
    BY <1>3, Inv DEF ProcInv, ProcShape
  <2>8. OptApproved'
    BY <2>1, Few DEF OptApproved, Approves
  <2>9. OptMatched'
    BY <2>1, <2>2, <2>5 DEF SInv, OptMatched, Matched
  <2>10. AskedFirst' /\ ToldKnowing' /\ AskedYet'
    BY <2>1, <2>5, <2>6, <2>7 DEF AskedFirst, ToldKnowing, AskedYet
  <2> QED BY <2>5, <2>8, <2>9, <2>10 DEF SInv
<1> QED BY <1>1, <1>2, <1>3

\* stop() fails what is pending, the asking for spans first.
LEMMA SpansStop ==
  ASSUME WInv, SInv, Stop, UNCHANGED spansOn
  PROVE  SInv'
<1> DEFINE p == FailPendingHandlers
<1>1. /\ todo # <<>> /\ Head(todo).op = "stop" /\ todo' = p \o Tail(todo) /\ ~alive' /\ pending' = <<>>
      /\ rbuf' = rbuf /\ outPipe' = <<>> /\ unwritten' = <<>>
  BY DEF Stop, Calling, Idle
<1>2. pending \in Seq(Entry) /\ DOMAIN pending = 1..Len(pending) /\ Len(pending) \in Nat
  BY Inv, LenProperties DEF ProcInv, ProcTypeOK
<1>3. /\ p \in Seq(Task) /\ DOMAIN p = 1..Len(pending) /\ Len(p) = Len(pending)
      /\ \A i \in 1..Len(pending) : /\ p[i].op = "call" /\ p[i].resp = Failed
                                    /\ p[i].h = pending[i].h /\ p[i].line = pending[i].line
  <2>1. p \in Seq(Task) /\ \A i \in 1..Len(pending) : p[i] = Call(pending[i], Failed)
    BY <1>2, FailShape
  <2>2. DOMAIN p = 1..Len(pending) /\ Len(p) = Len(pending)
    BY <1>2, FailShape DEF FailPendingHandlers
  <2> QED BY <2>1, <2>2 DEF Call
<1>4. p \in Seq(Range(p))
  BY <1>3, SeqOfRange
<1> HIDE DEF p
<1>5. ASSUME NEW j \in 1..Len(pending), j > 1 PROVE ~Spans(pending[j].h)
  <2>1. pending # <<>>
    BY <1>2, EmptySeq
  <2>2. /\ j - 1 \in 1..Len(Tail(pending)) /\ Tail(pending)[j - 1] = pending[j]
        /\ DOMAIN Tail(pending) = 1..Len(Tail(pending))
    <3>1. /\ Tail(pending) \in Seq(Entry) /\ Len(Tail(pending)) = Len(pending) - 1
          /\ \A i \in 1..Len(Tail(pending)) : Tail(pending)[i] = pending[i + 1]
      BY <1>2, <2>1, HeadTailProperties
    <3>2. j - 1 \in 1..Len(Tail(pending)) /\ (j - 1) + 1 = j
      BY <1>2, <1>5, <3>1
    <3> QED BY <3>1, <3>2, LenProperties
  <2>3. pending[j] \in Range(Tail(pending))
    BY <2>2 DEF Range
  <2> QED BY <2>1, <2>3 DEF SInv, AskedFirst
<1>6. Hushed(p)
  <2>1. ASSUME NEW i \in DOMAIN p, NEW j \in DOMAIN p, i < j PROVE ~Spans(p[j].h)
    BY <1>2, <1>3, <1>5, <2>1
  <2> QED BY <1>3, <2>1 DEF Hushed, Hush, Told, Greets, Missed
<1>7. Range(p) = {} \/ \A y \in Range(Tail(todo)) : ~Missed(y)
  <2>1. OnStack = {Head(todo)} \cup Range(Tail(todo))
    BY <1>1, <1>4, Replacing
  <2>2. (\E y \in Range(Tail(todo)) : Missed(y)) => pending = <<>>
    BY <2>1 DEF SInv, AskedFirst
  <2>3. pending = <<>> => Range(p) = {}
    BY <1>3, EmptySeq DEF Range
  <2> QED BY <2>2, <2>3
<1>8. /\ Hushed(todo)'
      /\ OnStack = {Head(todo)} \cup Range(Tail(todo)) /\ OnStack' = Range(p) \cup Range(Tail(todo))
      /\ \A t \in Range(Tail(todo)) : ~Told(t) /\ ~Greets(t)
      /\ p # <<>> => todo' # <<>> /\ Head(todo') = Head(p) /\ Head(p) \in Range(p)
      /\ p = <<>> /\ todo' # <<>> => Head(todo') \in Range(Tail(todo))
  BY <1>1, <1>4, <1>6, <1>7, HushedStep
<1>9. \A t \in Range(p) : t.op = "call" /\ ~Told(t) /\ ~Greets(t) /\ Matched(t.h, t.line)
  <2>1. \A i \in 1..Len(pending) : Matched(pending[i].h, pending[i].line)
    BY <1>2 DEF SInv, OptMatched, Range
  <2> QED BY <1>3, <2>1 DEF Range, Told, Greets
<1>10. todo' # <<>> => ~Told(Head(todo')) /\ ~Greets(Head(todo'))
  BY <1>8, <1>9
<1>11. OptApproved'
  BY <1>1, Few DEF SInv, OptApproved, Approves
<1>12. OptMatched'
  BY <1>1, <1>8, <1>9, Few DEF SInv, OptMatched, Matched
<1>13. AskedFirst' /\ ToldKnowing' /\ AskedYet'
  BY <1>1, <1>10 DEF AskedFirst, ToldKnowing, AskedYet
<1> QED BY <1>8, <1>11, <1>12, <1>13 DEF SInv

\* die(), and the failure of a send().
LEMMA SpansDie ==
  ASSUME WInv, SInv, Die \/ SendDead \/ SendBroken, UNCHANGED spansOn
  PROVE  SInv'
<1> DEFINE a == Do("die")
           x == Do("stop")
           y == Do("exit")
           h == Head(todo)
           c == Call(h, Failed)
<1>1. /\ todo # <<>> /\ UNCHANGED <<alive, pending, rbuf, outPipe, unwritten>>
      /\ \/ h.op = "die" /\ todo' = <<x, y>> \o Tail(todo)
         \/ h.op = "send" /\ ~alive /\ todo' = <<c>> \o Tail(todo)
         \/ h.op = "send" /\ todo' = <<a, c>> \o Tail(todo)
  BY DEF Die, SendDead, SendBroken, Calling, Idle, childVars
<1>2. /\ a.op = "die" /\ x.op = "stop" /\ y.op = "exit"
      /\ c.op = "call" /\ c.resp = Failed /\ c.h = h.h /\ c.line = h.line
  BY DEF Do, Call
<1>3. todo # <<>> /\ h \in OnStack
  BY <1>1, Inv, TopAndRest DEF OnStack, ProcInv, ProcTypeOK
<1>4. h.op = "send" => Matched(c.h, c.line)
  BY <1>2, <1>3 DEF SInv, OptMatched
<1> HIDE DEF a, x, y, c, h
<1>5. OptApproved'
  BY <1>1 DEF SInv, OptApproved, Approves
<1>6. CASE h.op = "die" /\ todo' = <<x, y>> \o Tail(todo)
  <2> DEFINE p == <<x, y>>
  <2>1. /\ p \in Seq(Range(p)) /\ Range(p) = {x, y} /\ p # <<>> /\ Head(p) = x
    BY Few
  <2>2. DOMAIN p = 1..2 /\ p[1] = x /\ p[2] = y
    OBVIOUS
  <2>3. todo' = p \o Tail(todo)
    BY <1>6
  <2> HIDE DEF p
  <2>4. Hushed(p)
    <3>1. ~Told(y) /\ ~Greets(y) /\ ~Missed(y)
      BY <1>2 DEF Told, Greets, Missed
    <3> QED BY <2>2, <3>1 DEF Hushed, Hush
  <2>5. /\ Hushed(todo)'
        /\ OnStack = {h} \cup Range(Tail(todo)) /\ OnStack' = {x, y} \cup Range(Tail(todo))
        /\ todo' # <<>> /\ Head(todo') = x
    BY <1>1, <1>2, <2>1, <2>3, <2>4, HushedStep DEF Dying, h
  <2>6. Calling("stop")' /\ ~Greets(x) /\ ~Told(x) /\ ~Missed(x) /\ ~Missed(y)
    BY <1>2, <2>5 DEF Calling, Idle, Greets, Told, Missed
  <2>7. OptMatched'
    BY <1>1, <1>2, <2>5 DEF SInv, OptMatched, Matched
  <2>8. AskedFirst'
    BY <1>1, <2>5, <2>6 DEF SInv, AskedFirst
  <2>9. ToldKnowing' /\ AskedYet'
    BY <2>5, <2>6 DEF ToldKnowing, AskedYet
  <2> QED BY <1>5, <2>5, <2>7, <2>8, <2>9 DEF SInv
<1>7. CASE h.op = "send" /\ ((~alive /\ todo' = <<c>> \o Tail(todo)) \/ todo' = <<a, c>> \o Tail(todo))
  <2>1. PICK p : /\ (p = <<c>> /\ ~alive) \/ p = <<a, c>>
                 /\ todo' = p \o Tail(todo)
    BY <1>7
  <2>2. /\ p \in Seq(Range(p)) /\ Range(p) \subseteq {a, c} /\ p # <<>> /\ c \in Range(p)
        /\ p = <<c>> => Head(p) = c
        /\ p = <<a, c>> => Head(p) = a
    BY <2>1, Few
  <2>3. Hushed(p)
    <3>1. CASE p = <<c>>
      <4>1. DOMAIN <<c>> = 1..1
        OBVIOUS
      <4> QED BY <3>1, <4>1 DEF Hushed
    <3>2. CASE p = <<a, c>>
      <4>1. DOMAIN p = 1..2 /\ p[1] = a /\ p[2] = c
        BY <3>2
      <4>2. ~Told(c) /\ ~Greets(c) /\ a.op \in Dying
        BY <1>2 DEF Told, Greets, Dying
      <4> QED BY <4>1, <4>2 DEF Hushed, Hush
    <3> QED BY <2>1, <3>1, <3>2
  <2>4. /\ Hushed(todo)'
        /\ OnStack = {h} \cup Range(Tail(todo)) /\ OnStack' = Range(p) \cup Range(Tail(todo))
        /\ \A t \in Range(Tail(todo)) : ~Told(t) /\ ~Greets(t) /\ (Missed(t) => h.op \in Dying)
        /\ todo' # <<>> /\ Head(todo') = Head(p)
    BY <1>1, <1>7, <2>1, <2>2, <2>3, HushedStep DEF Dying, h
  <2>5. \A t \in OnStack' : /\ Missed(t) => Greets(h)
                            /\ t \in {a, c} \/ t \in OnStack
    BY <1>2, <1>7, <2>2, <2>4 DEF Missed, Greets, Dying
  <2>6. Greets(h) => pending = <<>>
    BY <1>1 DEF SInv, AskedFirst, h
  <2>7. ~alive \/ Calling("die")'
    <3>1. CASE p = <<a, c>>
      BY <1>2, <2>2, <2>4, <3>1 DEF Calling, Idle
    <3> QED BY <2>1, <3>1
  <2>8. ~Told(Head(todo')) /\ ~Greets(Head(todo'))
    BY <1>2, <2>1, <2>2, <2>4 DEF Told, Greets
  <2>9. OptMatched'
    BY <1>1, <1>2, <1>4, <1>7, <2>5 DEF SInv, OptMatched, Matched
  <2>10. AskedFirst'
    BY <1>1, <2>5, <2>6, <2>7, <2>8 DEF SInv, AskedFirst
  <2>11. ToldKnowing' /\ AskedYet'
    BY <1>1, <2>7, <2>8 DEF ToldKnowing, AskedYet
  <2> QED BY <1>5, <2>4, <2>9, <2>10, <2>11 DEF SInv
<1> QED BY <1>1, <1>6, <1>7

\* A request written waits its turn.
LEMMA SpansSent ==
  ASSUME WInv, SInv, SendWritten, UNCHANGED spansOn
  PROVE  SInv'
<1> DEFINE h == Head(todo)
           e == [line |-> h.line, h |-> h.h]
           p == <<>>
<1>1. /\ todo # <<>> /\ h.op = "send" /\ alive /\ todo' = Tail(todo) /\ pending' = Append(pending, e)
      /\ UNCHANGED <<alive, rbuf, outPipe, unwritten>>
  BY DEF SendWritten, Calling, Idle
<1>2. h \in OnStack /\ Tail(todo) \in Seq(Task)
  BY <1>1, Inv, TopAndRest, HeadTailProperties DEF OnStack, ProcInv, ProcTypeOK
<1>3. Matched(e.h, e.line) /\ (Spans(e.h) <=> Greets(h))
  BY <1>1, <1>2 DEF SInv, OptMatched, Greets
<1>4. p \in Seq(Range(p)) /\ Hushed(p) /\ Range(p) = {} /\ todo' = p \o Tail(todo) /\ p = <<>>
  <2>1. <<>> \o Tail(todo) = Tail(todo) /\ DOMAIN <<>> = {}
    BY <1>2, ConcatEmptySeq
  <2> QED BY <1>1, <2>1, Few DEF Hushed
<1> HIDE DEF p
<1>5. /\ Hushed(todo)'
      /\ OnStack = {h} \cup Range(Tail(todo)) /\ OnStack' = Range(Tail(todo))
      /\ \A t \in Range(Tail(todo)) : ~Told(t) /\ ~Greets(t) /\ ~Missed(t)
      /\ todo' # <<>> => Head(todo') \in Range(Tail(todo))
  BY <1>1, <1>4, HushedStep DEF Dying
<1>6. /\ pending' # <<>> /\ Range(pending') = Range(pending) \cup {e}
      /\ Head(pending') = IF pending = <<>> THEN e ELSE Head(pending)
      /\ Tail(pending') = IF pending = <<>> THEN <<>> ELSE Append(Tail(pending), e)
  <2> DEFINE S == Entry \cup {e}
  <2>1. pending \in Seq(S) /\ e \in S
    BY Inv, SeqMonotonic DEF ProcInv, ProcTypeOK
  <2> HIDE DEF S, e
  <2> QED BY <1>1, <2>1, AppendProperties, HeadTailAppend, RangeAppend
<1>7. pending # <<>> => Range(Tail(pending')) = Range(Tail(pending)) \cup {e}
  <2> SUFFICES ASSUME pending # <<>> PROVE Range(Tail(pending')) = Range(Tail(pending)) \cup {e}
    OBVIOUS
  <2> DEFINE S == Entry \cup {e}
             q == Tail(pending)
  <2>1. pending \in Seq(S) /\ e \in S
    BY Inv, SeqMonotonic DEF ProcInv, ProcTypeOK
  <2>2. Tail(pending') = Append(q, e)
    BY <1>6
  <2> HIDE DEF S, e
  <2>3. q \in Seq(S)
    BY <2>1, HeadTailProperties
  <2> HIDE DEF q
  <2>4. Range(Append(q, e)) = Range(q) \cup {e}
    BY <2>1, <2>3, RangeAppend
  <2> QED BY <2>2, <2>4 DEF q
<1> HIDE DEF e, h
<1>8. OptApproved'
  BY <1>1 DEF SInv, OptApproved, Approves
<1>9. OptMatched'
  BY <1>3, <1>5, <1>6 DEF SInv, OptMatched, Matched
<1>10. Spans(e.h) => pending = <<>>
  BY <1>1, <1>3 DEF SInv, AskedFirst, h
<1>11. AskedFirst'
  <2>1. \A t \in Range(Tail(pending')) : ~Spans(t.h)
    BY <1>6, <1>7, <1>10, Few DEF SInv, AskedFirst
  <2> QED BY <1>5, <2>1 DEF AskedFirst
<1>12. ToldKnowing'
  BY <1>5 DEF ToldKnowing
<1>13. AskedYet'
  <2>1. ~spansOn => Spans(Head(pending').h)
    <3>1. ~spansOn => (pending # <<>> /\ Spans(Head(pending).h)) \/ Greets(h)
      BY <1>1 DEF SInv, AskedYet, Told, Calling, h
    <3> QED BY <1>3, <1>6, <1>10, <3>1
  <2> QED BY <1>6, <2>1 DEF AskedYet
<1> QED BY <1>5, <1>8, <1>9, <1>11, <1>12, <1>13 DEF SInv

\* The lines read answer the handlers that wait, the asking for spans first.
LEMMA SpansAnswered ==
  ASSUME WInv, SInv, LineAnswers, UNCHANGED spansOn
  PROVE  SInv'
<1> DEFINE r == Head(rbuf)
           e == Head(pending)
           c == Call(e, r)
           h == Head(todo)
           p == <<c, h>>
<1>1. /\ todo # <<>> /\ h.op = "lines" /\ rbuf # <<>> /\ state = "ready" /\ pending # <<>>
      /\ rbuf' = Tail(rbuf) /\ pending' = Tail(pending) /\ todo' = <<c>> \o todo
      /\ UNCHANGED <<alive, outPipe, unwritten>>
  BY DEF LineAnswers, Calling, Idle, childVars
<1>2. todo \in Seq(Task) /\ ProcTypeOK /\ ProcShape /\ Pairing /\ rbuf \in Seq(ReplyOrReady) /\ pending \in Seq(Entry)
  BY Inv DEF ProcInv, ProcTypeOK
<1>3. r \in Reply /\ r.re = e.line
  BY <1>1, <1>2, OldestFirst
<1>4. r # Failed /\ r # Ready
  <2>1. r # Failed
    BY <1>3, GhostAssumption DEF Reply
  <2>2. r.re \in Line /\ Ready.re = Boot
    BY <1>3 DEF Reply, Ready
  <2> QED BY <2>1, <2>2, GhostAssumption
<1>5. /\ Range(rbuf) = {r} \cup Range(Tail(rbuf)) /\ Range(pending) = {e} \cup Range(Tail(pending))
  BY <1>1, <1>2, TopAndRest
<1>6. c.op = "call" /\ c.resp = r /\ c.h = e.h /\ c.line = e.line
  BY DEF Call
<1>7. todo' = p \o Tail(todo)
  <2> HIDE DEF c
  <2> QED BY <1>1, <1>2, OnTop DEF p
<1> HIDE DEF r, e, c, h
<1>8. p \in Seq(Range(p)) /\ Range(p) = {c, h} /\ p # <<>> /\ Head(p) = c
  BY Few
<1>9. ~Told(h) /\ ~Greets(h) /\ ~Missed(h)
  BY <1>1 DEF Told, Greets, Missed
<1>10. Hushed(p)
  <2>1. DOMAIN p = 1..2 /\ p[1] = c /\ p[2] = h
    OBVIOUS
  <2> HIDE DEF p
  <2> QED BY <1>9, <2>1 DEF Hushed, Hush
<1> HIDE DEF p
<1>11. /\ Hushed(todo)'
       /\ OnStack = {h} \cup Range(Tail(todo)) /\ OnStack' = {c, h} \cup Range(Tail(todo))
       /\ \A t \in Range(Tail(todo)) : ~Told(t) /\ ~Greets(t) /\ ~Missed(t)
       /\ todo' # <<>> /\ Head(todo') = c
  BY <1>1, <1>7, <1>8, <1>10, HushedStep DEF h, Dying
<1>12. OptApproved'
  BY <1>1, <1>5 DEF SInv, OptApproved, Approves
<1>13. OptMatched'
  BY <1>1, <1>5, <1>6, <1>11 DEF SInv, OptMatched, Matched
<1>14. ~Greets(c) /\ ~Missed(c) /\ Told(c)
  BY <1>4, <1>6 DEF Greets, Missed, Told
<1>15. AskedFirst'
  <2>1. \A t \in Range(pending') : ~Spans(t.h)
    BY <1>1 DEF SInv, AskedFirst
  <2>2. pending' # <<>> => \A t \in Range(Tail(pending')) : ~Spans(t.h)
    <3>1. pending' \in Seq(Entry)
      BY <1>1, <1>2, HeadTailProperties
    <3> QED BY <2>1, <3>1, TopAndRest
  <2> QED BY <1>9, <1>11, <1>14, <2>2 DEF AskedFirst
<1>16. ~spansOn => Spans(e.h)
  <2>1. alive
    BY <1>1, <1>2 DEF ProcShape
  <2> QED BY <1>1, <1>9, <2>1 DEF SInv, AskedYet, Calling, h, e
<1>17. Spans(e.h) => r.text = Say("OK")
  BY <1>3, <1>4, <1>5 DEF SInv, OptMatched, Matched, OptApproved, Approves
<1>18. ToldKnowing' /\ AskedYet'
  <2>1. ToldKnowing'
    BY <1>6, <1>11, <1>16, <1>17 DEF ToldKnowing
  <2>2. AskedYet'
    BY <1>6, <1>11, <1>14, <1>16 DEF AskedYet
  <2> QED BY <2>1, <2>2
<1> QED BY <1>11, <1>12, <1>13, <1>15, <1>18 DEF SInv

\* The engine's calls.
LEMMA SpansProc ==
  ASSUME WInv, SInv, ProcStep
  PROVE  SInv'
<1>1. ProcCalls /\ UNCHANGED spansOn
  BY DEF ProcStep, typingVars, linkVars
<1>2. CASE Stop \/ Die \/ SendDead \/ SendBroken \/ SendWritten \/ LineAnswers
  BY <1>1, <1>2, SpansStop, SpansDie, SpansSent, SpansAnswered
<1>3. CASE LinesDone
  <2> DEFINE p == <<>>
  <2>1. /\ todo # <<>> /\ Head(todo).op = "lines" /\ todo' = Tail(todo)
        /\ UNCHANGED <<alive, pending, rbuf, outPipe, unwritten>>
    BY <1>3 DEF LinesDone, Calling, Idle, childVars
  <2>2. p \in Seq(Range(p)) /\ Range(p) = {} /\ todo' = p \o Tail(todo)
    <3>1. Tail(todo) \in Seq(Task)
      BY <2>1, Inv, HeadTailProperties DEF ProcInv, ProcTypeOK
    <3> QED BY <2>1, <3>1, ConcatEmptySeq, Few
  <2> HIDE DEF p
  <2> QED BY <1>1, <2>1, <2>2, BlandStep DEF Dying
<1>4. CASE LineBeforeReady \/ LineIgnored
  <2>1. /\ UNCHANGED <<todo, alive, pending, outPipe, unwritten>>
        /\ rbuf # <<>> /\ rbuf' = Tail(rbuf) /\ rbuf \in Seq(ReplyOrReady)
    BY <1>4, Inv DEF LineBeforeReady, LineIgnored, childVars, ProcInv, ProcTypeOK
  <2>2. Range(rbuf) = {Head(rbuf)} \cup Range(Tail(rbuf))
    BY <2>1, TopAndRest
  <2>3. OptApproved'
    BY <2>1, <2>2 DEF SInv, OptApproved, Approves
  <2> QED BY <1>1, <2>1, <2>3, BlandPipes
<1> QED BY <1>1, <1>2, <1>3, <1>4 DEF ProcCalls

\* The pipe is read, or its end, or the watchdog rings.
LEMMA SpansEvents ==
  ASSUME WInv, SInv, ProcEvent(OnReadable) \/ ProcEvent(OnEof) \/ ProcEvent(OnStartTimeout)
  PROVE  SInv'
<1> DEFINE a == Do("lines")
           b == Do("die")
<1>1. /\ todo = <<>> /\ UNCHANGED <<alive, pending, unwritten, spansOn>>
      /\ todo' = <<a>> \/ todo' = <<b>>
      /\ OnReadable \/ UNCHANGED <<rbuf, outPipe>>
  BY DEF ProcEvent, OnReadable, OnEof, OnStartTimeout, Idle, typingVars, linkVars, childVars
<1>2. Bland(a) /\ Bland(b)
  BY DEF Bland, Do
<1> HIDE DEF a, b
<1>3. OptApproved'
  <2>1. CASE UNCHANGED <<rbuf, outPipe>>
    BY <1>1, <2>1 DEF SInv, OptApproved, Approves
  <2>2. CASE OnReadable
    <3> DEFINE R == ReplyOrReady
    <3>1. PICK n \in 1..Len(outPipe) : /\ rbuf' = rbuf \o SubSeq(outPipe, 1, n)
                                       /\ outPipe' = SubSeq(outPipe, n + 1, Len(outPipe))
      BY <2>2 DEF OnReadable
    <3>2. rbuf \in Seq(R) /\ outPipe \in Seq(R)
      BY Inv DEF ProcInv, ProcTypeOK
    <3> DEFINE x == SubSeq(outPipe, 1, n)
               y == SubSeq(outPipe, n + 1, Len(outPipe))
    <3>3. x \in Seq(R) /\ y \in Seq(R) /\ x \o y = outPipe
      BY <3>2, Cut
    <3>4. rbuf' = rbuf \o x /\ outPipe' = y
      BY <3>1
    <3> HIDE DEF x, y, R
    <3>5. Range(rbuf \o x) = Range(rbuf) \cup Range(x) /\ Range(outPipe) = Range(x) \cup Range(y)
      BY <3>2, <3>3, RangeConcatenation
    <3> QED BY <1>1, <3>4, <3>5 DEF SInv, OptApproved, Approves
  <2> QED BY <1>1, <2>1, <2>2
<1>4. \A c : Bland(c) /\ todo' = <<c>> => SInv'
  <2> SUFFICES ASSUME NEW c, Bland(c), todo' = <<c>> PROVE SInv'
    OBVIOUS
  <2> DEFINE p == <<c>>
  <2>1. p \in Seq(Range(p)) /\ Range(p) = {c} /\ todo' = p
    BY Few
  <2> HIDE DEF p
  <2> QED BY <1>1, <1>3, <2>1, BlandStart
<1> QED BY <1>1, <1>2, <1>4

\* A harness that takes lines answers each OPT with OK, and writes what it has.
LEMMA SpansTaken ==
  ASSUME WInv, SInv, NEW texts, Take(texts),
         \A i \in 1..Len(texts) : inPipe[i].op = "OPT" => texts[i] = Say("OK"),
         UNCHANGED spansOn
  PROVE  SInv'
<1>1. /\ UNCHANGED <<todo, alive, pending, rbuf, outPipe>> /\ Len(texts) \in 1..Len(inPipe)
      /\ unwritten' = [i \in 1..Len(texts) |-> [re |-> inPipe[i], text |-> texts[i]]]
  BY DEF Take, addonVars
<1>2. \A r \in Range(unwritten') : Approves(r)
  BY <1>1 DEF Approves, Range
<1>3. OptApproved'
  BY <1>1, <1>2 DEF SInv, OptApproved, Approves
<1> QED BY <1>1, <1>3, BlandPipes

\* Every step of the harness's.
LEMMA SpansHarness ==
  ASSUME WInv, SInv, HarnessStep \/ Crash
  PROVE  SInv'
<1>1. UNCHANGED spansOn
  BY DEF HarnessStep, Crash, typingVars, linkVars
<1>2. CASE Crash
  <2>1. UNCHANGED <<todo, alive, pending, rbuf, outPipe, unwritten>>
    BY <1>2 DEF Crash, ChildExit, addonVars
  <2>2. OptApproved'
    BY <2>1 DEF SInv, OptApproved, Approves
  <2> QED BY <1>1, <2>1, <2>2, BlandPipes
<1>3. CASE WriteLine
  <2> DEFINE R == ReplyOrReady
  <2>1. /\ UNCHANGED <<todo, alive, pending, rbuf>> /\ unwritten # <<>>
        /\ outPipe' = Append(outPipe, Head(unwritten)) /\ unwritten' = Tail(unwritten)
        /\ outPipe \in Seq(R) /\ unwritten \in Seq(R)
    BY <1>3, Inv DEF WriteLine, addonVars, ProcInv, ProcTypeOK
  <2> HIDE DEF R
  <2>2. Range(unwritten) = {Head(unwritten)} \cup Range(Tail(unwritten)) /\ Head(unwritten) \in R
    BY <2>1, TopAndRest, HeadTailProperties
  <2>3. Range(outPipe') = Range(outPipe) \cup {Head(unwritten)}
    BY <2>1, <2>2, RangeAppend
  <2>4. OptApproved'
    BY <2>1, <2>2, <2>3 DEF SInv, OptApproved, Approves
  <2> QED BY <1>1, <2>1, <2>4, BlandPipes
<1>4. CASE TakeBatches
  <2>1. PICK n \in 1..Len(inPipe) :
          /\ \A i \in 1..n : inPipe[i].op = "B"
          /\ Search([i \in 1..(n - 1) |-> Say("SKIP")])
    BY <1>4 DEF TakeBatches
  <2> DEFINE skips == [i \in 1..(n - 1) |-> Say("SKIP")]
  <2>2. PICK t : Take(skips \o <<t>>)
    BY <2>1 DEF Search
  <2>3. Len(skips \o <<t>>) = n
    <3>1. n \in Nat \ {0}
      <4>1. Len(inPipe) \in Nat
        BY Inv, LenProperties DEF ProcInv, ProcTypeOK
      <4> QED BY <4>1
    <3>2. skips \in Seq({Say("SKIP"), t}) /\ Len(skips) = n - 1 /\ <<t>> \in Seq({Say("SKIP"), t}) /\ Len(<<t>>) = 1
      BY <3>1
    <3> HIDE DEF skips
    <3>3. Len(skips \o <<t>>) = (n - 1) + 1
      BY <3>2, ConcatProperties
    <3> QED BY <3>1, <3>3
  <2> DEFINE texts == skips \o <<t>>
  <2> HIDE DEF skips
  <2>4. Take(texts) /\ Len(texts) = n
    BY <2>2, <2>3
  <2> HIDE DEF texts
  <2>5. \A i \in 1..Len(texts) : inPipe[i].op = "OPT" => texts[i] = Say("OK")
    BY <2>1, <2>4
  <2> QED BY <1>1, <2>4, <2>5, SpansTaken
<1>5. CASE TakeBadPick \/ TakePrefixPick \/ TakeWholePick \/ TakeClear \/ TakeOption
  <2>1. \E t : /\ Take(<<t>>)
               /\ inPipe[1].op = "OPT" => t = Say("OK")
    <3>1. Head(inPipe) = inPipe[1]
      BY <1>5, Inv DEF TakeBadPick, TakePrefixPick, TakeWholePick, TakeClear, TakeOption, Listed, Picking,
         ProcInv, ProcTypeOK
    <3>2. CASE TakeBadPick \/ TakePrefixPick
      <4>1. Head(inPipe).op = "S"
        BY <3>2 DEF TakeBadPick, TakePrefixPick, Listed, Picking
      <4>2. \E t : Take(<<t>>) \/ Take(<<>> \o <<t>>)
        BY <3>2 DEF TakeBadPick, TakePrefixPick, Search
      <4>3. \A t : <<>> \o <<t>> = <<t>>
        <5> SUFFICES ASSUME NEW t PROVE <<>> \o <<t>> = <<t>>
          OBVIOUS
        <5>1. <<t>> \in Seq({t})
          BY Few
        <5> QED BY <5>1, ConcatEmptySeq
      <4>4. PICK t : Take(<<t>>)
        BY <4>2, <4>3
      <4> QED BY <3>1, <4>1, <4>4
    <3>3. CASE TakeWholePick \/ TakeClear \/ TakeOption
      BY <3>3 DEF TakeWholePick, TakeClear, TakeOption
    <3> QED BY <1>5, <3>2, <3>3
  <2>2. PICK t : Take(<<t>>) /\ (inPipe[1].op = "OPT" => t = Say("OK"))
    BY <2>1
  <2> DEFINE texts == <<t>>
  <2>3. Take(texts) /\ Len(texts) = 1 /\ texts[1] = t
    BY <2>2
  <2> HIDE DEF texts
  <2>4. \A i \in 1..Len(texts) : inPipe[i].op = "OPT" => texts[i] = Say("OK")
    <3>1. \A i \in 1..1 : i = 1
      OBVIOUS
    <3> QED BY <2>2, <2>3, <3>1
  <2> QED BY <1>1, <2>3, <2>4, SpansTaken
<1> QED BY <1>2, <1>3, <1>4, <1>5 DEF HarnessStep, HarnessTakes

\* What the loop starts.
LEMMA SpansLoop ==
  ASSUME WInv, SInv, Callback \/ Timers
  PROVE  SInv'
<1>1. /\ todo = <<>> /\ UNCHANGED <<alive, pending, rbuf, outPipe, unwritten, spansOn>>
  BY DEF Callback, Timers, KeyEvent, Reset, FocusOut, Close, SwitchInputMethod, Click, Destroy,
     OnPendingTimer, OnRestartTimer, Happens, Turn, Idle, quietVars, engineVars, typingVars, linkVars, childVars
<1>2. OptApproved'
  BY <1>1 DEF SInv, OptApproved, Approves
<1>3. ASSUME todo' = <<>> PROVE SInv'
  <2> DEFINE p == <<>>
  <2>1. p \in Seq(Range(p)) /\ Range(p) = {} /\ todo' = p
    BY <1>3, Few
  <2> HIDE DEF p
  <2> QED BY <1>1, <1>2, <2>1, BlandStart
<1>4. ASSUME NEW c, Bland(c), todo' = <<c>> PROVE SInv'
  <2> DEFINE p == <<c>>
  <2>1. p \in Seq(Range(p)) /\ Range(p) = {c} /\ todo' = p
    BY <1>4, Few
  <2> HIDE DEF p
  <2> QED BY <1>1, <1>2, <1>4, <2>1, BlandStart
<1>5. ASSUME NEW c, NEW d, Bland(c), Bland(d), todo' = <<c, d>> PROVE SInv'
  <2> DEFINE p == <<c, d>>
  <2>1. p \in Seq(Range(p)) /\ Range(p) = {c, d} /\ todo' = p
    BY <1>5, Few
  <2> HIDE DEF p
  <2> QED BY <1>1, <1>2, <1>5, <2>1, BlandStart
<1>6. ASSUME NEW c, NEW d, Bland(c), Bland(d), todo' = <<c, d, c>> PROVE SInv'
  <2> DEFINE p == <<c, d, c>>
  <2>1. p \in Seq(Range(p)) /\ Range(p) = {c, d} /\ todo' = p
    BY <1>6, Few
  <2> HIDE DEF p
  <2> QED BY <1>1, <1>2, <1>6, <2>1, BlandStart
<1>7. /\ \A ic, x, y : /\ Bland(Press(ic, x)) /\ Bland(ClearAll(ic, x, y))
                       /\ Bland(Select(ic, x)) /\ Bland(Fallback(ic))
      /\ Bland(Send(Plain("SAVE"), Nobody)) /\ Bland(Do("stop")) /\ Bland(Do("members"))
      /\ Bland(Do("ensure")) /\ Bland(Request(buf))
  BY DEF Bland, Press, ClearAll, Select, Fallback, Send, Plain, Nobody, Spans, Do, Request
<1>8. CASE Close
  BY <1>1, <1>3, <1>8 DEF Close
<1>9. CASE KeyEvent \/ FocusOut \/ SwitchInputMethod \/ Click \/ OnPendingTimer
  <2>1. \/ todo' = <<>> \/ (\E key \in Keys : todo' = <<Press(focus, key)>>)
        \/ todo' = <<ClearAll(focus, Shown, TRUE)>> \/ todo' = <<ClearAll(focus, Shown, FALSE)>>
        \/ (\E ic \in IC : \E i \in DOMAIN panel[ic].cands : todo' = <<Select(ic, i)>>)
        \/ todo' = <<Fallback(icRef)>>
    BY <1>1, <1>9 DEF KeyEvent, FocusOut, SwitchInputMethod, Click, OnPendingTimer
  <2> QED BY <1>3, <1>4, <1>7, <2>1
<1>10. CASE Reset
  <2>1. todo' = <<Send(Plain("SAVE"), Nobody), ClearAll(focus, Shown, TRUE)>>
    BY <1>10 DEF Reset
  <2> QED BY <1>5, <1>7, <2>1
<1>11. CASE OnRestartTimer
  <2>1. todo' = <<>> \/ todo' = <<Do("ensure"), Request(buf)>>
    BY <1>1, <1>11 DEF OnRestartTimer, Revive
  <2> QED BY <1>3, <1>5, <1>7, <2>1
<1>12. CASE Destroy
  <2>1. todo' = <<Do("stop"), Do("members"), Do("stop")>>
    BY <1>12 DEF Destroy
  <2> QED BY <1>6, <1>7, <2>1
<1> QED BY <1>8, <1>9, <1>10, <1>11, <1>12 DEF Callback, Timers

\* Every step.
LEMMA SpansNext ==
  ASSUME WInv, SInv, [Next]_vars
  PROVE  SInv'
<1>1. CASE UNCHANGED vars
  <2>1. UNCHANGED <<todo, alive, pending, rbuf, outPipe, unwritten, spansOn>>
    BY <1>1 DEF vars, procVars, addonVars, childVars, typingVars, linkVars
  <2>2. OptApproved'
    BY <2>1 DEF SInv, OptApproved, Approves
  <2> QED BY <2>1, <2>2, BlandPipes
<1>2. CASE DestroyMembers
  <2> DEFINE p == <<>>
  <2>1. /\ todo # <<>> /\ Head(todo).op = "members" /\ todo' = Tail(todo)
        /\ UNCHANGED <<alive, pending, rbuf, outPipe, unwritten, spansOn>>
    BY <1>2 DEF DestroyMembers, Calling, Idle, Rest, engineVars, childVars, linkVars
  <2>2. p \in Seq(Range(p)) /\ Range(p) = {} /\ todo' = p \o Tail(todo)
    <3>1. Tail(todo) \in Seq(Task)
      BY <2>1, Inv, HeadTailProperties DEF ProcInv, ProcTypeOK
    <3> QED BY <2>1, <3>1, ConcatEmptySeq, Few
  <2> HIDE DEF p
  <2> QED BY <2>1, <2>2, BlandStep DEF Dying
<1>3. CASE ClientCalls \/ HandleSpans \/ ScheduleRestart \/ EnsureEngine
  BY <1>3, SpansLink
<1>4. CASE ProcStep
  BY <1>4, SpansProc
<1>5. CASE ProcEvent(OnReadable) \/ ProcEvent(OnEof) \/ ProcEvent(OnStartTimeout)
  BY <1>5, SpansEvents
<1>6. CASE HarnessStep \/ Crash
  BY <1>6, SpansHarness
<1>7. CASE Callback \/ Timers
  BY <1>7, SpansLoop
<1> QED BY <1>1, <1>2, <1>3, <1>4, <1>5, <1>6, <1>7 DEF Next, AddonCalls, CompositionCalls, ClientCalls

\* Before the first process there is nothing to ask.
LEMMA SpansInit ==
  ASSUME Init
  PROVE  SInv
<1> DEFINE a == Do("ensure")
<1>1. /\ todo = <<a>> /\ pending = <<>> /\ ~alive /\ rbuf = <<>> /\ outPipe = <<>> /\ unwritten = <<>>
  BY DEF Init, ProcInit
<1>2. Bland(a) /\ a.op = "ensure"
  BY DEF Bland, Do
<1> HIDE DEF a
<1> DEFINE p == <<a>>
<1>3. p \in Seq(Range(p)) /\ Range(p) = {a} /\ Head(p) = a /\ p # <<>> /\ todo = p
  BY <1>1, Few
<1> HIDE DEF p
<1>4. Hushed(todo)
  BY <1>2, <1>3, BlandHushed
<1>5. \A t \in OnStack : ~Told(t) /\ ~Greets(t) /\ ~Missed(t) /\ t.op \notin {"send", "call"}
  BY <1>2, <1>3 DEF Told, Greets, Missed, OnStack
<1>6. OptApproved /\ OptMatched
  BY <1>1, <1>5, Few DEF OptApproved, OptMatched
<1>7. AskedFirst /\ ToldKnowing /\ AskedYet
  BY <1>1, <1>3, <1>5 DEF AskedFirst, ToldKnowing, AskedYet, OnStack
<1> QED BY <1>4, <1>6, <1>7 DEF SInv

\* A candidate line is parsed knowing whether it carries covers, whatever dies
\* and is started again between the question and its answer.
THEOREM SpansFirstCorrect ==
  ASSUME AsUsed
  PROVE  Spec => []SpansFirst
<1>1. Init => SInv
  BY SpansInit
<1>2. WInv /\ SInv /\ [Next]_vars => SInv'
  BY SpansNext
<1>3. SInv => SpansFirst
  <2> SUFFICES ASSUME SInv, ~Idle, Calling("call"), Head(todo).resp # Failed,
                      Head(todo).resp.text.kind = "CAND"
               PROVE  spansOn
    BY DEF SpansFirst
  <2>1. Told(Head(todo)) /\ todo # <<>>
    BY DEF Told, Calling, Idle
  <2>2. Head(todo).resp.text # Say("OK")
    BY DEF Say
  <2> QED BY <2>1, <2>2 DEF SInv, ToldKnowing
<1> QED BY <1>1, <1>2, <1>3, WInductive, PTL DEF Spec

----------------------------------------------------------------------------
(* No letter is lost, doubled or moved.  What is owed is the pinyin and    *)
(* the letters queued, except while a call that moves letters waits on the *)
(* call stack: it has taken them from one place and not yet put them in    *)
(* another.  KInv says what each such call is owed (Ahead), and that there *)
(* is one at most.  It holds until a candidate is picked that spells       *)
(* something else than the pinyin (owed = Misled), which stays.            *)

\* The calls that are about to move letters; one at most is on the stack.
Acts == {"commit", "select", "fallback", "clear", "type", "key", "arm"}
Single(s) == \A i, j \in DOMAIN s : i < j => s[i].op \notin Acts \/ s[j].op \notin Acts

\* What is owed before the letters queued, as a call finds it: the text it will
\* deliver, or the pinyin with the letter replayed, else the pinyin.
Ahead(t) ==
  IF t.op = "commit" THEN t.text
  ELSE IF t.op = "type" /\ t.src = "queue" THEN buf \o <<t.c>>
  ELSE IF t.op = "key" /\ t.src = "queue" THEN buf \o LettersOf(<<t.key>>)
  ELSE buf

\* Keys that wait behind a pending Space: no editing, no navigation.
Waits(key) == key.rel \/ Printable(key)
Kept(t) ==
  /\ IF t.op = "clear" THEN t.cancel \/ owed = <<>> ELSE owed = Ahead(t) \o LettersOf(queued)
  /\ t.op = "key" /\ t.src = "queue" => ~pend /\ Waits(t.key)
  /\ t.op = "type" /\ t.src = "user" => queued = <<>>
Left(t)   == IF t.op \in Acts THEN Kept(t) ELSE owed = Raw
StackKept == IF Has(Acts) THEN \A t \in OnStack : t.op \in Acts => Kept(t) ELSE owed = Raw

\* A candidate's cover is known, and is the number of letters it spells.
Spelt(c)  == c.cover >= 1 /\ Len(c.spells) = c.cover
CandsOk   == \A i \in DOMAIN cands : Spelt(cands[i])
QueuedOk  == \A key \in Range(queued) : Waits(key)

KInv == gone = "no" => owed \in Pinyin /\ CandsOk /\ QueuedOk /\ Single(todo) /\ StackKept
LettersInv == owed = Misled \/ KInv

\* Letters of keys, one after another.
LEMMA LettersConcat ==
  ASSUME NEW s \in Seq(Key), NEW t \in Seq(Key)
  PROVE  LettersOf(s \o t) = LettersOf(s) \o LettersOf(t)
<1> DEFINE w(k) == IF IsLetter(k) THEN <<k.c>> ELSE <<>>
           F(r) == [i \in DOMAIN r |-> w(r[i])]
<1>1. ASSUME NEW k \in Key PROVE w(k) \in Seq(Letter)
  <2>1. CASE IsLetter(k)
    <3>1. k.c \in Letter
      BY <2>1 DEF Key, IsLetter
    <3> QED BY <2>1, <3>1
  <2>2. CASE ~IsLetter(k)
    BY <2>2, EmptySeq
  <2> QED BY <2>1, <2>2
<1> HIDE DEF w
<1>2. ASSUME NEW r \in Seq(Key)
      PROVE  /\ F(r) \in Seq(Seq(Letter)) /\ Len(F(r)) = Len(r) /\ Len(r) \in Nat
             /\ \A i \in 1..Len(r) : F(r)[i] = w(r[i])
  <2>1. DOMAIN r = 1..Len(r) /\ Len(r) \in Nat /\ \A i \in 1..Len(r) : r[i] \in Key
    BY LenProperties, ElementOfSeq
  <2> QED BY <1>1, <2>1
<1>3. s \o t \in Seq(Key) /\ Len(s \o t) = Len(s) + Len(t)
      /\ \A i \in 1..Len(s \o t) : (s \o t)[i] = IF i <= Len(s) THEN s[i] ELSE t[i - Len(s)]
  BY ConcatProperties
<1>4. F(s \o t) = F(s) \o F(t)
  <2> DEFINE u == s \o t
  <2>1. /\ F(s) \in Seq(Seq(Letter)) /\ Len(F(s)) = Len(s) /\ \A i \in 1..Len(s) : F(s)[i] = w(s[i])
        /\ F(t) \in Seq(Seq(Letter)) /\ Len(F(t)) = Len(t) /\ \A i \in 1..Len(t) : F(t)[i] = w(t[i])
        /\ F(u) \in Seq(Seq(Letter)) /\ Len(F(u)) = Len(u) /\ \A i \in 1..Len(u) : F(u)[i] = w(u[i])
        /\ Len(s) \in Nat /\ Len(t) \in Nat
    BY <1>2, <1>3
  <2>2. /\ Len(u) = Len(s) + Len(t)
        /\ \A i \in 1..Len(u) : u[i] = IF i <= Len(s) THEN s[i] ELSE t[i - Len(s)]
    BY <1>3
  <2> HIDE DEF u, F
  <2> SUFFICES ASSUME NEW x \in Seq(Seq(Letter)), NEW y \in Seq(Seq(Letter)), NEW z \in Seq(Seq(Letter)),
                      x = F(s), y = F(t), z = F(u)
               PROVE  z = x \o y
    BY <2>1 DEF u
  <2>3. /\ Len(x) = Len(s) /\ \A i \in 1..Len(s) : x[i] = w(s[i])
        /\ Len(y) = Len(t) /\ \A i \in 1..Len(t) : y[i] = w(t[i])
        /\ Len(z) = Len(u) /\ \A i \in 1..Len(u) : z[i] = w(u[i])
    BY <2>1
  <2>4. x \o y \in Seq(Seq(Letter)) /\ Len(x \o y) = Len(x) + Len(y)
        /\ \A i \in 1..(Len(x) + Len(y)) : (x \o y)[i] = IF i <= Len(x) THEN x[i] ELSE y[i - Len(x)]
    BY ConcatProperties
  <2>5. ASSUME NEW i \in 1..Len(z) PROVE z[i] = (x \o y)[i]
    <3>1. i \in 1..Len(u) /\ i \in 1..(Len(x) + Len(y)) /\ z[i] = w(u[i])
      BY <2>2, <2>3
    <3>2. CASE i <= Len(s)
      <4>1. i \in 1..Len(s)
        BY <2>1, <3>1, <3>2
      <4> QED BY <2>2, <2>3, <2>4, <3>1, <3>2, <4>1
    <3>3. CASE ~(i <= Len(s))
      <4>1. i - Len(s) \in 1..Len(t)
        BY <2>1, <2>2, <3>1, <3>3
      <4>2. u[i] = t[i - Len(s)] /\ (x \o y)[i] = y[i - Len(s)]
        BY <2>2, <2>3, <2>4, <3>1, <3>3
      <4> QED BY <2>3, <3>1, <4>1, <4>2
    <3> QED BY <3>2, <3>3
  <2>6. Len(z) = Len(x \o y)
    BY <2>2, <2>3, <2>4
  <2> QED BY <2>4, <2>5, <2>6, SeqEqual
<1>5. FlattenSeq(F(s) \o F(t)) = FlattenSeq(F(s)) \o FlattenSeq(F(t))
  <2>1. F(s) \in Seq(Seq(Letter)) /\ F(t) \in Seq(Seq(Letter))
    BY <1>2
  <2> HIDE DEF F
  <2> QED BY <2>1, FlattenConcat
<1>6. \A r : LettersOf(r) = FlattenSeq(F(r))
  BY DEF LettersOf, w
<1> HIDE DEF F
<1> QED BY <1>4, <1>5, <1>6

\* One key.
LEMMA LettersOne ==
  ASSUME NEW key \in Key
  PROVE  /\ LettersOf(<<key>>) = IF IsLetter(key) THEN <<key.c>> ELSE <<>>
         /\ IsLetter(key) => key.c \in Letter
<1> DEFINE w == IF IsLetter(key) THEN <<key.c>> ELSE <<>>
           s == <<key>>
           f == [i \in DOMAIN s |-> IF IsLetter(s[i]) THEN <<s[i].c>> ELSE <<>>]
<1>1. IsLetter(key) => key.c \in Letter
  BY DEF Key, IsLetter
<1>2. w \in Seq(Letter)
  <2>1. CASE IsLetter(key)
    BY <1>1, <2>1
  <2>2. CASE ~IsLetter(key)
    BY <2>2, EmptySeq
  <2> QED BY <2>1, <2>2
<1>3. f = <<w>>
  <2>1. DOMAIN s = 1..1 /\ s[1] = key
    OBVIOUS
  <2>2. f = [i \in 1..1 |-> w]
    BY <2>1
  <2> HIDE DEF w, f
  <2> QED BY <2>2
<1>4. FlattenSeq(<<w>>) = w
  <2> HIDE DEF w
  <2>1. <<>> \in Seq(Seq(Letter)) /\ Append(<<>>, w) = <<w>>
    BY EmptySeq
  <2>2. FlattenSeq(Append(<<>>, w)) = FlattenSeq(<<>>) \o w
    BY <1>2, <2>1, FlattenAppend
  <2>3. <<>> \o w = w
    BY <1>2, ConcatEmptySeq
  <2> QED BY <2>1, <2>2, <2>3, FlattenEmpty
<1>5. LettersOf(s) = FlattenSeq(f)
  BY DEF LettersOf
<1> HIDE DEF f
<1> QED BY <1>1, <1>3, <1>4, <1>5 DEF w

LEMMA LettersEmpty == LettersOf(<<>>) = <<>>
<1>1. [i \in DOMAIN <<>> |-> IF IsLetter(<<>>[i]) THEN <<<<>>[i].c>> ELSE <<>>] = <<>>
  OBVIOUS
<1> QED BY <1>1, FlattenEmpty DEF LettersOf

\* Keys that are no letters.
LEMMA LettersNone ==
  ASSUME NEW s \in Seq(Key), \A i \in 1..Len(s) : ~IsLetter(s[i])
  PROVE  LettersOf(s) = <<>>
<1> DEFINE T == {n \in Nat : \A q \in Seq(Key) : Len(q) = n /\ (\A i \in 1..n : ~IsLetter(q[i])) => LettersOf(q) = <<>>}
<1>1. 0 \in T
  <2> SUFFICES ASSUME NEW q \in Seq(Key), Len(q) = 0 PROVE LettersOf(q) = <<>>
    OBVIOUS
  <2>1. q = <<>>
    BY EmptySeq
  <2> QED BY <2>1, LettersEmpty
<1>2. ASSUME NEW n \in Nat, n \in T PROVE n + 1 \in T
  <2> SUFFICES ASSUME NEW q \in Seq(Key), Len(q) = n + 1, \A i \in 1..(n + 1) : ~IsLetter(q[i])
               PROVE  LettersOf(q) = <<>>
    OBVIOUS
  <2> DEFINE r == [i \in 1..n |-> q[i]]
             x == q[n + 1]
  <2>1. \A i \in 1..(n + 1) : q[i] \in Key
    BY ElementOfSeq
  <2>2. r \in Seq(Key) /\ Len(r) = n /\ x \in Key /\ (\A i \in 1..n : r[i] = q[i])
    BY <2>1
  <2>3. ~IsLetter(x) /\ \A i \in 1..n : ~IsLetter(r[i])
    BY <2>2
  <2> HIDE DEF r
  <2>4. q = r \o <<x>>
    <3> DEFINE z == r \o <<x>>
    <3>1. <<x>> \in Seq(Key) /\ Len(<<x>>) = 1 /\ <<x>>[1] = x /\ x = q[n + 1]
      BY <2>2
    <3>2. /\ z \in Seq(Key) /\ Len(z) = n + 1
          /\ \A i \in 1..(n + 1) : z[i] = IF i <= n THEN r[i] ELSE <<x>>[i - n]
      BY <2>2, <3>1, ConcatProperties
    <3> HIDE DEF x, z
    <3>3. ASSUME NEW i \in 1..(n + 1) PROVE z[i] = q[i]
      <4>1. CASE i <= n
        <5>1. i \in 1..n
          BY <4>1
        <5> QED BY <2>2, <3>2, <4>1, <5>1
      <4>2. CASE ~(i <= n)
        <5>1. i = n + 1 /\ i - n = 1
          BY <4>2
        <5> QED BY <3>1, <3>2, <4>2, <5>1
      <4> QED BY <4>1, <4>2
    <3>4. z = q
      BY <3>2, <3>3, SeqEqual
    <3> QED BY <3>4 DEF z
  <2> HIDE DEF x
  <2>5. LettersOf(r) = <<>>
    BY <1>2, <2>2, <2>3
  <2>6. LettersOf(<<x>>) = <<>>
    BY <2>2, <2>3, LettersOne
  <2>7. <<x>> \in Seq(Key) /\ <<>> \o <<>> = <<>>
    BY <2>2, EmptySeq, ConcatEmptySeq
  <2> QED BY <2>2, <2>4, <2>5, <2>6, <2>7, LettersConcat
<1>3. Len(s) \in T
  <2> HIDE DEF T
  <2> QED BY <1>1, <1>2, LenProperties, Induction
<1> QED BY <1>3

\* Letters are not the marks of text lost: no letter is NoIc.
LEMMA Accounted ==
  ASSUME owed \in Pinyin
  PROVE  ~Unaccounted(owed)
<1> SUFFICES ASSUME owed = Mismatch \/ owed = Misled PROVE FALSE
  BY DEF Unaccounted
<1>1. owed \in Seq(Letter) /\ Len(owed) \in {1, 2} /\ owed[1] = NoIc
  BY DEF Mismatch, Misled, Pinyin
<1>2. 1 \in 1..Len(owed)
  BY <1>1
<1>3. NoIc \in Letter
  BY <1>1, <1>2, ElementOfSeq
<1> QED BY <1>3, EngineAssumption

\* Delivering what is owed first leaves the rest owed.
LEMMA DeliversAll ==
  ASSUME NEW x \in Pinyin, NEW y \in Pinyin, owed = x \o y
  PROVE  Delivered(x) = y
<1>1. /\ Len(x) \in Nat /\ Len(y) \in Nat /\ x \in Seq(Letter) /\ y \in Seq(Letter)
      /\ \A i \in 1..Len(x) : x[i] \in Letter
  BY LenProperties, ElementOfSeq DEF Pinyin
<1>2. /\ owed \in Seq(Letter) /\ Len(owed) = Len(x) + Len(y)
      /\ \A i \in 1..(Len(x) + Len(y)) : owed[i] = IF i <= Len(x) THEN x[i] ELSE y[i - Len(x)]
  BY <1>1, ConcatProperties
<1>3. SubSeq(x, 1, Len(x)) = SubSeq(owed, 1, Len(x))
  <2>1. SubSeq(x, 1, Len(x)) = [i \in 1..Len(x) |-> x[i]]
    BY <1>1, SubSeqProperties
  <2>2. \A i \in 1..Len(x) : owed[i] = x[i]
    BY <1>1, <1>2
  <2>3. SubSeq(owed, 1, Len(x)) = [i \in 1..Len(x) |-> owed[i]]
    BY <1>1, <1>2
  <2> QED BY <2>1, <2>2, <2>3
<1>4. SubSeq(owed, Len(x) + 1, Len(owed)) = y
  <2> DEFINE z == SubSeq(owed, Len(x) + 1, Len(owed))
             f == [i \in 1..Len(y) |-> owed[i + Len(x)]]
  <2>1. \A i \in 1..Len(y) : owed[i + Len(x)] = y[i]
    <3> SUFFICES ASSUME NEW i \in 1..Len(y) PROVE owed[i + Len(x)] = y[i]
      OBVIOUS
    <3>1. i + Len(x) \in 1..(Len(x) + Len(y)) /\ ~(i + Len(x) <= Len(x)) /\ (i + Len(x)) - Len(x) = i
      BY <1>1
    <3> QED BY <1>2, <3>1
  <2>2. z = [i \in 1..((Len(x) + Len(y)) - (Len(x) + 1) + 1) |-> owed[i + (Len(x) + 1) - 1]]
    BY <1>1, <1>2
  <2>3. (Len(x) + Len(y)) - (Len(x) + 1) + 1 = Len(y) /\ \A i \in 1..Len(y) : i + (Len(x) + 1) - 1 = i + Len(x)
    BY <1>1
  <2>4. z = [i \in 1..Len(y) |-> y[i]]
    BY <2>1, <2>2, <2>3
  <2> HIDE DEF z
  <2> QED BY <1>1, <2>4 DEF z
<1>5. ~Unaccounted(owed)
  BY <1>2, Accounted DEF Pinyin
<1> QED BY <1>1, <1>2, <1>3, <1>4, <1>5 DEF Delivered, IsPrefix

\* So does delivering the first of it.
LEMMA DeliversPart ==
  ASSUME NEW x \in Pinyin, NEW y \in Pinyin, NEW z \in Pinyin, owed = (x \o y) \o z
  PROVE  Delivered(x) = y \o z
<1>1. y \o z \in Pinyin /\ owed = x \o (y \o z)
  BY ConcatProperties, ConcatAssociative DEF Pinyin
<1> QED BY <1>1, DeliversAll

\* The last letter taken back.
LEMMA FrontConcat ==
  ASSUME NEW x \in Pinyin, NEW c \in Letter
  PROVE  Front(x \o <<c>>) = x /\ Append(x, c) = x \o <<c>>
<1>1. x \in Seq(Letter) /\ Len(x) \in Nat /\ <<c>> \in Seq(Letter) /\ Len(<<c>>) = 1 /\ <<c>>[1] = c
  BY LenProperties DEF Pinyin
<1> SUFFICES ASSUME NEW y, y = x \o <<c>> PROVE Front(y) = x /\ Append(x, c) = y
  OBVIOUS
<1>2. /\ y \in Seq(Letter) /\ Len(y) = Len(x) + 1
      /\ \A i \in 1..(Len(x) + 1) : y[i] = IF i <= Len(x) THEN x[i] ELSE <<c>>[i - Len(x)]
  BY <1>1, ConcatProperties
<1>3. Front(y) = x
  <2>1. Len(y) - 1 = Len(x) /\ Len(x) \in 0..Len(y)
    BY <1>1, <1>2
  <2>2. SubSeq(y, 1, Len(x)) \in Seq(Letter) /\ Len(SubSeq(y, 1, Len(x))) = Len(x)
        /\ \A i \in 1..Len(x) : SubSeq(y, 1, Len(x))[i] = y[i]
    <3>1. SubSeq(y, 1, Len(x)) = [i \in 1..Len(x) |-> y[i]] /\ \A i \in 1..Len(x) : y[i] \in Letter
      <4>1. \A i \in 1..Len(x) : i \in 1..Len(y)
        BY <1>1, <1>2
      <4>2. \A i \in 1..Len(x) : y[i] \in Letter
        BY <1>2, <4>1, ElementOfSeq
      <4> QED BY <1>1, <1>2, <4>2
    <3> QED BY <1>1, <3>1
  <2>3. \A i \in 1..Len(x) : i \in 1..(Len(x) + 1) /\ i <= Len(x)
    BY <1>1
  <2>4. \A i \in 1..Len(x) : y[i] = x[i]
    BY <1>2, <2>3
  <2>5. SubSeq(y, 1, Len(x)) = x
    BY <1>1, <2>2, <2>4, SeqEqual
  <2> QED BY <2>1, <2>5 DEF Front
<1>4. Append(x, c) = y
  BY <1>1, AppendIsConcat
<1> QED BY <1>3, <1>4

\* What is before a key, the key, and what is after it.
LEMMA Around ==
  ASSUME NEW q \in Seq(Key), NEW i \in 1..Len(q)
  PROVE  \E f \in Seq(Key), g \in Seq(Key) :
           /\ q = (f \o <<q[i]>>) \o g /\ RemoveAt(q, i) = f \o g
           /\ Len(q) = i + Len(g) /\ \A k \in 1..Len(g) : g[k] = q[i + k]
<1> DEFINE f == SubSeq(q, 1, i - 1)
           g == SubSeq(q, i + 1, Len(q))
           x == <<q[i]>>
           n == Len(q)
<1>1. n \in Nat /\ i \in Nat /\ i <= n /\ i >= 1 /\ \A k \in 1..n : q[k] \in Key
  BY LenProperties, ElementOfSeq
<1>2. f = [k \in 1..(i - 1) |-> q[k]] /\ f \in Seq(Key) /\ Len(f) = i - 1
  <2>1. f = [k \in 1..(i - 1) |-> q[k]]
    BY <1>1
  <2>2. \A k \in 1..(i - 1) : k \in 1..n
    BY <1>1
  <2> HIDE DEF f
  <2> QED BY <1>1, <2>1, <2>2
<1>3. g \in Seq(Key) /\ Len(g) = n - i /\ \A k \in 1..(n - i) : g[k] = q[i + k]
  <2>1. g = [k \in 1..(n - i) |-> q[i + k]]
    <3>1. g = [k \in 1..(n - (i + 1) + 1) |-> q[k + (i + 1) - 1]]
      BY <1>1
    <3>2. n - (i + 1) + 1 = n - i /\ \A k \in 1..(n - i) : k + (i + 1) - 1 = i + k
      BY <1>1
    <3> HIDE DEF g
    <3> QED BY <3>1, <3>2
  <2>2. \A k \in 1..(n - i) : i + k \in 1..n
    BY <1>1
  <2> HIDE DEF g
  <2> QED BY <1>1, <2>1, <2>2
<1>4. x \in Seq(Key) /\ Len(x) = 1 /\ x[1] = q[i]
  BY <1>1
<1> HIDE DEF f, g, x
<1>5. /\ f \o x \in Seq(Key) /\ Len(f \o x) = i
      /\ \A k \in 1..i : (f \o x)[k] = IF k <= i - 1 THEN f[k] ELSE x[k - (i - 1)]
  <2>1. /\ f \o x \in Seq(Key) /\ Len(f \o x) = Len(f) + Len(x)
        /\ \A k \in 1..(Len(f) + Len(x)) : (f \o x)[k] = IF k <= Len(f) THEN f[k] ELSE x[k - Len(f)]
    BY <1>2, <1>4, ConcatProperties
  <2>2. Len(f) + Len(x) = i
    BY <1>1, <1>2, <1>4
  <2> QED BY <1>2, <2>1, <2>2
<1>6. q = (f \o x) \o g
  <2> SUFFICES ASSUME NEW y \in Seq(Key), y = f \o x PROVE q = y \o g
    BY <1>5
  <2>1. /\ y \o g \in Seq(Key) /\ Len(y \o g) = Len(y) + Len(g)
        /\ \A k \in 1..(Len(y) + Len(g)) : (y \o g)[k] = IF k <= Len(y) THEN y[k] ELSE g[k - Len(y)]
    <3> SUFFICES ASSUME NEW z \in Seq(Key), z = g
                 PROVE  /\ y \o z \in Seq(Key) /\ Len(y \o z) = Len(y) + Len(z)
                        /\ \A k \in 1..(Len(y) + Len(z)) :
                             (y \o z)[k] = IF k <= Len(y) THEN y[k] ELSE z[k - Len(y)]
      BY <1>3
    <3> QED BY ConcatProperties
  <2>2. Len(y) = i /\ Len(y) + Len(g) = n
    BY <1>1, <1>3, <1>5
  <2>3. ASSUME NEW k \in 1..n PROVE q[k] = (y \o g)[k]
    <3>1. CASE k <= i - 1
      <4>1. k \in 1..(i - 1) /\ k \in 1..i /\ k <= i
        BY <1>1, <3>1
      <4> QED BY <1>2, <1>5, <2>1, <2>2, <3>1, <4>1
    <3>2. CASE k = i
      <4>1. k \in 1..i /\ k <= i /\ ~(k <= i - 1) /\ k - (i - 1) = 1
        BY <1>1, <3>2
      <4> QED BY <1>4, <1>5, <2>1, <2>2, <3>2, <4>1
    <3>3. CASE k > i
      <4>1. ~(k <= i) /\ k - i \in 1..(n - i) /\ i + (k - i) = k
        BY <1>1, <3>3
      <4> QED BY <1>3, <2>1, <2>2, <4>1
    <3>4. k <= i - 1 \/ k = i \/ k > i
      BY <1>1
    <3> QED BY <3>1, <3>2, <3>3, <3>4
  <2> QED BY <2>1, <2>2, <2>3, SeqEqual
<1>7. RemoveAt(q, i) = f \o g
  BY DEF RemoveAt, f, g
<1>8. Len(q) = i + Len(g) /\ \A k \in 1..Len(g) : g[k] = q[i + k]
  BY <1>1, <1>3
<1> QED BY <1>2, <1>3, <1>6, <1>7, <1>8 DEF x

\* Taking away a key that is no letter leaves the letters; taking away a key
\* after which none is a letter takes the last letter, if it is one.
LEMMA LettersWithout ==
  ASSUME NEW q \in Seq(Key), NEW i \in 1..Len(q)
  PROVE  /\ ~IsLetter(q[i]) => LettersOf(RemoveAt(q, i)) = LettersOf(q)
         /\ (\A k \in 1..Len(q) : k > i => ~IsLetter(q[k]))
              => LettersOf(q) = LettersOf(RemoveAt(q, i)) \o LettersOf(<<q[i]>>)
<1>1. PICK f \in Seq(Key), g \in Seq(Key) :
           /\ q = (f \o <<q[i]>>) \o g /\ RemoveAt(q, i) = f \o g
           /\ Len(q) = i + Len(g) /\ \A k \in 1..Len(g) : g[k] = q[i + k]
  BY Around
<1> DEFINE x == <<q[i]>>
           F == LettersOf(f)
           G == LettersOf(g)
           X == LettersOf(x)
<1>2. q[i] \in Key /\ x \in Seq(Key)
  BY ElementOfSeq
<1>3. F \in Seq(Letter) /\ G \in Seq(Letter) /\ X \in Seq(Letter)
  BY <1>2, LettersType DEF Pinyin
<1>4. LettersOf(RemoveAt(q, i)) = F \o G
  BY <1>1, LettersConcat
<1>5. LettersOf(q) = (F \o X) \o G
  <2> HIDE DEF x
  <2>1. f \o x \in Seq(Key) /\ q = (f \o x) \o g
    BY <1>1, <1>2, ConcatProperties DEF x
  <2> QED BY <1>2, <2>1, LettersConcat
<1>6. ~IsLetter(q[i]) => X = <<>>
  BY <1>2, LettersOne
<1>7. (\A k \in 1..Len(q) : k > i => ~IsLetter(q[k])) => G = <<>>
  <2> SUFFICES ASSUME \A k \in 1..Len(q) : k > i => ~IsLetter(q[k]) PROVE G = <<>>
    OBVIOUS
  <2>1. Len(g) \in Nat /\ i \in Nat
    BY LenProperties
  <2>2. \A k \in 1..Len(g) : i + k \in 1..Len(q) /\ i + k > i
    BY <1>1, <2>1
  <2>3. \A k \in 1..Len(g) : ~IsLetter(g[k])
    BY <1>1, <2>2
  <2> QED BY <2>3, LettersNone
<1> HIDE DEF F, G, X, x
<1>8. ASSUME ~IsLetter(q[i]) PROVE LettersOf(RemoveAt(q, i)) = LettersOf(q)
  <2>1. F \o X = F
    BY <1>3, <1>6, <1>8, ConcatEmptySeq
  <2> QED BY <1>4, <1>5, <2>1
<1>9. ASSUME \A k \in 1..Len(q) : k > i => ~IsLetter(q[k])
      PROVE  LettersOf(q) = LettersOf(RemoveAt(q, i)) \o X
  <2>1. F \o G = F /\ (F \o X) \o G = F \o X
    <3>1. F \o X \in Seq(Letter)
      BY <1>3, ConcatProperties
    <3> QED BY <1>3, <1>7, <1>9, <3>1, ConcatEmptySeq
  <2> QED BY <1>4, <1>5, <2>1
<1> QED BY <1>8, <1>9 DEF X, x

----------------------------------------------------------------------------
(* The stack, by the calls that move letters.                              *)

LEMMA SingleConcat ==
  ASSUME NEW S, NEW p \in Seq(S), NEW q \in Seq(S),
         Single(p), Single(q), \A x \in Range(p), y \in Range(q) : x.op \notin Acts \/ y.op \notin Acts
  PROVE  Single(p \o q) /\ Range(p \o q) = Range(p) \cup Range(q)
<1> DEFINE R == {r \in S \X S : r[1].op \notin Acts \/ r[2].op \notin Acts}
<1>1. \A x, y \in S : <<x, y>> \in R <=> (x.op \notin Acts \/ y.op \notin Acts)
  OBVIOUS
<1> HIDE DEF R
<1>2. ASSUME NEW t \in Seq(S) PROVE Range(t) \subseteq S /\ (Single(t) <=> Sorted(t, R))
  <2>1. \A i \in DOMAIN t : t[i] \in S
    BY LenProperties
  <2> QED BY <1>1, <2>1 DEF Single, Sorted, Range
<1>3. Sorted(p, R) /\ Sorted(q, R) /\ p \o q \in Seq(S)
  BY <1>2, ConcatProperties
<1>4. \A x \in Range(p), y \in Range(q) : <<x, y>> \in R
  BY <1>1, <1>2
<1>5. Sorted(p \o q, R) /\ Range(p \o q) = Range(p) \cup Range(q)
  BY <1>3, <1>4, SortedConcat
<1> QED BY <1>2, <1>3, <1>5

LEMMA SingleTail ==
  ASSUME NEW S, NEW s \in Seq(S), s # <<>>, Single(s)
  PROVE  Single(Tail(s)) /\ \A t \in Range(Tail(s)) : Head(s).op \notin Acts \/ t.op \notin Acts
<1> DEFINE R == {r \in S \X S : r[1].op \notin Acts \/ r[2].op \notin Acts}
<1>1. \A x, y \in S : <<x, y>> \in R <=> (x.op \notin Acts \/ y.op \notin Acts)
  OBVIOUS
<1> HIDE DEF R
<1>2. ASSUME NEW t \in Seq(S) PROVE Range(t) \subseteq S /\ (Single(t) <=> Sorted(t, R))
  <2>1. \A i \in DOMAIN t : t[i] \in S
    BY LenProperties
  <2> QED BY <1>1, <2>1 DEF Single, Sorted, Range
<1>3. Head(s) \in S /\ Tail(s) \in Seq(S) /\ Sorted(s, R)
  BY <1>2, HeadTailProperties
<1>4. Sorted(Tail(s), R) /\ \A t \in Range(Tail(s)) : <<Head(s), t>> \in R
  BY <1>3, SortedTail
<1> QED BY <1>1, <1>2, <1>3, <1>4

\* A few calls of which one at most moves letters.
LEMMA SingleFew ==
  /\ Single(<<>>)
  /\ \A a : Single(<<a>>)
  /\ \A a, b : a.op \notin Acts \/ b.op \notin Acts => Single(<<a, b>>)
  /\ \A a, b, c : a.op \notin Acts /\ b.op \notin Acts => Single(<<a, b, c>>)
<1>1. Single(<<>>)
  BY DEF Single
<1>2. ASSUME NEW a PROVE Single(<<a>>)
  <2> DEFINE s == <<a>>
  <2>1. DOMAIN s = 1..1
    OBVIOUS
  <2> HIDE DEF s
  <2>2. Single(s)
    BY <2>1 DEF Single
  <2> QED BY <2>2 DEF s
<1>3. ASSUME NEW a, NEW b, a.op \notin Acts \/ b.op \notin Acts PROVE Single(<<a, b>>)
  <2> DEFINE s == <<a, b>>
  <2>1. DOMAIN s = 1..2 /\ s[1] = a /\ s[2] = b
    OBVIOUS
  <2> HIDE DEF s
  <2>2. Single(s)
    BY <1>3, <2>1 DEF Single
  <2> QED BY <2>2 DEF s
<1>4. ASSUME NEW a, NEW b, NEW c, a.op \notin Acts, b.op \notin Acts PROVE Single(<<a, b, c>>)
  <2> DEFINE s == <<a, b, c>>
  <2>1. DOMAIN s = 1..3 /\ s[1] = a /\ s[2] = b /\ s[3] = c
    OBVIOUS
  <2> HIDE DEF s
  <2>2. Single(s)
    BY <1>4, <2>1 DEF Single
  <2> QED BY <2>2 DEF s
<1> QED BY <1>1, <1>2, <1>3, <1>4

\* With nothing below the call at hand that moves letters, the letters are as
\* that call assumes.
Alone == Head(todo).op \in Acts \/ Below(Head(todo)) \subseteq {"lines", "drainOn"}

LEMMA AloneLeft ==
  ASSUME WInv, FInv, KInv, gone = "no", todo # <<>>
  PROVE  /\ OnStack = {Head(todo)} \cup Range(Tail(todo)) /\ Single(Tail(todo)) /\ todo \in Seq(Task)
         /\ Head(todo).op \in Acts => \A t \in Range(Tail(todo)) : t.op \notin Acts
         /\ Alone => Left(Head(todo)) /\ \A t \in Range(Tail(todo)) : t.op \notin Acts
<1>1. todo \in Seq(Task)
  BY Inv DEF ProcInv, ProcTypeOK
<1>2. /\ OnStack = {Head(todo)} \cup Range(Tail(todo))
      /\ \A t \in Range(Tail(todo)) : t.op \in Below(Head(todo))
  BY <1>1, TopAndRest DEF OnStack, FInv
<1>3. Single(Tail(todo)) /\ \A t \in Range(Tail(todo)) : Head(todo).op \notin Acts \/ t.op \notin Acts
  BY <1>1, SingleTail DEF KInv
<1>4. Alone => \A t \in Range(Tail(todo)) : t.op \notin Acts
  BY <1>2, <1>3 DEF Alone, Acts
<1>5. Alone => Left(Head(todo))
  BY <1>2, <1>4 DEF KInv, StackKept, Has, Left
<1> QED BY <1>1, <1>2, <1>3, <1>4, <1>5

\* It is replaced by calls of which one at most moves letters.
LEMMA KeptBy ==
  ASSUME WInv, FInv, KInv, gone = "no", todo # <<>>, Alone,
         NEW p, p \in Seq(Range(p)), Single(p), todo' = p \o Tail(todo),
         owed' \in Pinyin, CandsOk', QueuedOk',
         \A t \in Range(p) : t.op \in Acts => Kept(t)',
         (\A t \in Range(p) : t.op \notin Acts) => owed' = Raw'
  PROVE  KInv'
<1> DEFINE S == Task \cup Range(p)
           q == Tail(todo)
<1>1. todo \in Seq(Task) /\ Single(q) /\ \A t \in Range(q) : t.op \notin Acts
  BY AloneLeft
<1>2. q \in Seq(Task)
  BY <1>1, HeadTailProperties
<1>3. p \in Seq(S) /\ q \in Seq(S)
  BY <1>2, SeqMonotonic
<1> HIDE DEF S, q
<1>4. Single(p \o q) /\ Range(p \o q) = Range(p) \cup Range(q)
  BY <1>1, <1>3, SingleConcat
<1>5. todo' = p \o q /\ OnStack' = Range(p) \cup Range(q)
  BY <1>4 DEF OnStack, q
<1>6. Single(todo)'
  BY <1>4, <1>5 DEF Single
<1>7. StackKept'
  BY <1>1, <1>5 DEF StackKept, Has
<1> QED BY <1>6, <1>7 DEF KInv

\* By a few.
LEMMA KeptFew ==
  ASSUME WInv, FInv, KInv, gone = "no", todo # <<>>, Alone, NEW a, NEW b, NEW c,
         owed' \in Pinyin, CandsOk', QueuedOk',
         \/ todo' = Tail(todo) /\ owed' = Raw'
         \/ todo' = <<a>> \o Tail(todo) /\ \A t : t = a => Left(t)'
         \/ todo' = <<a, b>> \o Tail(todo) /\ a.op \notin Acts /\ \A t : t = b => Left(t)'
         \/ todo' = <<a, b>> \o Tail(todo) /\ b.op \notin Acts /\ \A t : t = a => Left(t)'
         \/ /\ todo' = <<a, b, c>> \o Tail(todo) /\ a.op \notin Acts /\ b.op \notin Acts
            /\ \A t : t = c => Left(t)'
  PROVE  KInv'
<1>1. CASE todo' = Tail(todo) /\ owed' = Raw'
  <2>1. todo \in Seq(Task)
    BY AloneLeft
  <2>2. Tail(todo) \in Seq(Task)
    BY <2>1, HeadTailProperties
  <2>3. <<>> \o Tail(todo) = Tail(todo)
    BY <2>2, ConcatEmptySeq
  <2> DEFINE p == <<>>
  <2>4. p \in Seq(Range(p)) /\ Single(p) /\ Range(p) = {} /\ todo' = p \o Tail(todo)
    BY <1>1, <2>3, Few, SingleFew
  <2> HIDE DEF p
  <2> QED BY <1>1, <2>4, KeptBy
<1>2. CASE todo' = <<a>> \o Tail(todo) /\ \A t : t = a => Left(t)'
  <2> DEFINE p == <<a>>
  <2>1. p \in Seq(Range(p)) /\ Single(p) /\ Range(p) = {a} /\ todo' = p \o Tail(todo)
    BY <1>2, Few, SingleFew
  <2> HIDE DEF p
  <2> QED BY <1>2, <2>1, KeptBy DEF Left
<1>3. CASE todo' = <<a, b>> \o Tail(todo) /\ a.op \notin Acts /\ \A t : t = b => Left(t)'
  <2> DEFINE p == <<a, b>>
  <2>1. p \in Seq(Range(p)) /\ Single(p) /\ Range(p) = {a, b} /\ todo' = p \o Tail(todo)
    BY <1>3, Few, SingleFew
  <2> HIDE DEF p
  <2> QED BY <1>3, <2>1, KeptBy DEF Left
<1>4. CASE todo' = <<a, b>> \o Tail(todo) /\ b.op \notin Acts /\ \A t : t = a => Left(t)'
  <2> DEFINE p == <<a, b>>
  <2>1. p \in Seq(Range(p)) /\ Single(p) /\ Range(p) = {a, b} /\ todo' = p \o Tail(todo)
    BY <1>4, Few, SingleFew
  <2> HIDE DEF p
  <2> QED BY <1>4, <2>1, KeptBy DEF Left
<1>5. CASE /\ todo' = <<a, b, c>> \o Tail(todo) /\ a.op \notin Acts /\ b.op \notin Acts
           /\ \A t : t = c => Left(t)'
  <2> DEFINE p == <<a, b, c>>
  <2>1. p \in Seq(Range(p)) /\ Single(p) /\ Range(p) = {a, b, c} /\ todo' = p \o Tail(todo)
    BY <1>5, Few, SingleFew
  <2> HIDE DEF p
  <2> QED BY <1>5, <2>1, KeptBy DEF Left
<1> QED BY <1>1, <1>2, <1>3, <1>4, <1>5

\* A call that moves no letters is replaced by others that move none.
letterVars == <<buf, queued, pend, cands, owed>>

LEMMA KeptSame ==
  ASSUME UNCHANGED letterVars
  PROVE  /\ \A t : Kept(t)' <=> Kept(t)
         /\ Raw' = Raw /\ (CandsOk => CandsOk') /\ (QueuedOk => QueuedOk')
<1>1. UNCHANGED <<buf, queued, pend, cands, owed>>
  BY DEF letterVars
<1>2. LettersOf(queued)' = LettersOf(queued)
  BY <1>1 DEF LettersOf
<1>3. \A t : Ahead(t)' = Ahead(t)
  BY <1>1 DEF Ahead, LettersOf
<1>4. \A t : Kept(t)' <=> Kept(t)
  BY <1>1, <1>2, <1>3 DEF Kept
<1> QED BY <1>1, <1>2, <1>4 DEF Raw, CandsOk, QueuedOk, Spelt

LEMMA KeptQuiet ==
  ASSUME WInv, FInv, KInv, gone = "no", todo # <<>>, Head(todo).op \notin Acts,
         NEW p, p \in Seq(Range(p)), todo' = p \o Tail(todo), \A t \in Range(p) : t.op \notin Acts,
         UNCHANGED letterVars
  PROVE  KInv'
<1> DEFINE S == Task \cup Range(p)
           q == Tail(todo)
<1>1. todo \in Seq(Task) /\ Single(q) /\ OnStack = {Head(todo)} \cup Range(q)
  BY AloneLeft
<1>2. q \in Seq(Task)
  BY <1>1, HeadTailProperties
<1>3. p \in Seq(S) /\ q \in Seq(S)
  BY <1>2, SeqMonotonic
<1>4. Single(p)
  BY DEF Single, Range
<1> HIDE DEF S, q
<1>5. Single(p \o q) /\ Range(p \o q) = Range(p) \cup Range(q)
  BY <1>1, <1>3, <1>4, SingleConcat
<1>6. todo' = p \o q /\ OnStack' = Range(p) \cup Range(q)
  BY <1>5 DEF OnStack, q
<1>7. Single(todo)'
  BY <1>5, <1>6 DEF Single
<1>8. Has(Acts)' <=> Has(Acts)
  BY <1>1, <1>6 DEF Has
<1>9. StackKept'
  BY <1>1, <1>6, <1>8, KeptSame DEF KInv, StackKept, letterVars
<1> QED BY <1>7, <1>9, KeptSame DEF KInv, letterVars

LEMMA KeptQuietFew ==
  ASSUME WInv, FInv, KInv, gone = "no", todo # <<>>, Head(todo).op \notin Acts,
         UNCHANGED letterVars, NEW a, NEW b,
         \/ todo' = Tail(todo)
         \/ todo' = <<a>> \o Tail(todo) /\ a.op \notin Acts
         \/ todo' = <<a, b>> \o Tail(todo) /\ a.op \notin Acts /\ b.op \notin Acts
  PROVE  KInv'
<1>1. CASE todo' = Tail(todo)
  <2>1. todo \in Seq(Task)
    BY AloneLeft
  <2>2. Tail(todo) \in Seq(Task)
    BY <2>1, HeadTailProperties
  <2>3. <<>> \o Tail(todo) = Tail(todo)
    BY <2>2, ConcatEmptySeq
  <2> DEFINE p == <<>>
  <2>4. p \in Seq(Range(p)) /\ Range(p) = {} /\ todo' = p \o Tail(todo)
    BY <1>1, <2>3, Few
  <2> HIDE DEF p
  <2> QED BY <2>4, KeptQuiet
<1>2. CASE todo' = <<a>> \o Tail(todo) /\ a.op \notin Acts
  <2> DEFINE p == <<a>>
  <2>1. p \in Seq(Range(p)) /\ Range(p) = {a} /\ todo' = p \o Tail(todo)
    BY <1>2, Few
  <2> HIDE DEF p
  <2> QED BY <1>2, <2>1, KeptQuiet
<1>3. CASE todo' = <<a, b>> \o Tail(todo) /\ a.op \notin Acts /\ b.op \notin Acts
  <2> DEFINE p == <<a, b>>
  <2>1. p \in Seq(Range(p)) /\ Range(p) = {a, b} /\ todo' = p \o Tail(todo)
    BY <1>3, Few
  <2> HIDE DEF p
  <2> QED BY <1>3, <2>1, KeptQuiet
<1> QED BY <1>1, <1>2, <1>3

----------------------------------------------------------------------------
(* Each call and callback.                                                 *)

\* Letters composed and queued.
LEMMA Lettered ==
  ASSUME WInv
  PROVE  /\ buf \in Pinyin /\ LettersOf(queued) \in Pinyin /\ Raw \in Pinyin
         /\ LettersOf(queued) \o <<>> = LettersOf(queued) /\ <<>> \o LettersOf(queued) = LettersOf(queued)
         /\ buf \o <<>> = buf /\ Raw \o <<>> = Raw
<1>1. InputTypeOK /\ PendTypeOK
  BY Inv
<1>2. buf \in Pinyin /\ LettersOf(queued) \in Pinyin /\ Raw \in Pinyin
  BY <1>1, RawType, LettersType DEF PendTypeOK
<1> QED BY <1>2, ConcatEmptySeq DEF Pinyin

\* The engine's calls and events, the harness, and what the addon asks of it.
LEMMA KeptProc ==
  ASSUME AsUsed, WInv, FInv, KInv, gone = "no", ProcStep
  PROVE  KInv'
<1>1. ProcCalls /\ UNCHANGED letterVars
  BY DEF ProcStep, typingVars, inputVars, pendVars, outVars, letterVars
<1>2. /\ todo # <<>> /\ Head(todo).op \in {"stop", "die", "send", "lines"}
      /\ todo \in Seq(Task) /\ pending \in Seq(Entry)
  BY <1>1, Inv DEF ProcCalls, Stop, Die, SendDead, SendBroken, SendWritten, LinesDone,
     LineBeforeReady, LineIgnored, LineAnswers, Calling, Idle, ProcInv, ProcTypeOK
<1>3. Head(todo).op \notin Acts
  BY <1>2 DEF Acts
<1>4. \A op : Do(op).op = op
  BY DEF Do
<1>5. \A e, r : Call(e, r).op = "call"
  BY DEF Call
<1>6. CASE Stop
  <2> DEFINE p == FailPendingHandlers
  <2>1. todo' = p \o Tail(todo)
    BY <1>6 DEF Stop
  <2>2. p \in Seq(Range(p)) /\ \A t \in Range(p) : t.op = "call"
    BY Inv, FailedOk DEF FInv
  <2> HIDE DEF p
  <2> QED BY <1>1, <1>2, <1>3, <2>1, <2>2, KeptQuiet DEF Acts
<1>7. CASE Die
  <2> DEFINE a == Do("stop")
             b == Do("exit")
  <2>1. todo' = <<a, b>> \o Tail(todo) /\ a.op \notin Acts /\ b.op \notin Acts
    BY <1>4, <1>7 DEF Die, Acts
  <2> HIDE DEF a, b
  <2> QED BY <1>1, <1>2, <1>3, <2>1, KeptQuietFew
<1>8. CASE SendDead \/ SendBroken
  <2> DEFINE a == Do("die")
             b == Call(Head(todo), Failed)
  <2>1. /\ todo' = <<a, b>> \o Tail(todo) \/ todo' = <<b>> \o Tail(todo)
        /\ a.op \notin Acts /\ b.op \notin Acts
    BY <1>4, <1>5, <1>8 DEF SendDead, SendBroken, Acts
  <2> HIDE DEF a, b
  <2> QED BY <1>1, <1>2, <1>3, <2>1, KeptQuietFew
<1>9. CASE SendWritten \/ LinesDone
  <2>1. todo' = Tail(todo)
    BY <1>9 DEF SendWritten, LinesDone
  <2> QED BY <1>1, <1>2, <1>3, <2>1, KeptQuietFew
<1>10. CASE LineBeforeReady \/ LineIgnored
  <2>1. UNCHANGED todo
    BY <1>10 DEF LineBeforeReady, LineIgnored
  <2>2. todo' = <<Head(todo)>> \o Tail(todo)
    BY <1>2, <2>1, HeadAndTail
  <2> QED BY <1>1, <1>2, <1>3, <2>2, KeptQuietFew
<1>11. CASE LineAnswers
  <2> DEFINE a == Call(Head(pending), Head(rbuf))
             b == Head(todo)
  <2>1. todo' = <<a>> \o todo /\ a.op = "call"
    BY <1>5, <1>11 DEF LineAnswers
  <2>2. todo' = <<a, b>> \o Tail(todo)
    <3> HIDE DEF a
    <3> QED BY <1>2, <2>1, OnTop
  <2>3. a.op \notin Acts /\ b.op \notin Acts
    BY <1>3, <2>1 DEF Acts
  <2> HIDE DEF a, b
  <2> QED BY <1>1, <1>2, <1>3, <2>2, <2>3, KeptQuietFew
<1> QED BY <1>1, <1>6, <1>7, <1>8, <1>9, <1>10, <1>11 DEF ProcCalls

\* A step that leaves the stack alone too.
LEMMA KeptStill ==
  ASSUME KInv, UNCHANGED letterVars, UNCHANGED todo, UNCHANGED gone
  PROVE  KInv'
<1>1. (Has(Acts)' <=> Has(Acts)) /\ (Single(todo) => Single(todo)') /\ OnStack' = OnStack
  BY DEF Has, OnStack, Single
<1> QED BY <1>1, KeptSame DEF KInv, StackKept, letterVars

LEMMA KeptLink ==
  ASSUME WInv, FInv, KInv, gone = "no",
         RequestCandidates \/ EnsureEngine \/ ScheduleRestart \/ HandleNothing \/ HandleSpans
         \/ HandleStale \/ HandleLost
  PROVE  KInv'
<1>1. UNCHANGED letterVars
  BY DEF RequestCandidates, EnsureEngine, ScheduleRestart, HandleNothing, HandleSpans, HandleStale, HandleLost,
     typingVars, inputVars, pendVars, outVars, letterVars
<1>2. todo # <<>> /\ Head(todo).op \in {"request", "ensure", "exit", "call"}
  BY DEF RequestCandidates, EnsureEngine, ScheduleRestart, HandleNothing, HandleSpans, HandleStale, HandleLost,
     Calling, Idle
<1>3. Head(todo).op \notin Acts
  BY <1>2 DEF Acts
<1>4. CASE ScheduleRestart \/ HandleNothing \/ HandleSpans \/ HandleStale
  <2>1. todo' = Tail(todo)
    BY <1>4 DEF ScheduleRestart, HandleNothing, HandleSpans, HandleStale, Rest
  <2> QED BY <1>1, <1>2, <1>3, <2>1, KeptQuietFew
<1>5. CASE EnsureEngine
  <2> DEFINE a == Send(Plain("OPT"), [kind |-> "spans"])
  <2>1. /\ todo' = Tail(todo) \/ todo' = <<a>> \o Tail(todo)
        /\ a.op \notin Acts
    BY <1>5 DEF EnsureEngine, StartFork, StartRefused, Rest, Greeting, Send, Acts
  <2> HIDE DEF a
  <2> QED BY <1>1, <1>2, <1>3, <2>1, KeptQuietFew
<1>6. CASE RequestCandidates
  <2> DEFINE a == Do("ensure")
             b == Send(Batch(Head(todo).keys), HandlerFor(buf, revision))
  <2>1. todo' = Tail(todo) \/ todo' = <<a, b>> \o Tail(todo) \/ todo' = <<b>> \o Tail(todo)
    <3>1. <<b>> \in Seq({b})
      BY Few
    <3>2. <<>> \o <<b>> = <<b>> /\ <<a>> \o <<b>> = <<a, b>>
      BY <3>1, ConcatEmptySeq, Pair
    <3> QED BY <1>6, <3>2 DEF RequestCandidates, Rest, Then, IfDead
  <2>2. a.op \notin Acts /\ b.op \notin Acts
    BY DEF Do, Send, Acts
  <2> HIDE DEF a, b
  <2> QED BY <1>1, <1>2, <1>3, <2>1, <2>2, KeptQuietFew
<1>7. CASE HandleLost
  <2> DEFINE a == Do("ensure")
             b == Request(buf)
  <2>1. todo' = Tail(todo) \/ todo' = <<a, b>> \o Tail(todo)
    BY <1>7 DEF HandleLost, Then, Rest, Revive
  <2>2. a.op \notin Acts /\ b.op \notin Acts
    BY DEF Do, Request, Acts
  <2> HIDE DEF a, b
  <2> QED BY <1>1, <1>2, <1>3, <2>1, <2>2, KeptQuietFew
<1> QED BY <1>4, <1>5, <1>6, <1>7

\* Committing: what is handed over is what was owed first.
LEMMA KeptCommit ==
  ASSUME AsUsed, WInv, WInv', FInv, KInv, gone = "no", UNCHANGED worldVars, CommitText \/ UpdateUI
  PROVE  KInv'
<1>1. CASE UpdateUI
  <2>1. todo # <<>> /\ Head(todo).op \notin Acts /\ todo' = Tail(todo) /\ UNCHANGED letterVars
    BY <1>1 DEF UpdateUI, Calling, Idle, Rest, Acts, inputVars, pendVars, letterVars
  <2> QED BY <2>1, KeptQuietFew
<1>2. CASE CommitText
  <2> DEFINE a == Clear
             b == Ui(Head(todo).ic)
             x == Head(todo).text
             L == LettersOf(queued)
  <2>1. /\ todo # <<>> /\ Head(todo).op = "commit" /\ owed' = Delivered(x) /\ buf' = <<>> /\ cands' = <<>>
        /\ UNCHANGED queued /\ todo' = <<a, b>> \o Tail(todo)
    BY <1>2 DEF CommitText, NewInput, NoCandidates, Then, Rest, Calling, Idle, pendVars
  <2>2. Alone
    BY <2>1 DEF Alone, Acts
  <2>3. owed = x \o L
    BY <2>1, <2>2, AloneLeft DEF Left, Kept, Ahead, Acts
  <2>4. x \in Pinyin
    <3>1. Calling("commit") /\ ProcInv
      BY <1>2, Inv DEF CommitText
    <3> QED BY <3>1, AtHand
  <2>5. owed' = L /\ L \in Pinyin
    BY <2>1, <2>3, <2>4, Lettered, DeliversAll
  <2>6. Raw' = L
    <3>1. LettersOf(queued)' = L
      BY <2>1 DEF LettersOf
    <3> QED BY <2>1, <3>1, Lettered DEF Raw
  <2>7. CandsOk' /\ QueuedOk'
    BY <2>1 DEF KInv, CandsOk, QueuedOk
  <2>8. a.op \notin Acts /\ b.op \notin Acts
    BY DEF Clear, Send, Ui, Acts
  <2> HIDE DEF a, b, x, L
  <2>9. \A t : t = b => Left(t)'
    BY <2>5, <2>6, <2>8 DEF Left, Acts
  <2> QED BY <2>1, <2>2, <2>5, <2>7, <2>8, <2>9, KeptFew
<1> QED BY <1>1, <1>2

\* commitCandidate(): a candidate that spells the pinyin or the first of it takes
\* just those letters from it; any other misleads.
LEMMA KeptSelect ==
  ASSUME AsUsed, WInv, WInv', FInv, KInv, gone = "no", UNCHANGED worldVars,
         SelectNothing \/ SelectWhole \/ SelectPrefix
  PROVE  LettersInv'
<1> DEFINE h == Head(todo)
           cand == cands[h.idx]
           L == LettersOf(queued)
<1>1. todo # <<>> /\ h.op = "select" /\ Alone
  BY DEF SelectNothing, SelectWhole, SelectPrefix, Calling, Idle, Alone, Acts
<1>2. owed = buf \o L
  BY <1>1, AloneLeft DEF Left, Kept, Ahead, Acts
<1>3. /\ buf \in Seq(Letter) /\ Len(buf) \in Nat /\ L \in Pinyin /\ L \in Seq(Letter)
      /\ CandsOk /\ QueuedOk /\ Raw \in Pinyin /\ ~Unaccounted(owed)
  BY Lettered, LenProperties, Accounted DEF KInv, Pinyin
<1>4. ASSUME h.idx \in DOMAIN cands, IsPrefix(cand.spells, buf)
      PROVE  /\ cand.cover \in Nat /\ 1 <= cand.cover /\ cand.cover <= Len(buf)
             /\ cand.spells = SubSeq(buf, 1, cand.cover) /\ cand.spells \in Pinyin
  <2>1. Spelt(cand)
    BY <1>3, <1>4 DEF CandsOk
  <2>2. cand \in Cand
    <3>1. cands \in Seq(Cand)
      BY Inv DEF InputTypeOK
    <3> QED BY <1>4, <3>1, LenProperties, ElementOfSeq
  <2> HIDE DEF cand
  <2>3. cand.spells \in Seq(Letter) /\ cand.cover \in Nat /\ cand.cover >= 1 /\ Len(cand.spells) = cand.cover
    BY <2>1, <2>2 DEF Spelt, Cand, Pinyin
  <2>4. SubSeq(cand.spells, 1, Len(cand.spells)) = cand.spells
    BY <2>3, SubSeqFull
  <2>5. Len(cand.spells) <= Len(buf) /\ SubSeq(cand.spells, 1, Len(cand.spells)) = SubSeq(buf, 1, Len(cand.spells))
    BY <1>4 DEF IsPrefix
  <2> QED BY <2>3, <2>4, <2>5 DEF Pinyin
<1>5. CASE SelectNothing
  <2>1. todo' = Tail(todo) /\ UNCHANGED letterVars
    BY <1>5 DEF SelectNothing, Rest, typingVars, inputVars, pendVars, outVars, letterVars
  <2>2. CandsOk' /\ QueuedOk' /\ owed' = Raw' /\ owed' \in Pinyin
    BY <1>2, <1>3, <2>1, KeptSame DEF Raw, letterVars
  <2>3. KInv'
    BY <1>1, <2>1, <2>2, KeptFew
  <2> QED BY <2>3 DEF LettersInv
<1>6. CASE (SelectWhole \/ SelectPrefix) /\ ~IsPrefix(cand.spells, buf)
  <2>1. owed' = Misled
    BY <1>3, <1>6 DEF SelectWhole, SelectPrefix, Choosing
  <2> QED BY <2>1 DEF LettersInv, Misled
<1>7. CASE SelectWhole /\ IsPrefix(cand.spells, buf)
  <2> DEFINE a == Send(Pick(h.idx, cand.cover), Nobody)
             b == Commit(h.ic, cand.spells)
  <2>1. /\ h.idx \in DOMAIN cands
        /\ cand.cover = 0 \/ cand.cover >= Len(buf)
        /\ todo' = <<a, b>> \o Tail(todo) /\ UNCHANGED letterVars
    BY <1>7 DEF SelectWhole, Choosing, Then, Rest, inputVars, pendVars, letterVars
  <2>2. cand.spells = buf
    <3>1. /\ cand.cover \in Nat /\ 1 <= cand.cover /\ cand.cover <= Len(buf)
          /\ cand.spells = SubSeq(buf, 1, cand.cover)
          /\ cand.cover = 0 \/ cand.cover >= Len(buf)
      BY <1>4, <1>7, <2>1
    <3> HIDE DEF cand
    <3>2. cand.cover = Len(buf)
      BY <1>3, <3>1
    <3> QED BY <1>3, <3>1, <3>2, SubSeqFull
  <2>3. a.op \notin Acts /\ b.op = "commit" /\ b.text = buf
    BY <2>2 DEF Send, Commit, Acts
  <2>4. CandsOk' /\ QueuedOk' /\ owed' \in Pinyin
    BY <1>2, <1>3, <2>1, KeptSame DEF Raw, letterVars
  <2> HIDE DEF a, b, L, h, cand
  <2>5. Kept(b)
    BY <1>2, <2>3 DEF Kept, Ahead, L
  <2>6. \A t : t = b => Left(t)'
    BY <2>1, <2>3, <2>5, KeptSame DEF Left, Acts
  <2>7. KInv'
    BY <1>1, <2>1, <2>3, <2>4, <2>6, KeptFew
  <2> QED BY <2>7 DEF LettersInv
<1>8. CASE SelectPrefix /\ IsPrefix(cand.spells, buf)
  <2> DEFINE a == Send(Pick(h.idx, cand.cover), HandlerFor(buf', revision'))
             b == Ui(h.ic)
             rem == Remaining(cand.cover)
  <2>1. /\ h.idx \in DOMAIN cands /\ 0 < cand.cover /\ cand.cover < Len(buf)
        /\ owed' = Delivered(cand.spells) /\ buf' = rem /\ cands' = <<>> /\ UNCHANGED queued
        /\ todo' = <<a, b>> \o Tail(todo)
    BY <1>8 DEF SelectPrefix, NoCandidates, Then, Rest, pendVars
  <2>2. cand.spells \in Pinyin /\ rem \in Pinyin /\ cand.spells \o rem = buf
    <3> SUFFICES ASSUME NEW n \in Nat, n = cand.cover
                 PROVE  SubSeq(buf, 1, n) \in Pinyin /\ SubSeq(buf, n + 1, Len(buf)) \in Pinyin
                        /\ SubSeq(buf, 1, n) \o SubSeq(buf, n + 1, Len(buf)) = buf
      BY <1>4, <1>8, <2>1 DEF Remaining
    <3>1. n \in 1..Len(buf) /\ n <= Len(buf)
      BY <1>3, <2>1
    <3>2. SubSeq(buf, 1, n) \o SubSeq(buf, n + 1, Len(buf)) = SubSeq(buf, 1, Len(buf))
      <4>1. 1 \in 1..(Len(buf) + 1) /\ n \in (1 - 1)..Len(buf) /\ Len(buf) \in n..Len(buf)
        BY <1>3, <3>1
      <4> QED BY <1>3, <4>1, ConcatAdjacentSubSeq
    <3>3. SubSeq(buf, 1, n) \in Seq(Letter) /\ SubSeq(buf, n + 1, Len(buf)) \in Seq(Letter)
      <4>1. \A k \in 1..Len(buf) : buf[k] \in Letter
        BY <1>3, ElementOfSeq
      <4>2. (\A k \in 1..n : k \in 1..Len(buf)) /\ (\A k \in (n + 1)..Len(buf) : k \in 1..Len(buf))
        BY <1>3, <3>1
      <4> QED BY <1>3, <4>1, <4>2, SubSeqProperties
    <3> QED BY <1>3, <3>2, <3>3, SubSeqFull DEF Pinyin
  <2> HIDE DEF rem, cand
  <2>3. owed' = rem \o L
    <3>1. owed = (cand.spells \o rem) \o L
      BY <1>2, <2>2
    <3> QED BY <1>3, <2>1, <2>2, <3>1, DeliversPart
  <2>4. Raw' = rem \o L
    <3>1. LettersOf(queued)' = L
      BY <2>1 DEF LettersOf
    <3> QED BY <2>1, <3>1 DEF Raw
  <2>5. owed' \in Pinyin
    BY <1>3, <2>2, <2>3, ConcatProperties DEF Pinyin
  <2>6. CandsOk' /\ QueuedOk'
    BY <1>3, <2>1 DEF CandsOk, QueuedOk
  <2>7. a.op \notin Acts /\ b.op \notin Acts
    BY DEF Send, Ui, Acts
  <2> HIDE DEF a, b, L, h
  <2>8. \A t : t = b => Left(t)'
    BY <2>3, <2>4, <2>7 DEF Left, Acts
  <2>9. KInv'
    BY <1>1, <2>1, <2>5, <2>6, <2>7, <2>8, KeptFew
  <2> QED BY <2>9 DEF LettersInv
<1> QED BY <1>5, <1>6, <1>7, <1>8

\* A call that takes the pinyin as it is finds it so.
LEMMA LeftRaw ==
  ASSUME owed' = Raw'
  PROVE  \A t : t.op \in {"select", "fallback", "arm"} \/ t.op \notin Acts => Left(t)'
<1> SUFFICES ASSUME NEW t, t.op \in {"select", "fallback", "arm"} \/ t.op \notin Acts
             PROVE  Left(t)'
  OBVIOUS
<1>1. CASE t.op \notin Acts
  BY <1>1 DEF Left
<1>2. CASE t.op \in {"select", "fallback", "arm"}
  BY <1>2 DEF Left, Kept, Ahead, Raw
<1> QED BY <1>1, <1>2

\* A reply that is no list leaves the pinyin; the addon sends it anew, or gives
\* up the wait.
LEMMA KeptRefused ==
  ASSUME AsUsed, WInv, FInv, KInv, gone = "no", HandleRefused
  PROVE  KInv'
<1> DEFINE a == Clear
           b == Request(buf)
           f == Fallback(icRef)
<1>1. /\ todo # <<>> /\ Head(todo).op = "call" /\ UNCHANGED letterVars
      /\ \/ todo' = <<a, b>> \o Tail(todo)
         \/ todo' = <<f>> \o Tail(todo)
         \/ todo' = <<>> \o Tail(todo)
  BY DEF HandleRefused, Calling, Idle, Then, Rest, pendVars, letterVars
<1>2. Alone
  <2>1. Kind(Head(todo).resp) \in {"OK", "ERR"}
    BY DEF HandleRefused
  <2>2. Head(todo).resp # Failed
    BY <2>1 DEF Kind, Lost
  <2> QED BY <1>1, <2>2 DEF Alone, Below
<1>3. owed = Raw /\ CandsOk /\ QueuedOk
  BY <1>1, <1>2, AloneLeft DEF Left, Acts, KInv
<1>4. owed' = Raw' /\ owed' \in Pinyin /\ CandsOk' /\ QueuedOk'
  BY <1>1, <1>3, Lettered, KeptSame DEF letterVars
<1>5. a.op \notin Acts /\ b.op \notin Acts /\ f.op = "fallback"
  BY DEF Clear, Send, Request, Fallback, Acts
<1>6. <<>> \o Tail(todo) = Tail(todo)
  <2>1. todo \in Seq(Task)
    BY <1>1, AloneLeft
  <2>2. Tail(todo) \in Seq(Task)
    BY <1>1, <2>1, HeadTailProperties
  <2> QED BY <2>2, ConcatEmptySeq
<1> HIDE DEF a, b, f
<1>7. (\A t : t = a => Left(t)') /\ (\A t : t = f => Left(t)')
  BY <1>4, <1>5, LeftRaw
<1>8. CASE todo' = <<f>> \o Tail(todo)
  BY <1>1, <1>2, <1>4, <1>7, <1>8, KeptFew
<1>9. CASE todo' = <<a, b>> \o Tail(todo) \/ todo' = Tail(todo)
  BY <1>1, <1>2, <1>4, <1>5, <1>7, <1>9, KeptFew
<1> QED BY <1>1, <1>6, <1>8, <1>9

\* Candidates of a line read knowing whether it carries covers spell what they
\* cover.
LEMMA ParseSpelt ==
  ASSUME NEW text \in Answer, text.kind = "CAND", spansOn
  PROVE  \A i \in DOMAIN Parse(text) : Spelt(Parse(text)[i])
<1>1. Covered(text) /\ text.of \in Pinyin /\ text.covers \in Seq(Nat)
  BY DEF Answer
<1> SUFFICES ASSUME NEW i \in DOMAIN text.covers PROVE Spelt(Parse(text)[i])
  BY DEF Parse
<1> DEFINE n == text.covers[i]
<1>2. Parse(text)[i].cover = n /\ Parse(text)[i].spells = SubSeq(text.of, 1, n)
  BY DEF Parse
<1>3. n \in 1..Len(text.of) /\ text.of \in Seq(Letter) /\ Len(text.of) \in Nat
  BY <1>1, LenProperties DEF Covered, Pinyin
<1> HIDE DEF n
<1>4. Len(SubSeq(text.of, 1, n)) = n
  <2>1. \A k \in 1..n : k \in 1..Len(text.of) /\ text.of[k] \in Letter
    BY <1>3, ElementOfSeq
  <2>2. Len(SubSeq(text.of, 1, n)) = n - 1 + 1
    BY <1>3, <2>1, SubSeqProperties
  <2> QED BY <1>3, <2>2
<1> QED BY <1>2, <1>3, <1>4 DEF Spelt

\* Candidates: the pinyin stays; a pending Space selects the first of them, and
\* the keys queued are still owed after it.
LEMMA KeptCandidates ==
  ASSUME AsUsed, WInv, WInv', FInv, SInv, KInv, gone = "no", HandleCandidates
  PROVE  KInv'
<1> DEFINE h == Head(todo).h
           resp == Head(todo).resp
           found == IF Kind(resp) = "CAND" THEN Parse(resp.text) ELSE <<>>
           s == Select(icRef, 1)
           d == Drain(icRef)
           f == Fallback(icRef)
<1>1. /\ todo # <<>> /\ Head(todo).op = "call" /\ h.kind = "cand"
      /\ cands' = found /\ UNCHANGED <<buf, queued, owed>>
      /\ Kind(resp) \in {"CAND", "EMPTY"}
      /\ \/ todo' = <<>> \o Tail(todo)
         \/ todo' = <<f>> \o Tail(todo)
         \/ todo' = <<s, d>> \o Tail(todo)
  BY DEF HandleCandidates, Calling, Idle, Then, Rest
<1>2. resp # Failed
  BY <1>1 DEF Kind, Lost
<1>3. Alone
  BY <1>1, <1>2 DEF Alone, Below
<1>4. owed = Raw /\ QueuedOk
  BY <1>1, <1>3, AloneLeft DEF Left, Acts, KInv
<1>5. CandsOk'
  <2>1. CASE Kind(resp) = "CAND"
    <3>1. Told(Head(todo)) /\ ~Spans(h) /\ resp.text.kind = "CAND"
      BY <1>1, <1>2, <2>1 DEF Told, Spans, Kind, Lost
    <3>2. spansOn
      BY <1>1, <3>1 DEF SInv, ToldKnowing
    <3>3. resp.text \in Answer
      <4>1. ProcInv /\ Calling("call")
        BY Inv DEF HandleCandidates
      <4>2. resp \in Reply
        BY <1>2, <4>1, AtHand
      <4> QED BY <4>2 DEF Reply, AsUsed
    <3> QED BY <1>1, <2>1, <3>1, <3>2, <3>3, ParseSpelt DEF CandsOk, Spelt
  <2>2. CASE Kind(resp) # "CAND"
    BY <1>1, <2>2 DEF CandsOk
  <2> QED BY <2>1, <2>2
<1>6. owed' = Raw' /\ owed' \in Pinyin /\ QueuedOk'
  BY <1>1, <1>4, Lettered DEF QueuedOk, Raw, LettersOf
<1>7. s.op = "select" /\ d.op \notin Acts /\ f.op = "fallback"
  BY DEF Select, Drain, Fallback, Acts
<1>8. <<>> \o Tail(todo) = Tail(todo)
  <2>1. todo \in Seq(Task)
    BY <1>1, <1>3, AloneLeft
  <2>2. Tail(todo) \in Seq(Task)
    BY <1>1, <2>1, HeadTailProperties
  <2> QED BY <2>2, ConcatEmptySeq
<1> HIDE DEF s, d, f, found, h, resp
<1>9. (\A t : t = s => Left(t)') /\ (\A t : t = f => Left(t)')
  BY <1>6, <1>7, LeftRaw
<1>10. CASE todo' = <<f>> \o Tail(todo)
  BY <1>1, <1>3, <1>5, <1>6, <1>9, <1>10, KeptFew
<1>11. CASE todo' = <<s, d>> \o Tail(todo) \/ todo' = Tail(todo)
  BY <1>1, <1>3, <1>5, <1>6, <1>7, <1>9, <1>11, KeptFew
<1> QED BY <1>1, <1>8, <1>10, <1>11

\* A pending Space: given up, the pinyin and all that is queued are committed;
\* armed, they wait.
LEMMA KeptWait ==
  ASSUME AsUsed, WInv, FInv, KInv, gone = "no", FallbackPending \/ ArmPending
  PROVE  KInv'
<1> DEFINE x == Commit(Head(todo).ic, Raw)
           f == Fallback(Head(todo).ic)
<1>1. todo # <<>> /\ Head(todo).op \in {"fallback", "arm"} /\ UNCHANGED <<buf, cands, owed>>
  BY DEF FallbackPending, ArmPending, Calling, Idle, inputVars, outVars
<1>2. Alone
  BY <1>1 DEF Alone, Acts
<1>3. owed = Raw /\ CandsOk /\ QueuedOk /\ owed \in Pinyin
  BY <1>1, <1>2, AloneLeft, Lettered DEF Left, Kept, Ahead, Raw, Acts, KInv
<1>4. CandsOk' /\ owed' \in Pinyin
  BY <1>1, <1>3 DEF CandsOk, Spelt
<1>5. CASE FallbackPending
  <2>1. queued' = <<>> /\ todo' = <<x>> \o Tail(todo)
    BY <1>5 DEF FallbackPending, Then, Rest
  <2>2. LettersOf(queued)' = <<>>
    BY <2>1, LettersEmpty DEF LettersOf
  <2>3. x.op = "commit" /\ x.text = Raw
    BY DEF Commit
  <2>4. QueuedOk'
    BY <2>1, Few DEF QueuedOk
  <2> HIDE DEF x
  <2>5. owed' = Raw \o <<>>
    BY <1>1, <1>3, Lettered
  <2>6. ASSUME NEW t, t = x PROVE Left(t)'
    BY <2>2, <2>3, <2>5, <2>6 DEF Left, Kept, Ahead, Acts
  <2>7. \A t : t = x => Left(t)'
    BY <2>6
  <2> QED BY <1>1, <1>2, <1>4, <2>1, <2>4, <2>7, KeptFew
<1>6. CASE ArmPending
  <2>1. /\ UNCHANGED queued
        /\ todo' = <<f>> \o Tail(todo) \/ todo' = <<>> \o Tail(todo)
    BY <1>6 DEF ArmPending, Then, Rest
  <2>2. owed' = Raw' /\ QueuedOk'
    BY <1>1, <1>3, <2>1 DEF QueuedOk, Raw, LettersOf
  <2>3. f.op = "fallback"
    BY DEF Fallback
  <2>4. <<>> \o Tail(todo) = Tail(todo)
    <3>1. todo \in Seq(Task)
      BY <1>1, <1>2, AloneLeft
    <3>2. Tail(todo) \in Seq(Task)
      BY <1>1, <3>1, HeadTailProperties
    <3> QED BY <3>2, ConcatEmptySeq
  <2> HIDE DEF f
  <2>5. \A t : t = f => Left(t)'
    BY <2>2, <2>3, LeftRaw
  <2>6. CASE todo' = <<f>> \o Tail(todo)
    BY <1>1, <1>2, <1>4, <2>2, <2>5, <2>6, KeptFew
  <2>7. CASE todo' = Tail(todo)
    BY <1>1, <1>2, <1>4, <2>2, <2>7, KeptFew
  <2> QED BY <2>1, <2>4, <2>6, <2>7
<1> QED BY <1>5, <1>6

\* The queue drained: its first key carries its letter with it.
LEMMA KeptDrain ==
  ASSUME AsUsed, WInv, FInv, KInv, gone = "no", DrainQueued \/ DrainNext
  PROVE  KInv'
<1> DEFINE h == Head(todo)
           a == DrainOn(h.ic)
           k == Replay(icRef, Head(queued))
<1>1. todo # <<>> /\ h.op \in {"drain", "drainOn"} /\ UNCHANGED <<buf, cands, pend, owed>>
  BY DEF DrainQueued, DrainNext, Calling, Idle, inputVars, outVars
<1>2. h.op \notin Acts
  BY <1>1 DEF Acts
<1>3. CASE DrainQueued
  <2>1. UNCHANGED letterVars /\ (todo' = Tail(todo) \/ todo' = <<a>> \o Tail(todo))
    BY <1>1, <1>3 DEF DrainQueued, Then, Rest, letterVars
  <2>2. a.op \notin Acts
    BY DEF DrainOn, Acts
  <2> HIDE DEF a
  <2> QED BY <1>1, <1>2, <2>1, <2>2, KeptQuietFew
<1>4. CASE DrainNext
  <2>1. /\ h.op = "drainOn"
        /\ \/ ~pend /\ queued # <<>> /\ todo' = <<k>> \o todo /\ queued' = Tail(queued)
           \/ todo' = Tail(todo) /\ UNCHANGED queued
    BY <1>1, <1>4 DEF DrainNext, Rest, Calling
  <2>2. Alone
    BY <2>1 DEF Alone, Below
  <2>3. owed = Raw /\ CandsOk /\ QueuedOk /\ todo \in Seq(Task)
    BY <1>1, <1>2, <2>2, AloneLeft DEF Left, KInv
  <2>4. CASE todo' = Tail(todo) /\ UNCHANGED queued
    <3>1. UNCHANGED letterVars
      BY <1>1, <2>4 DEF letterVars
    <3> QED BY <1>1, <1>2, <2>4, <3>1, KeptQuietFew
  <2>5. CASE ~pend /\ queued # <<>> /\ todo' = <<k>> \o todo /\ queued' = Tail(queued)
    <3> DEFINE one == LettersOf(<<Head(queued)>>)
               rest == LettersOf(Tail(queued))
    <3>1. /\ queued \in Seq(Key) /\ Head(queued) \in Key /\ Tail(queued) \in Seq(Key)
          /\ queued = <<Head(queued)>> \o Tail(queued)
          /\ Range(queued) = {Head(queued)} \cup Range(Tail(queued))
      <4>1. queued \in Seq(Key)
        BY Inv DEF PendTypeOK
      <4> QED BY <2>5, <4>1, HeadTailProperties, HeadAndTail, TopAndRest
    <3>2. <<Head(queued)>> \in Seq(Key)
      BY <3>1
    <3>3. LettersOf(queued) = one \o rest /\ one \in Pinyin /\ rest \in Pinyin
      BY <3>1, <3>2, LettersConcat, LettersType
    <3>4. k.op = "key" /\ k.src = "queue" /\ k.key = Head(queued)
      BY DEF Replay
    <3>5. LettersOf(queued)' = rest /\ \A key : LettersOf(<<key>>)' = LettersOf(<<key>>)
      BY <2>5 DEF LettersOf
    <3> HIDE DEF one, rest
    <3>6. owed = (buf \o one) \o rest
      <4>1. buf \in Pinyin
        BY Lettered
      <4> QED BY <2>3, <3>3, <4>1, ConcatAssociative DEF Raw, Pinyin
    <3>7. Waits(Head(queued)) /\ QueuedOk'
      BY <2>3, <2>5, <3>1 DEF QueuedOk
    <3>8. todo' = <<k, h>> \o Tail(todo)
      <4> HIDE DEF k
      <4> QED BY <1>1, <2>3, <2>5, OnTop
    <3> HIDE DEF k, h
    <3>9. ASSUME NEW t, t = k PROVE Left(t)'
      <4>1. Ahead(t)' = buf \o one
        <5>1. t.op = "key" /\ t.src = "queue" /\ LettersOf(<<t.key>>)' = one
          BY <3>4, <3>5, <3>9 DEF one
        <5> QED BY <1>1, <5>1 DEF Ahead
      <4> QED BY <1>1, <2>5, <3>4, <3>5, <3>6, <3>7, <3>9, <4>1 DEF Left, Kept, Acts
    <3>10. \A t : t = k => Left(t)'
      BY <3>9
    <3>11. CandsOk' /\ owed' \in Pinyin
      BY <1>1, <2>3, Lettered DEF CandsOk, Spelt
    <3> QED BY <1>1, <1>2, <2>2, <3>7, <3>8, <3>10, <3>11, KeptFew DEF h
  <2> QED BY <2>1, <2>4, <2>5
<1> QED BY <1>3, <1>4

----------------------------------------------------------------------------
(* Keys.                                                                   *)

\* What a letter typed, one erased and a cancellation make of letters owed.
LEMMA Reckoned ==
  ASSUME owed \in Pinyin
  PROVE  Cancelled = <<>> /\ Erased = Front(owed) /\ \A c \in Letter : Owing(c) = owed \o <<c>>
<1>1. ~Unaccounted(owed)
  BY Accounted
<1>2. \A c \in Letter : Append(owed, c) = owed \o <<c>>
  BY AppendIsConcat DEF Pinyin
<1> QED BY <1>1, <1>2 DEF Cancelled, Erased, Owing

\* What is owed when a key comes: one replayed brings its own letter, and waited
\* behind a Space once; one of the user's comes with nothing else going on.
LEMMA KeyOwed ==
  ASSUME AsUsed, WInv, FInv, KInv, gone = "no", Calling("key")
  PROVE  /\ todo # <<>> /\ Head(todo).op = "key" /\ Alone /\ Head(todo).key \in Key
         /\ CandsOk /\ QueuedOk /\ owed \in Pinyin
         /\ Head(todo).src \in {"user", "queue"}
         /\ Head(todo).src = "queue" =>
              /\ owed = (buf \o LettersOf(<<Head(todo).key>>)) \o LettersOf(queued)
              /\ ~pend /\ Waits(Head(todo).key)
         /\ Head(todo).src = "user" => owed = Raw /\ (~pend => queued = <<>>)
         /\ ~IsLetter(Head(todo).key) => owed = Raw
<1> DEFINE h == Head(todo)
<1>1. todo # <<>> /\ h.op = "key" /\ h.key \in Key /\ h.src \in {"user", "queue"} /\ todo \in Seq(Task)
  <2>1. ProcInv
    BY Inv
  <2> QED BY <2>1, AtHand, AtTop
<1>2. Alone
  BY <1>1 DEF Alone, Acts
<1>3. Kept(h)
  BY <1>1, <1>2, AloneLeft DEF Left, Acts
<1>4. CandsOk /\ QueuedOk /\ owed \in Pinyin
  BY DEF KInv
<1>5. h.src = "queue" =>
        /\ owed = (buf \o LettersOf(<<h.key>>)) \o LettersOf(queued)
        /\ ~pend /\ Waits(h.key)
  BY <1>1, <1>3 DEF Kept, Ahead
<1>6. ASSUME h.src = "user" PROVE owed = Raw /\ (~pend => queued = <<>>)
  <2>1. OnStack = {h}
    <3>1. OnStack = {h} \cup Range(Tail(todo)) /\ \A t \in Range(Tail(todo)) : t.op \in Below(h)
      BY <1>1, TopAndRest DEF FInv, OnStack
    <3> QED BY <1>1, <1>6, <3>1 DEF Below
  <2>2. ~Has({"drain", "drainOn"})
    BY <1>1, <2>1 DEF Has
  <2> QED BY <1>1, <1>3, <1>6, <2>2 DEF Kept, Ahead, Raw, FInv, WaitOk
<1>7. ASSUME ~IsLetter(h.key) PROVE owed = Raw
  <2>1. LettersOf(<<h.key>>) = <<>>
    BY <1>1, <1>7, LettersOne
  <2>2. CASE h.src = "queue"
    BY <1>5, <2>1, <2>2, Lettered DEF Raw
  <2> QED BY <1>1, <1>6, <2>2
<1> QED BY <1>1, <1>2, <1>4, <1>5, <1>6, <1>7

\* Keys that commit, select, wait, cancel, or do nothing here.
LEMMA KeptKey ==
  ASSUME AsUsed, WInv, FInv, KInv, gone = "no", \A key \in Keys : key.k # "punct",
         KeyMakesCalls \/ KeyNext
  PROVE  KInv'
<1> DEFINE h == Head(todo)
           clear == ClearAll(icRef, TRUE, TRUE)
           fall == Fallback(icRef)
           arm == [op |-> "arm", ic |-> icRef]
           whole == Commit(icRef, buf)
<1> ~KeyPunctuation
  BY DEF KeyPunctuation
<1>1. UNCHANGED letterVars /\ Calling("key")
  BY DEF KeyMakesCalls, PendingEsc, PendingOvertaken, KeyDigit, KeySpace, KeyReturn, KeyEsc,
     KeyPasses, KeyNext, WaitingKey, KeyNow, inputVars, pendVars, outVars, letterVars
<1>2. ~IsLetter(h.key)
  BY DEF KeyMakesCalls, PendingEsc, PendingOvertaken, KeyDigit, KeySpace, KeyReturn, KeyEsc,
     KeyPasses, KeyNext, WaitingKey, KeyNow, IsLetter, Printable, Shortcut
<1>3. /\ todo # <<>> /\ Alone /\ CandsOk /\ QueuedOk /\ owed \in Pinyin /\ owed = Raw
  BY <1>1, <1>2, KeyOwed
<1>4. CandsOk' /\ QueuedOk' /\ owed' \in Pinyin /\ owed' = Raw'
  BY <1>1, <1>3, KeptSame DEF letterVars
<1>5. /\ clear.op = "clear" /\ clear.cancel = TRUE /\ fall.op = "fallback" /\ arm.op = "arm"
      /\ whole.op = "commit" /\ whole.text = buf
  BY DEF ClearAll, Fallback, Commit
<1> HIDE DEF clear, fall, arm, whole, h
<1>6. ASSUME NEW a, todo' = <<a>> \o Tail(todo),
             a = clear \/ a = whole \/ a.op \in {"fallback", "arm", "select"}
      PROVE  KInv'
  <2>1. CASE a = clear
    <3>1. \A t : t = a => Left(t)'
      BY <1>5, <2>1 DEF Left, Kept, Acts
    <3> QED BY <1>3, <1>4, <1>6, <3>1, KeptFew
  <2>2. CASE a = whole
    <3>1. Kept(whole)
      BY <1>3, <1>5 DEF Kept, Ahead, Raw
    <3>2. \A t : t = a => Left(t)'
      BY <1>1, <1>5, <2>2, <3>1, KeptSame DEF Left, Acts
    <3> QED BY <1>3, <1>4, <1>6, <3>2, KeptFew
  <2>3. CASE a.op \in {"fallback", "arm", "select"}
    <3>1. \A t : t = a => Left(t)'
      BY <1>4, <2>3, LeftRaw
    <3> QED BY <1>3, <1>4, <1>6, <3>1, KeptFew
  <2> QED BY <1>6, <2>1, <2>2, <2>3
<1>7. CASE PendingEsc \/ KeyEsc
  <2>1. todo' = <<clear>> \o Tail(todo)
    BY <1>7 DEF PendingEsc, KeyEsc, Then, Rest, clear
  <2> QED BY <1>6, <2>1
<1>8. CASE PendingOvertaken
  <2>1. todo' = <<fall>> \o Tail(todo)
    BY <1>8 DEF PendingOvertaken, Then, Rest, fall
  <2> QED BY <1>5, <1>6, <2>1
<1>9. CASE KeyReturn
  <2>1. todo' = <<whole>> \o Tail(todo)
    BY <1>9 DEF KeyReturn, Then, Rest, whole
  <2> QED BY <1>6, <2>1
<1>10. CASE KeyDigit \/ KeySpace
  <2>1. PICK i : todo' = <<Select(icRef, i)>> \o Tail(todo) \/ todo' = <<arm>> \o Tail(todo)
    BY <1>10 DEF KeyDigit, KeySpace, Then, Rest, arm
  <2> DEFINE t == Select(icRef, i)
  <2>2. t.op = "select"
    BY DEF Select
  <2> HIDE DEF t
  <2> QED BY <1>5, <1>6, <2>1, <2>2 DEF t
<1>11. CASE KeyPasses \/ KeyNext
  <2>1. todo' = Tail(todo)
    BY <1>11 DEF KeyPasses, KeyNext, Rest
  <2> QED BY <1>3, <1>4, <2>1, KeptFew
<1> QED BY <1>7, <1>8, <1>9, <1>10, <1>11 DEF KeyMakesCalls

\* A letter: with the engine first, then with the buffer, where the user's is
\* owed from now on and one replayed was all along.
LEMMA KeptLetter ==
  ASSUME AsUsed, WInv, WInv', FInv, KInv, gone = "no", KeyLetter \/ TypeLetter
  PROVE  KInv'
<1> DEFINE h == Head(todo)
           L == LettersOf(queued)
<1>1. buf \in Pinyin /\ L \in Pinyin /\ buf \o <<>> = buf
  BY Lettered
<1>2. CASE KeyLetter
  <2>1. PICK key \in Keys :
          /\ Calling("key") /\ ~pend /\ key = h.key /\ IsLetter(key)
          /\ Then(IfDead(<<Do("ensure")>>) \o <<Type(key)>>) /\ UNCHANGED <<buf, cands, pendVars, outVars>>
    BY <1>2 DEF KeyLetter, KeyNow
  <2>2. UNCHANGED letterVars
    BY <2>1 DEF pendVars, outVars, letterVars
  <2> DEFINE e == Do("ensure")
             t == Type(key)
  <2>3. (todo' = <<e, t>> \o Tail(todo)) \/ (todo' = <<t>> \o Tail(todo))
    <3>1. <<t>> \in Seq({t})
      BY Few
    <3>2. <<>> \o <<t>> = <<t>> /\ <<e>> \o <<t>> = <<e, t>>
      BY <3>1, ConcatEmptySeq, Pair
    <3> QED BY <2>1, <3>2 DEF Then, Rest, IfDead
  <2>4. e.op \notin Acts /\ t.op = "type" /\ t.c = key.c /\ t.src = h.src
    BY DEF Do, Type, Acts
  <2>5. /\ todo # <<>> /\ Alone /\ CandsOk /\ QueuedOk /\ owed \in Pinyin /\ h.src \in {"user", "queue"}
        /\ h.src = "queue" => owed = (buf \o LettersOf(<<key>>)) \o L
        /\ h.src = "user" => owed = Raw /\ queued = <<>>
        /\ key \in Key
    BY <2>1, KeyOwed
  <2>6. LettersOf(<<key>>) = <<key.c>>
    BY <2>1, <2>5, LettersOne
  <2>7. CandsOk' /\ QueuedOk' /\ owed' \in Pinyin
    BY <2>2, <2>5, KeptSame DEF letterVars
  <2> HIDE DEF e, t, h, L
  <2>8. Kept(t)
    <3>1. CASE h.src = "queue"
      BY <2>4, <2>5, <2>6, <3>1 DEF Kept, Ahead, L
    <3>2. CASE h.src = "user"
      BY <2>4, <2>5, <3>2 DEF Kept, Ahead, Raw, L
    <3> QED BY <2>5, <3>1, <3>2
  <2>9. ASSUME NEW u, u = t PROVE Left(u)'
    BY <2>2, <2>4, <2>8, <2>9, KeptSame DEF Left, Acts
  <2>10. \A u : u = t => Left(u)'
    BY <2>9
  <2> QED BY <2>3, <2>4, <2>5, <2>7, <2>10, KeptFew
<1>3. CASE TypeLetter
  <2> DEFINE r == Request(IF h.replay THEN buf' ELSE <<h.c>>)
  <2>1. /\ todo # <<>> /\ h.op = "type" /\ buf' = Append(buf, h.c) /\ UNCHANGED <<cands, queued>>
        /\ owed' = IF h.src = "user" THEN Owing(h.c) ELSE owed
        /\ todo' = <<r>> \o Tail(todo)
    BY <1>3 DEF TypeLetter, Calling, Idle, pendVars, Then, Rest
  <2>2. h.c \in Letter /\ h.src \in {"user", "queue"}
    <3>1. Calling("type") /\ ProcInv
      BY <1>3, Inv DEF TypeLetter
    <3> QED BY <3>1, AtHand
  <2>3. Alone
    BY <2>1 DEF Alone, Acts
  <2>4. Kept(h) /\ CandsOk /\ QueuedOk /\ owed \in Pinyin
    BY <2>1, <2>3, AloneLeft DEF Left, Acts, KInv
  <2>5. buf' = buf \o <<h.c>>
    BY <1>1, <2>1, <2>2, AppendIsConcat DEF Pinyin
  <2>6. LettersOf(queued)' = L
    BY <2>1 DEF LettersOf
  <2>7. r.op \notin Acts
    BY DEF Request, Acts
  <2> HIDE DEF r, h, L
  <2>8. owed' = Raw'
    <3>1. CASE h.src = "queue"
      BY <2>1, <2>4, <2>5, <2>6, <3>1 DEF Kept, Ahead, Raw, L
    <3>2. CASE h.src = "user"
      <4>1. queued = <<>> /\ owed = buf \o L
        BY <2>1, <2>4, <3>2 DEF Kept, Ahead, L
      <4>2. L = <<>>
        BY <4>1, LettersEmpty DEF L
      <4>3. owed' = buf \o <<h.c>>
        BY <1>1, <2>1, <2>2, <2>4, <3>2, <4>1, <4>2, Reckoned
      <4>4. buf' \o <<>> = buf'
        BY Inv, ConcatEmptySeq DEF WInv, TypeOK, InputTypeOK, Pinyin
      <4> QED BY <2>5, <2>6, <4>2, <4>3, <4>4 DEF Raw
    <3> QED BY <2>2, <3>1, <3>2
  <2>9. owed' \in Pinyin
    <3>1. InputTypeOK' /\ PendTypeOK'
      BY DEF WInv, TypeOK
    <3>2. LettersOf(queued') \in Pinyin /\ buf' \in Pinyin
      BY <3>1, LettersType DEF InputTypeOK, PendTypeOK
    <3> QED BY <2>8, <3>2, ConcatProperties DEF Raw, LettersOf, Pinyin
  <2>10. CandsOk' /\ QueuedOk'
    BY <2>1, <2>4 DEF CandsOk, QueuedOk, Spelt
  <2>11. \A t : t = r => Left(t)'
    BY <2>7, <2>8, LeftRaw
  <2> QED BY <2>1, <2>3, <2>9, <2>10, <2>11, KeptFew
<1> QED BY <1>2, <1>3

\* BackSpace on the pinyin takes its last letter, which is the last one owed.
LEMMA KeptBack ==
  ASSUME AsUsed, WInv, WInv', FInv, KInv, gone = "no", PendingBackPinyin \/ KeyBack
  PROVE  KInv'
<1> DEFINE h == Head(todo)
           c == Clear
           r == Request(buf')
           u == Ui(icRef)
           f == Fallback(icRef)
<1>1. /\ Calling("key") /\ buf' = Front(buf) /\ owed' = Erased /\ UNCHANGED <<pend, queued>>
      /\ cands' = <<>> \/ UNCHANGED cands
      /\ \/ todo' = <<c, r, u>> \o Tail(todo)
         \/ todo' = <<c, u>> \o Tail(todo)
         \/ todo' = <<c, f>> \o Tail(todo)
      /\ h.key.k = "back" /\ ~h.key.rel
      /\ pend => PressesIn(queued) = {}
  <2>1. CASE PendingBackPinyin
    <3>1. <<c>> \o <<f>> = <<c, f>>
      BY Pair
    <3>2. <<c>> \o <<r, u>> = <<c, r, u>>
      BY Triple
    <3>3. PICK key \in Keys :
            /\ WaitingKey(key) /\ key.k = "back" /\ ~key.rel /\ PressesIn(queued) = {}
            /\ buf' = Front(buf) /\ owed' = Erased /\ cands' = <<>> /\ UNCHANGED pendVars
            /\ IF buf' = <<>> THEN todo' = (<<c>> \o <<f>>) \o Tail(todo)
                              ELSE todo' = (<<c>> \o <<r, u>>) \o Tail(todo)
      BY <2>1 DEF PendingBackPinyin, Then, Rest
    <3> HIDE DEF c, r, u, f
    <3> QED BY <3>1, <3>2, <3>3 DEF WaitingKey, pendVars
  <2>2. CASE KeyBack
    <3>1. PICK key \in Keys :
            /\ KeyNow(key) /\ key.k = "back" /\ ~key.rel
            /\ buf' = Front(buf) /\ owed' = Erased /\ UNCHANGED pendVars
            /\ cands' = <<>> \/ UNCHANGED cands
            /\ todo' = <<c, u>> \o Tail(todo) \/ todo' = <<c, r, u>> \o Tail(todo)
      BY <2>2 DEF KeyBack, NoCandidates, Then, Rest
    <3> HIDE DEF c, r, u, f
    <3> QED BY <3>1 DEF KeyNow, pendVars
  <2> QED BY <2>1, <2>2
<1>2. ~IsLetter(h.key) /\ ~Waits(h.key)
  BY <1>1 DEF IsLetter, Waits, Printable
<1>3. /\ todo # <<>> /\ Alone /\ CandsOk /\ QueuedOk /\ owed \in Pinyin
      /\ owed = Raw /\ (~pend => queued = <<>>)
  BY <1>1, <1>2, KeyOwed
<1>4. LettersOf(queued) = <<>>
  <2>1. CASE pend
    <3>1. queued \in Seq(Key) /\ DOMAIN queued = 1..Len(queued)
      BY Inv, LenProperties DEF PendTypeOK
    <3>2. \A i \in 1..Len(queued) : ~IsLetter(queued[i])
      BY <1>1, <2>1, <3>1 DEF PressesIn, IsLetter
    <3> QED BY <3>1, <3>2, LettersNone
  <2>2. CASE ~pend
    BY <1>3, <2>2, LettersEmpty
  <2> QED BY <2>1, <2>2
<1>5. owed = buf
  BY <1>3, <1>4, Lettered DEF Raw
<1>6. owed' = Raw' /\ owed' \in Pinyin
  <2>1. owed' = buf' /\ buf' \in Pinyin
    <3>1. InputTypeOK'
      BY DEF WInv, TypeOK
    <3> QED BY <1>1, <1>3, <1>5, <3>1, Reckoned DEF InputTypeOK
  <2>2. LettersOf(queued)' = <<>>
    BY <1>1, <1>4 DEF LettersOf
  <2>3. buf' \o <<>> = buf'
    BY <2>1, ConcatEmptySeq DEF Pinyin
  <2> QED BY <2>1, <2>2, <2>3 DEF Raw
<1>7. CandsOk' /\ QueuedOk'
  BY <1>1, <1>3 DEF CandsOk, QueuedOk, Spelt
<1>8. c.op \notin Acts /\ r.op \notin Acts /\ u.op \notin Acts /\ f.op = "fallback"
  BY DEF Clear, Send, Request, Ui, Fallback, Acts
<1> HIDE DEF c, r, u, f, h
<1>9. (\A t : t = u => Left(t)') /\ (\A t : t = f => Left(t)')
  BY <1>6, <1>8, LeftRaw
<1>10. CASE todo' = <<c, r, u>> \o Tail(todo)
  <2> SUFFICES ASSUME NEW x, x = c, NEW y, y = r, NEW z, z = u PROVE KInv'
    OBVIOUS
  <2>1. /\ todo' = <<x, y, z>> \o Tail(todo) /\ x.op \notin Acts /\ y.op \notin Acts
        /\ \A t : t = z => Left(t)'
    BY <1>8, <1>9, <1>10
  <2> QED BY <1>3, <1>6, <1>7, <2>1, KeptFew
<1>11. CASE todo' = <<c, u>> \o Tail(todo)
  BY <1>3, <1>6, <1>7, <1>8, <1>9, <1>11, KeptFew
<1>12. CASE todo' = <<c, f>> \o Tail(todo)
  BY <1>3, <1>6, <1>7, <1>8, <1>9, <1>12, KeptFew
<1> QED BY <1>1, <1>10, <1>11, <1>12

\* Everything cancelled; what a switch of input method committed was all.
LEMMA KeptClear ==
  ASSUME AsUsed, WInv, FInv, KInv, gone = "no", ClearEverything \/ KeyElsewhere
  PROVE  KInv'
<1> DEFINE c == Clear
           h == Head(todo)
           u == Ui(h.ic)
<1>1. pend' = FALSE /\ queued' = <<>> /\ buf' = <<>> /\ cands' = <<>>
  BY DEF ClearEverything, KeyElsewhere, Forget, NewInput, NoCandidates
<1>2. LettersOf(queued)' = <<>> /\ Raw' = <<>>
  <2>1. LettersOf(queued)' = <<>>
    BY <1>1, LettersEmpty DEF LettersOf
  <2>2. <<>> \o <<>> = <<>>
    BY EmptySeq, ConcatEmptySeq
  <2> QED BY <1>1, <2>1, <2>2 DEF Raw
<1>3. CandsOk' /\ QueuedOk' /\ <<>> \in Pinyin
  BY <1>1, Few, EmptySeq DEF CandsOk, QueuedOk, Pinyin
<1>4. c.op \notin Acts /\ u.op \notin Acts
  BY DEF Clear, Send, Ui, Acts
<1>5. owed \in Pinyin /\ Cancelled = <<>>
  BY Reckoned DEF KInv
<1>6. CASE ClearEverything
  <2>1. /\ todo # <<>> /\ h.op = "clear" /\ owed' = (IF h.cancel THEN Cancelled ELSE owed)
        /\ todo' = (<<c>> \o (IF h.redraw THEN <<u>> ELSE <<>>)) \o Tail(todo)
    BY <1>6 DEF ClearEverything, Calling, Idle, Then, Rest
  <2>2. Alone
    BY <2>1 DEF Alone, Acts
  <2>3. h.cancel \/ owed = <<>>
    BY <2>1, <2>2, AloneLeft DEF Left, Kept, Acts
  <2>4. owed' = Raw' /\ owed' \in Pinyin
    BY <1>2, <1>3, <1>5, <2>1, <2>3
  <2> HIDE DEF c, u
  <2>5. (todo' = <<c, u>> \o Tail(todo)) \/ (todo' = <<c>> \o Tail(todo))
    <3>1. <<c>> \in Seq({c})
      BY Few
    <3>2. <<c>> \o <<>> = <<c>> /\ <<c>> \o <<u>> = <<c, u>>
      BY <3>1, ConcatEmptySeq, Pair
    <3> QED BY <2>1, <3>2
  <2>6. (\A t : t = c => Left(t)') /\ (\A t : t = u => Left(t)')
    BY <1>4, <2>4, LeftRaw
  <2> QED BY <1>3, <1>4, <2>1, <2>2, <2>4, <2>5, <2>6, KeptFew
<1>7. CASE KeyElsewhere
  <2>1. /\ todo # <<>> /\ h.op = "key" /\ Ok(h) /\ icRef # h.ic /\ todo \in Seq(Task)
        /\ owed' = Cancelled /\ todo' = <<c>> \o todo
    BY <1>7, AtTop DEF KeyElsewhere
  <2>2. h.src # "queue" /\ Alone
    BY <2>1, KeyOwed DEF Ok, Alone, Acts
  <2>3. todo' = <<c, h>> \o Tail(todo)
    BY <2>1, OnTop
  <2> HIDE DEF c, u, h
  <2>4. ASSUME NEW t, t = h PROVE Left(t)'
    <3>1. Ahead(t)' = <<>> /\ <<>> \o <<>> = <<>>
      BY <1>1, <2>1, <2>2, <2>4, EmptySeq, ConcatEmptySeq DEF Ahead
    <3> QED BY <1>2, <1>5, <2>1, <2>2, <2>4, <3>1 DEF Left, Kept, Acts
  <2>5. \A t : t = h => Left(t)'
    BY <2>4
  <2> QED BY <1>3, <1>4, <1>5, <2>1, <2>2, <2>3, <2>5, KeptFew
<1> QED BY <1>6, <1>7

\* Taking away a key leaves the others.
LEMMA RemovedFrom ==
  ASSUME NEW S, NEW q \in Seq(S), NEW i \in 1..Len(q)
  PROVE  RemoveAt(q, i) \in Seq(S)
<1>1. \A k \in 1..Len(q) : q[k] \in S
  BY ElementOfSeq
<1>2. SubSeq(q, 1, i - 1) \in Seq(S)
  <2>1. SubSeq(q, 1, i - 1) = [k \in 1..(i - 1) |-> q[k]] /\ i - 1 \in Nat
    BY LenProperties
  <2>2. \A k \in 1..(i - 1) : q[k] \in S
    BY <1>1, LenProperties
  <2> QED BY <2>1, <2>2
<1>3. SubSeq(q, i + 1, Len(q)) \in Seq(S)
  <2>1. /\ SubSeq(q, i + 1, Len(q)) = [k \in 1..(Len(q) - (i + 1) + 1) |-> q[k + (i + 1) - 1]]
        /\ Len(q) - (i + 1) + 1 \in Nat
    BY LenProperties
  <2>2. \A k \in 1..(Len(q) - (i + 1) + 1) : q[k + (i + 1) - 1] \in S
    BY <1>1, LenProperties
  <2> QED BY <2>1, <2>2
<1> QED BY <1>2, <1>3, ConcatProperties DEF RemoveAt

\* BackSpace on the keys queued: the last pressed goes, with its letter if it is
\* one, and its release.
LEMMA TakenBack ==
  ASSUME AsUsed, WInv, PendingBackQueued, QueuedOk
  PROVE  /\ QueuedOk'
         /\ \/ owed' = Erased /\ \E c \in Letter : LettersOf(queued) = LettersOf(queued') \o <<c>>
            \/ UNCHANGED owed /\ LettersOf(queued) = LettersOf(queued')
<1> DEFINE last == Max(PressesIn(queued))
           release == [queued[last] EXCEPT !.rel = TRUE]
           left == RemoveAt(queued, last)
           after == {i \in last..Len(left) : left[i] = release}
           W == {key \in Key : Waits(key)}
<1>1. /\ PressesIn(queued) # {}
      /\ queued' = IF after = {} THEN left ELSE RemoveAt(left, Min(after))
      /\ owed' = IF IsLetter(queued[last]) THEN Erased ELSE owed
  BY DEF PendingBackQueued
<1>2. queued \in Seq(Key) /\ queued \in Seq(W) /\ DOMAIN queued = 1..Len(queued) /\ Len(queued) \in Nat
  <2>1. queued \in Seq(Key) /\ DOMAIN queued = 1..Len(queued) /\ Len(queued) \in Nat
    BY Inv, LenProperties DEF PendTypeOK
  <2>2. \A i \in 1..Len(queued) : queued[i] \in W
    BY <2>1, ElementOfSeq DEF QueuedOk, Range
  <2> HIDE DEF W
  <2> QED BY <2>1, <2>2
<1>3. last \in PressesIn(queued) /\ \A i \in PressesIn(queued) : last >= i
  <2>1. PressesIn(queued) \subseteq 1..Len(queued)
    BY <1>2 DEF PressesIn
  <2> QED BY <1>1, <1>2, <2>1, MaxOfRange
<1>4. last \in 1..Len(queued) /\ ~queued[last].rel /\ queued[last] \in Key
  BY <1>2, <1>3, ElementOfSeq DEF PressesIn
<1>5. ASSUME NEW k \in 1..Len(queued), k > last PROVE ~IsLetter(queued[k])
  <2>1. k \notin PressesIn(queued)
    BY <1>3, <1>4, <1>5
  <2> QED BY <1>2, <2>1 DEF PressesIn, IsLetter
<1> HIDE DEF last
<1>6. left \in Seq(Key) /\ left \in Seq(W)
  <2> HIDE DEF W
  <2> QED BY <1>2, <1>4, RemovedFrom
<1>7. LettersOf(queued) = LettersOf(left) \o LettersOf(<<queued[last]>>)
  BY <1>2, <1>4, <1>5, LettersWithout
<1> HIDE DEF left
<1>8. after # {} => Min(after) \in 1..Len(left) /\ left[Min(after)].rel = TRUE
  <2> SUFFICES ASSUME after # {} PROVE Min(after) \in 1..Len(left) /\ left[Min(after)].rel = TRUE
    OBVIOUS
  <2>1. after \subseteq Nat
    BY <1>4
  <2>2. Min(after) \in after
    <3> HIDE DEF after
    <3> QED BY <2>1, MinOfNats
  <2>3. release.rel = TRUE
    BY <1>4 DEF Key
  <2> HIDE DEF release
  <2>4. Min(after) \in last..Len(left) /\ left[Min(after)] = release
    BY <2>2
  <2>5. Len(left) \in Nat
    BY <1>6, LenProperties
  <2> HIDE DEF after
  <2>6. Min(after) \in 1..Len(left)
    BY <1>4, <2>4, <2>5
  <2> QED BY <2>3, <2>4, <2>6
<1> HIDE DEF after, W, release
<1>9. LettersOf(queued') = LettersOf(left) /\ queued' \in Seq(W)
  <2>1. CASE after = {}
    BY <1>1, <1>6, <2>1
  <2>2. CASE after # {}
    <3>1. ~IsLetter(left[Min(after)])
      BY <1>8, <2>2 DEF IsLetter
    <3> QED BY <1>1, <1>6, <1>8, <2>2, <3>1, LettersWithout, RemovedFrom
  <2> QED BY <2>1, <2>2
<1>10. QueuedOk'
  <2>1. \A i \in DOMAIN queued' : queued'[i] \in W
    BY <1>9, LenProperties
  <2> QED BY <2>1 DEF QueuedOk, Range, Waits, W
<1>11. CASE IsLetter(queued[last])
  <2>1. owed' = Erased /\ LettersOf(<<queued[last]>>) = <<queued[last].c>> /\ queued[last].c \in Letter
    BY <1>1, <1>4, <1>11, LettersOne
  <2> QED BY <1>7, <1>9, <1>10, <2>1
<1>12. CASE ~IsLetter(queued[last])
  <2>1. UNCHANGED owed /\ LettersOf(<<queued[last]>>) = <<>>
    BY <1>1, <1>4, <1>12, LettersOne
  <2>2. LettersOf(left) \o <<>> = LettersOf(left)
    BY <1>6, LettersType, ConcatEmptySeq DEF Pinyin
  <2> QED BY <1>7, <1>9, <1>10, <2>1, <2>2
<1> QED BY <1>11, <1>12

\* A key queued behind a pending Space, or taken back.
LEMMA KeptQueued ==
  ASSUME AsUsed, WInv, WInv', FInv, KInv, gone = "no", PendingBackQueued \/ PendingQueued
  PROVE  KInv'
<1> DEFINE h == Head(todo)
           f == Fallback(icRef)
           L == LettersOf(queued)
           M == LettersOf(queued')
<1>1. /\ Calling("key") /\ pend /\ UNCHANGED <<buf, cands>>
      /\ todo' = <<f>> \o Tail(todo) \/ todo' = Tail(todo)
  BY DEF PendingBackQueued, PendingQueued, WaitingKey, inputVars, Then, Rest
<1>2. /\ todo # <<>> /\ Alone /\ CandsOk /\ QueuedOk /\ owed \in Pinyin /\ owed = Raw /\ h.key \in Key
  BY <1>1, KeyOwed
<1>3. buf \in Seq(Letter) /\ L \in Seq(Letter) /\ queued \in Seq(Key) /\ M \in Seq(Letter)
  <2>1. PendTypeOK /\ PendTypeOK'
    BY Inv DEF WInv, TypeOK
  <2> QED BY <2>1, Lettered, LettersType DEF PendTypeOK, Pinyin
<1>4. QueuedOk' /\ owed' = buf \o M
  <2>1. CASE PendingBackQueued
    <3>1. CASE owed' = Erased /\ \E c \in Letter : L = M \o <<c>>
      <4>1. PICK c \in Letter : L = M \o <<c>>
        BY <3>1
      <4> HIDE DEF L, M
      <4>2. buf \o M \in Seq(Letter) /\ <<c>> \in Seq(Letter)
        BY <1>3, ConcatProperties
      <4>3. owed = (buf \o M) \o <<c>>
        BY <1>2, <1>3, <4>1, <4>2, ConcatAssociative DEF Raw, L
      <4>4. owed' = Front(owed)
        BY <1>2, <3>1, Reckoned
      <4>5. Front((buf \o M) \o <<c>>) = buf \o M
        <5> SUFFICES ASSUME NEW x \in Pinyin, x = buf \o M PROVE Front(x \o <<c>>) = x
          BY <4>2 DEF Pinyin
        <5> QED BY FrontConcat
      <4> QED BY <1>2, <2>1, <4>3, <4>4, <4>5, TakenBack
    <3>2. CASE UNCHANGED owed /\ L = M
      BY <1>2, <2>1, <3>2, TakenBack DEF Raw
    <3> QED BY <1>2, <2>1, <3>1, <3>2, TakenBack
  <2>2. CASE PendingQueued
    <3>1. PICK key \in Keys :
            /\ key = h.key
            /\ key.rel \/ Printable(key)
            /\ queued' = Append(queued, key)
            /\ owed' = IF IsLetter(key) THEN Owing(key.c) ELSE owed
      BY <2>2 DEF PendingQueued, WaitingKey
    <3> DEFINE one == LettersOf(<<key>>)
    <3>2. key \in Key /\ <<key>> \in Seq(Key)
      BY <1>2, <3>1
    <3>3. queued' = queued \o <<key>> /\ M = L \o one /\ one \in Seq(Letter)
      <4>1. queued' = queued \o <<key>>
        BY <1>3, <3>1, <3>2, AppendIsConcat
      <4> QED BY <1>3, <3>2, <4>1, LettersConcat, LettersType DEF Pinyin
    <3>4. owed' = owed \o one
      <4>1. CASE IsLetter(key)
        BY <1>2, <3>1, <3>2, <4>1, LettersOne, Reckoned
      <4>2. CASE ~IsLetter(key)
        <5>1. owed \o <<>> = owed
          BY <1>2, ConcatEmptySeq DEF Pinyin
        <5> QED BY <3>1, <3>2, <4>2, <5>1, LettersOne
      <4> QED BY <4>1, <4>2
    <3>5. Range(queued') = Range(queued) \cup {key}
      BY <1>3, <3>1, <3>2, RangeAppend
    <3>6. QueuedOk'
      <4>1. \A k \in Range(queued) \cup {key} : Waits(k)
        BY <1>2, <3>1 DEF QueuedOk, Waits
      <4> QED BY <3>5, <4>1 DEF QueuedOk, Waits
    <3> HIDE DEF one, L, M
    <3>7. owed' = buf \o M
      BY <1>2, <1>3, <3>3, <3>4, ConcatAssociative DEF Raw, L
    <3> QED BY <3>6, <3>7
  <2> QED BY <2>1, <2>2
<1>5. owed' = Raw' /\ owed' \in Pinyin /\ CandsOk'
  BY <1>1, <1>2, <1>3, <1>4, ConcatProperties DEF Raw, LettersOf, CandsOk, Spelt, Pinyin
<1>6. f.op = "fallback"
  BY DEF Fallback
<1> HIDE DEF f
<1>7. \A t : t = f => Left(t)'
  BY <1>5, <1>6, LeftRaw
<1>8. CASE todo' = <<f>> \o Tail(todo)
  BY <1>1, <1>2, <1>4, <1>5, <1>7, <1>8, KeptFew
<1>9. CASE todo' = Tail(todo)
  BY <1>1, <1>2, <1>4, <1>5, <1>9, KeptFew
<1> QED BY <1>1, <1>8, <1>9

----------------------------------------------------------------------------
(* What Fcitx's loop starts, and the whole.                                *)

\* With nothing on the stack the letters are as the next call assumes.
LEMMA KeptStart ==
  ASSUME owed' \in Pinyin, CandsOk', QueuedOk', NEW a, NEW b,
         \/ todo' = <<>> /\ owed' = Raw'
         \/ todo' = <<a>> /\ \A t : t = a => Left(t)'
         \/ todo' = <<a, b>> /\ a.op \notin Acts /\ \A t : t = b => Left(t)'
  PROVE  KInv'
<1>1. CASE todo' = <<>> /\ owed' = Raw'
  <2>1. OnStack' = {}
    BY <1>1, Few DEF OnStack
  <2>2. Single(todo)'
    BY <1>1, SingleFew DEF Single
  <2> QED BY <1>1, <2>1, <2>2 DEF KInv, StackKept, Has
<1>2. CASE todo' = <<a>> /\ \A t : t = a => Left(t)'
  <2>1. OnStack' = {a}
    BY <1>2, Few DEF OnStack
  <2>2. Single(todo)'
    <3> DEFINE p == <<a>>
    <3>1. todo' = p /\ Single(p)
      BY <1>2, SingleFew
    <3> HIDE DEF p
    <3> QED BY <3>1 DEF Single
  <2> QED BY <1>2, <2>1, <2>2 DEF KInv, StackKept, Has, Left
<1>3. CASE todo' = <<a, b>> /\ a.op \notin Acts /\ \A t : t = b => Left(t)'
  <2>1. OnStack' = {a, b}
    BY <1>3, Few DEF OnStack
  <2>2. Single(todo)'
    <3> DEFINE p == <<a, b>>
    <3>1. todo' = p /\ Single(p)
      BY <1>3, SingleFew
    <3> HIDE DEF p
    <3> QED BY <3>1 DEF Single
  <2> QED BY <1>3, <2>1, <2>2 DEF KInv, StackKept, Has, Left
<1> QED BY <1>1, <1>2, <1>3

\* Whenever the loop has its turn.
LEMMA RestOwed ==
  ASSUME KInv, gone = "no", todo = <<>>
  PROVE  owed = Raw /\ CandsOk /\ QueuedOk /\ owed \in Pinyin
<1>1. ~Has(Acts)
  BY Few DEF Has, OnStack
<1> QED BY <1>1 DEF KInv, StackKept

\* Events after which the letters are as they were.
LEMMA KeptLoop ==
  ASSUME KInv, gone = "no",
         \/ KeyEvent \/ Reset \/ FocusOut \/ Click \/ OnPendingTimer \/ OnRestartTimer
         \/ ProcEvent(OnReadable) \/ ProcEvent(OnEof) \/ ProcEvent(OnStartTimeout)
  PROVE  KInv'
<1>1. todo = <<>> /\ UNCHANGED letterVars
  BY DEF KeyEvent, Reset, FocusOut, Click, OnPendingTimer, OnRestartTimer, ProcEvent, OnReadable, OnEof,
     OnStartTimeout, Happens, Turn, Idle, typingVars, inputVars, pendVars, outVars, letterVars
<1>2. owed = Raw /\ CandsOk /\ QueuedOk /\ owed \in Pinyin
  BY <1>1, RestOwed
<1>3. owed' = Raw' /\ CandsOk' /\ QueuedOk' /\ owed' \in Pinyin
  BY <1>1, <1>2, KeptSame DEF letterVars
<1>4. ASSUME NEW a, todo' = <<a>>, a.op \in {"select", "fallback", "arm"} \/ a.op \notin Acts PROVE KInv'
  <2>1. \A t : t = a => Left(t)'
    BY <1>3, <1>4, LeftRaw
  <2> QED BY <1>3, <1>4, <2>1, KeptStart
<1>5. CASE KeyEvent
  <2>1. PICK key \in Keys : todo' = <<Press(focus, key)>>
    BY <1>5 DEF KeyEvent
  <2> DEFINE a == Press(focus, key)
  <2>2. a.op = "key" /\ a.src = "user" /\ todo' = <<a>>
    BY <2>1 DEF Press
  <2> HIDE DEF a
  <2>3. Kept(a)
    BY <1>2, <2>2 DEF Kept, Ahead, Raw
  <2>4. \A t : t = a => Left(t)'
    BY <1>1, <2>2, <2>3, KeptSame DEF Left, Acts
  <2> QED BY <1>3, <2>2, <2>4, KeptStart
<1>6. CASE Reset \/ FocusOut
  <2> DEFINE a == Send(Plain("SAVE"), Nobody)
             b == ClearAll(focus, Shown, TRUE)
  <2>1. todo' = <<a, b>> \/ todo' = <<b>>
    BY <1>6 DEF Reset, FocusOut
  <2>2. a.op \notin Acts /\ b.op = "clear" /\ b.cancel = TRUE
    BY DEF Send, ClearAll, Acts
  <2> HIDE DEF a, b
  <2>3. \A t : t = b => Left(t)'
    BY <2>2 DEF Left, Kept, Acts
  <2> QED BY <1>3, <2>1, <2>2, <2>3, KeptStart
<1>7. CASE Click
  <2>1. PICK ic, i : todo' = <<Select(ic, i)>>
    BY <1>7 DEF Click
  <2> DEFINE a == Select(ic, i)
  <2>2. a.op = "select" /\ todo' = <<a>>
    BY <2>1 DEF Select
  <2> HIDE DEF a
  <2> QED BY <1>4, <2>2
<1>8. CASE OnPendingTimer
  <2> DEFINE a == Fallback(icRef)
  <2>1. (todo' = <<a>> \/ todo' = <<>>) /\ a.op = "fallback"
    BY <1>1, <1>8 DEF OnPendingTimer, Fallback
  <2> HIDE DEF a
  <2>2. CASE todo' = <<>>
    BY <1>3, <2>2, KeptStart
  <2> QED BY <1>4, <2>1, <2>2
<1>9. CASE OnRestartTimer
  <2> DEFINE a == Do("ensure")
             b == Request(buf)
  <2>1. (todo' = <<a, b>> \/ todo' = <<>>) /\ a.op \notin Acts /\ b.op \notin Acts
    BY <1>1, <1>9 DEF OnRestartTimer, Revive, Do, Request, Acts
  <2> HIDE DEF a, b
  <2>2. \A t : t = b => Left(t)'
    BY <1>3, <2>1, LeftRaw
  <2> QED BY <1>3, <2>1, <2>2, KeptStart
<1>10. CASE ProcEvent(OnReadable) \/ ProcEvent(OnEof) \/ ProcEvent(OnStartTimeout)
  <2> DEFINE a == Do("lines")
             b == Do("die")
  <2>1. (todo' = <<a>> \/ todo' = <<b>>) /\ a.op \notin Acts /\ b.op \notin Acts
    BY <1>10 DEF ProcEvent, OnReadable, OnEof, OnStartTimeout, Do, Acts
  <2> HIDE DEF a, b
  <2> QED BY <1>4, <2>1
<1> QED BY <1>5, <1>6, <1>7, <1>8, <1>9, <1>10

\* Switching the input method delivers all that is owed.
LEMMA KeptSwitch ==
  ASSUME WInv, FInv, KInv, gone = "no", SwitchInputMethod
  PROVE  KInv'
<1> DEFINE a == ClearAll(focus, Shown, FALSE)
<1>1. /\ todo = <<>> /\ todo' = <<a>> /\ UNCHANGED <<cands, queued>>
      /\ owed' = IF buf # <<>> THEN Delivered(Raw) ELSE owed
  BY DEF SwitchInputMethod, Happens, Turn, Idle, inputVars, pendVars, Composing
<1>2. owed = Raw /\ CandsOk /\ QueuedOk
  BY <1>1, RestOwed
<1>3. owed' = <<>>
  <2>1. CASE buf # <<>>
    <3>1. Raw \in Pinyin /\ <<>> \in Pinyin /\ owed = Raw \o <<>>
      BY <1>2, Lettered, EmptySeq DEF Pinyin
    <3>2. Delivered(Raw) = <<>>
      BY <3>1, DeliversAll
    <3> QED BY <1>1, <2>1, <3>2
  <2>2. CASE buf = <<>>
    <3>1. queued = <<>>
      BY <1>1, <2>2, AtRest
    <3>2. Raw = <<>>
      BY <2>2, <3>1, LettersEmpty, Lettered DEF Raw
    <3> QED BY <1>1, <1>2, <2>2, <3>2
  <2> QED BY <2>1, <2>2
<1>4. CandsOk' /\ QueuedOk' /\ owed' \in Pinyin
  BY <1>1, <1>2, <1>3, EmptySeq DEF CandsOk, QueuedOk, Spelt, Pinyin
<1>5. a.op = "clear"
  BY DEF ClearAll
<1> HIDE DEF a
<1>6. \A t : t = a => Left(t)'
  BY <1>3, <1>5 DEF Left, Kept, Acts
<1> QED BY <1>1, <1>4, <1>6, KeptStart

\* A new addon owes nothing.
LEMMA KeptInit ==
  ASSUME Init
  PROVE  KInv
<1> DEFINE a == Do("ensure")
           p == <<a>>
<1>1. /\ todo = p /\ buf = <<>> /\ cands = <<>> /\ queued = <<>> /\ owed = <<>>
  BY DEF Init, ProcInit, CompositionInit
<1>2. a.op \notin Acts
  BY DEF Do, Acts
<1> HIDE DEF a
<1>3. Range(p) = {a} /\ Single(p)
  BY Few, SingleFew
<1> HIDE DEF p
<1>4. ~Has(Acts) /\ Single(todo)
  BY <1>1, <1>2, <1>3 DEF Has, OnStack
<1>5. owed = Raw
  <2>1. <<>> \o <<>> = <<>>
    BY EmptySeq, ConcatEmptySeq
  <2> QED BY <1>1, <2>1, LettersEmpty DEF Raw
<1>6. CandsOk /\ QueuedOk /\ owed \in Pinyin
  BY <1>1, Few, EmptySeq DEF CandsOk, QueuedOk, Pinyin
<1> QED BY <1>4, <1>5, <1>6 DEF KInv, StackKept

\* Text misled stays so.
LEMMA MisledStays ==
  ASSUME owed = Misled, [Next]_vars
  PROVE  owed' = Misled
<1>1. /\ Unaccounted(owed) /\ Cancelled = owed /\ Erased = owed /\ \A c : Owing(c) = owed
      /\ \A text : Delivered(text) = owed
      /\ \A cand : Choosing(cand) = owed
  BY DEF Unaccounted, Cancelled, Erased, Owing, Delivered, Choosing
<1>2. CASE CompositionCalls
  BY <1>1, <1>2 DEF CompositionCalls, CommitText, SelectNothing, SelectWhole, SelectPrefix, UpdateUI, EnsureEngine,
     RequestCandidates, ScheduleRestart, HandleNothing, HandleSpans, HandleStale, HandleLost, HandleRefused,
     HandleCandidates, FallbackPending, ArmPending, DrainQueued, DrainNext, typingVars, outVars
<1>3. CASE KeyCalls
  <2>1. CASE ClearEverything \/ KeyElsewhere \/ PendingEsc \/ PendingBackQueued \/ PendingBackPinyin
             \/ PendingOvertaken \/ PendingQueued
    BY <1>1, <2>1 DEF ClearEverything, KeyElsewhere, PendingEsc, PendingBackQueued, PendingBackPinyin,
       PendingOvertaken, PendingQueued, outVars
  <2>2. CASE KeyLetter \/ TypeLetter \/ KeyNext \/ KeyPunctuation \/ KeyDigit \/ KeySpace \/ KeyReturn
             \/ KeyBack \/ KeyEsc \/ KeyPasses
    BY <1>1, <2>2 DEF KeyLetter, TypeLetter, KeyNext, KeyPunctuation, KeyDigit, KeySpace, KeyReturn, KeyBack,
       KeyEsc, KeyPasses, outVars
  <2> QED BY <1>3, <2>1, <2>2 DEF KeyCalls
<1>4. CASE Callback \/ Timers
  BY <1>1, <1>4 DEF Callback, KeyEvent, Reset, FocusOut, Close, SwitchInputMethod, Click, Destroy, Timers,
     OnPendingTimer, OnRestartTimer, typingVars, outVars
<1>5. CASE \/ UNCHANGED vars \/ ProcStep \/ DestroyMembers \/ HarnessStep \/ Crash
           \/ ProcEvent(OnReadable) \/ ProcEvent(OnEof) \/ ProcEvent(OnStartTimeout)
  BY <1>5 DEF vars, ProcStep, DestroyMembers, HarnessStep, Crash, ProcEvent, typingVars, outVars
<1> QED BY <1>2, <1>3, <1>4, <1>5 DEF Next, AddonCalls

\* Every step.
LEMMA KeptNext ==
  ASSUME AsUsed, \A key \in Keys : key.k # "punct",
         WInv, WInv', FInv, SInv, LettersInv, [Next]_vars
  PROVE  LettersInv'
<1>1. CASE owed = Misled
  <2>1. owed' = Misled
    BY <1>1, MisledStays
  <2> QED BY <2>1 DEF LettersInv, Misled
<1>2. CASE gone # "no"
  BY <1>2, GoneStays DEF LettersInv, KInv
<1>3. CASE gone = "no" /\ KInv
  <2>1. CASE UNCHANGED vars
    <3>1. KInv'
      BY <1>3, <2>1, KeptStill
         DEF vars, procVars, addonVars, typingVars, inputVars, pendVars, outVars, worldVars, letterVars
    <3> QED BY <3>1 DEF LettersInv
  <2>2. CASE CompositionCalls /\ UNCHANGED worldVars
    <3>1. CASE SelectNothing \/ SelectWhole \/ SelectPrefix
      BY <1>3, <2>2, <3>1, KeptSelect
    <3>2. CASE ~(SelectNothing \/ SelectWhole \/ SelectPrefix)
      <4>1. KInv'
        BY <1>3, <2>2, <3>2, KeptCommit, KeptLink, KeptRefused, KeptCandidates, KeptWait, KeptDrain
           DEF CompositionCalls
      <4> QED BY <4>1 DEF LettersInv
    <3> QED BY <3>1, <3>2
  <2>3. CASE KeyCalls
    <3>1. KInv'
      BY <1>3, <2>3, KeptClear, KeptKey, KeptQueued, KeptBack, KeptLetter DEF KeyCalls, KeyMakesCalls
    <3> QED BY <3>1 DEF LettersInv
  <2>4. CASE \/ KeyEvent \/ Reset \/ FocusOut \/ Click \/ Timers \/ SwitchInputMethod
             \/ ProcEvent(OnReadable) \/ ProcEvent(OnEof) \/ ProcEvent(OnStartTimeout)
    <3>1. KInv'
      BY <1>3, <2>4, KeptLoop, KeptSwitch DEF Timers
    <3> QED BY <3>1 DEF LettersInv
  <2>5. CASE Destroy \/ DestroyMembers
    BY <2>5 DEF Destroy, DestroyMembers, LettersInv, KInv
  <2>6. CASE Close \/ HarnessStep \/ Crash
    <3>1. UNCHANGED todo /\ UNCHANGED letterVars /\ UNCHANGED gone
      BY <2>6, HarnessApart
         DEF Close, HarnessStep, Crash, addonVars, typingVars, inputVars, pendVars, outVars, worldVars, letterVars
    <3>2. KInv'
      BY <1>3, <3>1, KeptStill
    <3> QED BY <3>2 DEF LettersInv
  <2>7. CASE ProcStep
    <3>1. KInv'
      BY <1>3, <2>7, KeptProc
    <3> QED BY <3>1 DEF LettersInv
  <2> QED BY <2>1, <2>2, <2>3, <2>4, <2>5, <2>6, <2>7 DEF Next, AddonCalls, Callback
<1> QED BY <1>1, <1>2, <1>3 DEF LettersInv

\* No letter typed is lost, doubled or moved, whatever previews, partial
\* selections, late lists, refused picks, deaths, replays, fallbacks and drains it
\* goes through, until a candidate is picked that spells something else than the
\* pinyin, on a keyboard without the punctuation keys, which lose some
\* (commitText, commitCandidate, fallbackPending, drainQueued, processKey).
THEOREM LettersKeptCorrect ==
  ASSUME AsUsed, \A key \in Keys : key.k # "punct"
  PROVE  Spec => []LettersKept
<1>1. Init => LettersInv
  BY KeptInit DEF LettersInv
<1>2. WInv /\ WInv' /\ FInv /\ SInv /\ LettersInv /\ [Next]_vars => LettersInv'
  BY KeptNext
<1>3. Init => SInv
  BY SpansInit
<1>4. WInv /\ SInv /\ [Next]_vars => SInv'
  BY SpansNext
<1>5. LettersInv => LettersKept
  BY RestOwed DEF LettersInv, LettersKept, Turn, Idle
<1> QED BY <1>1, <1>2, <1>3, <1>4, <1>5, WInductive, FInductive, PTL DEF Spec
=============================================================================
