-------------------------- MODULE EngineProcProofs --------------------------
(***************************************************************************)
(* What every step of EngineProc.tla preserves, whoever its client is.  A  *)
(* client (EngineCalls) combines these lemmas with its own steps.          *)
(*                                                                         *)
(* The heart is Pairing.  Neither side counts: the addon has a queue of    *)
(* handlers, the harness writes a line per line it consumes.  What is in   *)
(* flight is a sequence cut in four (read, in the pipe out, to be written, *)
(* in the pipe in), and each step moves a cut, or takes one element off    *)
(* the front of both sequences, or puts one at the back of both.           *)
(***************************************************************************)
EXTENDS EngineProc, SequenceTheorems, TLAPS

ProcOps == {"send", "call", "start", "stop", "die", "exit", "lines"}

\* The calls of EngineProc are told from those of its client by their name.
LocalApart == \A t \in Local : t.op \notin ProcOps

ProcInv == ProcTypeOK /\ ProcShape /\ Pairing /\ OwnReply

Asked == Line \cup {Boot}

----------------------------------------------------------------------------
(* Sequences.                                                              *)

\* Concatenation is associative, in a form the provers can instantiate.
LEMMA Assoc ==
  ASSUME NEW S
  PROVE  \A s, t, u \in Seq(S) : (s \o t) \o u = s \o (t \o u)
BY ConcatAssociative

\* Two sequences given by their first element and the rest.
LEMMA ConsInjective ==
  ASSUME NEW S, NEW x \in S, NEW y \in S, NEW s \in Seq(S), NEW t \in Seq(S),
         <<x>> \o s = <<y>> \o t
  PROVE  x = y /\ s = t
<1> DEFINE a == <<x>> \o s
           b == <<y>> \o t
<1>1. <<x>> \in Seq(S) /\ <<y>> \in Seq(S) /\ Len(<<x>>) = 1 /\ Len(<<y>>) = 1
  OBVIOUS
<1>2. /\ Len(a) = 1 + Len(s) /\ \A i \in 1..(1 + Len(s)) : a[i] = IF i <= 1 THEN <<x>>[i] ELSE s[i - 1]
      /\ Len(b) = 1 + Len(t) /\ \A i \in 1..(1 + Len(t)) : b[i] = IF i <= 1 THEN <<y>>[i] ELSE t[i - 1]
  BY <1>1, ConcatProperties
<1>3. a = b /\ Len(s) \in Nat /\ Len(t) \in Nat
  BY LenProperties
<1>4. Len(s) = Len(t)
  BY <1>2, <1>3
<1>5. x = y
  BY <1>2, <1>3
<1>6. \A i \in 1..Len(s) : s[i] = t[i]
  <2> SUFFICES ASSUME NEW i \in 1..Len(s) PROVE s[i] = t[i]
    OBVIOUS
  <2>1. i + 1 \in 1..(1 + Len(s)) /\ ~(i + 1 <= 1) /\ (i + 1) - 1 = i
    BY <1>3
  <2>2. a[i + 1] = s[i] /\ b[i + 1] = t[i]
    BY <2>1, <1>2, <1>4
  <2> QED BY <2>2, <1>3
<1>7. s = t
  BY <1>4, <1>6, SeqEqual
<1> QED BY <1>5, <1>7

\* A sequence that is not empty is its head and its tail.
LEMMA HeadAndTail ==
  ASSUME NEW S, NEW s \in Seq(S), s # <<>>
  PROVE  /\ Head(s) \in S /\ Tail(s) \in Seq(S)
         /\ s = <<Head(s)>> \o Tail(s)
<1>1. Head(s) \in S /\ Tail(s) \in Seq(S) /\ Len(Tail(s)) = Len(s) - 1
      /\ \A i \in 1..Len(Tail(s)) : Tail(s)[i] = s[i + 1]
  BY HeadTailProperties
<1>2. Len(s) \in Nat \ {0}
  BY EmptySeq
<1>3. <<Head(s)>> \in Seq(S) /\ Len(<<Head(s)>>) = 1
  BY <1>1
<1> DEFINE c == <<Head(s)>> \o Tail(s)
<1>4. c \in Seq(S) /\ Len(c) = 1 + Len(Tail(s))
      /\ \A i \in 1..(1 + Len(Tail(s))) : c[i] = IF i <= 1 THEN <<Head(s)>>[i] ELSE Tail(s)[i - 1]
  BY <1>1, <1>3, ConcatProperties
<1>5. Len(c) = Len(s)
  BY <1>1, <1>2, <1>4
<1>6. \A i \in 1..Len(s) : s[i] = c[i]
  <2> SUFFICES ASSUME NEW i \in 1..Len(s) PROVE s[i] = c[i]
    OBVIOUS
  <2>1. CASE i = 1
    BY <2>1, <1>1, <1>2, <1>4
  <2>2. CASE i # 1
    <3>1. i - 1 \in 1..Len(Tail(s)) /\ (i - 1) + 1 = i /\ i \in 1..(1 + Len(Tail(s)))
      BY <2>2, <1>1, <1>2
    <3> QED BY <3>1, <2>2, <1>1, <1>4
  <2> QED BY <2>1, <2>2
<1>7. s = c
  BY <1>4, <1>5, <1>6, SeqEqual
<1> QED BY <1>1, <1>7

----------------------------------------------------------------------------
(* The lines of handlers, and what replies answer.                         *)

\* The lines of a sequence of handlers are a sequence of lines, one for each.
LEMMA LinesOfType ==
  ASSUME NEW s \in Seq(Entry)
  PROVE  /\ LinesOf(s) \in Seq(Line) /\ LinesOf(s) \in Seq(Asked)
         /\ Len(LinesOf(s)) = Len(s)
         /\ \A i \in 1..Len(s) : LinesOf(s)[i] = s[i].line
<1>1. DOMAIN s = 1..Len(s) /\ Len(s) \in Nat /\ \A i \in 1..Len(s) : s[i] \in Entry
  BY LenProperties, ElementOfSeq
<1>2. \A i \in 1..Len(s) : s[i].line \in Line
  BY <1>1 DEF Entry
<1>3. LinesOf(s) = [i \in 1..Len(s) |-> s[i].line]
  BY <1>1 DEF LinesOf
<1>4. LinesOf(s) \in [1..Len(s) -> Line]
  BY <1>2, <1>3
<1>5. LinesOf(s) \in Seq(Line) /\ Len(LinesOf(s)) = Len(s)
  BY <1>1, <1>4
<1>6. LinesOf(s) \in Seq(Asked)
  BY <1>5, SeqMonotonic DEF Asked
<1> QED BY <1>3, <1>5, <1>6

\* What a sequence of replies answers is a sequence of lines or READY, one for each.
LEMMA AnsweredType ==
  ASSUME NEW s \in Seq(ReplyOrReady)
  PROVE  /\ Answered(s) \in Seq(Asked)
         /\ Len(Answered(s)) = Len(s)
         /\ \A i \in 1..Len(s) : Answered(s)[i] = s[i].re
<1>1. DOMAIN s = 1..Len(s) /\ Len(s) \in Nat /\ \A i \in 1..Len(s) : s[i] \in ReplyOrReady
  BY LenProperties, ElementOfSeq
<1>2. \A i \in 1..Len(s) : s[i].re \in Asked
  BY <1>1 DEF ReplyOrReady, Reply, Ready, Asked
<1>3. Answered(s) = [i \in 1..Len(s) |-> s[i].re]
  BY <1>1 DEF Answered
<1>4. Answered(s) \in [1..Len(s) -> Asked]
  BY <1>2, <1>3
<1>5. Answered(s) \in Seq(Asked) /\ Len(Answered(s)) = Len(s)
  BY <1>1, <1>4
<1> QED BY <1>3, <1>5

\* LinesOf distributes over concatenation.
LEMMA LinesOfConcat ==
  ASSUME NEW s \in Seq(Entry), NEW t \in Seq(Entry)
  PROVE  LinesOf(s \o t) = LinesOf(s) \o LinesOf(t)
<1>1. s \o t \in Seq(Entry) /\ Len(s \o t) = Len(s) + Len(t)
      /\ \A i \in 1..(Len(s) + Len(t)) : (s \o t)[i] = IF i <= Len(s) THEN s[i] ELSE t[i - Len(s)]
  BY ConcatProperties
<1>2. Len(s) \in Nat /\ Len(t) \in Nat
  BY LenProperties
<1> DEFINE a == LinesOf(s \o t)
           b == LinesOf(s) \o LinesOf(t)
<1>3. a \in Seq(Line) /\ Len(a) = Len(s) + Len(t)
      /\ \A i \in 1..(Len(s) + Len(t)) : a[i] = (s \o t)[i].line
  BY <1>1, LinesOfType
<1>4. LinesOf(s) \in Seq(Line) /\ Len(LinesOf(s)) = Len(s) /\ LinesOf(t) \in Seq(Line) /\ Len(LinesOf(t)) = Len(t)
  BY LinesOfType
<1>5. b \in Seq(Line) /\ Len(b) = Len(LinesOf(s)) + Len(LinesOf(t))
      /\ \A i \in 1..(Len(LinesOf(s)) + Len(LinesOf(t))) :
           b[i] = IF i <= Len(LinesOf(s)) THEN LinesOf(s)[i] ELSE LinesOf(t)[i - Len(LinesOf(s))]
  BY <1>4, ConcatProperties
<1>6. \A i \in 1..Len(a) : a[i] = b[i]
  <2> SUFFICES ASSUME NEW i \in 1..(Len(s) + Len(t)) PROVE a[i] = b[i]
    BY <1>3
  <2>1. CASE i <= Len(s)
    <3>1. i \in 1..Len(s)
      BY <2>1, <1>2
    <3> QED BY <3>1, <2>1, <1>1, <1>3, <1>4, <1>5, LinesOfType
  <2>2. CASE ~(i <= Len(s))
    <3>1. i - Len(s) \in 1..Len(t)
      BY <2>2, <1>2
    <3> QED BY <3>1, <2>2, <1>1, <1>3, <1>4, <1>5, LinesOfType
  <2> QED BY <2>1, <2>2
<1> QED BY <1>3, <1>4, <1>5, <1>6, SeqEqual

\* So does Answered.
LEMMA AnsweredConcat ==
  ASSUME NEW s \in Seq(ReplyOrReady), NEW t \in Seq(ReplyOrReady)
  PROVE  Answered(s \o t) = Answered(s) \o Answered(t)
<1>1. s \o t \in Seq(ReplyOrReady) /\ Len(s \o t) = Len(s) + Len(t)
      /\ \A i \in 1..(Len(s) + Len(t)) : (s \o t)[i] = IF i <= Len(s) THEN s[i] ELSE t[i - Len(s)]
  BY ConcatProperties
<1>2. Len(s) \in Nat /\ Len(t) \in Nat
  BY LenProperties
<1> DEFINE a == Answered(s \o t)
           b == Answered(s) \o Answered(t)
<1>3. a \in Seq(Asked) /\ Len(a) = Len(s) + Len(t)
      /\ \A i \in 1..(Len(s) + Len(t)) : a[i] = (s \o t)[i].re
  BY <1>1, AnsweredType
<1>4. /\ Answered(s) \in Seq(Asked) /\ Len(Answered(s)) = Len(s)
      /\ Answered(t) \in Seq(Asked) /\ Len(Answered(t)) = Len(t)
  BY AnsweredType
<1>5. b \in Seq(Asked) /\ Len(b) = Len(Answered(s)) + Len(Answered(t))
      /\ \A i \in 1..(Len(Answered(s)) + Len(Answered(t))) :
           b[i] = IF i <= Len(Answered(s)) THEN Answered(s)[i] ELSE Answered(t)[i - Len(Answered(s))]
  BY <1>4, ConcatProperties
<1>6. \A i \in 1..Len(a) : a[i] = b[i]
  <2> SUFFICES ASSUME NEW i \in 1..(Len(s) + Len(t)) PROVE a[i] = b[i]
    BY <1>3
  <2>1. CASE i <= Len(s)
    <3>1. i \in 1..Len(s)
      BY <2>1, <1>2
    <3> QED BY <3>1, <2>1, <1>1, <1>3, <1>4, <1>5, AnsweredType
  <2>2. CASE ~(i <= Len(s))
    <3>1. i - Len(s) \in 1..Len(t)
      BY <2>2, <1>2
    <3> QED BY <3>1, <2>2, <1>1, <1>3, <1>4, <1>5, AnsweredType
  <2> QED BY <2>1, <2>2
<1> QED BY <1>3, <1>4, <1>5, <1>6, SeqEqual

\* No handlers, no lines.
LEMMA LinesOfEmpty == LinesOf(<<>>) = <<>>
<1>1. <<>> \in Seq(Entry) /\ Len(<<>>) = 0
  BY EmptySeq
<1>2. LinesOf(<<>>) \in Seq(Line) /\ Len(LinesOf(<<>>)) = 0
  BY <1>1, LinesOfType
<1> QED BY <1>2, EmptySeq

\* No replies, nothing answered.
LEMMA AnsweredEmpty == Answered(<<>>) = <<>>
<1>1. <<>> \in Seq(ReplyOrReady) /\ Len(<<>>) = 0
  BY EmptySeq
<1>2. Answered(<<>>) \in Seq(Asked) /\ Len(Answered(<<>>)) = 0
  BY <1>1, AnsweredType
<1> QED BY <1>2, EmptySeq

\* The line of one handler.
LEMMA LinesOfOne ==
  ASSUME NEW e \in Entry
  PROVE  LinesOf(<<e>>) = <<e.line>>
<1> DEFINE s == <<e>>
<1>1. s \in Seq(Entry) /\ Len(s) = 1 /\ s[1] = e
  OBVIOUS
<1> HIDE DEF s
<1>2. LinesOf(s) \in Seq(Line) /\ Len(LinesOf(s)) = 1 /\ LinesOf(s)[1] = e.line
  BY <1>1, LinesOfType
<1>3. e.line \in Line
  BY DEF Entry
<1>4. <<e.line>> \in Seq(Line) /\ Len(<<e.line>>) = 1 /\ <<e.line>>[1] = e.line
  BY <1>3
<1>5. LinesOf(s) = <<e.line>>
  BY <1>2, <1>4, SeqEqual
<1> QED BY <1>5 DEF s

\* What one reply answers.
LEMMA AnsweredOne ==
  ASSUME NEW r \in ReplyOrReady
  PROVE  Answered(<<r>>) = <<r.re>>
<1> DEFINE s == <<r>>
<1>1. s \in Seq(ReplyOrReady) /\ Len(s) = 1 /\ s[1] = r
  OBVIOUS
<1> HIDE DEF s
<1>2. Answered(s) \in Seq(Asked) /\ Len(Answered(s)) = 1 /\ Answered(s)[1] = r.re
  BY <1>1, AnsweredType
<1>3. r.re \in Asked
  BY DEF ReplyOrReady, Reply, Ready, Asked
<1>4. <<r.re>> \in Seq(Asked) /\ Len(<<r.re>>) = 1 /\ <<r.re>>[1] = r.re
  BY <1>3
<1>5. Answered(s) = <<r.re>>
  BY <1>2, <1>4, SeqEqual
<1> QED BY <1>5 DEF s

\* The four parts of what is on the way, one after another.
LEMMA Parts ==
  ASSUME NEW r \in Seq(ReplyOrReady), NEW o \in Seq(ReplyOrReady),
         NEW u \in Seq(ReplyOrReady), NEW i \in Seq(Line)
  PROVE  /\ Answered((r \o o) \o u) \o i = Answered(r) \o (Answered(o) \o (Answered(u) \o i))
         /\ Answered(r) \in Seq(Asked) /\ Answered(o) \in Seq(Asked)
         /\ Answered(u) \in Seq(Asked) /\ i \in Seq(Asked)
<1> DEFINE a == Answered(r)
           b == Answered(o)
           c == Answered(u)
<1>1. a \in Seq(Asked) /\ b \in Seq(Asked) /\ c \in Seq(Asked)
  BY AnsweredType
<1>2. i \in Seq(Asked)
  BY SeqMonotonic DEF Asked
<1>3. r \o o \in Seq(ReplyOrReady)
  BY ConcatProperties
<1>4. Answered((r \o o) \o u) = (a \o b) \o c
  BY <1>3, AnsweredConcat
<1> HIDE DEF a, b, c
<1>5. a \o b \in Seq(Asked) /\ c \o i \in Seq(Asked)
  BY <1>1, <1>2, ConcatProperties
<1> DEFINE d == c \o i
           e == a \o b
<1>a. \A s, t, v \in Seq(Asked) : (s \o t) \o v = s \o (t \o v)
  BY Assoc
<1>d. d \in Seq(Asked) /\ e \in Seq(Asked)
  BY <1>5
<1>6. ((a \o b) \o c) \o i = (a \o b) \o (c \o i)
  <2> HIDE DEF e
  <2>1. (e \o c) \o i = e \o (c \o i)
    BY <1>1, <1>2, <1>a, <1>d, Zenon
  <2> QED BY <2>1 DEF e
<1>7. (a \o b) \o d = a \o (b \o d)
  <2> HIDE DEF d
  <2> QED BY <1>1, <1>a, <1>d, Zenon
<1>8. Answered((r \o o) \o u) \o i = a \o (b \o (c \o i))
  BY <1>4, <1>6, <1>7
<1> QED BY <1>1, <1>2, <1>8 DEF a, b, c

----------------------------------------------------------------------------
(* Types.                                                                  *)

\* The stack after the call at hand is replaced by others.
LEMMA Push ==
  ASSUME NEW p \in Seq(Task), todo \in Seq(Task), todo # <<>>
  PROVE  p \o Tail(todo) \in Seq(Task)
BY HeadTailProperties, ConcatProperties

\* A call on the stack carries what its kind says it does.
LEMMA TaskShape ==
  ASSUME LocalApart, NEW t \in Task
  PROVE  /\ t.op = "send" => t.line \in Line /\ t.h \in Handler
         /\ t.op = "call" => t.line \in Line /\ t.h \in Handler /\ t.resp \in Reply \cup {Failed}
<1>1. CASE t \in Local
  BY <1>1 DEF LocalApart, ProcOps
<1>2. CASE t \in [op: {"send"}, line: Line, h: Handler]
  BY <1>2
<1>3. CASE t \in [op: {"call"}, line: Line, h: Handler, resp: Reply \cup {Failed}]
  BY <1>3
<1>4. CASE t \in [op: {"start", "stop", "die", "exit", "lines"}]
  BY <1>4
<1> QED BY <1>1, <1>2, <1>3, <1>4 DEF Task

\* The call at hand, when its kind is known.
LEMMA NextCall ==
  ASSUME LocalApart, todo \in Seq(Task), NEW op, Calling(op)
  PROVE  /\ todo # <<>> /\ Head(todo) \in Task /\ Head(todo).op = op
         /\ op = "send" => Head(todo).line \in Line /\ Head(todo).h \in Handler
         /\ op = "call" => /\ Head(todo).line \in Line /\ Head(todo).h \in Handler
                           /\ Head(todo).resp \in Reply \cup {Failed}
<1>1. todo # <<>> /\ Head(todo).op = op
  BY DEF Calling, Idle
<1>2. Head(todo) \in Task
  BY <1>1, HeadTailProperties
<1> QED BY <1>1, <1>2, TaskShape

\* The calls that stop() makes: each pending handler is told its request failed.
LEMMA FailShape ==
  ASSUME pending \in Seq(Entry)
  PROVE  /\ FailPendingHandlers \in Seq(Task)
         /\ Len(FailPendingHandlers) = Len(pending)
         /\ \A i \in 1..Len(pending) : FailPendingHandlers[i] = Call(pending[i], Failed)
<1>1. DOMAIN pending = 1..Len(pending) /\ Len(pending) \in Nat
      /\ \A i \in 1..Len(pending) : pending[i] \in Entry
  BY LenProperties, ElementOfSeq
<1>2. \A i \in 1..Len(pending) : Call(pending[i], Failed) \in Task
  BY <1>1 DEF Call, Task, Entry
<1>3. FailPendingHandlers = [i \in 1..Len(pending) |-> Call(pending[i], Failed)]
  BY <1>1 DEF FailPendingHandlers
<1>4. FailPendingHandlers \in [1..Len(pending) -> Task]
  BY <1>2, <1>3
<1> QED BY <1>1, <1>3, <1>4

\* start() keeps the types, given the calls its caller makes next.
LEMMA StartType ==
  ASSUME ProcTypeOK, LocalApart, Calling("start") \/ todo # <<>>,
         NEW cont \in Seq(Task),
         StartAlive(cont) \/ StartFork(cont) \/ StartRefused
  PROVE  ProcTypeOK'
<1>1. todo # <<>> /\ todo \in Seq(Task)
  BY DEF ProcTypeOK, Calling, Idle
<1>2. cont \o Tail(todo) \in Seq(Task) /\ Tail(todo) \in Seq(Task)
  BY <1>1, Push, HeadTailProperties
<1>3. CASE StartAlive(cont)
  BY <1>2, <1>3 DEF StartAlive, ProcTypeOK, childVars
<1>4. CASE StartFork(cont)
  <2>1. failCount + 1 \in 0..GiveUpAfter
    BY <1>4, GiveUpAssumption DEF StartFork, MayStart, ProcTypeOK
  <2>2. <<Ready>> \in Seq(ReplyOrReady)
    BY DEF ReplyOrReady
  <2>3. \A S : <<>> \in Seq(S)
    BY EmptySeq
  <2> QED BY <1>2, <1>4, <2>1, <2>2, <2>3 DEF StartFork, ProcTypeOK
<1>5. CASE StartRefused
  BY <1>2, <1>5 DEF StartRefused, ProcTypeOK, childVars
<1> QED BY <1>3, <1>4, <1>5

----------------------------------------------------------------------------
(* Pairing.                                                                *)

Behind == Answered(outPipe) \o (Answered(unwritten) \o inPipe)

\* What is on its way, part by part.
LEMMA Way ==
  ASSUME ProcTypeOK
  PROVE  /\ OnTheWay = Answered(rbuf) \o Behind
         /\ OnTheWay \in Seq(Asked) /\ Behind \in Seq(Asked)
         /\ Answered(rbuf) \in Seq(Asked) /\ Answered(outPipe) \in Seq(Asked)
         /\ Answered(unwritten) \in Seq(Asked) /\ inPipe \in Seq(Asked)
<1>1. /\ OnTheWay = Answered(rbuf) \o Behind
      /\ Answered(rbuf) \in Seq(Asked) /\ Answered(outPipe) \in Seq(Asked)
      /\ Answered(unwritten) \in Seq(Asked) /\ inPipe \in Seq(Asked)
  BY Parts DEF OnTheWay, Behind, ProcTypeOK
<1>2. Answered(unwritten) \o inPipe \in Seq(Asked)
  BY <1>1, ConcatProperties
<1>3. Behind \in Seq(Asked)
  BY <1>1, <1>2, ConcatProperties DEF Behind
<1>4. Answered(rbuf) \o Behind \in Seq(Asked)
  BY <1>1, <1>3, ConcatProperties
<1> QED BY <1>1, <1>3, <1>4

\* The first line read, apart.
LEMMA WayFront ==
  ASSUME ProcTypeOK, rbuf # <<>>
  PROVE  /\ Head(rbuf) \in ReplyOrReady /\ Head(rbuf).re \in Asked
         /\ Tail(rbuf) \in Seq(ReplyOrReady)
         /\ Answered(Tail(rbuf)) \o Behind \in Seq(Asked)
         /\ OnTheWay = <<Head(rbuf).re>> \o (Answered(Tail(rbuf)) \o Behind)
<1>1. /\ Head(rbuf) \in ReplyOrReady /\ Tail(rbuf) \in Seq(ReplyOrReady)
      /\ rbuf = <<Head(rbuf)>> \o Tail(rbuf)
  BY HeadAndTail DEF ProcTypeOK
<1>2. Head(rbuf).re \in Asked
  BY <1>1 DEF ReplyOrReady, Reply, Ready, Asked
<1> DEFINE one == <<Head(rbuf)>>
           x == <<Head(rbuf).re>>
           y == Answered(Tail(rbuf))
<1>3. one \in Seq(ReplyOrReady) /\ x \in Seq(Asked)
  BY <1>1, <1>2
<1>4. Answered(one) = x
  BY <1>1, AnsweredOne
<1>5. rbuf = one \o Tail(rbuf)
  BY <1>1
<1> HIDE DEF one, x
<1>6. Answered(rbuf) = x \o y
  BY <1>1, <1>3, <1>4, <1>5, AnsweredConcat
<1>7. y \in Seq(Asked) /\ Behind \in Seq(Asked)
  BY <1>1, AnsweredType, Way
<1>8. y \o Behind \in Seq(Asked)
  BY <1>7, ConcatProperties
<1> HIDE DEF y
<1>9. (x \o y) \o Behind = x \o (y \o Behind)
  BY <1>3, <1>7, ConcatAssociative
<1>10. OnTheWay = x \o (y \o Behind)
  BY <1>6, <1>9, Way
<1> QED BY <1>1, <1>2, <1>8, <1>10 DEF x, y

\* The oldest handler, apart.
LEMMA WaitFront ==
  ASSUME pending \in Seq(Entry), pending # <<>>
  PROVE  /\ Head(pending) \in Entry /\ Tail(pending) \in Seq(Entry)
         /\ LinesOf(Tail(pending)) \in Seq(Asked)
         /\ LinesOf(pending) = <<Head(pending).line>> \o LinesOf(Tail(pending))
<1>1. /\ Head(pending) \in Entry /\ Tail(pending) \in Seq(Entry)
      /\ pending = <<Head(pending)>> \o Tail(pending)
  BY HeadAndTail
<1> DEFINE one == <<Head(pending)>>
<1>2. one \in Seq(Entry) /\ LinesOf(one) = <<Head(pending).line>>
  BY <1>1, LinesOfOne
<1>3. pending = one \o Tail(pending)
  BY <1>1
<1> HIDE DEF one
<1>4. LinesOf(pending) = LinesOf(one) \o LinesOf(Tail(pending))
  BY <1>1, <1>2, <1>3, LinesOfConcat
<1> QED BY <1>1, <1>2, <1>4, LinesOfType

\* Before READY, the first line is READY.
LEMMA ReadyFirst ==
  ASSUME ProcTypeOK, ProcShape, Pairing, state = "starting", rbuf # <<>>
  PROVE  /\ Head(rbuf) = Ready
         /\ LinesOf(pending) = Answered(Tail(rbuf)) \o Behind
<1>1. alive /\ Awaited = OnTheWay
  BY DEF ProcShape, Pairing
<1>2. LinesOf(pending) \in Seq(Asked) /\ Boot \in Asked
  BY LinesOfType DEF ProcTypeOK, Asked
<1> DEFINE y == LinesOf(pending)
           z == Answered(Tail(rbuf)) \o Behind
           w == Head(rbuf).re
<1>3. <<Boot>> \o y = <<w>> \o z
  BY <1>1, WayFront DEF Awaited
<1>4. w \in Asked /\ z \in Seq(Asked)
  BY WayFront
<1>5. y \in Seq(Asked)
  BY <1>2
<1> HIDE DEF y, z, w
<1>6. Boot = w /\ y = z
  BY <1>2, <1>3, <1>4, <1>5, ConsInjective
<1>7. Head(rbuf) \in Reply \cup {Ready}
  BY WayFront DEF ReplyOrReady
<1>8. Head(rbuf) \notin Reply
  <2>1. \A r \in Reply : r.re \in Line
    BY DEF Reply
  <2>2. w = Head(rbuf).re
    BY DEF w
  <2> QED BY <1>6, <2>1, <2>2, GhostAssumption
<1> QED BY <1>6, <1>7, <1>8 DEF y, z

\* After READY, the first line answers the oldest handler.
LEMMA OldestFirst ==
  ASSUME ProcTypeOK, ProcShape, Pairing, state = "ready", rbuf # <<>>
  PROVE  /\ pending # <<>>
         /\ Head(rbuf) \in Reply
         /\ Head(rbuf).re = Head(pending).line
         /\ LinesOf(Tail(pending)) = Answered(Tail(rbuf)) \o Behind
<1>1. alive /\ Awaited = OnTheWay
  BY DEF ProcShape, Pairing
<1> DEFINE y == LinesOf(Tail(pending))
           z == Answered(Tail(rbuf)) \o Behind
           w == Head(rbuf).re
           x == Head(pending).line
<1>2. LinesOf(pending) \in Seq(Asked)
  BY LinesOfType DEF ProcTypeOK
<1>3. Awaited = LinesOf(pending)
  <2>1. Awaited = <<>> \o LinesOf(pending)
    BY DEF Awaited
  <2> QED BY <2>1, <1>2, ConcatEmptySeq
<1>4. w \in Asked /\ z \in Seq(Asked) /\ OnTheWay = <<w>> \o z
  BY WayFront
<1>5. pending # <<>>
  <2> SUFFICES ASSUME pending = <<>> PROVE FALSE
    OBVIOUS
  <2>1. <<w>> \o z = <<>>
    BY <1>1, <1>3, <1>4, LinesOfEmpty
  <2> HIDE DEF w, z
  <2>2. <<w>> \in Seq(Asked) /\ Len(<<w>>) = 1 /\ Len(z) \in Nat
    BY <1>4, LenProperties
  <2>3. Len(<<w>> \o z) = 1 + Len(z)
    BY <1>4, <2>2, ConcatProperties
  <2>4. Len(<<>>) = 0
    OBVIOUS
  <2> QED BY <2>1, <2>2, <2>3, <2>4
<1>6. /\ Head(pending) \in Entry /\ x \in Line /\ x \in Asked
      /\ y \in Seq(Asked) /\ LinesOf(pending) = <<x>> \o y
  BY <1>5, WaitFront DEF ProcTypeOK, Entry, Asked
<1>7. <<x>> \o y = <<w>> \o z
  BY <1>1, <1>3, <1>4, <1>6
<1> HIDE DEF x, y, z, w
<1>8. x = w /\ y = z
  BY <1>4, <1>6, <1>7, ConsInjective
<1>9. Head(rbuf) \in Reply
  <2>1. Head(rbuf).re \in Line
    BY <1>6, <1>8 DEF w
  <2>2. Head(rbuf) \in Reply \cup {Ready}
    BY WayFront DEF ReplyOrReady
  <2> QED BY <2>1, <2>2, GhostAssumption DEF Ready
<1> QED BY <1>5, <1>8, <1>9 DEF x, y, z, w

\* A call of EngineProc keeps the types.
LEMMA CallsType ==
  ASSUME ProcTypeOK, ProcShape, Pairing, LocalApart, ProcCalls
  PROVE  ProcTypeOK'
<1> USE DEF ProcTypeOK, childVars
<1>1. CASE Stop
  <2>1. todo # <<>> /\ Tail(todo) \in Seq(Task)
    BY <1>1, HeadTailProperties DEF Stop, Calling, Idle
  <2>2. FailPendingHandlers \o Tail(todo) \in Seq(Task)
    BY <2>1, FailShape, Push
  <2>3. \A S : <<>> \in Seq(S)
    BY EmptySeq
  <2> QED BY <1>1, <2>2, <2>3 DEF Stop
<1>2. CASE Die
  <2>1. <<Do("stop"), Do("exit")>> \in Seq(Task)
    BY DEF Do, Task
  <2>2. todo # <<>>
    BY <1>2 DEF Die, Calling, Idle
  <2> QED BY <1>2, <2>1, <2>2, Push DEF Die
<1>3. ASSUME Calling("send")
      PROVE  /\ todo # <<>> /\ Call(Head(todo), Failed) \in Task
             /\ Head(todo).line \in Line /\ Head(todo).h \in Handler
  <2>1. todo # <<>> /\ Head(todo).line \in Line /\ Head(todo).h \in Handler
    BY <1>3, NextCall
  <2> QED BY <2>1 DEF Call, Task
<1>4. CASE SendDead
  <2>1. Calling("send")
    BY <1>4 DEF SendDead
  <2>2. <<Call(Head(todo), Failed)>> \in Seq(Task)
    BY <2>1, <1>3
  <2> QED BY <1>3, <1>4, <2>1, <2>2, Push DEF SendDead
<1>5. CASE SendBroken
  <2>1. Calling("send")
    BY <1>5 DEF SendBroken
  <2>2. Do("die") \in Task
    BY DEF Do, Task
  <2>3. <<Do("die"), Call(Head(todo), Failed)>> \in Seq(Task)
    BY <2>1, <2>2, <1>3
  <2> QED BY <1>3, <1>5, <2>1, <2>3, Push DEF SendBroken
<1>6. CASE SendWritten
  <2>1. Calling("send")
    BY <1>6 DEF SendWritten
  <2>2. [line |-> Head(todo).line, h |-> Head(todo).h] \in Entry
    BY <2>1, <1>3 DEF Entry
  <2>3. Append(pending, [line |-> Head(todo).line, h |-> Head(todo).h]) \in Seq(Entry)
    BY <2>2, AppendProperties
  <2>4. Append(inPipe, Head(todo).line) \in Seq(Line) /\ Tail(todo) \in Seq(Task)
    BY <2>1, <1>3, AppendProperties, HeadTailProperties
  <2> QED BY <1>6, <2>3, <2>4 DEF SendWritten
<1>7. CASE LinesDone
  <2>1. Tail(todo) \in Seq(Task)
    BY <1>7, HeadTailProperties DEF LinesDone, Calling, Idle
  <2> QED BY <1>7, <2>1 DEF LinesDone
<1>8. CASE LineBeforeReady
  <2>1. Tail(rbuf) \in Seq(ReplyOrReady)
    BY <1>8, HeadTailProperties DEF LineBeforeReady
  <2>2. 0 \in 0..GiveUpAfter
    BY GiveUpAssumption
  <2> QED BY <1>8, <2>1, <2>2 DEF LineBeforeReady
<1>9. CASE LineIgnored
  <2>1. Tail(rbuf) \in Seq(ReplyOrReady)
    BY <1>9, HeadTailProperties DEF LineIgnored
  <2> QED BY <1>9, <2>1 DEF LineIgnored
<1>10. CASE LineAnswers
  <2>1. rbuf # <<>> /\ state = "ready" /\ pending # <<>> /\ todo # <<>>
    BY <1>10 DEF LineAnswers, Calling, Idle
  <2>2. Head(rbuf) \in Reply /\ Tail(rbuf) \in Seq(ReplyOrReady)
    BY <2>1, OldestFirst, WayFront
  <2>3. Head(pending) \in Entry /\ Tail(pending) \in Seq(Entry)
    BY <2>1, WaitFront
  <2>4. Call(Head(pending), Head(rbuf)) \in Task
    BY <2>2, <2>3 DEF Call, Entry, Task
  <2>5. <<Call(Head(pending), Head(rbuf))>> \o todo \in Seq(Task)
    BY <2>4, ConcatProperties
  <2> QED BY <1>10, <2>2, <2>3, <2>5 DEF LineAnswers
<1> QED BY <1>1, <1>2, <1>4, <1>5, <1>6, <1>7, <1>8, <1>9, <1>10 DEF ProcCalls

\* What a step leaves paired as it was.
LEMMA SamePairing ==
  ASSUME Pairing, UNCHANGED <<alive, state, pending, rbuf, inPipe, unwritten, outPipe>>
  PROVE  Pairing'
BY DEF Pairing, Awaited, OnTheWay, LinesOf, Answered

\* A new process owes READY and nothing else, and nothing is asked of it yet.
LEMMA StartPairing ==
  ASSUME ProcTypeOK, ProcShape, Pairing, NEW cont,
         StartAlive(cont) \/ StartFork(cont) \/ StartRefused
  PROVE  ProcShape' /\ Pairing'
<1>1. CASE StartAlive(cont)
  BY <1>1, SamePairing DEF StartAlive, ProcShape, childVars
<1>2. CASE StartRefused
  BY <1>2, SamePairing DEF StartRefused, ProcShape, childVars
<1>3. CASE StartFork(cont)
  <2>1. pending' = <<>> /\ rbuf' = <<>> /\ outPipe' = <<>> /\ unwritten' = <<Ready>> /\ inPipe' = <<>>
        /\ alive' /\ state' = "starting"
    BY <1>3 DEF StartFork, ProcShape
  <2>2. <<>> \in Seq(ReplyOrReady) /\ <<Ready>> \in Seq(ReplyOrReady) /\ <<>> \in Seq(Line)
    BY EmptySeq DEF ReplyOrReady
  <2>3. <<Boot>> \in Seq(Asked) /\ Ready \in ReplyOrReady /\ Ready.re = Boot
    BY DEF Asked, ReplyOrReady, Ready
  <2>4. Answered(<<Ready>>) = <<Boot>>
    BY <2>3, AnsweredOne
  <2>5. OnTheWay' = Answered((<<>> \o <<>>) \o <<Ready>>) \o <<>>
    BY <2>1 DEF OnTheWay, Answered
  <2>6. (<<>> \o <<>>) \o <<Ready>> = <<Ready>>
    BY <2>2, ConcatEmptySeq
  <2>7. OnTheWay' = <<Boot>>
    BY <2>3, <2>4, <2>5, <2>6, ConcatEmptySeq
  <2>8. Awaited' = <<Boot>> \o LinesOf(<<>>)
    BY <2>1 DEF Awaited, LinesOf
  <2>9. Awaited' = <<Boot>>
    BY <2>3, <2>8, LinesOfEmpty, ConcatEmptySeq
  <2> QED BY <2>1, <2>7, <2>9 DEF Pairing, ProcShape
<1> QED BY <1>1, <1>2, <1>3

\* A line sent is the last the harness will look at, its handler the last to wait.
LEMMA SendPairing ==
  ASSUME ProcTypeOK, Pairing, LocalApart, SendWritten
  PROVE  Pairing'
<1> DEFINE l == Head(todo).line
           e == [line |-> Head(todo).line, h |-> Head(todo).h]
           boot == IF state = "starting" THEN <<Boot>> ELSE <<>>
           a == Answered(((rbuf \o outPipe) \o unwritten))
<1>1. Calling("send") /\ alive
  BY DEF SendWritten
<1>2. l \in Line /\ l \in Asked /\ e \in Entry /\ e.line = l
  BY <1>1, NextCall DEF ProcTypeOK, Entry, Asked
<1>3. pending' = Append(pending, e) /\ inPipe' = Append(inPipe, l) /\ alive' = alive
      /\ state' = state /\ rbuf' = rbuf /\ outPipe' = outPipe /\ unwritten' = unwritten
  BY DEF SendWritten
<1>4. <<e>> \in Seq(Entry) /\ <<l>> \in Seq(Asked) /\ <<l>> \in Seq(Line)
  BY <1>2
<1>5. Append(pending, e) = pending \o <<e>> /\ Append(inPipe, l) = inPipe \o <<l>>
  BY <1>2, AppendIsConcat DEF ProcTypeOK
<1>6. LinesOf(pending \o <<e>>) = LinesOf(pending) \o <<l>>
  BY <1>2, <1>4, LinesOfConcat, LinesOfOne DEF ProcTypeOK
<1>7. boot \in Seq(Asked) /\ LinesOf(pending) \in Seq(Asked) /\ inPipe \in Seq(Asked)
  <2>1. <<>> \in Seq(Asked)
    BY EmptySeq
  <2>2. <<Boot>> \in Seq(Asked)
    BY DEF Asked
  <2>3. boot \in Seq(Asked)
    BY <2>1, <2>2
  <2>4. LinesOf(pending) \in Seq(Asked) /\ inPipe \in Seq(Asked)
    BY LinesOfType, Way DEF ProcTypeOK
  <2> QED BY <2>3, <2>4
<1>8. a \in Seq(Asked)
  <2>1. (rbuf \o outPipe) \o unwritten \in Seq(ReplyOrReady)
    BY ConcatProperties DEF ProcTypeOK
  <2> QED BY <2>1, AnsweredType
<1>9. Awaited' = boot \o (LinesOf(pending) \o <<l>>)
  BY <1>3, <1>5, <1>6 DEF Awaited, LinesOf
<1>10. OnTheWay' = a \o (inPipe \o <<l>>)
  BY <1>3, <1>5 DEF OnTheWay, Answered
<1>11. Awaited = boot \o LinesOf(pending) /\ OnTheWay = a \o inPipe
  BY DEF Awaited, OnTheWay
<1>12. Awaited = OnTheWay
  BY <1>1 DEF Pairing
<1> DEFINE last == <<l>>
           ls == LinesOf(pending)
<1>13. last \in Seq(Asked) /\ ls \in Seq(Asked)
  BY <1>4, <1>7
<1>14. Awaited' = boot \o (ls \o last) /\ OnTheWay' = a \o (inPipe \o last)
  BY <1>9, <1>10
<1>15. boot \o ls = a \o inPipe
  BY <1>11, <1>12
<1> HIDE DEF boot, a, last, ls
<1>16. boot \o (ls \o last) = a \o (inPipe \o last)
  <2>1. \A s, t, u \in Seq(Asked) : (s \o t) \o u = s \o (t \o u)
    BY Assoc
  <2>2. (boot \o ls) \o last = boot \o (ls \o last)
    BY <1>7, <1>13, <2>1, Zenon
  <2>3. (a \o inPipe) \o last = a \o (inPipe \o last)
    BY <1>7, <1>8, <1>13, <2>1, Zenon
  <2> QED BY <1>15, <2>2, <2>3, Zenon
<1> QED BY <1>14, <1>16 DEF Pairing

\* A call of EngineProc keeps the pairing.
LEMMA CallsPairing ==
  ASSUME ProcTypeOK, ProcShape, Pairing, LocalApart, ProcCalls
  PROVE  ProcShape' /\ Pairing'
<1>1. CASE Stop
  BY <1>1 DEF Stop, ProcShape, Pairing
<1>2. CASE Die \/ SendDead \/ SendBroken \/ LinesDone
  <2>1. UNCHANGED <<alive, state, pending, rbuf, inPipe, unwritten, outPipe>>
    BY <1>2 DEF Die, SendDead, SendBroken, LinesDone, childVars
  <2> QED BY <2>1, SamePairing DEF ProcShape
<1>3. CASE SendWritten
  BY <1>3, SendPairing DEF SendWritten, ProcShape
<1>4. CASE LineBeforeReady
  <2>1. Head(rbuf) = Ready /\ LinesOf(pending) = Answered(Tail(rbuf)) \o Behind
    BY <1>4, ReadyFirst DEF LineBeforeReady
  <2>2. state' = "ready" /\ rbuf' = Tail(rbuf) /\ alive' = alive /\ pending' = pending
        /\ inPipe' = inPipe /\ unwritten' = unwritten /\ outPipe' = outPipe /\ state = "starting"
    BY <1>4, <2>1 DEF LineBeforeReady, childVars
  <2>3. LinesOf(pending) \in Seq(Asked) /\ Tail(rbuf) \in Seq(ReplyOrReady)
    BY <1>4, LinesOfType, WayFront DEF ProcTypeOK, LineBeforeReady
  <2>4. Awaited' = <<>> \o LinesOf(pending)
    BY <2>2 DEF Awaited, LinesOf
  <2>5. Awaited' = LinesOf(pending)
    BY <2>3, <2>4, ConcatEmptySeq
  <2>6. OnTheWay' = Answered((Tail(rbuf) \o outPipe) \o unwritten) \o inPipe
    BY <2>2 DEF OnTheWay, Answered
  <2>7. OnTheWay' = Answered(Tail(rbuf)) \o Behind
    BY <2>3, <2>6, Parts DEF Behind, ProcTypeOK
  <2> QED BY <2>1, <2>2, <2>5, <2>7 DEF Pairing, ProcShape
<1>5. CASE LineIgnored
  <2>1. state = "dead"
    BY <1>5, OldestFirst DEF LineIgnored
  <2> QED BY <1>5, <2>1 DEF LineIgnored, ProcShape, Pairing
<1>6. CASE LineAnswers
  <2>1. LinesOf(Tail(pending)) = Answered(Tail(rbuf)) \o Behind
    BY <1>6, OldestFirst DEF LineAnswers
  <2>2. state' = state /\ state = "ready" /\ rbuf' = Tail(rbuf) /\ alive' = alive
        /\ pending' = Tail(pending)
        /\ inPipe' = inPipe /\ unwritten' = unwritten /\ outPipe' = outPipe
    BY <1>6 DEF LineAnswers, childVars
  <2>3. LinesOf(Tail(pending)) \in Seq(Asked) /\ Tail(rbuf) \in Seq(ReplyOrReady)
    BY <1>6, WaitFront, WayFront DEF ProcTypeOK, LineAnswers
  <2>4. Awaited' = <<>> \o LinesOf(Tail(pending))
    BY <2>2 DEF Awaited, LinesOf
  <2>5. Awaited' = LinesOf(Tail(pending))
    BY <2>3, <2>4, ConcatEmptySeq
  <2>6. OnTheWay' = Answered((Tail(rbuf) \o outPipe) \o unwritten) \o inPipe
    BY <2>2 DEF OnTheWay, Answered
  <2>7. OnTheWay' = Answered(Tail(rbuf)) \o Behind
    BY <2>3, <2>6, Parts DEF Behind, ProcTypeOK
  <2> QED BY <2>1, <2>2, <2>5, <2>7 DEF Pairing, ProcShape
<1> QED BY <1>1, <1>2, <1>3, <1>4, <1>5, <1>6 DEF ProcCalls

----------------------------------------------------------------------------
(* Events of the loop, and the harness.                                    *)

\* A sequence cut in two.
LEMMA Cut ==
  ASSUME NEW S, NEW s \in Seq(S), NEW n \in 1..Len(s)
  PROVE  /\ SubSeq(s, 1, n) \in Seq(S) /\ SubSeq(s, n + 1, Len(s)) \in Seq(S)
         /\ SubSeq(s, 1, n) \o SubSeq(s, n + 1, Len(s)) = s
         /\ Len(SubSeq(s, 1, n)) = n
         /\ \A i \in 1..n : SubSeq(s, 1, n)[i] = s[i]
<1>1. Len(s) \in Nat /\ n \in Nat /\ n \in Int /\ 1 \in Int /\ Len(s) \in Int /\ n + 1 \in Int
  BY LenProperties
<1>2. \A i \in 1..n : s[i] \in S
  BY <1>1, ElementOfSeq
<1>3. \A i \in (n + 1)..Len(s) : s[i] \in S
  BY <1>1, ElementOfSeq
<1>4. /\ SubSeq(s, 1, n) \in Seq(S)
      /\ Len(SubSeq(s, 1, n)) = IF 1 <= n THEN n - 1 + 1 ELSE 0
      /\ \A i \in 1..(n - 1 + 1) : SubSeq(s, 1, n)[i] = s[1 + i - 1]
  BY <1>1, <1>2, SubSeqProperties
<1>5. SubSeq(s, n + 1, Len(s)) \in Seq(S)
  BY <1>1, <1>3, SubSeqProperties
<1>6. SubSeq(s, 1, n) \o SubSeq(s, n + 1, Len(s)) = SubSeq(s, 1, Len(s))
  <2>1. 1 \in 1..Len(s) + 1 /\ n \in (1 - 1)..Len(s) /\ Len(s) \in n..Len(s)
    BY <1>1
  <2> QED BY <2>1, ConcatAdjacentSubSeq
<1>7. SubSeq(s, 1, Len(s)) = s
  BY SubSeqFull
<1>8. n - 1 + 1 = n /\ 1 <= n /\ \A i \in 1..n : 1 + i - 1 = i
  BY <1>1
<1> QED BY <1>4, <1>5, <1>6, <1>7, <1>8

\* Reading moves lines from the pipe to the buffer, in order.
LEMMA ReadStep ==
  ASSUME ProcTypeOK, ProcShape, Pairing, OnReadable
  PROVE  ProcTypeOK' /\ ProcShape' /\ Pairing'
<1>1. PICK n \in 1..Len(outPipe) :
        /\ rbuf' = rbuf \o SubSeq(outPipe, 1, n)
        /\ outPipe' = SubSeq(outPipe, n + 1, Len(outPipe))
  BY DEF OnReadable
<1>2. UNCHANGED <<alive, state, pending, failCount, gaveUp, exited, inPipe, unwritten>>
      /\ todo' = <<Do("lines")>>
  BY DEF OnReadable
<1> DEFINE s == SubSeq(outPipe, 1, n)
           t == SubSeq(outPipe, n + 1, Len(outPipe))
<1>3. s \in Seq(ReplyOrReady) /\ t \in Seq(ReplyOrReady) /\ s \o t = outPipe
  BY Cut DEF ProcTypeOK
<1>4. rbuf' = rbuf \o s /\ outPipe' = t
  BY <1>1
<1> HIDE DEF s, t
<1>5. rbuf \o s \in Seq(ReplyOrReady)
  BY <1>3, ConcatProperties DEF ProcTypeOK
<1>6. Do("lines") \in Task
  BY DEF Do, Task
<1>7. <<Do("lines")>> \in Seq(Task)
  BY <1>6
<1>8. ProcTypeOK'
  BY <1>2, <1>3, <1>4, <1>5, <1>7 DEF ProcTypeOK
<1>9. OnTheWay' = Answered(((rbuf \o s) \o t) \o unwritten) \o inPipe
  BY <1>2, <1>4 DEF OnTheWay, Answered
<1>10. (rbuf \o s) \o t = rbuf \o (s \o t)
  <2>1. \A x, y, z \in Seq(ReplyOrReady) : (x \o y) \o z = x \o (y \o z)
    BY Assoc
  <2>2. rbuf \in Seq(ReplyOrReady)
    BY DEF ProcTypeOK
  <2> QED BY <1>3, <2>1, <2>2, Zenon
<1>11. OnTheWay' = OnTheWay
  BY <1>3, <1>9, <1>10 DEF OnTheWay
<1>12. Awaited' = Awaited
  BY <1>2 DEF Awaited, LinesOf
<1> QED BY <1>2, <1>8, <1>11, <1>12 DEF ProcShape, Pairing

\* The end of the pipe and the watchdog only call die().
LEMMA DeathStep ==
  ASSUME ProcTypeOK, ProcShape, Pairing, OnEof \/ OnStartTimeout
  PROVE  ProcTypeOK' /\ ProcShape' /\ Pairing'
<1>1. UNCHANGED <<alive, state, pending, rbuf, failCount, gaveUp, childVars>>
      /\ todo' = <<Do("die")>>
  BY DEF OnEof, OnStartTimeout
<1>2. Do("die") \in Task
  BY DEF Do, Task
<1>3. <<Do("die")>> \in Seq(Task)
  BY <1>2
<1>4. ProcTypeOK'
  BY <1>1, <1>3 DEF ProcTypeOK, childVars
<1> QED BY <1>1, <1>4, SamePairing DEF ProcShape, childVars

\* A line written moves from what is owed to the pipe.
LEMMA WriteStep ==
  ASSUME ProcTypeOK, ProcShape, Pairing, WriteLine
  PROVE  ProcTypeOK' /\ ProcShape' /\ Pairing'
<1>1. outPipe' = Append(outPipe, Head(unwritten)) /\ unwritten' = Tail(unwritten) /\ unwritten # <<>>
      /\ UNCHANGED <<addonVars, exited, inPipe>>
  BY DEF WriteLine
<1> DEFINE h == <<Head(unwritten)>>
           t == Tail(unwritten)
<1>2. Head(unwritten) \in ReplyOrReady /\ t \in Seq(ReplyOrReady) /\ h \o t = unwritten
  BY <1>1, HeadAndTail DEF ProcTypeOK
<1>3. h \in Seq(ReplyOrReady)
  BY <1>2
<1>4. outPipe' = outPipe \o h /\ unwritten' = t
  BY <1>1, <1>2, AppendIsConcat DEF ProcTypeOK
<1> HIDE DEF h, t
<1>5. outPipe \o h \in Seq(ReplyOrReady)
  BY <1>3, ConcatProperties DEF ProcTypeOK
<1>6. ProcTypeOK'
  BY <1>1, <1>2, <1>4, <1>5 DEF ProcTypeOK, addonVars
<1>7. OnTheWay' = Answered((rbuf \o (outPipe \o h)) \o t) \o inPipe
  BY <1>1, <1>4 DEF OnTheWay, Answered, addonVars
<1>8. (rbuf \o (outPipe \o h)) \o t = (rbuf \o outPipe) \o unwritten
  <2>1. \A x, y, z \in Seq(ReplyOrReady) : (x \o y) \o z = x \o (y \o z)
    BY Assoc
  <2>2. rbuf \in Seq(ReplyOrReady) /\ outPipe \in Seq(ReplyOrReady) /\ rbuf \o outPipe \in Seq(ReplyOrReady)
    BY ConcatProperties DEF ProcTypeOK
  <2>3. rbuf \o (outPipe \o h) = (rbuf \o outPipe) \o h
    BY <1>3, <2>1, <2>2, Zenon
  <2>4. ((rbuf \o outPipe) \o h) \o t = (rbuf \o outPipe) \o (h \o t)
    BY <1>2, <1>3, <2>1, <2>2, Zenon
  <2> QED BY <1>2, <2>3, <2>4, Zenon
<1>9. OnTheWay' = OnTheWay
  BY <1>7, <1>8 DEF OnTheWay
<1>10. Awaited' = Awaited
  BY <1>1 DEF Awaited, LinesOf, addonVars
<1> QED BY <1>1, <1>6, <1>9, <1>10 DEF ProcShape, Pairing, addonVars

\* However many lines are merged, as many replies are owed, for the same lines.
LEMMA TakeStep ==
  ASSUME ProcTypeOK, ProcShape, Pairing, NEW texts, NEW n \in Nat,
         Len(texts) = n, \A i \in 1..n : texts[i] \in Text, Take(texts)
  PROVE  ProcTypeOK' /\ ProcShape' /\ Pairing'
<1> DEFINE u == [i \in 1..n |-> [re |-> inPipe[i], text |-> texts[i]]]
           s == SubSeq(inPipe, 1, n)
           t == SubSeq(inPipe, n + 1, Len(inPipe))
<1>1. unwritten = <<>> /\ unwritten' = u /\ inPipe' = t /\ n \in 1..Len(inPipe)
      /\ UNCHANGED <<addonVars, exited, outPipe>>
  BY DEF Take
<1>2. s \in Seq(Line) /\ t \in Seq(Line) /\ s \o t = inPipe /\ Len(s) = n
      /\ \A i \in 1..n : s[i] = inPipe[i]
  BY <1>1, Cut DEF ProcTypeOK
<1>3. \A i \in 1..n : inPipe[i] \in Line
  <2> SUFFICES ASSUME NEW i \in 1..n PROVE inPipe[i] \in Line
    OBVIOUS
  <2>1. i \in 1..Len(inPipe)
    BY <1>1, LenProperties DEF ProcTypeOK
  <2> QED BY <2>1, ElementOfSeq DEF ProcTypeOK
<1>4. u \in [1..n -> Reply]
  BY <1>3 DEF Reply
<1>5. u \in Seq(ReplyOrReady) /\ Len(u) = n /\ \A i \in 1..n : u[i].re = inPipe[i]
  BY <1>4 DEF ReplyOrReady
<1> HIDE DEF u, s, t
<1>6. ProcTypeOK'
  BY <1>1, <1>2, <1>5 DEF ProcTypeOK, addonVars
<1>7. Answered(u) = s
  <2>1. Answered(u) \in Seq(Asked) /\ Len(Answered(u)) = n /\ \A i \in 1..n : Answered(u)[i] = inPipe[i]
    BY <1>5, AnsweredType
  <2>2. s \in Seq(Asked)
    BY <1>2, SeqMonotonic DEF Asked
  <2> QED BY <1>2, <2>1, <2>2, SeqEqual
<1>8. OnTheWay' = Answered((rbuf \o outPipe) \o u) \o t
  BY <1>1 DEF OnTheWay, Answered, addonVars
<1>9. rbuf \o outPipe \in Seq(ReplyOrReady)
  BY ConcatProperties DEF ProcTypeOK
<1>10. (rbuf \o outPipe) \o unwritten = rbuf \o outPipe
  BY <1>1, <1>9, ConcatEmptySeq
<1> DEFINE a == Answered(rbuf \o outPipe)
<1>11. Answered((rbuf \o outPipe) \o u) = a \o s
  BY <1>5, <1>7, <1>9, AnsweredConcat
<1>12. a \in Seq(Asked) /\ s \in Seq(Asked) /\ t \in Seq(Asked)
  BY <1>2, <1>9, AnsweredType, SeqMonotonic DEF Asked
<1>13. OnTheWay = a \o inPipe
  BY <1>10 DEF OnTheWay
<1> HIDE DEF a
<1>14. (a \o s) \o t = a \o (s \o t)
  BY <1>12, ConcatAssociative
<1>15. OnTheWay' = OnTheWay
  BY <1>2, <1>8, <1>11, <1>13, <1>14
<1>16. Awaited' = Awaited
  BY <1>1 DEF Awaited, LinesOf, addonVars
<1> QED BY <1>1, <1>6, <1>15, <1>16 DEF ProcShape, Pairing, addonVars

\* A death changes nothing in flight: it only keeps more from coming.
LEMMA ExitStep ==
  ASSUME ProcTypeOK, ProcShape, Pairing, ChildExit
  PROVE  ProcTypeOK' /\ ProcShape' /\ Pairing'
<1>1. exited' = TRUE /\ UNCHANGED <<addonVars, inPipe, unwritten, outPipe>>
  BY DEF ChildExit
<1> QED BY <1>1, SamePairing DEF ProcTypeOK, ProcShape, addonVars

----------------------------------------------------------------------------
(* Every handler called with a line is called with its own.                *)

Honest(t) == t.op = "call" /\ t.resp # Failed => t.resp.re = t.line
AllHonest(s) == \A i \in 1..Len(s) : Honest(s[i])

\* OwnReply, said of the stack as of any sequence of calls.
LEMMA OwnReplyIs ==
  ASSUME todo \in Seq(Task)
  PROVE  OwnReply <=> AllHonest(todo)
<1>1. DOMAIN todo = 1..Len(todo)
  BY LenProperties
<1> QED BY <1>1 DEF OwnReply, AllHonest, Honest

\* Honest calls after honest calls.
LEMMA HonestConcat ==
  ASSUME NEW s \in Seq(Task), NEW t \in Seq(Task), AllHonest(s), AllHonest(t)
  PROVE  s \o t \in Seq(Task) /\ AllHonest(s \o t)
<1>1. /\ s \o t \in Seq(Task) /\ Len(s \o t) = Len(s) + Len(t)
      /\ \A i \in 1..(Len(s) + Len(t)) : (s \o t)[i] = IF i <= Len(s) THEN s[i] ELSE t[i - Len(s)]
  BY ConcatProperties
<1>2. Len(s) \in Nat /\ Len(t) \in Nat
  BY LenProperties
<1>3. ASSUME NEW i \in 1..(Len(s) + Len(t)) PROVE Honest((s \o t)[i])
  <2>1. CASE i <= Len(s)
    <3>1. i \in 1..Len(s) /\ (s \o t)[i] = s[i]
      BY <1>1, <1>2, <2>1
    <3> QED BY <3>1 DEF AllHonest
  <2>2. CASE ~(i <= Len(s))
    <3>1. i - Len(s) \in 1..Len(t) /\ (s \o t)[i] = t[i - Len(s)]
      BY <1>1, <1>2, <2>2
    <3> QED BY <3>1 DEF AllHonest
  <2> QED BY <2>1, <2>2
<1> QED BY <1>1, <1>3 DEF AllHonest

\* What is left of honest calls when the first is made.
LEMMA HonestTail ==
  ASSUME NEW s \in Seq(Task), s # <<>>, AllHonest(s)
  PROVE  Tail(s) \in Seq(Task) /\ AllHonest(Tail(s))
<1>1. /\ Tail(s) \in Seq(Task) /\ Len(Tail(s)) = Len(s) - 1
      /\ \A i \in 1..Len(Tail(s)) : Tail(s)[i] = s[i + 1]
  BY HeadTailProperties
<1>2. Len(s) \in Nat
  BY LenProperties
<1>3. ASSUME NEW i \in 1..Len(Tail(s)) PROVE Honest(Tail(s)[i])
  <2>1. i + 1 \in 1..Len(s)
    BY <1>1, <1>2
  <2> QED BY <1>1, <2>1 DEF AllHonest
<1> QED BY <1>1, <1>3 DEF AllHonest

\* Calls that tell nobody anything, or tell of a loss, are honest.
LEMMA HonestOne ==
  ASSUME NEW t \in Task, t.op # "call"
  PROVE  <<t>> \in Seq(Task) /\ AllHonest(<<t>>)
<1>1. <<t>> \in Seq(Task) /\ Len(<<t>>) = 1 /\ <<t>>[1] = t
  OBVIOUS
<1>2. Honest(t)
  BY DEF Honest
<1>3. \A i \in 1..1 : i = 1
  OBVIOUS
<1> QED BY <1>1, <1>2, <1>3 DEF AllHonest

\* A handler told its own reply, or of a loss.
LEMMA HonestCall ==
  ASSUME NEW e, e.line \in Line, e.h \in Handler, NEW r \in Reply \cup {Failed},
         r = Failed \/ r.re = e.line
  PROVE  <<Call(e, r)>> \in Seq(Task) /\ AllHonest(<<Call(e, r)>>)
<1> DEFINE c == Call(e, r)
<1>1. c \in Task /\ c.op = "call" /\ c.line = e.line /\ c.resp = r
  BY DEF Call, Task
<1>2. Honest(c)
  BY <1>1 DEF Honest
<1> HIDE DEF c
<1>3. <<c>> \in Seq(Task) /\ Len(<<c>>) = 1 /\ <<c>>[1] = c
  BY <1>1
<1>4. \A i \in 1..1 : i = 1
  OBVIOUS
<1>5. <<c>> \in Seq(Task) /\ AllHonest(<<c>>)
  BY <1>2, <1>3, <1>4 DEF AllHonest
<1> QED BY <1>5 DEF c

\* stop() tells its handlers of a loss and of nothing else.
LEMMA HonestFail ==
  ASSUME pending \in Seq(Entry)
  PROVE  FailPendingHandlers \in Seq(Task) /\ AllHonest(FailPendingHandlers)
<1>1. /\ FailPendingHandlers \in Seq(Task) /\ Len(FailPendingHandlers) = Len(pending)
      /\ \A i \in 1..Len(pending) : FailPendingHandlers[i] = Call(pending[i], Failed)
  BY FailShape
<1>2. ASSUME NEW i \in 1..Len(pending) PROVE Honest(FailPendingHandlers[i])
  <2>1. Call(pending[i], Failed).resp = Failed
    BY DEF Call
  <2> QED BY <1>1, <2>1 DEF Honest
<1> QED BY <1>1, <1>2 DEF AllHonest

\* A call of EngineProc puts only honest calls on the stack.
LEMMA CallsOwnReply ==
  ASSUME ProcTypeOK, ProcShape, Pairing, OwnReply, LocalApart, ProcCalls
  PROVE  AllHonest(todo')
<1>1. todo \in Seq(Task) /\ AllHonest(todo)
  BY OwnReplyIs DEF ProcTypeOK
<1>2. todo # <<>>
  BY DEF ProcCalls, Stop, Die, SendDead, SendBroken, SendWritten, LinesDone,
         LineBeforeReady, LineIgnored, LineAnswers, Calling, Idle
<1>3. Tail(todo) \in Seq(Task) /\ AllHonest(Tail(todo))
  BY <1>1, <1>2, HonestTail
<1>4. CASE Stop
  BY <1>3, <1>4, HonestFail, HonestConcat DEF Stop, ProcTypeOK
<1>5. CASE Die
  <2>1. Do("stop") \in Task /\ Do("stop").op # "call" /\ Do("exit") \in Task /\ Do("exit").op # "call"
    BY DEF Do, Task
  <2>2. <<Do("stop"), Do("exit")>> = <<Do("stop")>> \o <<Do("exit")>>
    OBVIOUS
  <2>3. <<Do("stop"), Do("exit")>> \in Seq(Task) /\ AllHonest(<<Do("stop"), Do("exit")>>)
    BY <2>1, <2>2, HonestOne, HonestConcat
  <2> QED BY <1>3, <1>5, <2>3, HonestConcat DEF Die
<1>6. ASSUME Calling("send")
      PROVE  /\ Head(todo).line \in Line /\ Head(todo).h \in Handler
             /\ <<Call(Head(todo), Failed)>> \in Seq(Task) /\ AllHonest(<<Call(Head(todo), Failed)>>)
  <2>1. Head(todo).line \in Line /\ Head(todo).h \in Handler
    BY <1>1, <1>6, NextCall
  <2> QED BY <2>1, HonestCall
<1>7. CASE SendDead
  BY <1>3, <1>6, <1>7, HonestConcat DEF SendDead
<1>8. CASE SendBroken
  <2>1. Calling("send")
    BY <1>8 DEF SendBroken
  <2>2. Do("die") \in Task /\ Do("die").op # "call"
    BY DEF Do, Task
  <2>3. <<Do("die"), Call(Head(todo), Failed)>> = <<Do("die")>> \o <<Call(Head(todo), Failed)>>
    OBVIOUS
  <2>4. /\ <<Do("die"), Call(Head(todo), Failed)>> \in Seq(Task)
        /\ AllHonest(<<Do("die"), Call(Head(todo), Failed)>>)
    BY <1>6, <2>1, <2>2, <2>3, HonestOne, HonestConcat
  <2> QED BY <1>3, <1>8, <2>4, HonestConcat DEF SendBroken
<1>9. CASE SendWritten \/ LinesDone
  BY <1>3, <1>9 DEF SendWritten, LinesDone
<1>10. CASE LineBeforeReady \/ LineIgnored
  BY <1>1, <1>10 DEF LineBeforeReady, LineIgnored
<1>11. CASE LineAnswers
  <2>1. pending # <<>> /\ Head(rbuf) \in Reply /\ Head(rbuf).re = Head(pending).line
    BY <1>11, OldestFirst DEF LineAnswers
  <2>2. Head(pending).line \in Line /\ Head(pending).h \in Handler
    BY <2>1, WaitFront DEF ProcTypeOK, Entry
  <2>3. <<Call(Head(pending), Head(rbuf))>> \in Seq(Task) /\ AllHonest(<<Call(Head(pending), Head(rbuf))>>)
    BY <2>1, <2>2, HonestCall
  <2> QED BY <1>1, <1>11, <2>3, HonestConcat DEF LineAnswers
<1> QED BY <1>4, <1>5, <1>7, <1>8, <1>9, <1>10, <1>11 DEF ProcCalls

----------------------------------------------------------------------------
(* Together.                                                               *)

\* Whatever client runs above it, a call of EngineProc keeps the invariant.
LEMMA CallsInv ==
  ASSUME ProcInv, LocalApart, ProcCalls
  PROVE  ProcInv'
<1>1. ProcTypeOK /\ ProcShape /\ Pairing /\ OwnReply
  BY DEF ProcInv
<1>2. ProcTypeOK' /\ ProcShape' /\ Pairing'
  BY <1>1, CallsType, CallsPairing
<1>3. AllHonest(todo')
  BY <1>1, CallsOwnReply
<1>4. OwnReply'
  <2>1. todo' \in Seq(Task) /\ DOMAIN todo' = 1..Len(todo')
    BY <1>2, LenProperties DEF ProcTypeOK
  <2> QED BY <1>3, <2>1 DEF OwnReply, AllHonest, Honest
<1> QED BY <1>2, <1>4 DEF ProcInv

\* So does start(), if what its caller does next tells nobody a reply.
LEMMA StartInv ==
  ASSUME ProcInv, todo # <<>>, NEW cont \in Seq(Task), AllHonest(cont), LocalApart,
         StartAlive(cont) \/ StartFork(cont) \/ StartRefused
  PROVE  ProcInv'
<1>1. ProcTypeOK /\ ProcShape /\ Pairing /\ OwnReply
  BY DEF ProcInv
<1>2. ProcTypeOK' /\ ProcShape' /\ Pairing'
  BY <1>1, StartType, StartPairing
<1>3. Tail(todo) \in Seq(Task) /\ AllHonest(Tail(todo))
  BY <1>1, OwnReplyIs, HonestTail DEF ProcTypeOK
<1>4. AllHonest(cont \o Tail(todo))
  BY <1>3, HonestConcat
<1>5. AllHonest(todo')
  BY <1>3, <1>4 DEF StartAlive, StartFork, StartRefused
<1>6. OwnReply'
  <2>1. todo' \in Seq(Task) /\ DOMAIN todo' = 1..Len(todo')
    BY <1>2, LenProperties DEF ProcTypeOK
  <2> QED BY <1>5, <2>1 DEF OwnReply, AllHonest, Honest
<1> QED BY <1>2, <1>6 DEF ProcInv

\* A client's own step, which only changes what is to be called next.
LEMMA ClientInv ==
  ASSUME ProcInv, NEW p \in Seq(Task), AllHonest(p), todo' = p,
         UNCHANGED <<alive, state, pending, rbuf, failCount, gaveUp, childVars>>
  PROVE  ProcInv'
<1>1. ProcTypeOK /\ ProcShape /\ Pairing
  BY DEF ProcInv
<1>2. ProcTypeOK'
  BY <1>1 DEF ProcTypeOK, childVars
<1>3. ProcShape' /\ Pairing'
  BY <1>1, SamePairing DEF ProcShape, childVars
<1>4. OwnReply'
  <2>1. todo' \in Seq(Task) /\ DOMAIN todo' = 1..Len(todo') /\ AllHonest(todo')
    BY LenProperties
  <2> QED BY <2>1 DEF OwnReply, AllHonest, Honest
<1> QED BY <1>2, <1>3, <1>4 DEF ProcInv

\* So do the loop's events.
LEMMA EventsInv ==
  ASSUME ProcInv, ProcEvents
  PROVE  ProcInv'
<1>1. ProcTypeOK /\ ProcShape /\ Pairing
  BY DEF ProcInv
<1>2. ProcTypeOK' /\ ProcShape' /\ Pairing'
  BY <1>1, ReadStep, DeathStep DEF ProcEvents
<1>3. todo' = <<Do("lines")>> \/ todo' = <<Do("die")>>
  BY DEF ProcEvents, OnReadable, OnEof, OnStartTimeout
<1>4. Do("lines") \in Task /\ Do("lines").op # "call" /\ Do("die") \in Task /\ Do("die").op # "call"
  BY DEF Do, Task
<1>5. AllHonest(todo')
  BY <1>3, <1>4, HonestOne
<1>6. OwnReply'
  <2>1. todo' \in Seq(Task) /\ DOMAIN todo' = 1..Len(todo')
    BY <1>2, LenProperties DEF ProcTypeOK
  <2> QED BY <1>5, <2>1 DEF OwnReply, AllHonest, Honest
<1> QED BY <1>2, <1>6 DEF ProcInv

\* Whatever the harness takes or writes, and its death, keeps the invariant.
LEMMA HarnessInv ==
  ASSUME ProcInv,
         \/ \E n \in Nat : \E texts \in [1..n -> Text] : Take(texts)
         \/ WriteLine
         \/ ChildExit
  PROVE  ProcInv'
<1>1. ProcTypeOK /\ ProcShape /\ Pairing /\ OwnReply
  BY DEF ProcInv
<1>2. CASE \E n \in Nat : \E texts \in [1..n -> Text] : Take(texts)
  <2>0. PICK n \in Nat : \E texts \in [1..n -> Text] : Take(texts)
    BY <1>2
  <2>1. PICK texts \in [1..n -> Text] : Take(texts)
    BY <2>0
  <2>2. Len(texts) = n /\ \A i \in 1..n : texts[i] \in Text
    BY LenProperties
  <2>3. ProcTypeOK' /\ ProcShape' /\ Pairing'
    BY <1>1, <2>1, <2>2, TakeStep
  <2>4. todo' = todo
    BY <2>1 DEF Take, addonVars
  <2> QED BY <1>1, <2>3, <2>4 DEF ProcInv, OwnReply
<1>3. CASE WriteLine
  <2>1. todo' = todo
    BY <1>3 DEF WriteLine, addonVars
  <2> QED BY <1>1, <1>3, <2>1, WriteStep DEF ProcInv, OwnReply
<1>4. CASE ChildExit
  <2>1. todo' = todo
    BY <1>4 DEF ChildExit, addonVars
  <2> QED BY <1>1, <1>4, <2>1, ExitStep DEF ProcInv, OwnReply
<1> QED BY <1>2, <1>3, <1>4
============================================================================
