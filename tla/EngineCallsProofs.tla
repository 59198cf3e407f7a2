-------------------------- MODULE EngineCallsProofs --------------------------
(***************************************************************************)
(* Theorems about EngineProc under the most general client, for any number *)
(* of requests, any client programs, any texts and any number of deaths.   *)
(***************************************************************************)
EXTENDS EngineCalls, EngineProcProofs

\* The inductive invariant: Pairing is what makes OwnReply inductive, and the
\* shape of the process what makes Pairing so.
IInv == TypeOK /\ ProcInv

\* The client adds the call "ask", which EngineProc does not have.
LEMMA ClientApart == LocalApart
BY ClientAssumption DEF LocalApart, ProcOps, AskTask

\* A callback's program is a sequence of calls that tell nobody a reply.
LEMMA ProgramShape ==
  ASSUME NEW p \in Programs \cup {<<>>}
  PROVE  p \in Seq(Task) /\ AllHonest(p)
<1>1. AskTask \cup [op: {"start", "stop"}] \subseteq Task
  BY ClientAssumption DEF Task
<1>2. p \in Seq(AskTask \cup [op: {"start", "stop"}])
  BY ClientAssumption, EmptySeq
<1>3. p \in Seq(Task)
  BY <1>1, <1>2, SeqMonotonic
<1>4. \A t \in AskTask \cup [op: {"start", "stop"}] : Honest(t)
  BY DEF AskTask, Honest
<1>5. \A i \in 1..Len(p) : p[i] \in AskTask \cup [op: {"start", "stop"}]
  BY <1>2, ElementOfSeq
<1> QED BY <1>3, <1>4, <1>5 DEF AllHonest

\* What a client pushes in place of the call at hand.
LEMMA ReplaceCall ==
  ASSUME ProcInv, todo # <<>>, NEW p \in Seq(Task), AllHonest(p)
  PROVE  p \o Tail(todo) \in Seq(Task) /\ AllHonest(p \o Tail(todo))
<1>1. todo \in Seq(Task) /\ AllHonest(todo)
  BY OwnReplyIs DEF ProcInv, ProcTypeOK
<1>2. Tail(todo) \in Seq(Task) /\ AllHonest(Tail(todo))
  BY <1>1, HonestTail
<1> QED BY <1>2, HonestConcat

\* The first callback starts with nothing in flight.
LEMMA InitInv ==
  ASSUME Init
  PROVE  IInv
<1>1. PICK p \in Programs : ProcInit(p)
  BY DEF Init
<1>2. p \in Seq(Task) /\ AllHonest(p) /\ todo = p
  BY <1>1, ProgramShape DEF ProcInit
<1>3. <<>> \in Seq(Entry) /\ <<>> \in Seq(ReplyOrReady) /\ <<>> \in Seq(Line)
  BY EmptySeq
<1>4. ProcTypeOK
  <2>1. todo \in Seq(Task) /\ failCount \in 0..GiveUpAfter
    BY <1>1, <1>2, GiveUpAssumption DEF ProcInit
  <2>2. pending \in Seq(Entry) /\ rbuf \in Seq(ReplyOrReady)
    BY <1>1, <1>3 DEF ProcInit
  <2>3. inPipe \in Seq(Line) /\ unwritten \in Seq(ReplyOrReady) /\ outPipe \in Seq(ReplyOrReady)
    BY <1>1, <1>3 DEF ProcInit
  <2>4. alive \in BOOLEAN /\ state \in {"dead", "starting", "ready"} /\ gaveUp \in BOOLEAN /\ exited \in BOOLEAN
    BY <1>1 DEF ProcInit
  <2> QED BY <2>1, <2>2, <2>3, <2>4 DEF ProcTypeOK
<1>5. TypeOK
  BY <1>4, ClientAssumption DEF TypeOK, Init
<1>6. ProcShape /\ Pairing
  BY <1>1 DEF ProcInit, ProcShape, Pairing
<1>7. OwnReply
  BY <1>2, OwnReplyIs
<1> QED BY <1>4, <1>5, <1>6, <1>7 DEF IInv, ProcInv

\* Each step of the client, the loop and the harness keeps the invariant.
LEMMA NextInv ==
  ASSUME IInv, [Next]_vars
  PROVE  IInv'
<1>1. ProcInv /\ TypeOK /\ LocalApart
  BY ClientApart DEF IInv
<1>2. issued \in 0..MaxAsks /\ replied \subseteq Id /\ lost \subseteq Id /\ calls \in Nat /\ todo \in Seq(Task)
  BY <1>1 DEF TypeOK, ProcTypeOK
<1>3. ASSUME UNCHANGED clientVars, ProcInv' PROVE IInv'
  BY <1>2, <1>3 DEF IInv, TypeOK, ProcInv, clientVars
<1>4. CASE Event
  <2>1. PICK p \in Programs : todo' = p
    BY <1>4 DEF Event
  <2>2. p \in Seq(Task) /\ AllHonest(p)
    BY ProgramShape
  <2>3. ProcInv'
    BY <1>1, <1>4, <2>1, <2>2, ClientInv DEF Event
  <2> QED BY <1>3, <1>4, <2>3 DEF Event
<1>5. CASE Start
  <2>1. todo # <<>>
    BY <1>5 DEF Start, Calling, Idle
  <2>2. <<>> \in Seq(Task) /\ AllHonest(<<>>)
    BY EmptySeq DEF AllHonest
  <2>3. ProcInv'
    BY <1>1, <1>5, <2>1, <2>2, StartInv DEF Start
  <2> QED BY <1>3, <1>5, <2>3 DEF Start
<1>6. CASE AskStep
  <2>1. todo # <<>> /\ Calling("ask")
    BY <1>6 DEF AskStep, Calling, Idle
  <2>2. CASE issued < MaxAsks
    <3>1. PICK h \in Handler :
            todo' = <<Send([op |-> Head(todo).kind, id |-> issued + 1], h)>> \o Tail(todo)
      BY <1>6, <2>2 DEF AskStep
    <3>2. Head(todo) \in Task /\ Head(todo).op = "ask"
      BY <1>1, <1>2, <2>1, NextCall
    <3>3. Head(todo).kind \in {"B", "C"}
      BY <3>2, ClientAssumption DEF Task, AskTask
    <3>4. issued + 1 \in Id
      BY <1>2, <2>2, ClientAssumption DEF Id
    <3> DEFINE t == Send([op |-> Head(todo).kind, id |-> issued + 1], h)
    <3>5. [op |-> Head(todo).kind, id |-> issued + 1] \in Line
      BY <3>3, <3>4, ClientAssumption
    <3>6. t \in Task /\ t.op # "call"
      BY <3>5 DEF Send, Task
    <3>7. todo' = <<t>> \o Tail(todo)
      BY <3>1
    <3> HIDE DEF t
    <3>8. <<t>> \in Seq(Task) /\ AllHonest(<<t>>)
      BY <3>6, HonestOne
    <3>9. ProcInv'
      BY <1>1, <1>6, <2>1, <3>7, <3>8, ReplaceCall, ClientInv DEF AskStep
    <3>10. issued' \in 0..MaxAsks /\ UNCHANGED <<replied, lost, calls>>
      BY <1>2, <1>6, <2>2, ClientAssumption DEF AskStep
    <3> QED BY <1>2, <3>9, <3>10 DEF IInv, TypeOK, ProcInv
  <2>3. CASE ~(issued < MaxAsks)
    <3>1. todo' = Tail(todo) /\ UNCHANGED clientVars
      BY <1>6, <2>3 DEF AskStep, clientVars
    <3>2. Tail(todo) \in Seq(Task) /\ AllHonest(Tail(todo))
      BY <1>1, <1>2, <2>1, OwnReplyIs, HonestTail DEF ProcInv
    <3>3. ProcInv'
      BY <1>1, <1>6, <3>1, <3>2, ClientInv DEF AskStep
    <3> QED BY <1>3, <3>1, <3>3
  <2> QED BY <2>2, <2>3
<1>7. ASSUME NEW p \in Programs \cup {<<>>}, todo # <<>>, todo' = p \o Tail(todo),
             UNCHANGED <<alive, state, pending, rbuf, failCount, gaveUp, childVars>>
      PROVE  ProcInv'
  <2>1. p \in Seq(Task) /\ AllHonest(p)
    BY ProgramShape
  <2>2. p \o Tail(todo) \in Seq(Task) /\ AllHonest(p \o Tail(todo))
    BY <1>1, <1>7, <2>1, ReplaceCall
  <2> QED BY <1>1, <1>7, <2>2, ClientInv
<1>8. CASE Handle
  <2>1. todo # <<>> /\ Calling("call")
    BY <1>8 DEF Handle, Calling, Idle
  <2>2. PICK p \in Programs \cup {<<>>} : todo' = p \o Tail(todo)
    BY <1>8 DEF Handle
  <2>3. ProcInv'
    BY <1>7, <1>8, <2>1, <2>2 DEF Handle
  <2>4. Head(todo).line \in Line /\ Head(todo).resp \in Reply \cup {Failed}
    BY <1>1, <1>2, <2>1, NextCall
  <2>5. \A l \in Line : l.id \in Id
    BY ClientAssumption
  <2>6. Head(todo).resp # Failed => Head(todo).resp.re \in Line
    BY <2>4 DEF Reply
  <2>7. issued' = issued /\ calls' = calls + 1
    BY <1>8 DEF Handle
  <2>8. replied' \subseteq Id /\ lost' \subseteq Id
    <3>1. CASE Head(todo).resp = Failed
      <4>1. lost' = lost \cup {Head(todo).line.id} /\ replied' = replied
        BY <1>8, <3>1 DEF Handle
      <4>2. Head(todo).line.id \in Id
        BY <2>4, <2>5
      <4> QED BY <1>2, <4>1, <4>2
    <3>2. CASE Head(todo).resp # Failed
      <4>1. replied' = replied \cup {Head(todo).resp.re.id} /\ lost' = lost
        BY <1>8, <3>2 DEF Handle
      <4>2. Head(todo).resp.re.id \in Id
        BY <2>5, <2>6, <3>2
      <4> QED BY <1>2, <4>1, <4>2
    <3> QED BY <3>1, <3>2
  <2> QED BY <1>2, <2>3, <2>7, <2>8 DEF IInv, TypeOK, ProcInv
<1>9. CASE OnExit
  <2>1. todo # <<>>
    BY <1>9 DEF OnExit, Calling, Idle
  <2>2. PICK p \in Programs \cup {<<>>} : todo' = p \o Tail(todo)
    BY <1>9 DEF OnExit
  <2>3. ProcInv'
    BY <1>7, <1>9, <2>1, <2>2 DEF OnExit
  <2> QED BY <1>3, <1>9, <2>3 DEF OnExit
<1>10. CASE ProcCalls /\ UNCHANGED clientVars
  BY <1>1, <1>3, <1>10, CallsInv
<1>11. CASE Loop
  BY <1>1, <1>3, <1>11, EventsInv DEF Loop
<1>12. CASE TakeSome \/ Write \/ Crash
  <2>1. \/ \E n \in Nat : \E texts \in [1..n -> Text] : Take(texts)
        \/ WriteLine
        \/ ChildExit
    <3>1. Len(inPipe) \in Nat
      BY <1>1, LenProperties DEF ProcInv, ProcTypeOK
    <3> QED BY <1>12, <3>1 DEF TakeSome, Write, Crash
  <2>2. ProcInv'
    BY <1>1, <2>1, HarnessInv
  <2> QED BY <1>3, <1>12, <2>2 DEF TakeSome, Write, Crash
<1>13. CASE UNCHANGED vars
  <2>1. ProcInv'
    BY <1>1, <1>13, SamePairing DEF vars, procVars, addonVars, childVars, ProcInv, ProcTypeOK, ProcShape, OwnReply
  <2> QED BY <1>3, <1>13, <2>1 DEF vars
<1> QED BY <1>4, <1>5, <1>6, <1>8, <1>9, <1>10, <1>11, <1>12, <1>13 DEF Next, Addon

\* Types, pairing, own replies and the shape of the process together are
\* inductive, whatever programs the callbacks run (wetype.cpp:204-410).
THEOREM Inductive == Spec => []IInv
<1>1. Init => IInv
  BY InitInv
<1>2. IInv /\ [Next]_vars => IInv'
  BY NextInv
<1> QED BY <1>1, <1>2, PTL DEF Spec

\* Every variable of the protocol keeps its type (wetype.cpp:399-410).
THEOREM TypeCorrect == Spec => []TypeOK
<1>1. IInv => TypeOK
  BY DEF IInv
<1> QED BY <1>1, Inductive, PTL

\* However writes, merged batches, deaths and restarts interleave, the n-th line
\* to come answers the n-th handler that waits (wetype.cpp:356-374).
THEOREM PairingHolds == Spec => []Pairing
<1>1. IInv => Pairing
  BY DEF IInv, ProcInv
<1> QED BY <1>1, Inductive, PTL

\* No handler is ever given the answer to another's request (wetype.cpp:369-373).
THEOREM OwnReplyHolds == Spec => []OwnReply
<1>1. IInv => OwnReply
  BY DEF IInv, ProcInv
<1> QED BY <1>1, Inductive, PTL

\* No process, no handler held back (wetype.cpp:309-313).
THEOREM ShapeHolds == Spec => []ProcShape
<1>1. IInv => ProcShape
  BY DEF IInv, ProcInv
<1> QED BY <1>1, Inductive, PTL

----------------------------------------------------------------------------
(* Every request held once.  The stack and pending_ together hold each open *)
(* request, in one place; pending_ holds them in the order of their issue;  *)
(* and a request is written, or answered, only on top of a stack on which   *)
(* nothing else is being written or answered.                               *)

Asks(c)    == c.op \in {"send", "call"}
Ids(s)     == {s[i].line.id : i \in {k \in DOMAIN s : Asks(s[k])}}
Apart(s)   == \A i, j \in DOMAIN s : Asks(s[i]) /\ Asks(s[j]) /\ s[i].line.id = s[j].line.id => i = j
WaitIds(p) == {p[i].line.id : i \in DOMAIN p}
InOrder(p) == \A i, j \in DOMAIN p : i < j => p[i].line.id < p[j].line.id

HeldOnce(s, p, open) ==
  /\ Ids(s) \cup WaitIds(p) = open
  /\ Ids(s) \cap WaitIds(p) = {}
  /\ Apart(s) /\ InOrder(p)

\* Calls that are neither being written nor telling a reply, nor "lines", which
\* can only be the last.
Quiet  == {c \in Task : /\ c.op \notin {"send", "lines"}
                        /\ c.op = "call" => c.resp = Failed}
Floor  == {<<>>, <<Do("lines")>>}
Stacks == {s \in Seq(Task) : \E q \in Seq(Quiet), f \in Floor : s = q \o f}

Replying(c) == c.op = "call" /\ c.resp # Failed
StackShape ==
  \/ todo \in Stacks
  \/ todo # <<>> /\ Tail(todo) \in Stacks /\ Head(todo).op = "send" /\ Head(todo).line.id = issued
  \/ /\ todo # <<>> /\ Tail(todo) = <<Do("lines")>> /\ Replying(Head(todo))
     /\ \A k \in WaitIds(pending) : Head(todo).line.id < k

HeldInv == HeldOnce(todo, pending, Calls!Open) /\ StackShape

\* What two stacks hold, one on the other.
LEMMA IdsConcat ==
  ASSUME NEW s \in Seq(Task), NEW t \in Seq(Task)
  PROVE  /\ Ids(s \o t) = Ids(s) \cup Ids(t)
         /\ Apart(s \o t) <=> Apart(s) /\ Apart(t) /\ Ids(s) \cap Ids(t) = {}
<1>1. /\ s \o t \in Seq(Task) /\ Len(s \o t) = Len(s) + Len(t)
      /\ \A i \in 1..(Len(s) + Len(t)) : (s \o t)[i] = IF i <= Len(s) THEN s[i] ELSE t[i - Len(s)]
  BY ConcatProperties
<1>2. /\ Len(s) \in Nat /\ Len(t) \in Nat /\ DOMAIN s = 1..Len(s) /\ DOMAIN t = 1..Len(t)
      /\ DOMAIN (s \o t) = 1..(Len(s) + Len(t))
  BY <1>1, LenProperties
<1> DEFINE u == s \o t
<1>3. \A i \in DOMAIN s : i \in DOMAIN u /\ u[i] = s[i]
  BY <1>1, <1>2
<1>4. \A j \in DOMAIN t : j + Len(s) \in DOMAIN u /\ u[j + Len(s)] = t[j]
  BY <1>1, <1>2
<1>5. \A i \in DOMAIN u : i \in DOMAIN s \/ (i - Len(s) \in DOMAIN t /\ i = (i - Len(s)) + Len(s))
  BY <1>2
<1>6. \A i \in DOMAIN s, j \in DOMAIN t : i # j + Len(s)
  BY <1>2
<1>7. \A i, j \in DOMAIN t : i + Len(s) = j + Len(s) => i = j
  BY <1>2
<1> HIDE DEF u
<1>8. Ids(u) = Ids(s) \cup Ids(t)
  <2>1. Ids(u) \subseteq Ids(s) \cup Ids(t)
    BY <1>3, <1>4, <1>5 DEF Ids
  <2>2. Ids(s) \subseteq Ids(u)
    BY <1>3 DEF Ids
  <2>3. Ids(t) \subseteq Ids(u)
    BY <1>4 DEF Ids
  <2> QED BY <2>1, <2>2, <2>3
<1>9. ASSUME Apart(u) PROVE Apart(s) /\ Apart(t) /\ Ids(s) \cap Ids(t) = {}
  <2>1. Apart(s)
    BY <1>3, <1>9 DEF Apart
  <2>2. Apart(t)
    BY <1>4, <1>7, <1>9 DEF Apart
  <2>3. ASSUME NEW x \in Ids(s) \cap Ids(t) PROVE FALSE
    <3>1. PICK i \in DOMAIN s : Asks(s[i]) /\ s[i].line.id = x
      BY <2>3 DEF Ids
    <3>2. PICK j \in DOMAIN t : Asks(t[j]) /\ t[j].line.id = x
      BY <2>3 DEF Ids
    <3> QED BY <1>3, <1>4, <1>6, <1>9, <3>1, <3>2 DEF Apart
  <2> QED BY <2>1, <2>2, <2>3
<1>10. ASSUME Apart(s), Apart(t), Ids(s) \cap Ids(t) = {} PROVE Apart(u)
  <2> SUFFICES ASSUME NEW i \in DOMAIN u, NEW j \in DOMAIN u,
                      Asks(u[i]), Asks(u[j]), u[i].line.id = u[j].line.id
               PROVE  i = j
    BY DEF Apart
  <2>1. CASE i \in DOMAIN s /\ j \in DOMAIN s
    BY <1>3, <1>10, <2>1 DEF Apart
  <2>2. CASE i \in DOMAIN s /\ j \notin DOMAIN s
    <3>1. u[i].line.id \in Ids(s)
      BY <1>3, <2>2 DEF Ids
    <3>2. u[j].line.id \in Ids(t)
      BY <1>4, <1>5, <2>2 DEF Ids
    <3> QED BY <1>10, <3>1, <3>2
  <2>3. CASE i \notin DOMAIN s /\ j \in DOMAIN s
    <3>1. u[j].line.id \in Ids(s)
      BY <1>3, <2>3 DEF Ids
    <3>2. u[i].line.id \in Ids(t)
      BY <1>4, <1>5, <2>3 DEF Ids
    <3> QED BY <1>10, <3>1, <3>2
  <2>4. CASE i \notin DOMAIN s /\ j \notin DOMAIN s
    <3>1. i - Len(s) \in DOMAIN t /\ j - Len(s) \in DOMAIN t
      BY <1>5, <2>4
    <3>2. u[i] = t[i - Len(s)] /\ u[j] = t[j - Len(s)]
      BY <1>4, <1>5, <2>4
    <3>3. i - Len(s) = j - Len(s)
      BY <1>10, <3>1, <3>2 DEF Apart
    <3> QED BY <1>5, <2>4, <3>3
  <2> QED BY <2>1, <2>2, <2>3, <2>4
<1> QED BY <1>8, <1>9, <1>10 DEF u

\* A stack of one call.
LEMMA IdsOne ==
  ASSUME NEW c \in Task
  PROVE  /\ <<c>> \in Seq(Task) /\ Apart(<<c>>)
         /\ Ids(<<c>>) = IF Asks(c) THEN {c.line.id} ELSE {}
<1> DEFINE s == <<c>>
<1>1. s \in Seq(Task) /\ DOMAIN s = {1} /\ s[1] = c
  OBVIOUS
<1> HIDE DEF s
<1>2. Apart(s)
  BY <1>1 DEF Apart
<1>3. Ids(s) = IF Asks(c) THEN {c.line.id} ELSE {}
  BY <1>1 DEF Ids
<1> QED BY <1>1, <1>2, <1>3 DEF s

\* A stack that asks nothing.
LEMMA IdsNone ==
  ASSUME NEW s \in Seq(Task), \A i \in 1..Len(s) : ~Asks(s[i])
  PROVE  Ids(s) = {} /\ Apart(s)
<1>1. DOMAIN s = 1..Len(s)
  BY LenProperties
<1> QED BY <1>1 DEF Ids, Apart

\* The call at hand and the rest of the stack.
LEMMA IdsCons ==
  ASSUME NEW s \in Seq(Task), s # <<>>
  PROVE  /\ Head(s) \in Task /\ Tail(s) \in Seq(Task)
         /\ Ids(s) = Ids(<<Head(s)>>) \cup Ids(Tail(s))
         /\ Apart(s) <=> Apart(Tail(s)) /\ Ids(<<Head(s)>>) \cap Ids(Tail(s)) = {}
<1>1. Head(s) \in Task /\ Tail(s) \in Seq(Task) /\ s = <<Head(s)>> \o Tail(s)
  BY HeadAndTail
<1>2. <<Head(s)>> \in Seq(Task) /\ Apart(<<Head(s)>>)
  BY <1>1, IdsOne
<1> HIDE DEF Ids, Apart
<1>3. /\ Ids(<<Head(s)>> \o Tail(s)) = Ids(<<Head(s)>>) \cup Ids(Tail(s))
      /\ Apart(<<Head(s)>> \o Tail(s)) <=>
           Apart(<<Head(s)>>) /\ Apart(Tail(s)) /\ Ids(<<Head(s)>>) \cap Ids(Tail(s)) = {}
  BY <1>1, <1>2, IdsConcat
<1> QED BY <1>1, <1>2, <1>3

\* The call at hand replaced by calls that hold what it held.
LEMMA HeldSwap ==
  ASSUME todo \in Seq(Task), todo # <<>>, NEW p, NEW open, HeldOnce(todo, p, open),
         NEW q \in Seq(Task), Apart(q), Ids(q) = Ids(<<Head(todo)>>)
  PROVE  HeldOnce(q \o Tail(todo), p, open)
<1>1. /\ Tail(todo) \in Seq(Task) /\ Ids(todo) = Ids(q) \cup Ids(Tail(todo))
      /\ Apart(Tail(todo)) /\ Ids(q) \cap Ids(Tail(todo)) = {}
  BY IdsCons DEF HeldOnce
<1>2. Ids(q \o Tail(todo)) = Ids(todo) /\ Apart(q \o Tail(todo))
  BY <1>1, IdsConcat
<1> QED BY <1>2 DEF HeldOnce

\* Requests in order are held once each.
LEMMA WaitAppend ==
  ASSUME NEW p \in Seq(Entry), NEW e \in Entry, InOrder(p),
         \A k \in WaitIds(p) : k < e.line.id
  PROVE  InOrder(Append(p, e)) /\ WaitIds(Append(p, e)) = WaitIds(p) \cup {e.line.id}
<1> DEFINE q == Append(p, e)
<1>1. /\ q \in Seq(Entry) /\ Len(q) = Len(p) + 1 /\ q[Len(p) + 1] = e
      /\ \A i \in 1..Len(p) : q[i] = p[i]
  BY AppendProperties
<1>2. Len(p) \in Nat /\ DOMAIN p = 1..Len(p) /\ DOMAIN q = 1..(Len(p) + 1)
  BY <1>1, LenProperties
<1> HIDE DEF q
<1>3. InOrder(q)
  <2> SUFFICES ASSUME NEW i \in DOMAIN q, NEW j \in DOMAIN q, i < j
               PROVE  q[i].line.id < q[j].line.id
    BY DEF InOrder
  <2>1. i \in DOMAIN p
    BY <1>2
  <2>2. CASE j \in DOMAIN p
    BY <1>1, <1>2, <2>1, <2>2 DEF InOrder
  <2>3. CASE j \notin DOMAIN p
    <3>1. j = Len(p) + 1
      BY <1>2, <2>3
    <3>2. p[i].line.id \in WaitIds(p)
      BY <2>1 DEF WaitIds
    <3> QED BY <1>1, <1>2, <2>1, <3>1, <3>2
  <2> QED BY <2>2, <2>3
<1>4. WaitIds(q) = WaitIds(p) \cup {e.line.id}
  <2>1. DOMAIN q = DOMAIN p \cup {Len(p) + 1}
    BY <1>2
  <2> QED BY <1>1, <1>2, <2>1 DEF WaitIds
<1> QED BY <1>3, <1>4 DEF q

\* The oldest request and those behind it.
LEMMA WaitCons ==
  ASSUME NEW p \in Seq(Entry), p # <<>>, InOrder(p)
  PROVE  /\ InOrder(Tail(p)) /\ Head(p).line.id \in Id
         /\ WaitIds(p) = {Head(p).line.id} \cup WaitIds(Tail(p))
         /\ \A k \in WaitIds(Tail(p)) : k \in Id /\ Head(p).line.id < k
<1> DEFINE q == Tail(p)
<1>1. /\ Head(p) \in Entry /\ q \in Seq(Entry) /\ Len(q) = Len(p) - 1 /\ Head(p) = p[1]
      /\ \A i \in 1..Len(q) : q[i] = p[i + 1]
  BY HeadTailProperties
<1>2. Len(p) \in Nat \ {0} /\ DOMAIN p = 1..Len(p) /\ DOMAIN q = 1..(Len(p) - 1)
  BY <1>1, LenProperties, EmptySeq
<1> HIDE DEF q
<1>3. \A e \in Entry : e.line.id \in Id
  BY ClientAssumption DEF Entry
<1>4. \A i \in DOMAIN q : i + 1 \in DOMAIN p /\ q[i] = p[i + 1] /\ 1 < i + 1
  BY <1>1, <1>2
<1>5. \A i \in DOMAIN p : i = 1 \/ (i - 1 \in DOMAIN q /\ q[i - 1] = p[i])
  BY <1>1, <1>2
<1>6. 1 \in DOMAIN p
  BY <1>2
<1>7. InOrder(q)
  <2>1. \A i, j \in DOMAIN q : i < j => i + 1 < j + 1
    BY <1>2
  <2> QED BY <1>4, <2>1 DEF InOrder
<1>8. \A k \in WaitIds(q) : k \in Id /\ Head(p).line.id < k
  <2> SUFFICES ASSUME NEW i \in DOMAIN q PROVE q[i].line.id \in Id /\ Head(p).line.id < q[i].line.id
    BY DEF WaitIds
  <2>1. q[i] \in Entry
    BY <1>1, <1>2, ElementOfSeq
  <2>2. p[1].line.id < p[i + 1].line.id
    BY <1>4, <1>6 DEF InOrder
  <2> QED BY <1>1, <1>3, <1>4, <2>1, <2>2
<1>9. WaitIds(p) = {Head(p).line.id} \cup WaitIds(q)
  <2>1. WaitIds(p) \subseteq {Head(p).line.id} \cup WaitIds(q)
    BY <1>1, <1>5 DEF WaitIds
  <2>2. Head(p).line.id \in WaitIds(p)
    BY <1>1, <1>6 DEF WaitIds
  <2>3. WaitIds(q) \subseteq WaitIds(p)
    BY <1>4 DEF WaitIds
  <2> QED BY <2>1, <2>2, <2>3
<1> QED BY <1>1, <1>3, <1>7, <1>8, <1>9 DEF q

\* stop() puts on the stack what was in pending_.
LEMMA WaitFail ==
  ASSUME pending \in Seq(Entry), InOrder(pending)
  PROVE  /\ FailPendingHandlers \in Seq(Quiet)
         /\ Ids(FailPendingHandlers) = WaitIds(pending) /\ Apart(FailPendingHandlers)
<1> DEFINE f == FailPendingHandlers
<1>1. /\ f \in Seq(Task) /\ Len(f) = Len(pending)
      /\ \A i \in 1..Len(pending) : f[i] = Call(pending[i], Failed)
  BY FailShape
<1>2. Len(pending) \in Nat /\ DOMAIN pending = 1..Len(pending) /\ DOMAIN f = 1..Len(pending)
  BY <1>1, LenProperties
<1> HIDE DEF f
<1>3. \A i \in DOMAIN f : i \in DOMAIN pending /\ Asks(f[i]) /\ f[i].line.id = pending[i].line.id
                          /\ f[i].op = "call" /\ f[i].resp = Failed
  BY <1>1, <1>2 DEF Asks, Call
<1>4. Ids(f) = WaitIds(pending)
  BY <1>2, <1>3 DEF Ids, WaitIds
<1>5. Apart(f)
  <2> SUFFICES ASSUME NEW i \in DOMAIN f, NEW j \in DOMAIN f, f[i].line.id = f[j].line.id
               PROVE  i = j
    BY DEF Apart
  <2>1. pending[i].line.id = pending[j].line.id /\ pending[i].line.id \in Nat
    <3>1. pending[i] \in Entry
      BY <1>2, ElementOfSeq
    <3> QED BY <1>3, <3>1, ClientAssumption DEF Entry, Id
  <2>2. ~(i < j) /\ ~(j < i)
    BY <1>3, <2>1 DEF InOrder
  <2> QED BY <1>2, <2>2
<1>6. f \in Seq(Quiet)
  <2>1. \A i \in 1..Len(f) : f[i] \in Quiet
    BY <1>1, <1>2, <1>3, ElementOfSeq DEF Quiet
  <2> QED BY <1>1, <2>1
<1> QED BY <1>4, <1>5, <1>6 DEF f

----------------------------------------------------------------------------
(* Stacks of quiet calls, "lines" perhaps at the bottom.                   *)

LEMMA FloorShape ==
  /\ Floor \subseteq Seq(Task)
  /\ \A f \in Floor : f # <<>> => Head(f) = Do("lines") /\ Tail(f) = <<>>
<1>1. Do("lines") \in Task
  BY DEF Do, Task
<1> QED BY <1>1, IdsOne, EmptySeq DEF Floor

LEMMA QuietTask == \A s \in Seq(Quiet) : s \in Seq(Task)
<1>1. Quiet \subseteq Task
  BY DEF Quiet
<1> QED BY <1>1, SeqMonotonic

LEMMA StackOf ==
  ASSUME NEW q \in Seq(Quiet), NEW f \in Floor
  PROVE  q \o f \in Stacks
<1>1. q \in Seq(Task) /\ f \in Seq(Task)
  BY FloorShape, QuietTask
<1>2. q \o f \in Seq(Task)
  BY <1>1, ConcatProperties
<1> QED BY <1>2 DEF Stacks

\* Quiet calls on top of a stack make a stack.
LEMMA StackPush ==
  ASSUME NEW q \in Seq(Quiet), NEW s \in Stacks
  PROVE  q \o s \in Stacks /\ s \in Seq(Task) /\ q \in Seq(Task)
<1>1. PICK r \in Seq(Quiet), f \in Floor : s = r \o f
  BY DEF Stacks
<1>2. q \in Seq(Task) /\ r \in Seq(Task) /\ f \in Seq(Task)
  BY FloorShape, QuietTask
<1>3. q \o s = (q \o r) \o f
  BY <1>1, <1>2, Assoc
<1>4. q \o r \in Seq(Quiet)
  BY ConcatProperties
<1>5. s \in Seq(Task)
  BY <1>1, <1>2, ConcatProperties
<1> QED BY <1>1, <1>2, <1>3, <1>4, <1>5, StackOf

\* The floor itself is a stack, and quiet calls are.
LEMMA StackFloor == Floor \subseteq Stacks /\ Seq(Quiet) \subseteq Stacks
<1>1. \A f \in Floor : f \in Seq(Task) /\ <<>> \o f = f
  BY FloorShape, ConcatEmptySeq
<1>2. \A s \in Seq(Quiet) : s \o <<>> = s
  BY ConcatEmptySeq
<1>3. <<>> \in Seq(Quiet) /\ <<>> \in Floor
  BY EmptySeq DEF Floor
<1>4. Floor \subseteq Stacks
  <2> SUFFICES ASSUME NEW f \in Floor PROVE f \in Stacks
    OBVIOUS
  <2>1. <<>> \o f \in Stacks
    BY <1>3, StackOf
  <2> QED BY <1>1, <2>1
<1>5. Seq(Quiet) \subseteq Stacks
  <2> SUFFICES ASSUME NEW s \in Seq(Quiet) PROVE s \in Stacks
    OBVIOUS
  <2>1. s \o <<>> \in Stacks
    BY <1>3, StackOf
  <2> QED BY <1>2, <2>1
<1> QED BY <1>4, <1>5

\* The first of two sequences, not empty, is what its concatenation starts with.
LEMMA ConcatFront ==
  ASSUME NEW S, NEW s \in Seq(S), NEW t \in Seq(S), s # <<>>
  PROVE  s \o t # <<>> /\ Head(s \o t) = Head(s) /\ Tail(s \o t) = Tail(s) \o t
<1>1. Head(s) \in S /\ Tail(s) \in Seq(S) /\ s = <<Head(s)>> \o Tail(s)
  BY HeadAndTail
<1>2. <<Head(s)>> \in Seq(S)
  BY <1>1
<1>3. s \o t = <<Head(s)>> \o (Tail(s) \o t)
  BY <1>1, <1>2, Assoc
<1>4. Tail(s) \o t \in Seq(S) /\ s \o t \in Seq(S)
  BY <1>1, ConcatProperties
<1>5. s \o t # <<>>
  BY ConcatSimplifications!concIsEmpty
<1>6. Head(s \o t) \in S /\ Tail(s \o t) \in Seq(S) /\ s \o t = <<Head(s \o t)>> \o Tail(s \o t)
  BY <1>4, <1>5, HeadAndTail
<1> QED BY <1>1, <1>3, <1>4, <1>5, <1>6, ConsInjective

\* Below the call at hand there is a stack; nothing is below "lines".
LEMMA StackPop ==
  ASSUME NEW s \in Stacks, s # <<>>
  PROVE  /\ Tail(s) \in Stacks /\ Head(s) \in Quiet \cup {Do("lines")}
         /\ Head(s).op = "lines" => Tail(s) = <<>>
<1>1. PICK r \in Seq(Quiet), f \in Floor : s = r \o f
  BY DEF Stacks
<1>2. r \in Seq(Task) /\ f \in Seq(Task)
  BY FloorShape, QuietTask
<1>3. CASE r = <<>>
  <2>1. s = f
    BY <1>1, <1>2, <1>3, ConcatEmptySeq
  <2>2. Head(s) = Do("lines") /\ Tail(s) = <<>>
    BY <2>1, FloorShape
  <2>3. <<>> \in Stacks
    BY StackFloor DEF Floor
  <2> QED BY <2>2, <2>3
<1>4. CASE r # <<>>
  <2>1. Head(s) = Head(r) /\ Tail(s) = Tail(r) \o f
    BY <1>1, <1>2, <1>4, ConcatFront
  <2>2. Head(r) \in Quiet /\ Tail(r) \in Seq(Quiet)
    BY <1>4, HeadTailProperties
  <2>3. Head(s).op # "lines"
    BY <2>1, <2>2 DEF Quiet
  <2> QED BY <2>1, <2>2, <2>3, StackOf
<1> QED BY <1>3, <1>4

----------------------------------------------------------------------------
(* The steps.                                                              *)

\* A callback's program neither sends nor tells a reply: it asks later.
LEMMA ProgramQuiet ==
  ASSUME NEW p \in Programs \cup {<<>>}
  PROVE  p \in Seq(Quiet) /\ Ids(p) = {} /\ Apart(p)
<1>1. p \in Seq(AskTask \cup [op: {"start", "stop"}])
  BY ClientAssumption, EmptySeq
<1>2. \A c \in AskTask \cup [op: {"start", "stop"}] : c \in Quiet /\ ~Asks(c)
  BY ClientAssumption DEF AskTask, Quiet, Asks, Task
<1>3. AskTask \cup [op: {"start", "stop"}] \subseteq Quiet
  BY <1>2
<1>4. p \in Seq(Quiet)
  BY <1>1, <1>3, SeqMonotonic
<1>5. \A i \in 1..Len(p) : ~Asks(p[i])
  BY <1>1, <1>2, ElementOfSeq
<1> QED BY <1>4, <1>5, IdsNone, QuietTask

\* The call at hand, and what is below it.
LEMMA TopOfStack ==
  ASSUME TypeOK, HeldInv, todo # <<>>
  PROVE  /\ Head(todo) \in Task /\ Tail(todo) \in Stacks
         /\ Head(todo).op = "send" => Head(todo).line.id = issued
         /\ Head(todo).op = "lines" => Tail(todo) = <<>>
         /\ Replying(Head(todo)) => /\ Tail(todo) = <<Do("lines")>>
                                    /\ \A k \in WaitIds(pending) : Head(todo).line.id < k
<1>1. Head(todo) \in Task
  BY HeadAndTail DEF TypeOK, ProcTypeOK
<1>2. StackShape
  BY DEF HeldInv
<1>3. CASE todo \in Stacks
  <2>1. /\ Tail(todo) \in Stacks /\ Head(todo) \in Quiet \cup {Do("lines")}
        /\ Head(todo).op = "lines" => Tail(todo) = <<>>
    BY <1>3, StackPop
  <2>2. Head(todo).op # "send" /\ ~Replying(Head(todo))
    BY <2>1 DEF Quiet, Do, Replying
  <2> QED BY <1>1, <2>1, <2>2
<1>4. CASE Tail(todo) \in Stacks /\ Head(todo).op = "send" /\ Head(todo).line.id = issued
  BY <1>1, <1>4 DEF Replying
<1>5. CASE /\ Tail(todo) = <<Do("lines")>> /\ Replying(Head(todo))
           /\ \A k \in WaitIds(pending) : Head(todo).line.id < k
  <2>1. Tail(todo) \in Stacks
    BY <1>5, StackFloor DEF Floor
  <2> QED BY <1>1, <1>5, <2>1 DEF Replying
<1> QED BY <1>2, <1>3, <1>4, <1>5 DEF StackShape

\* A call replaced by quiet calls that hold what it held.
LEMMA QuietStep ==
  ASSUME TypeOK, HeldInv, todo # <<>>,
         NEW q \in Seq(Quiet), Apart(q), Ids(q) = Ids(<<Head(todo)>>),
         todo' = q \o Tail(todo), UNCHANGED <<pending, issued, replied, lost>>
  PROVE  HeldInv'
<1>1. todo \in Seq(Task) /\ q \in Seq(Task)
  BY QuietTask DEF TypeOK, ProcTypeOK
<1>2. HeldOnce(todo', pending, Calls!Open)
  BY <1>1, HeldSwap DEF HeldInv
<1>3. todo' \in Stacks
  BY TopOfStack, StackPush
<1>4. Calls!Open' = Calls!Open
  BY DEF Calls!Open
<1> QED BY <1>2, <1>3, <1>4 DEF HeldInv, StackShape

\* A call that asks nothing replaced by calls that ask nothing.
LEMMA SilentStep ==
  ASSUME TypeOK, HeldInv, todo # <<>>, ~Asks(Head(todo)),
         NEW q \in Seq(Quiet), \A i \in 1..Len(q) : ~Asks(q[i]),
         todo' = q \o Tail(todo), UNCHANGED <<pending, issued, replied, lost>>
  PROVE  HeldInv'
<1>1. Ids(q) = {} /\ Apart(q)
  BY IdsNone, QuietTask
<1>2. Ids(<<Head(todo)>>) = {}
  BY IdsOne, TopOfStack
<1> QED BY <1>1, <1>2, QuietStep

\* A call that asks nothing taken off the stack.
LEMMA PopStep ==
  ASSUME TypeOK, HeldInv, todo # <<>>, ~Asks(Head(todo)),
         todo' = Tail(todo), UNCHANGED <<pending, issued, replied, lost>>
  PROVE  HeldInv'
<1>1. Tail(todo) \in Seq(Task)
  BY HeadAndTail DEF TypeOK, ProcTypeOK
<1> DEFINE q == <<>>
<1>2. q \in Seq(Quiet) /\ Len(q) = 0 /\ q \o Tail(todo) = Tail(todo)
  BY <1>1, EmptySeq, ConcatEmptySeq
<1> HIDE DEF q
<1>3. \A i \in 1..Len(q) : ~Asks(q[i])
  BY <1>2
<1> QED BY <1>2, <1>3, SilentStep

\* Nothing that matters changes.
LEMMA SameHeld ==
  ASSUME HeldInv, UNCHANGED <<todo, pending, issued, replied, lost>>
  PROVE  HeldInv'
<1>1. Calls!Open' = Calls!Open
  BY DEF Calls!Open
<1>2. HeldOnce(todo', pending', Calls!Open')
  BY <1>1 DEF HeldInv
<1>3. StackShape'
  BY DEF HeldInv, StackShape
<1> QED BY <1>2, <1>3 DEF HeldInv

\* The loop dispatches an event: the stack was empty, and asks nothing.
LEMMA EventStep ==
  ASSUME HeldInv, Idle, NEW q \in Stacks, \A i \in 1..Len(q) : ~Asks(q[i]), todo' = q,
         UNCHANGED <<pending, issued, replied, lost>>
  PROVE  HeldInv'
<1>1. <<>> \in Seq(Task) /\ q \in Seq(Task) /\ Len(<<>>) = 0
  BY EmptySeq DEF Stacks
<1>2. Ids(<<>>) = {} /\ Ids(q) = {} /\ Apart(q)
  <2>1. Ids(q) = {} /\ Apart(q)
    BY <1>1, IdsNone
  <2>2. Ids(<<>>) = {}
    BY DEF Ids
  <2> QED BY <2>1, <2>2
<1>3. HeldOnce(q, pending, Calls!Open)
  BY <1>2 DEF HeldInv, HeldOnce, Idle
<1>4. Calls!Open' = Calls!Open
  BY DEF Calls!Open
<1> QED BY <1>3, <1>4 DEF HeldInv, StackShape

\* stop(): what was in pending_ goes on the stack.
LEMMA StopHeld ==
  ASSUME TypeOK, HeldInv, Stop, UNCHANGED clientVars
  PROVE  HeldInv'
<1> DEFINE f == FailPendingHandlers
<1>1. /\ todo # <<>> /\ Head(todo).op = "stop" /\ todo' = f \o Tail(todo) /\ pending' = <<>>
      /\ UNCHANGED <<issued, replied, lost>>
  BY DEF Stop, Calling, Idle, clientVars
<1>2. todo \in Seq(Task) /\ pending \in Seq(Entry)
  BY DEF TypeOK, ProcTypeOK
<1>3. HeldOnce(todo, pending, Calls!Open) /\ Tail(todo) \in Stacks /\ Head(todo) \in Task
  BY <1>1, TopOfStack DEF HeldInv
<1>4. f \in Seq(Quiet) /\ f \in Seq(Task) /\ Ids(f) = WaitIds(pending) /\ Apart(f)
  BY <1>2, <1>3, WaitFail, QuietTask DEF HeldOnce
<1> HIDE DEF f
<1>5. Ids(<<Head(todo)>>) = {}
  BY <1>1, <1>3, IdsOne DEF Asks
<1>6. Tail(todo) \in Seq(Task) /\ Ids(todo) = Ids(Tail(todo)) /\ Apart(Tail(todo))
  <2>1. Apart(todo)
    BY <1>3 DEF HeldOnce
  <2>2. /\ Tail(todo) \in Seq(Task) /\ Ids(todo) = {} \cup Ids(Tail(todo))
        /\ Apart(Tail(todo))
    BY <1>1, <1>2, <1>5, <2>1, IdsCons
  <2> QED BY <2>2
<1>7. Ids(f \o Tail(todo)) = Calls!Open /\ Apart(f \o Tail(todo))
  <2>1. /\ Ids(Tail(todo)) \cup WaitIds(pending) = Calls!Open
        /\ Ids(Tail(todo)) \cap WaitIds(pending) = {}
    BY <1>3, <1>6 DEF HeldOnce
  <2>2. Ids(f) \cap Ids(Tail(todo)) = {} /\ Ids(f) \cup Ids(Tail(todo)) = Calls!Open
    BY <1>4, <2>1
  <2> QED BY <1>4, <1>6, <2>2, IdsConcat
<1>8. WaitIds(<<>>) = {} /\ InOrder(<<>>)
  BY DEF WaitIds, InOrder
<1>9. todo' \in Stacks
  BY <1>1, <1>3, <1>4, StackPush
<1>10. HeldOnce(todo', pending', Calls!Open)
  BY <1>1, <1>7, <1>8 DEF HeldOnce
<1>11. Calls!Open' = Calls!Open
  BY <1>1 DEF Calls!Open
<1> QED BY <1>9, <1>10, <1>11 DEF HeldInv, StackShape

\* send() to a process that takes the line: the newest request joins pending_.
LEMMA WrittenHeld ==
  ASSUME TypeOK, HeldInv, LocalApart, SendWritten, UNCHANGED clientVars
  PROVE  HeldInv'
<1> DEFINE e == [line |-> Head(todo).line, h |-> Head(todo).h]
<1>1. /\ todo # <<>> /\ Head(todo).op = "send" /\ todo' = Tail(todo) /\ pending' = Append(pending, e)
      /\ UNCHANGED <<issued, replied, lost>>
  BY DEF SendWritten, Calling, Idle, clientVars
<1>2. todo \in Seq(Task) /\ pending \in Seq(Entry) /\ issued \in Nat
  BY ClientAssumption DEF TypeOK, ProcTypeOK
<1>3. e \in Entry /\ e.line.id = issued
  <2>1. Head(todo).line \in Line /\ Head(todo).h \in Handler
    BY <1>1, <1>2, NextCall DEF SendWritten
  <2> QED BY <1>1, <2>1, TopOfStack DEF Entry
<1>4. /\ HeldOnce(todo, pending, Calls!Open) /\ Tail(todo) \in Stacks /\ Head(todo) \in Task
  BY <1>1, TopOfStack DEF HeldInv
<1>5. Ids(<<Head(todo)>>) = {issued}
  BY <1>1, <1>3, <1>4, IdsOne DEF Asks
<1>6. /\ Ids(todo) = {issued} \cup Ids(Tail(todo)) /\ Apart(Tail(todo))
      /\ issued \notin Ids(Tail(todo))
  BY <1>1, <1>2, <1>4, <1>5, IdsCons DEF HeldOnce
<1> HIDE DEF e
<1>7. \A k \in WaitIds(pending) : k < e.line.id
  <2>1. WaitIds(pending) \subseteq 1..issued /\ issued \notin WaitIds(pending)
    BY <1>4, <1>6 DEF HeldOnce, Calls!Open
  <2> QED BY <1>2, <1>3, <2>1
<1>8. InOrder(pending') /\ WaitIds(pending') = WaitIds(pending) \cup {issued}
  BY <1>1, <1>2, <1>3, <1>4, <1>7, WaitAppend DEF HeldOnce
<1>9. HeldOnce(todo', pending', Calls!Open)
  BY <1>1, <1>4, <1>6, <1>8 DEF HeldOnce
<1>10. Calls!Open' = Calls!Open
  BY <1>1 DEF Calls!Open
<1> QED BY <1>1, <1>4, <1>9, <1>10 DEF HeldInv, StackShape

\* A line answers the oldest request: it leaves pending_ for the stack.
LEMMA AnswerHeld ==
  ASSUME TypeOK, ProcInv, HeldInv, LineAnswers, UNCHANGED clientVars
  PROVE  HeldInv'
<1> DEFINE c == Call(Head(pending), Head(rbuf))
<1>1. /\ todo # <<>> /\ Head(todo).op = "lines" /\ todo' = <<c>> \o todo /\ pending' = Tail(pending)
      /\ pending # <<>> /\ UNCHANGED <<issued, replied, lost>>
  BY DEF LineAnswers, Calling, Idle, clientVars
<1>2. todo \in Seq(Task) /\ pending \in Seq(Entry)
  BY DEF TypeOK, ProcTypeOK
<1>3. Head(pending) \in Entry /\ Head(rbuf) \in Reply
  BY <1>1, OldestFirst, WaitFront DEF LineAnswers, ProcInv, ProcTypeOK
<1>4. c \in Task /\ Asks(c) /\ Replying(c) /\ c.line.id = Head(pending).line.id
  BY <1>3, GhostAssumption DEF Call, Task, Entry, Asks, Replying, Reply
<1>5. /\ HeldOnce(todo, pending, Calls!Open) /\ Tail(todo) = <<>> /\ todo = <<Head(todo)>> \o Tail(todo)
  BY <1>1, <1>2, TopOfStack, HeadAndTail DEF HeldInv
<1>6. Head(todo) = Do("lines")
  <2>1. Head(todo) \in Task /\ Head(todo).op = "lines"
    BY <1>1, TopOfStack
  <2> QED BY <2>1, ClientAssumption DEF Task, AskTask, Do
<1>7. todo = <<Do("lines")>>
  <2>1. Do("lines") \in Task
    BY DEF Do, Task
  <2>2. <<Do("lines")>> \o <<>> = <<Do("lines")>>
    BY <2>1
  <2> QED BY <1>5, <1>6, <2>2
<1> HIDE DEF c
<1>8. Ids(<<c>>) = {c.line.id} /\ <<c>> \in Seq(Task) /\ Apart(<<c>>)
  BY <1>4, IdsOne
<1>9. Ids(todo) = {} /\ Apart(todo)
  <2>1. Do("lines") \in Task /\ ~Asks(Do("lines"))
    BY DEF Do, Task, Asks
  <2> QED BY <1>7, <2>1, IdsOne
<1>10. Ids(todo') = {c.line.id} /\ Apart(todo')
  <2>1. Ids(<<c>>) \cap Ids(todo) = {} /\ Ids(<<c>>) \cup Ids(todo) = {c.line.id}
    BY <1>8, <1>9
  <2>2. Ids(<<c>> \o todo) = {c.line.id} /\ Apart(<<c>> \o todo)
    BY <1>2, <1>8, <1>9, <2>1, IdsConcat
  <2> QED BY <1>1, <2>2
<1>11. /\ InOrder(Tail(pending)) /\ WaitIds(pending) = {c.line.id} \cup WaitIds(Tail(pending))
       /\ \A k \in WaitIds(Tail(pending)) : c.line.id < k
       /\ c.line.id \notin WaitIds(Tail(pending))
  <2>1. InOrder(pending)
    BY <1>5 DEF HeldOnce
  <2>2. /\ InOrder(Tail(pending)) /\ Head(pending).line.id \in Id
        /\ WaitIds(pending) = {Head(pending).line.id} \cup WaitIds(Tail(pending))
        /\ \A k \in WaitIds(Tail(pending)) : k \in Id /\ Head(pending).line.id < k
    BY <1>1, <1>2, <2>1, WaitCons
  <2>3. \A k \in Id : ~(k < k)
    BY DEF Id
  <2> QED BY <1>4, <2>2, <2>3
<1>12. HeldOnce(todo', pending', Calls!Open)
  BY <1>1, <1>5, <1>9, <1>10, <1>11 DEF HeldOnce
<1>13. todo' # <<>> /\ Head(todo') = c /\ Tail(todo') = <<Do("lines")>>
  <2>1. <<c>> # <<>> /\ Head(<<c>>) = c /\ Tail(<<c>>) = <<>>
    OBVIOUS
  <2>2. todo' # <<>> /\ Head(todo') = c /\ Tail(todo') = <<>> \o todo
    BY <1>1, <1>2, <1>8, <2>1, ConcatFront
  <2> QED BY <1>2, <1>7, <2>2, ConcatEmptySeq
<1>14. Calls!Open' = Calls!Open
  BY <1>1 DEF Calls!Open
<1> QED BY <1>1, <1>4, <1>11, <1>12, <1>13, <1>14 DEF HeldInv, StackShape

\* The calls of EngineProc.
LEMMA CallsHeld ==
  ASSUME IInv, HeldInv, ProcCalls, UNCHANGED clientVars
  PROVE  HeldInv'
<1>1. TypeOK /\ ProcInv /\ LocalApart /\ todo \in Seq(Task)
  BY ClientApart DEF IInv, TypeOK, ProcTypeOK
<1>2. UNCHANGED <<issued, replied, lost>>
  BY DEF clientVars
<1>3. CASE Die
  <2> DEFINE q == <<Do("stop"), Do("exit")>>
  <2>1. /\ todo # <<>> /\ Head(todo).op = "die" /\ todo' = q \o Tail(todo) /\ UNCHANGED pending
    BY <1>3 DEF Die, Calling, Idle
  <2>2. \A i \in 1..2 : q[i] \in Quiet /\ ~Asks(q[i])
    BY DEF Do, Quiet, Task, Asks
  <2>3. q \in Seq(Quiet) /\ Len(q) = 2
    BY <2>2
  <2> HIDE DEF q
  <2> QED BY <1>1, <1>2, <2>1, <2>2, <2>3, SilentStep DEF Asks
<1>4. ASSUME Calling("send")
      PROVE  /\ todo # <<>> /\ Call(Head(todo), Failed) \in Quiet /\ Call(Head(todo), Failed) \in Task
             /\ Ids(<<Call(Head(todo), Failed)>>) = Ids(<<Head(todo)>>)
             /\ Apart(<<Call(Head(todo), Failed)>>)
  <2> DEFINE c == Call(Head(todo), Failed)
  <2>1. Head(todo) \in Task /\ Head(todo).op = "send" /\ todo # <<>>
        /\ Head(todo).line \in Line /\ Head(todo).h \in Handler
    BY <1>1, <1>4, NextCall
  <2>2. c \in Task /\ c \in Quiet /\ Asks(c) /\ c.line = Head(todo).line
    BY <2>1 DEF Call, Task, Quiet, Asks
  <2> HIDE DEF c
  <2>3. Ids(<<c>>) = {Head(todo).line.id} /\ Apart(<<c>>)
    BY <2>2, IdsOne
  <2>4. Ids(<<Head(todo)>>) = {Head(todo).line.id}
    BY <2>1, IdsOne DEF Asks
  <2>5. todo # <<>> /\ c \in Task /\ c \in Quiet /\ Ids(<<c>>) = Ids(<<Head(todo)>>) /\ Apart(<<c>>)
    BY <2>1, <2>2, <2>3, <2>4
  <2> QED BY <2>5 DEF c
<1>5. CASE SendDead
  <2> DEFINE c == Call(Head(todo), Failed)
  <2>1. todo' = <<c>> \o Tail(todo) /\ UNCHANGED pending /\ Calling("send")
    BY <1>5 DEF SendDead
  <2>2. todo # <<>> /\ c \in Quiet /\ Ids(<<c>>) = Ids(<<Head(todo)>>) /\ Apart(<<c>>)
    BY <1>4, <2>1
  <2> HIDE DEF c
  <2>3. <<c>> \in Seq(Quiet)
    BY <2>2
  <2> QED BY <1>1, <1>2, <2>1, <2>2, <2>3, QuietStep
<1>6. CASE SendBroken
  <2> DEFINE c == Call(Head(todo), Failed)
             q == <<Do("die"), c>>
  <2>1. todo' = q \o Tail(todo) /\ UNCHANGED pending /\ Calling("send")
    BY <1>6 DEF SendBroken
  <2>2. /\ todo # <<>> /\ c \in Quiet /\ c \in Task
        /\ Ids(<<c>>) = Ids(<<Head(todo)>>) /\ Apart(<<c>>)
    BY <1>4, <2>1
  <2>3. Do("die") \in Quiet /\ Do("die") \in Task /\ ~Asks(Do("die"))
    BY DEF Do, Quiet, Task, Asks
  <2> HIDE DEF c
  <2>4. q = <<Do("die")>> \o <<c>> /\ q \in Seq(Quiet) /\ <<c>> \in Seq(Task)
    BY <2>2, <2>3
  <2>5. <<Do("die")>> \in Seq(Task) /\ Ids(<<Do("die")>>) = {} /\ Apart(<<Do("die")>>)
    BY <2>3, IdsOne
  <2> HIDE DEF q
  <2>6. Ids(q) = {} \cup Ids(<<c>>) /\ Apart(q)
    <3>1. Ids(<<Do("die")>>) \cap Ids(<<c>>) = {}
      BY <2>5
    <3> QED BY <2>2, <2>4, <2>5, <3>1, IdsConcat
  <2> QED BY <1>1, <1>2, <2>1, <2>2, <2>4, <2>6, QuietStep
<1>7. CASE LinesDone
  <2>1. todo # <<>> /\ Head(todo).op = "lines" /\ todo' = Tail(todo) /\ UNCHANGED pending
    BY <1>7 DEF LinesDone, Calling, Idle
  <2> QED BY <1>1, <1>2, <2>1, PopStep DEF Asks
<1>8. CASE LineBeforeReady \/ LineIgnored
  BY <1>2, <1>8, SameHeld DEF LineBeforeReady, LineIgnored
<1> QED BY <1>1, <1>3, <1>5, <1>6, <1>7, <1>8, StopHeld, WrittenHeld, AnswerHeld DEF ProcCalls

\* The first callback has nothing in hand.
LEMMA InitHeld ==
  ASSUME Init
  PROVE  HeldInv
<1>1. PICK p \in Programs : ProcInit(p)
  BY DEF Init
<1>2. p \in Seq(Quiet) /\ Ids(p) = {} /\ Apart(p) /\ todo = p /\ pending = <<>>
  BY <1>1, ProgramQuiet DEF ProcInit
<1>3. issued = 0 /\ replied = {} /\ lost = {}
  BY DEF Init
<1>4. WaitIds(<<>>) = {} /\ InOrder(<<>>)
  BY DEF WaitIds, InOrder
<1>5. Calls!Open = {}
  BY <1>3 DEF Calls!Open
<1>6. todo \in Stacks
  BY <1>2, StackFloor
<1> QED BY <1>2, <1>4, <1>5, <1>6 DEF HeldInv, HeldOnce, StackShape

\* Only a request that was issued has been told of.
ToldIssued == replied \cup lost \subseteq 1..issued

\* A request is issued: it is the newest, and about to be sent.
LEMMA AskHeld ==
  ASSUME TypeOK, LocalApart, HeldInv, ToldIssued, AskStep
  PROVE  HeldInv'
<1>1. todo # <<>> /\ Calling("ask") /\ todo \in Seq(Task) /\ issued \in Nat
  BY ClientAssumption DEF AskStep, Calling, Idle, TypeOK, ProcTypeOK
<1>2. Head(todo) \in Task /\ Head(todo).op = "ask" /\ Tail(todo) \in Stacks
  BY <1>1, NextCall, TopOfStack
<1>3. CASE ~(issued < MaxAsks)
  <2>1. todo' = Tail(todo) /\ UNCHANGED <<pending, issued, replied, lost>>
    BY <1>3 DEF AskStep
  <2> QED BY <1>1, <1>2, <2>1, PopStep DEF Asks
<1>4. CASE issued < MaxAsks
  <2>1. PICK h \in Handler :
          todo' = <<Send([op |-> Head(todo).kind, id |-> issued + 1], h)>> \o Tail(todo)
    BY <1>4 DEF AskStep
  <2> DEFINE c == Send([op |-> Head(todo).kind, id |-> issued + 1], h)
  <2>2. issued' = issued + 1 /\ UNCHANGED <<pending, replied, lost>>
    BY <1>4 DEF AskStep
  <2>3. Head(todo).kind \in {"B", "C"} /\ issued + 1 \in Id
    BY <1>1, <1>2, <1>4, ClientAssumption DEF Task, AskTask, Id
  <2>4. [op |-> Head(todo).kind, id |-> issued + 1] \in Line
    BY <2>3, ClientAssumption
  <2>5. c \in Task /\ c.op = "send" /\ Asks(c) /\ c.line.id = issued + 1
    BY <2>4 DEF Send, Task, Asks
  <2>6. todo' = <<c>> \o Tail(todo)
    BY <2>1
  <2> HIDE DEF c
  <2>7. <<c>> \in Seq(Task) /\ Ids(<<c>>) = {issued + 1} /\ Apart(<<c>>)
    BY <2>5, IdsOne
  <2>8. Ids(<<Head(todo)>>) = {}
    BY <1>2, IdsOne DEF Asks
  <2>9. HeldOnce(todo, pending, Calls!Open)
    BY DEF HeldInv
  <2>10. Tail(todo) \in Seq(Task) /\ Ids(todo) = {} \cup Ids(Tail(todo)) /\ Apart(Tail(todo))
    BY <1>1, <2>8, <2>9, IdsCons DEF HeldOnce
  <2>11. Ids(Tail(todo)) \cup WaitIds(pending) = Calls!Open
         /\ Ids(Tail(todo)) \cap WaitIds(pending) = {} /\ InOrder(pending)
    BY <2>9, <2>10 DEF HeldOnce
  <2>12. issued + 1 \notin Calls!Open
    BY <1>1 DEF Calls!Open
  <2>13. Ids(todo') = {issued + 1} \cup Ids(Tail(todo)) /\ Apart(todo')
    <3>1. Ids(<<c>>) \cap Ids(Tail(todo)) = {}
      BY <2>7, <2>11, <2>12
    <3> QED BY <2>6, <2>7, <2>10, <3>1, IdsConcat
  <2>14. Calls!Open' = {issued + 1} \cup Calls!Open
    <3>1. issued + 1 \notin replied \cup lost
      BY <1>1 DEF ToldIssued
    <3>2. 1..(issued + 1) = (1..issued) \cup {issued + 1}
      BY <1>1
    <3> QED BY <2>2, <3>1, <3>2 DEF Calls!Open
  <2>15. HeldOnce(todo', pending', Calls!Open')
    BY <2>2, <2>11, <2>12, <2>13, <2>14 DEF HeldOnce
  <2>16. todo' # <<>> /\ Head(todo') = c /\ Tail(todo') = Tail(todo)
    <3>1. <<c>> # <<>> /\ Head(<<c>>) = c /\ Tail(<<c>>) = <<>>
      OBVIOUS
    <3> QED BY <2>6, <2>7, <2>10, <3>1, ConcatFront, ConcatEmptySeq
  <2> QED BY <1>2, <2>2, <2>5, <2>15, <2>16 DEF HeldInv, StackShape
<1> QED BY <1>3, <1>4

\* A handler is told its outcome: the request is open no more.
LEMMA HandleHeld ==
  ASSUME IInv, HeldInv, Handle
  PROVE  /\ HeldInv'
         /\ Head(todo).line.id \in Calls!Open
         /\ IF Head(todo).resp = Failed
              THEN lost' = lost \cup {Head(todo).line.id} /\ UNCHANGED replied
              ELSE /\ replied' = replied \cup {Head(todo).line.id} /\ UNCHANGED lost
                   /\ \A k \in Calls!Open : Head(todo).line.id <= k
<1> DEFINE id == Head(todo).line.id
<1>1. /\ todo # <<>> /\ Calling("call") /\ UNCHANGED <<pending, issued>>
      /\ TypeOK /\ ProcInv /\ LocalApart /\ todo \in Seq(Task)
  BY ClientApart DEF Handle, Calling, Idle, IInv, TypeOK, ProcTypeOK
<1>2. /\ Head(todo) \in Task /\ Head(todo).op = "call" /\ Tail(todo) \in Stacks
      /\ Head(todo).line \in Line /\ Head(todo).resp \in Reply \cup {Failed}
  BY <1>1, NextCall, TopOfStack
<1>3. id \in Nat
  BY <1>2, ClientAssumption DEF Id
<1>4. HeldOnce(todo, pending, Calls!Open)
  BY DEF HeldInv
<1>5. Ids(<<Head(todo)>>) = {id}
  BY <1>2, IdsOne DEF Asks
<1>6. /\ Tail(todo) \in Seq(Task) /\ Ids(todo) = {id} \cup Ids(Tail(todo)) /\ Apart(Tail(todo))
      /\ {id} \cap Ids(Tail(todo)) = {}
  <2>1. Apart(todo)
    BY <1>4 DEF HeldOnce
  <2> QED BY <1>1, <1>5, <2>1, IdsCons
<1> HIDE DEF id
<1>7. /\ id \in Calls!Open /\ Ids(Tail(todo)) \cup WaitIds(pending) = Calls!Open \ {id}
      /\ Ids(Tail(todo)) \cap WaitIds(pending) = {} /\ InOrder(pending)
  BY <1>4, <1>6 DEF HeldOnce
<1>8. IF Head(todo).resp = Failed
        THEN lost' = lost \cup {id} /\ UNCHANGED replied
        ELSE replied' = replied \cup {id} /\ UNCHANGED lost
  <2>1. CASE Head(todo).resp = Failed
    BY <2>1 DEF Handle, id
  <2>2. CASE Head(todo).resp # Failed
    <3>1. Honest(Head(todo))
      <4>1. AllHonest(todo) /\ 1 \in 1..Len(todo) /\ Head(todo) = todo[1]
        BY <1>1, OwnReplyIs, EmptySeq DEF ProcInv
      <4> QED BY <4>1 DEF AllHonest
    <3>2. Head(todo).resp.re = Head(todo).line
      BY <1>2, <2>2, <3>1 DEF Honest
    <3> QED BY <2>2, <3>2 DEF Handle, id
  <2> QED BY <2>1, <2>2
<1>9. Calls!Open' = Calls!Open \ {id}
  <2>1. (replied \cup lost)' = (replied \cup lost) \cup {id}
    BY <1>8
  <2> QED BY <1>1, <2>1 DEF Calls!Open
<1>10. PICK p \in Programs \cup {<<>>} : todo' = p \o Tail(todo)
  BY DEF Handle
<1>11. p \in Seq(Quiet) /\ p \in Seq(Task) /\ Ids(p) = {} /\ Apart(p)
  BY ProgramQuiet, QuietTask
<1>12. Ids(todo') = Ids(Tail(todo)) /\ Apart(todo')
  <2>1. Ids(p) \cap Ids(Tail(todo)) = {} /\ Ids(p) \cup Ids(Tail(todo)) = Ids(Tail(todo))
    BY <1>11
  <2> QED BY <1>6, <1>10, <1>11, <2>1, IdsConcat
<1>13. HeldOnce(todo', pending', Calls!Open')
  BY <1>1, <1>7, <1>9, <1>12 DEF HeldOnce
<1>14. HeldInv'
  <2>1. todo' \in Stacks
    BY <1>2, <1>10, <1>11, StackPush
  <2> QED BY <1>13, <2>1 DEF HeldInv, StackShape
<1>15. ASSUME Head(todo).resp # Failed PROVE \A k \in Calls!Open : id <= k
  <2>1. /\ Tail(todo) = <<Do("lines")>> /\ \A k \in WaitIds(pending) : id < k
    BY <1>1, <1>2, <1>15, TopOfStack DEF Replying, id
  <2>2. Do("lines") \in Task /\ ~Asks(Do("lines"))
    BY DEF Do, Task, Asks
  <2>3. Ids(Tail(todo)) = {}
    BY <2>1, <2>2, IdsOne
  <2>4. \A k \in Calls!Open : k = id \/ k \in WaitIds(pending)
    BY <1>7, <2>3
  <2>5. Calls!Open \subseteq Nat
    BY DEF Calls!Open
  <2> QED BY <1>3, <2>1, <2>4, <2>5
<1> QED BY <1>7, <1>8, <1>14, <1>15 DEF id

\* The inductive invariant of the refinement.
HIInv == IInv /\ HeldInv /\ ToldIssued

LEMMA HeldNext ==
  ASSUME HIInv, [Next]_vars
  PROVE  HeldInv' /\ ToldIssued'
<1>1. IInv /\ HeldInv /\ ToldIssued /\ TypeOK /\ LocalApart /\ todo \in Seq(Task) /\ issued \in Nat
  BY ClientApart, ClientAssumption DEF HIInv, IInv, TypeOK, ProcTypeOK
<1>2. ASSUME UNCHANGED <<issued, replied, lost>>, HeldInv' PROVE HeldInv' /\ ToldIssued'
  BY <1>1, <1>2 DEF ToldIssued
<1>3. CASE Event
  <2>1. PICK p \in Programs : todo' = p
    BY <1>3 DEF Event
  <2>2. p \in Stacks /\ p \in Seq(Task) /\ Ids(p) = {} /\ Apart(p)
    BY ProgramQuiet, StackFloor, QuietTask
  <2>3. \A i \in 1..Len(p) : ~Asks(p[i])
    <3>1. DOMAIN p = 1..Len(p)
      BY <2>2, LenProperties
    <3> QED BY <2>2, <3>1 DEF Ids
  <2>4. Idle /\ UNCHANGED <<pending, issued, replied, lost>>
    BY <1>3 DEF Event, clientVars
  <2> QED BY <1>1, <1>2, <2>1, <2>2, <2>3, <2>4, EventStep
<1>4. CASE Start
  <2> DEFINE q == <<>>
  <2>1. /\ todo # <<>> /\ Head(todo).op = "start" /\ UNCHANGED <<pending, issued, replied, lost>>
        /\ todo' = q \o Tail(todo) \/ todo' = Tail(todo)
    BY <1>4 DEF Start, StartAlive, StartFork, StartRefused, Calling, Idle, clientVars
  <2>2. q \o Tail(todo) = Tail(todo)
    BY <1>1, <2>1, HeadAndTail, ConcatEmptySeq
  <2> QED BY <1>1, <1>2, <2>1, <2>2, PopStep DEF Asks
<1>5. CASE AskStep
  <2>1. UNCHANGED <<replied, lost>> /\ (issued' = issued \/ issued' = issued + 1)
    BY <1>5 DEF AskStep
  <2>2. 1..issued \subseteq 1..issued'
    BY <1>1, <2>1
  <2>3. ToldIssued'
    BY <1>1, <2>1, <2>2 DEF ToldIssued
  <2> QED BY <1>1, <1>5, <2>3, AskHeld
<1>6. CASE Handle
  <2>1. HeldInv' /\ Head(todo).line.id \in Calls!Open
    BY <1>1, <1>6, HandleHeld
  <2>2. (replied \cup lost)' = (replied \cup lost) \cup {Head(todo).line.id}
    BY <1>1, <1>6, HandleHeld
  <2>3. issued' = issued /\ Head(todo).line.id \in 1..issued
    BY <1>6, <2>1 DEF Handle, Calls!Open
  <2> QED BY <1>1, <2>1, <2>2, <2>3 DEF ToldIssued
<1>7. CASE OnExit
  <2>1. /\ todo # <<>> /\ Head(todo).op = "exit" /\ UNCHANGED <<pending, issued, replied, lost>>
    BY <1>7 DEF OnExit, Calling, Idle, clientVars
  <2>2. PICK p \in Programs \cup {<<>>} : todo' = p \o Tail(todo)
    BY <1>7 DEF OnExit
  <2>3. p \in Seq(Quiet) /\ Ids(p) = {} /\ Apart(p)
    BY ProgramQuiet
  <2>4. Ids(<<Head(todo)>>) = {}
    BY <1>1, <2>1, TopOfStack, IdsOne DEF Asks
  <2> QED BY <1>1, <1>2, <2>1, <2>2, <2>3, <2>4, QuietStep
<1>8. CASE ProcCalls /\ UNCHANGED clientVars
  BY <1>1, <1>2, <1>8, CallsHeld DEF clientVars
<1>9. CASE Loop
  <2> DEFINE l == <<Do("lines")>>
             d == <<Do("die")>>
  <2>1. Idle /\ (todo' = l \/ todo' = d) /\ UNCHANGED <<pending, issued, replied, lost>>
    BY <1>9 DEF Loop, ProcEvents, OnReadable, OnEof, OnStartTimeout, clientVars
  <2>2. Do("die") \in Quiet /\ ~Asks(Do("die")) /\ ~Asks(Do("lines"))
    BY DEF Do, Quiet, Task, Asks
  <2>3. Len(l) = 1 /\ l[1] = Do("lines") /\ Len(d) = 1 /\ d[1] = Do("die") /\ d \in Seq(Quiet)
    BY <2>2
  <2>4. l \in Stacks /\ d \in Stacks
    BY <2>3, StackFloor DEF Floor
  <2> HIDE DEF l, d
  <2>5. \A i \in 1..1 : i = 1
    OBVIOUS
  <2>6. (\A i \in 1..Len(l) : ~Asks(l[i])) /\ (\A i \in 1..Len(d) : ~Asks(d[i]))
    BY <2>2, <2>3, <2>5
  <2>7. HeldInv'
    BY <1>1, <2>1, <2>4, <2>6, EventStep
  <2> QED BY <1>2, <2>1, <2>7
<1>10. CASE TakeSome \/ Write \/ Crash \/ UNCHANGED vars
  <2>1. UNCHANGED <<todo, pending, issued, replied, lost>>
    BY <1>10 DEF TakeSome, Write, Crash, Take, WriteLine, ChildExit, addonVars, clientVars, vars, procVars
  <2> QED BY <1>1, <1>2, <2>1, SameHeld
<1> QED BY <1>3, <1>4, <1>5, <1>6, <1>7, <1>8, <1>9, <1>10 DEF Next, Addon

\* Each open request is held once, and requests are answered in order.
THEOREM HeldInductive == Spec => []HIInv
<1>1. Init => HIInv
  BY InitInv, InitHeld DEF HIInv, ToldIssued, Init
<1>2. HIInv /\ [Next]_vars => HIInv'
  BY NextInv, HeldNext DEF HIInv
<1> QED BY <1>1, <1>2, PTL DEF Spec

\* No handler is forgotten: until it is told, a request is in pending_ or held
\* by a call under way (wetype.cpp:392-397).
THEOREM NoHandlerLost == Spec => []NoLostHandler
<1>1. HIInv => NoLostHandler
  <2> SUFFICES ASSUME HIInv, NEW i \in Calls!Open PROVE Held(i)
    BY DEF NoLostHandler
  <2>1. i \in Ids(todo) \/ i \in WaitIds(pending)
    BY DEF HIInv, HeldInv, HeldOnce
  <2> QED BY <2>1 DEF Held, Ids, WaitIds, Asks
<1> QED BY <1>1, HeldInductive, PTL

\* A step of the machinery issues a request, tells one handler, the oldest if it
\* is a reply it tells, or is none of the client's concern.
LEMMA CallsStep ==
  ASSUME HIInv, [Next]_vars
  PROVE  [Calls!Next]_(Calls!vars)
<1>1. IInv /\ HeldInv /\ issued \in Nat /\ issued <= MaxAsks
  BY ClientAssumption DEF HIInv, IInv, TypeOK
<1>2. CASE AskStep
  BY <1>1, <1>2 DEF AskStep, Calls!Next, Calls!Issue, Calls!vars
<1>3. CASE Handle
  <2> DEFINE id == Head(todo).line.id
  <2>1. id \in Calls!Open /\ issued' = issued /\ calls' = calls + 1
    BY <1>1, <1>3, HandleHeld DEF Handle
  <2>2. id \in 1..issued
    BY <2>1 DEF Calls!Open
  <2>3. Calls!GiveReply(id) \/ Calls!GiveLoss(id)
    BY <1>1, <1>3, <2>1, HandleHeld DEF Calls!GiveReply, Calls!GiveLoss
  <2> QED BY <2>2, <2>3 DEF Calls!Next
<1>4. CASE ~AskStep /\ ~Handle
  <2>1. UNCHANGED clientVars
    BY <1>4 DEF Next, Event, Addon, Start, OnExit, Loop, TakeSome, Write, Crash, vars
  <2> QED BY <2>1 DEF clientVars, Calls!vars
<1> QED BY <1>2, <1>3, <1>4

\* The pipes, the deaths and the handlers that re-enter the engine implement one
\* call per request, with its own reply, in order, or with "" (wetype.cpp:316).
THEOREM CallsImplemented == Spec => ImplementsCalls
<1>1. Init => Calls!Init
  BY DEF Init, Calls!Init
<1>2. HIInv /\ [Next]_vars => [Calls!Next]_(Calls!vars)
  BY CallsStep
<1> QED BY <1>1, <1>2, HeldInductive, PTL DEF Spec, ImplementsCalls, Calls!Spec
============================================================================
