-------------------------- MODULE CandQueueProofs --------------------------
(***************************************************************************)
(* CandQueue's properties, for any letters, batches, limits and number of  *)
(* searches.  Places, which names where an iterator is, is first replaced  *)
(* by two facts about sets of iterators: the places hold different ones    *)
(* (Apart), and an iterator was returned when none holds it (Counted).     *)
(* Both are inductive, with the types.                                     *)
(***************************************************************************)
EXTENDS CandQueue, TLAPS

----------------------------------------------------------------------------
(* Sequences of events.                                                    *)

Distinct(events) == \A i, j \in DOMAIN events : events[i].it = events[j].it => i = j

LEMMA EmptyIts == ItsOf(<<>>) = {} /\ Distinct(<<>>)
BY DEF ItsOf, Distinct

LEMMA AppendIts ==
  ASSUME NEW S, NEW s \in Seq(S), NEW e \in S
  PROVE  /\ ItsOf(Append(s, e)) = ItsOf(s) \cup {e.it}
         /\ Distinct(s) /\ e.it \notin ItsOf(s) => Distinct(Append(s, e))
<1>1. /\ DOMAIN s = 1..Len(s) /\ Len(s) \in Nat
      /\ DOMAIN Append(s, e) = 1..(Len(s) + 1)
      /\ \A i \in 1..Len(s) : Append(s, e)[i] = s[i]
      /\ Append(s, e)[Len(s) + 1] = e
  OBVIOUS
<1> DEFINE t == Append(s, e)
<1> HIDE DEF t
<1>2. /\ DOMAIN t = 1..(Len(s) + 1)
      /\ \A i \in 1..Len(s) : t[i] = s[i]
      /\ t[Len(s) + 1] = e
  BY <1>1 DEF t
<1>3. ItsOf(t) = ItsOf(s) \cup {e.it}
  BY <1>1, <1>2 DEF ItsOf
<1>4. Distinct(s) /\ e.it \notin ItsOf(s) => Distinct(t)
  BY <1>1, <1>2 DEF ItsOf, Distinct
<1> QED
  BY <1>3, <1>4 DEF t

LEMMA TailIts ==
  ASSUME NEW S, NEW s \in Seq(S), s # <<>>
  PROVE  /\ Head(s) \in S /\ Tail(s) \in Seq(S)
         /\ ItsOf(s) = ItsOf(Tail(s)) \cup {Head(s).it}
         /\ Distinct(s) => Distinct(Tail(s)) /\ Head(s).it \notin ItsOf(Tail(s))
<1>1. /\ Len(s) \in Nat /\ Len(s) >= 1 /\ DOMAIN s = 1..Len(s) /\ Head(s) = s[1]
      /\ Tail(s) \in Seq(S) /\ DOMAIN Tail(s) = 1..(Len(s) - 1)
      /\ \A i \in 1..(Len(s) - 1) : Tail(s)[i] = s[i + 1]
  OBVIOUS
<1> DEFINE t == Tail(s)
<1> HIDE DEF t
<1>2. /\ DOMAIN t = 1..(Len(s) - 1)
      /\ \A i \in 1..(Len(s) - 1) : t[i] = s[i + 1]
  BY <1>1 DEF t
<1>3. ItsOf(s) = ItsOf(t) \cup {s[1].it}
  <2>1. ASSUME NEW i \in 1..Len(s)
        PROVE  s[i].it \in ItsOf(t) \cup {s[1].it}
    <3>1. CASE i = 1
      BY <3>1
    <3>2. CASE i # 1
      <4>1. i - 1 \in 1..(Len(s) - 1) /\ t[i - 1] = s[i]
        BY <1>1, <1>2, <3>2
      <4> QED
        BY <1>2, <4>1 DEF ItsOf
    <3> QED
      BY <3>1, <3>2
  <2>2. ASSUME NEW i \in 1..(Len(s) - 1)
        PROVE  t[i].it \in ItsOf(s)
    BY <1>1, <1>2 DEF ItsOf
  <2>3. ItsOf(s) \subseteq ItsOf(t) \cup {s[1].it}
    BY <1>1, <2>1 DEF ItsOf
  <2>4. ItsOf(t) \subseteq ItsOf(s)
    BY <1>2, <2>2 DEF ItsOf
  <2>5. s[1].it \in ItsOf(s)
    BY <1>1 DEF ItsOf
  <2> QED
    BY <2>3, <2>4, <2>5
<1>4. ASSUME Distinct(s) PROVE Distinct(t) /\ s[1].it \notin ItsOf(t)
  <2>1. ASSUME NEW i \in DOMAIN t, NEW j \in DOMAIN t, t[i].it = t[j].it
        PROVE  i = j
    <3>1. i + 1 \in DOMAIN s /\ j + 1 \in DOMAIN s /\ s[i + 1].it = s[j + 1].it
      BY <1>1, <1>2, <2>1
    <3>2. i + 1 = j + 1
      BY <1>4, <3>1 DEF Distinct
    <3> QED
      BY <1>2, <3>2
  <2>2. ASSUME NEW i \in DOMAIN t
        PROVE  t[i].it # s[1].it
    <3>1. i + 1 \in DOMAIN s /\ 1 \in DOMAIN s /\ i + 1 # 1 /\ s[i + 1] = t[i]
      BY <1>1, <1>2
    <3> QED
      BY <1>4, <3>1 DEF Distinct
  <2> QED
    BY <2>1, <2>2 DEF Distinct, ItsOf
<1> QED
  BY <1>1, <1>3, <1>4 DEF t

LEMMA FrontIts ==
  ASSUME NEW S, NEW s \in Seq(S), s # <<>>
  PROVE  /\ Last(s) \in S
         /\ ItsOf(s) = ItsOf(Front(s)) \cup {Last(s).it}
         /\ Distinct(s) => Last(s).it \notin ItsOf(Front(s))
<1>1. /\ Len(s) \in Nat /\ Len(s) >= 1 /\ DOMAIN s = 1..Len(s) /\ Last(s) = s[Len(s)]
      /\ DOMAIN Front(s) = 1..(Len(s) - 1)
      /\ \A i \in 1..(Len(s) - 1) : Front(s)[i] = s[i]
  BY DEF Front, Last
<1> DEFINE t == Front(s)
<1> HIDE DEF t
<1>2. /\ DOMAIN t = 1..(Len(s) - 1)
      /\ \A i \in 1..(Len(s) - 1) : t[i] = s[i]
  BY <1>1 DEF t
<1>3. ItsOf(s) = ItsOf(t) \cup {s[Len(s)].it}
  BY <1>1, <1>2 DEF ItsOf
<1>4. Distinct(s) => s[Len(s)].it \notin ItsOf(t)
  BY <1>1, <1>2 DEF ItsOf, Distinct
<1> QED
  BY <1>1, <1>3, <1>4 DEF t

----------------------------------------------------------------------------
(* Who holds an iterator.                                                  *)

Held(it) == it \in ItsOf(queue) \cup overflow \cup {pend.it, best.it, cur}

Apart ==
  /\ Distinct(queue)
  /\ ItsOf(queue) \cap (overflow \cup {pend.it, best.it, cur}) = {}
  /\ {pend.it, best.it, cur} \cap overflow = {}
  /\ pend.it # None => pend.it # best.it /\ pend.it # cur
  /\ best.it # None => best.it # cur
Counted ==
  \A it \in Iterator : /\ returned[it] = IF it <= made /\ ~Held(it) THEN 1 ELSE 0
                       /\ it > made => ~Held(it)

\* The holders, by type.
LEMMA HolderTypes ==
  ASSUME TypeOK
  PROVE  /\ None \notin Iterator /\ ItsOf(queue) \subseteq Iterator
         /\ overflow \subseteq Iterator
         /\ pend.it \in Iterator \cup {None} /\ best.it \in Iterator \cup {None}
         /\ cur \in Iterator \cup {None}
         /\ pend = NoEvent \/ pend.it \in Iterator
         /\ best = NoEvent \/ best.it \in Iterator
<1>1. \A e \in Event : e.it \in Iterator
  BY DEF Event
<1>2. NoEvent.it = None /\ None \notin Iterator
  BY CandQueueAssumption DEF NoEvent, None, Iterator
<1>3. \A i \in DOMAIN queue : queue[i] \in Event
  BY DEF TypeOK
<1> QED
  BY <1>1, <1>2, <1>3 DEF TypeOK, ItsOf

LEMMA OwnedIs ==
  ASSUME TypeOK, Apart, Counted
  PROVE  IteratorOwned
<1> SUFFICES ASSUME NEW it \in Iterator
             PROVE  /\ \A p, q \in Places(it) : p = q
                    /\ returned[it] = IF it <= made /\ Places(it) = {} THEN 1 ELSE 0
                    /\ it > made => Places(it) = {}
  BY DEF IteratorOwned
<1>1. it # None
  BY HolderTypes
<1>2. \A p \in Places(it) :
        \/ \E i \in DOMAIN queue : p = <<"queue", i>> /\ queue[i].it = it
        \/ p = <<"pend", 0>> /\ pend.it = it
        \/ p = <<"best", 0>> /\ best.it = it
        \/ p = <<"cur", 0>> /\ cur = it
        \/ p = <<"overflow", 0>> /\ it \in overflow
  BY DEF Places
<1>3. /\ \A i, j \in DOMAIN queue : queue[i].it = it /\ queue[j].it = it => i = j
      /\ (\E i \in DOMAIN queue : queue[i].it = it) =>
           it \notin overflow /\ it # pend.it /\ it # best.it /\ it # cur
      /\ it \in overflow => it # pend.it /\ it # best.it /\ it # cur
      /\ it = pend.it => it # best.it /\ it # cur
      /\ it = best.it => it # cur
  BY <1>1 DEF Apart, Distinct, ItsOf
<1>4. \A p, q \in Places(it) : p = q
  BY <1>2, <1>3
<1>5. Places(it) = {} <=> ~Held(it)
  BY DEF Places, Held, ItsOf
<1> QED
  BY <1>4, <1>5 DEF Counted

\* The invariant.
IInv == TypeOK /\ Apart /\ Counted /\ ListHeld /\ SentTracks

----------------------------------------------------------------------------
(* Types.                                                                  *)

LEMMA RemoveFits ==
  ASSUME NEW S, NEW s \in Seq(S), NEW i \in DOMAIN s
  PROVE  RemoveAt(s, i) \in Seq(S)
<1>1. i \in 1..Len(s) /\ Len(s) \in Nat
  OBVIOUS
<1>2. SubSeq(s, 1, i - 1) \in Seq(S)
  BY <1>1
<1>3. SubSeq(s, i + 1, Len(s)) \in Seq(S)
  BY <1>1
<1> QED
  BY <1>2, <1>3 DEF RemoveAt

LEMMA ReturnFits ==
  ASSUME TypeOK, NEW its, Return(its)
  PROVE  returned' \in [Iterator -> Nat]
BY DEF Return, TypeOK

LEMMA InitType == Init => TypeOK
<1> SUFFICES ASSUME Init PROVE TypeOK
  OBVIOUS
<1>1. <<>> \in Input /\ <<>> \in Seq(Input) /\ <<>> \in Seq(Event) /\ Len(<<>>) = 0
  BY DEF Input
<1>2. /\ typed \in Input /\ asked \in Seq(Input) /\ made \in 0..MaxSearches
      /\ returned \in [Iterator -> Nat]
      /\ pend \in Event \cup {NoEvent} /\ best \in Event \cup {NoEvent}
  BY <1>1, CandQueueAssumption DEF Init
<1>3. queue \in Seq(Event) /\ Len(queue) <= QueueSize /\ overflow \subseteq Iterator
  BY <1>1, CandQueueAssumption DEF Init
<1>4. sent \in Input /\ Len(sent) <= SentSize
  <2>1. sent = <<>>
    BY DEF Init
  <2> QED
    BY <1>1, <2>1, CandQueueAssumption
<1> QED
  BY <1>2, <1>3, <1>4 DEF Init, TypeOK

LEMMA EngineType ==
  ASSUME TypeOK, Engine
  PROVE  TypeOK'
<1> USE DEF TypeOK, sessionVars, listVars
<1>1. CASE SetNewIterator
  <2>1. PICK i \in DOMAIN asked : \E m \in Matches(asked[i]) :
          /\ pend' = [it |-> made + 1, match |-> m, of |-> asked[i]]
          /\ asked' = RemoveAt(asked, i)
    BY <1>1 DEF SetNewIterator
  <2>2. PICK m \in Matches(asked[i]) :
          pend' = [it |-> made + 1, match |-> m, of |-> asked[i]]
    BY <2>1
  <2>3. asked[i] \in Input /\ asked' \in Seq(Input)
    BY <2>1, RemoveFits
  <2>4. m \in [known: BOOLEAN, input: Input \cup {Rewritten}]
    <3>1. <<>> \in Input
      BY DEF Input
    <3>2. CASE m = Unknown
      BY <3>1, <3>2 DEF Unknown
    <3>3. CASE m \in [known: {TRUE}, input: {asked[i], Rewritten}]
      BY <2>3, <3>3
    <3> QED
      BY <2>2, <3>2, <3>3 DEF Matches
  <2>5. made + 1 \in Iterator /\ made' \in 0..MaxSearches
    BY <1>1, CandQueueAssumption DEF SetNewIterator, Iterator
  <2>6. pend' \in Event
    BY <2>2, <2>3, <2>4, <2>5 DEF Event
  <2> QED
    BY <1>1, <2>3, <2>5, <2>6 DEF SetNewIterator
<1>2. CASE OnBatchEvent
  <2>1. pend \in Event
    BY <1>2 DEF OnBatchEvent
  <2>2. QueueSize \in Nat /\ QueueSize >= 1
    BY CandQueueAssumption
  <2>3. CASE Len(queue) = QueueSize
    <3>1. /\ queue' = Append(Tail(queue), pend)
          /\ overflow' = overflow \cup {Head(queue).it}
      BY <1>2, <2>3 DEF OnBatchEvent
    <3>2. queue # <<>>
      BY <2>2, <2>3
    <3>3. Tail(queue) \in Seq(Event) /\ Len(Tail(queue)) = Len(queue) - 1 /\ Head(queue) \in Event
      BY <3>2
    <3>4. queue' \in Seq(Event) /\ Len(queue') <= QueueSize
      BY <2>1, <2>2, <2>3, <3>1, <3>3
    <3>5. overflow' \subseteq Iterator
      BY <3>1, <3>3 DEF Event
    <3> QED
      BY <1>2, <3>4, <3>5 DEF OnBatchEvent
  <2>4. CASE Len(queue) # QueueSize
    <3>1. queue' = Append(queue, pend) /\ overflow' = overflow
      BY <1>2, <2>4 DEF OnBatchEvent
    <3>2. queue' \in Seq(Event) /\ Len(queue') <= QueueSize
      BY <2>1, <2>2, <2>4, <3>1
    <3> QED
      BY <1>2, <3>1, <3>2 DEF OnBatchEvent
  <2> QED
    BY <2>3, <2>4
<1> QED
  BY <1>1, <1>2 DEF Engine

\* The keys of a B command, and the searches they start.
LEMMA KeysFit ==
  ASSUME TypeOK, NEW keys \in Batches
  PROVE  /\ keys \in Input /\ typed \o keys \in Input /\ sent \o keys \in Input
         /\ asked \o [i \in DOMAIN keys |-> typed \o SubSeq(keys, 1, i)] \in Seq(Input)
<1>1. keys \in Seq(Letter)
  BY CandQueueAssumption
<1>2. \A i \in DOMAIN keys : typed \o SubSeq(keys, 1, i) \in Seq(Letter)
  BY <1>1 DEF TypeOK, Input
<1>3. [i \in DOMAIN keys |-> typed \o SubSeq(keys, 1, i)] \in Seq(Input)
  <2>1. DOMAIN keys = 1..Len(keys) /\ Len(keys) \in Nat
    BY <1>1
  <2> QED
    BY <1>2, <2>1 DEF Input
<1> QED
  BY <1>1, <1>3 DEF TypeOK, Input

LEMMA SelectFits ==
  ASSUME TypeOK, NEW cover \in Nat, Select(cover)
  PROVE  typed' \in Input /\ asked' \in Seq(Input)
BY DEF Select, TypeOK, Input

LEMMA DaemonType ==
  ASSUME TypeOK, Daemon
  PROVE  TypeOK'
<1> USE DEF TypeOK, engineVars, sessionVars, listVars
<1>0. <<>> \in Input /\ <<>> \in Seq(Input) /\ <<>> \in Seq(Event) /\ Len(<<>>) = 0
  BY DEF Input
<1>1. CASE Option
  BY <1>1 DEF Option
<1>2. CASE DropEvents
  <2>1. returned' \in [Iterator -> Nat]
    BY <1>2, ReturnFits DEF DropEvents
  <2>2. at' \in [op: {"B"}, keys: Batches] \cup [op: {"S"}, cover: Nat] \cup {Clear}
    BY <1>2 DEF DropEvents, Commands, Batch, Pick
  <2>3. queue' \in Seq(Event) /\ Len(queue') <= QueueSize
    BY <1>0, <1>2, CandQueueAssumption DEF DropEvents
  <2> QED
    BY <1>2, <2>1, <2>2, <2>3 DEF DropEvents
<1>3. CASE SendKeys
  <2>1. at.keys \in Batches
    BY <1>3 DEF SendKeys, Clear, Idle, Wait, Fetch, Gone
  <2>2. typed' \in Input /\ asked' \in Seq(Input) /\ sent \o at.keys \in Input /\ at.keys \in Input
    BY <1>3, <2>1, KeysFit DEF SendKeys
  <2>3. sent' \in Input /\ Len(sent') <= SentSize
    <3>1. CASE ~sentKnown
      BY <1>3, <3>1 DEF SendKeys
    <3>2. CASE sentKnown /\ Room(at.keys)
      <4>1. sent' = sent \o at.keys
        BY <1>3, <3>2 DEF SendKeys
      <4>2. Len(sent \o at.keys) = Len(sent) + Len(at.keys)
        BY <2>2 DEF Input
      <4>3. sent' \in Input
        BY <2>2, <4>1
      <4>4. Len(sent') <= SentSize
        BY <3>2, <4>1, <4>2 DEF Room
      <4> QED
        BY <4>3, <4>4
    <3>3. CASE sentKnown /\ ~Room(at.keys)
      <4>1. sent' = SubSeq(sent \o at.keys, 1, SentSize)
        BY <1>3, <3>3 DEF SendKeys
      <4>2. SentSize \in Nat /\ SentSize <= Len(sent \o at.keys) /\ sent \o at.keys \in Seq(Letter)
        BY <2>2, <3>3, CandQueueAssumption DEF Room, Input
      <4>3. sent' \in Seq(Letter)
        BY <4>1, <4>2
      <4>4. Len(sent') = SentSize
        BY <4>1, <4>2
      <4> QED
        BY <4>2, <4>3, <4>4 DEF Input
    <3> QED
      BY <3>1, <3>2, <3>3
  <2>4. sentKnown' \in BOOLEAN
    BY <1>3 DEF SendKeys, Room
  <2> QED
    BY <1>3, <2>2, <2>3, <2>4 DEF SendKeys
<1>4. CASE SelectRest
  <2>1. at.cover \in Nat
    BY <1>4 DEF SelectRest, Clear, Idle, Wait, Fetch, Gone
  <2>2. typed' \in Input /\ asked' \in Seq(Input)
    BY <1>4, <2>1, SelectFits DEF SelectRest
  <2>3. sent' \in Input /\ Len(sent') <= SentSize
    <3>1. sent' = SubSeq(sent, at.cover + 1, Len(sent)) /\ at.cover < Len(sent)
      BY <1>4 DEF SelectRest, PartialPick
    <3>2. sent' \in Seq(Letter) /\ Len(sent') = Len(sent) - at.cover
      BY <2>1, <3>1 DEF Input
    <3> QED
      BY <2>1, <3>2, CandQueueAssumption DEF Input
  <2> QED
    BY <1>4, <2>2, <2>3 DEF SelectRest
<1>5. CASE SelectAll
  <2>1. at.cover \in Nat
    BY <1>5 DEF SelectAll, Clear, Idle, Wait, Fetch, Gone
  <2>2. typed' \in Input /\ asked' \in Seq(Input)
    BY <1>5, <2>1, SelectFits DEF SelectAll
  <2>3. sent' \in Input /\ Len(sent') <= SentSize
    BY <1>0, <1>5, CandQueueAssumption DEF SelectAll
  <2> QED
    BY <1>5, <2>2, <2>3 DEF SelectAll
<1>6. CASE ClearSession
  <2>1. returned' \in [Iterator -> Nat]
    BY <1>6, ReturnFits DEF ClearSession
  <2>2. typed' \in Input /\ asked' \in Seq(Input)
    BY <1>0, <1>6 DEF ClearSession
  <2>3. sent' = <<>>
    BY <1>6 DEF ClearSession
  <2>4. sent' \in Input /\ Len(sent') <= SentSize
    BY <1>0, <2>3, CandQueueAssumption
  <2> QED
    BY <1>6, <2>1, <2>2, <2>4 DEF ClearSession
<1>7. CASE TakeEvents
  <2>1. returned' \in [Iterator -> Nat]
    BY <1>7, ReturnFits DEF TakeEvents
  <2>2. best' \in Event
    BY <1>7, FrontIts DEF TakeEvents
  <2>3. queue' \in Seq(Event) /\ Len(queue') <= QueueSize
    BY <1>0, <1>7, CandQueueAssumption DEF TakeEvents
  <2> QED
    BY <1>7, <2>1, <2>2, <2>3 DEF TakeEvents
<1>8. CASE WaitEnds
  BY <1>8 DEF WaitEnds
<1>9. CASE FetchCands
  <2>1. returned' \in [Iterator -> Nat]
    BY <1>9, ReturnFits DEF FetchCands
  <2>2. best \in Event
    BY <1>9 DEF FetchCands
  <2>3. best.it \in Iterator /\ Len(best.of) \in Nat
    BY <2>2 DEF Event, Input
  <2>4. covers' \subseteq Nat /\ from' \in Iterator \cup {None}
    BY <1>9, <2>3 DEF FetchCands
  <2> QED
    BY <1>9, <2>1, <2>3, <2>4 DEF FetchCands
<1>10. CASE FetchNothing
  BY <1>10 DEF FetchNothing
<1>11. CASE Quit
  <2>1. returned' \in [Iterator -> Nat]
    BY <1>11, ReturnFits DEF Quit
  <2> QED
    BY <1>11, <2>1 DEF Quit
<1> QED
  BY <1>1, <1>2, <1>3, <1>4, <1>5, <1>6, <1>7, <1>8, <1>9, <1>10, <1>11 DEF Daemon

----------------------------------------------------------------------------
(* The iterators.                                                          *)

HolderVars == <<queue, overflow, pend, best, cur, returned, made>>

\* When an iterator is put where there was none, or some are returned.
LEMMA Unmoved ==
  ASSUME Apart, Counted, UNCHANGED HolderVars
  PROVE  Apart' /\ Counted'
BY DEF HolderVars, Apart, Counted, Held, Distinct, ItsOf

\* After some holders gave up what they held, and it was returned.
LEMMA ReturnedCounts ==
  ASSUME TypeOK, Apart, Counted, NEW its, Return(its), made' = made,
         \A it \in Iterator : Held(it) <=> Held(it)' \/ it \in its,
         \A it \in Iterator : ~(it \in its /\ Held(it)')
  PROVE  Counted'
<1> SUFFICES ASSUME NEW it \in Iterator
             PROVE  /\ returned'[it] = IF it <= made' /\ ~Held(it)' THEN 1 ELSE 0
                    /\ it > made' => ~Held(it)'
  BY DEF Counted
<1>1. returned'[it] = IF it \in its THEN returned[it] + 1 ELSE returned[it]
  BY DEF Return
<1>2. /\ returned[it] = IF it <= made /\ ~Held(it) THEN 1 ELSE 0
      /\ it > made => ~Held(it)
  BY DEF Counted
<1>3. it \in Nat /\ made \in Nat
  BY DEF Iterator, TypeOK
<1>4. CASE it \in its
  <2>1. Held(it) /\ ~Held(it)' /\ it <= made
    BY <1>2, <1>3, <1>4
  <2> QED
    BY <1>1, <1>2, <1>4, <2>1
<1>5. CASE it \notin its
  BY <1>1, <1>2, <1>5
<1> QED
  BY <1>4, <1>5

LEMMA InitApart == Init => Apart /\ Counted
<1> SUFFICES ASSUME Init PROVE Apart /\ Counted
  OBVIOUS
<1>1. /\ queue = <<>> /\ overflow = {} /\ pend.it = None /\ best.it = None /\ cur = None
      /\ made = 0 /\ \A it \in Iterator : returned[it] = 0
  BY DEF Init, NoEvent
<1>2. ItsOf(queue) = {} /\ Distinct(queue)
  BY <1>1, EmptyIts
<1>3. \A it \in Iterator : it # None /\ ~(it <= made)
  BY <1>1 DEF Iterator, None
<1> QED
  BY <1>1, <1>2, <1>3 DEF Apart, Counted, Held

\* The callback thread makes an iterator, and queues it.
LEMMA EngineApart ==
  ASSUME TypeOK, Apart, Counted, Engine
  PROVE  Apart' /\ Counted'
<1>0. /\ None \notin Iterator /\ ItsOf(queue) \subseteq Iterator /\ overflow \subseteq Iterator
      /\ best.it \in Iterator \cup {None} /\ cur \in Iterator \cup {None}
      /\ pend = NoEvent \/ pend.it \in Iterator
  BY HolderTypes
<1>1. CASE SetNewIterator
  <2>1. /\ pend = NoEvent /\ pend'.it = made + 1 /\ made' = made + 1
        /\ UNCHANGED <<returned, queue, overflow, best, cur>>
    BY <1>1 DEF SetNewIterator, listVars
  <2>2. pend.it = None /\ made + 1 \in Iterator /\ made \in Nat
    BY <1>1, <2>1, CandQueueAssumption DEF NoEvent, SetNewIterator, Iterator, TypeOK
  <2>3. ~Held(made + 1)
    BY <2>2 DEF Counted
  <2>4. ItsOf(queue)' = ItsOf(queue) /\ Distinct(queue)' = Distinct(queue)
    BY <2>1 DEF ItsOf, Distinct
  <2>5. Apart'
    BY <1>0, <2>1, <2>2, <2>3, <2>4 DEF Apart, Held
  <2>6. \A it \in Iterator : it # None => (Held(it)' <=> Held(it) \/ it = made + 1)
    BY <1>0, <2>1, <2>2, <2>4 DEF Held
  <2>7. ASSUME NEW it \in Iterator
        PROVE  /\ returned'[it] = IF it <= made' /\ ~Held(it)' THEN 1 ELSE 0
               /\ it > made' => ~Held(it)'
    <3>1. it # None /\ it \in Nat /\ returned'[it] = returned[it]
      BY <1>0, <2>1 DEF Iterator
    <3>2. /\ returned[it] = IF it <= made /\ ~Held(it) THEN 1 ELSE 0
          /\ it > made => ~Held(it)
      BY DEF Counted
    <3>3. Held(it)' <=> Held(it) \/ it = made + 1
      BY <2>6, <3>1
    <3>4. it <= made' <=> it <= made \/ it = made + 1
      BY <2>1, <2>2, <3>1
    <3>5. it > made' => it > made /\ it # made + 1
      BY <2>1, <2>2, <3>1
    <3>6. CASE it = made + 1
      <4>1. it > made /\ ~(it <= made)
        BY <2>2, <3>6
      <4> QED
        BY <3>1, <3>2, <3>3, <3>5, <3>6, <4>1
    <3>7. CASE it # made + 1
      BY <3>1, <3>2, <3>3, <3>4, <3>5, <3>7
    <3> QED
      BY <3>6, <3>7
  <2> QED
    BY <2>5, <2>7 DEF Counted
<1>2. CASE OnBatchEvent
  <2>1. /\ pend \in Event /\ pend.it \in Iterator /\ pend'.it = None
        /\ UNCHANGED <<returned, made, best, cur>>
    BY <1>0, <1>2 DEF OnBatchEvent, NoEvent, listVars, TypeOK
  <2>2. pend.it \notin ItsOf(queue) /\ pend.it # None
    BY <1>0, <2>1 DEF Apart
  <2>3. CASE Len(queue) = QueueSize
    <3>1. queue' = Append(Tail(queue), pend) /\ overflow' = overflow \cup {Head(queue).it}
      BY <1>2, <2>3 DEF OnBatchEvent
    <3>2. queue \in Seq(Event) /\ queue # <<>>
      BY <2>3, CandQueueAssumption DEF TypeOK
    <3>3. /\ Tail(queue) \in Seq(Event)
          /\ ItsOf(queue) = ItsOf(Tail(queue)) \cup {Head(queue).it}
          /\ Distinct(Tail(queue)) /\ Head(queue).it \notin ItsOf(Tail(queue))
      BY <3>2, TailIts DEF Apart
    <3>4. /\ ItsOf(Append(Tail(queue), pend)) = ItsOf(Tail(queue)) \cup {pend.it}
          /\ Distinct(Append(Tail(queue), pend))
      <4>1. pend.it \notin ItsOf(Tail(queue))
        BY <2>2, <3>3
      <4> DEFINE t == Tail(queue)
      <4>2. t \in Seq(Event) /\ pend.it \notin ItsOf(t) /\ Distinct(t)
        BY <3>3, <4>1
      <4> HIDE DEF t
      <4>3. ItsOf(Append(t, pend)) = ItsOf(t) \cup {pend.it} /\ Distinct(Append(t, pend))
        BY <2>1, <4>2, AppendIts
      <4> QED
        BY <4>3 DEF t
    <3>5. ItsOf(queue)' = ItsOf(Tail(queue)) \cup {pend.it} /\ Distinct(queue)'
      BY <3>1, <3>4 DEF ItsOf, Distinct
    <3>6. Apart'
      BY <1>0, <2>1, <2>2, <3>1, <3>3, <3>5 DEF Apart
    <3>7. \A it \in Iterator : Held(it)' <=> Held(it)
      BY <1>0, <2>1, <3>1, <3>3, <3>5 DEF Held
    <3> QED
      BY <2>1, <3>6, <3>7 DEF Counted
  <2>4. CASE Len(queue) # QueueSize
    <3>1. queue' = Append(queue, pend) /\ overflow' = overflow
      BY <1>2, <2>4 DEF OnBatchEvent
    <3>2. queue \in Seq(Event)
      BY DEF TypeOK
    <3>3. /\ ItsOf(Append(queue, pend)) = ItsOf(queue) \cup {pend.it}
          /\ Distinct(Append(queue, pend))
      BY <2>1, <2>2, <3>2, AppendIts DEF Apart
    <3>4. ItsOf(queue)' = ItsOf(queue) \cup {pend.it} /\ Distinct(queue)'
      BY <3>1, <3>3 DEF ItsOf, Distinct
    <3>5. Apart'
      BY <1>0, <2>1, <2>2, <3>1, <3>4 DEF Apart
    <3>6. \A it \in Iterator : Held(it)' <=> Held(it)
      BY <1>0, <2>1, <3>1, <3>4 DEF Held
    <3> QED
      BY <2>1, <3>5, <3>6 DEF Counted
  <2> QED
    BY <2>3, <2>4
<1> QED
  BY <1>1, <1>2 DEF Engine

\* The main thread takes iterators, and returns what it held.
LEMMA DaemonApart ==
  ASSUME TypeOK, Apart, Counted, Daemon
  PROVE  Apart' /\ Counted'
<1> USE DEF engineVars, sessionVars, listVars
<1>0. /\ None \notin Iterator /\ ItsOf(queue) \subseteq Iterator /\ overflow \subseteq Iterator
      /\ pend.it \in Iterator \cup {None} /\ best.it \in Iterator \cup {None}
      /\ cur \in Iterator \cup {None}
      /\ best = NoEvent \/ best.it \in Iterator
  BY HolderTypes
<1>1. CASE Option \/ SendKeys \/ SelectRest \/ SelectAll \/ WaitEnds \/ FetchNothing
  <2>1. UNCHANGED HolderVars
    BY <1>1 DEF Option, SendKeys, SelectRest, SelectAll, WaitEnds, FetchNothing, HolderVars
  <2> QED
    BY <2>1, Unmoved
<1>2. CASE DropEvents
  <2>1. /\ Return(Freeable(ItsOf(queue))) /\ queue' = <<>>
        /\ UNCHANGED <<pend, overflow, best, cur, made>>
    BY <1>2 DEF DropEvents
  <2>2. ItsOf(queue)' = {} /\ Distinct(queue)'
    BY <2>1 DEF ItsOf, Distinct
  <2>3. Freeable(ItsOf(queue)) = ItsOf(queue)
    BY <1>0 DEF Freeable, Apart
  <2>4. Apart'
    BY <2>1, <2>2 DEF Apart
  <2>5. \A it \in Iterator : Held(it) <=> Held(it)' \/ it \in ItsOf(queue)
    BY <2>1, <2>2 DEF Held
  <2>6. \A it \in Iterator : ~(it \in ItsOf(queue) /\ Held(it)')
    BY <1>0, <2>1, <2>2 DEF Held, Apart
  <2>7. Return(ItsOf(queue))
    BY <2>1, <2>3
  <2>8. Counted'
    BY <2>1, <2>5, <2>6, <2>7, ReturnedCounts
  <2> QED
    BY <2>4, <2>8
<1>3. CASE ClearSession \/ Quit
  <2>1. /\ Return({cur}) /\ cur' = None
        /\ UNCHANGED <<pend, overflow, best, queue, made>>
    BY <1>3 DEF ClearSession, Quit
  <2>2. ItsOf(queue)' = ItsOf(queue) /\ Distinct(queue)' = Distinct(queue)
    BY <2>1 DEF ItsOf, Distinct
  <2>3. Apart'
    BY <1>0, <2>1, <2>2 DEF Apart
  <2>4. \A it \in Iterator : Held(it) <=> Held(it)' \/ it \in {cur}
    BY <1>0, <2>1, <2>2 DEF Held
  <2>5. \A it \in Iterator : ~(it \in {cur} /\ Held(it)')
    BY <1>0, <2>1, <2>2 DEF Held, Apart
  <2>6. Counted'
    BY <2>1, <2>4, <2>5, ReturnedCounts
  <2> QED
    BY <2>3, <2>6
<1>4. CASE TakeEvents
  <2> DEFINE its == Freeable({best.it} \cup ItsOf(Front(queue)))
  <2>1. /\ Return(its) /\ best' = Last(queue) /\ queue' = <<>> /\ queue # <<>>
        /\ UNCHANGED <<pend, overflow, cur, made>>
    BY <1>4 DEF TakeEvents
  <2>2. ItsOf(queue)' = {} /\ Distinct(queue)'
    BY <2>1 DEF ItsOf, Distinct
  <2>3. /\ ItsOf(queue) = ItsOf(Front(queue)) \cup {Last(queue).it}
        /\ Last(queue).it \notin ItsOf(Front(queue))
    <3>1. queue \in Seq(Event)
      BY DEF TypeOK
    <3> QED
      BY <2>1, <3>1, FrontIts DEF Apart
  <2>4. its = ({best.it} \cup ItsOf(Front(queue))) \ {None}
    BY <1>0, <2>3 DEF Freeable, Apart
  <2>5. Last(queue).it # None /\ best'.it = Last(queue).it
    BY <1>0, <2>1, <2>3
  <2> HIDE DEF its
  <2>6. Apart'
    BY <1>0, <2>1, <2>2, <2>3, <2>5 DEF Apart
  <2>7. \A it \in Iterator : Held(it) <=> Held(it)' \/ it \in its
    BY <1>0, <2>1, <2>2, <2>3, <2>4, <2>5 DEF Held
  <2>8. \A it \in Iterator : ~(it \in its /\ Held(it)')
    BY <1>0, <2>1, <2>2, <2>3, <2>4, <2>5 DEF Held, Apart
  <2>9. Counted'
    BY <2>1, <2>7, <2>8, ReturnedCounts
  <2> QED
    BY <2>6, <2>9
<1>5. CASE FetchCands
  <2>1. /\ Return({cur} \ {best.it}) /\ cur' = best.it /\ best'.it = None /\ best # NoEvent
        /\ UNCHANGED <<pend, overflow, queue, made>>
    BY <1>5 DEF FetchCands, NoEvent
  <2>2. ItsOf(queue)' = ItsOf(queue) /\ Distinct(queue)' = Distinct(queue)
    BY <2>1 DEF ItsOf, Distinct
  <2>3. best.it # None /\ best.it # cur
    BY <1>0, <2>1 DEF Apart
  <2>4. Apart'
    BY <1>0, <2>1, <2>2, <2>3 DEF Apart
  <2>5. Return({cur})
    BY <2>1, <2>3 DEF Return
  <2>6. \A it \in Iterator : Held(it) <=> Held(it)' \/ it \in {cur}
    BY <1>0, <2>1, <2>2 DEF Held
  <2>7. \A it \in Iterator : ~(it \in {cur} /\ Held(it)')
    BY <1>0, <2>1, <2>2, <2>3 DEF Held, Apart
  <2>8. Counted'
    BY <2>1, <2>5, <2>6, <2>7, ReturnedCounts
  <2> QED
    BY <2>4, <2>8
<1> QED
  BY <1>1, <1>2, <1>3, <1>4, <1>5 DEF Daemon

----------------------------------------------------------------------------
(* The list, and what was sent.                                            *)

LEMMA NextHeld ==
  ASSUME TypeOK, ListHeld, Next
  PROVE  ListHeld'
<1> USE DEF engineVars, sessionVars, listVars
<1>1. CASE UNCHANGED <<covers, from, cur>>
  BY <1>1 DEF ListHeld
<1>2. CASE ClearSession \/ Quit
  BY <1>2 DEF ClearSession, Quit, ListHeld
<1>3. CASE FetchCands
  <2>1. best.it \in Iterator /\ None \notin Iterator
    BY <1>3, HolderTypes DEF FetchCands
  <2> QED
    BY <1>3, <2>1 DEF FetchCands, ListHeld
<1>4. Next => UNCHANGED <<covers, from, cur>> \/ ClearSession \/ Quit \/ FetchCands
  BY DEF Next, Engine, Daemon, SetNewIterator, OnBatchEvent, Option, DropEvents, SendKeys,
     SelectRest, SelectAll, TakeEvents, WaitEnds, FetchNothing
<1> QED
  BY <1>1, <1>2, <1>3, <1>4

LEMMA NextTracks ==
  ASSUME TypeOK, SentTracks, Next
  PROVE  SentTracks'
<1> USE DEF engineVars, sessionVars, listVars
<1>1. CASE UNCHANGED <<sent, sentKnown, typed>>
  BY <1>1 DEF SentTracks
<1>2. CASE SendKeys
  BY <1>2 DEF SendKeys, SentTracks
<1>3. CASE SelectRest
  BY <1>3 DEF SelectRest, Select, PartialPick, SentTracks
<1>4. CASE SelectAll
  BY <1>4 DEF SelectAll, SentTracks
<1>5. CASE ClearSession
  BY <1>5 DEF ClearSession, SentTracks
<1>6. Next => UNCHANGED <<sent, sentKnown, typed>> \/ SendKeys \/ SelectRest \/ SelectAll \/ ClearSession
  BY DEF Next, Engine, Daemon, SetNewIterator, OnBatchEvent, Option, DropEvents, Quit,
     FetchCands, TakeEvents, WaitEnds, FetchNothing
<1> QED
  BY <1>1, <1>2, <1>3, <1>4, <1>5, <1>6

----------------------------------------------------------------------------
(* The theorems.                                                           *)

LEMMA InitInv == Init => IInv
<1>1. Init => ListHeld /\ SentTracks
  BY DEF Init, ListHeld, SentTracks
<1> QED
  BY <1>1, InitType, InitApart DEF IInv

LEMMA NextInv == IInv /\ [Next]_vars => IInv'
<1> SUFFICES ASSUME IInv, [Next]_vars PROVE IInv'
  OBVIOUS
<1>1. TypeOK /\ Apart /\ Counted /\ ListHeld /\ SentTracks
  BY DEF IInv
<1>2. CASE Next
  <2>1. TypeOK'
    BY <1>1, <1>2, EngineType, DaemonType DEF Next
  <2>2. Apart' /\ Counted'
    BY <1>1, <1>2, EngineApart, DaemonApart DEF Next
  <2>3. ListHeld' /\ SentTracks'
    BY <1>1, <1>2, NextHeld, NextTracks
  <2> QED
    BY <2>1, <2>2, <2>3 DEF IInv
<1>3. CASE UNCHANGED vars
  <2>1. UNCHANGED HolderVars
    BY <1>3 DEF vars, engineVars, listVars, HolderVars
  <2>2. TypeOK' /\ ListHeld' /\ SentTracks'
    BY <1>1, <1>3 DEF vars, engineVars, sessionVars, listVars, TypeOK, ListHeld, SentTracks
  <2> QED
    BY <1>1, <2>1, <2>2, Unmoved DEF IInv
<1> QED
  BY <1>2, <1>3

\* Every reachable state of the event queue and the daemon satisfies the invariant.
THEOREM InvHolds == Spec => []IInv
BY InitInv, NextInv, PTL DEF Spec

\* The types, that the event queue keeps within CAND_QUEUE, and `sent' within
\* its array (jinterop.c:316, 1230).
THEOREM QueueTypeCorrect == Spec => []TypeOK
<1>1. IInv => TypeOK
  BY DEF IInv
<1> QED
  BY <1>1, InvHolds, PTL

\* Every iterator is in one place until it is returned, and returned once, with
\* any interleaving of the callback thread and the daemon, and any queue size.
THEOREM IteratorOwnedHolds == Spec => []IteratorOwned
<1>1. IInv => IteratorOwned
  BY OwnedIs DEF IInv
<1> QED
  BY <1>1, InvHolds, PTL

\* What S may select was read from the iterator the daemon still holds.
THEOREM ListHeldHolds == Spec => []ListHeld
<1>1. IInv => ListHeld
  BY DEF IInv
<1> QED
  BY <1>1, InvHolds, PTL

\* The daemon knows the engine's composition, or knows that it does not.
THEOREM SentTracksHolds == Spec => []SentTracks
<1>1. IInv => SentTracks
  BY DEF IInv
<1> QED
  BY <1>1, InvHolds, PTL
============================================================================
