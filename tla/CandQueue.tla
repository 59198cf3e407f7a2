----------------------------- MODULE CandQueue -----------------------------
(***************************************************************************)
(* The harness's candidate events (jinterop.c 284-335, 470-525, 884-1039): *)
(* the engine searches asynchronously, and its callback thread delivers a  *)
(* candidate iterator for each search it completes, in the order they      *)
(* complete; the daemon's main thread waits for the one that answers the   *)
(* letters it sent.  An iterator belongs to whoever holds it and must be   *)
(* returned to the engine (delete_candidate_iterator), or its whole search *)
(* graph stays in memory (docs/engine-iterator-leak.md).                   *)
(*                                                                         *)
(* The engine is external: how it cuts pinyin, corrects it and finds       *)
(* candidates is any choice.                                               *)
(***************************************************************************)
EXTENDS Naturals, SequencesExt

CONSTANTS
  Letter,       \* the letters of pinyin
  Batches,      \* what one B command, merged or not, carries
  QueueSize,    \* CAND_QUEUE: 32
  SentSize,     \* what `sent' holds: 255
  MaxSearches   \* bound: iterators, and searches asked for

ASSUME CandQueueAssumption ==
  /\ Batches \subseteq Seq(Letter) \ {<<>>}
  /\ QueueSize \in Nat \ {0} /\ SentSize \in Nat /\ MaxSearches \in Nat

VARIABLES
  typed,     \* the engine's composition
  asked,     \* the inputs it is searching for
  made,      \* how many iterators it has handed out
  returned,  \* how often each was returned
  pend,      \* g_pend_it, g_pend_known, g_pend_input
  queue,     \* g_cand_q
  overflow,  \* the iterators pushed out of a full queue
  at,        \* where the main thread is, and with which command
  sent, sentKnown, spans,
  best,      \* daemon_wait_cand's
  cur,       \* g_cur_it
  covers,    \* g_ccover: the covers of the candidates in g_ct
  from       \* the iterator they were read from

engineVars == <<typed, asked, made, pend>>
sessionVars == <<sent, sentKnown, spans>>
listVars == <<cur, covers, from>>
vars == <<engineVars, returned, queue, overflow, at, sessionVars, best, listVars>>

Iterator == 1..MaxSearches
None == 0                    \* no iterator
Input == Seq(Letter)

\* What PendingInput.match spells, if the engine pushed it before the iterator:
\* the input searched for, or a correction of it, which is no input sent.
Rewritten == <<"corrected">>
Unknown   == [known |-> FALSE, input |-> <<>>]
Matches(input) == [known: {TRUE}, input: {input, Rewritten}] \cup {Unknown}

NoEvent == [it |-> None, match |-> Unknown, of |-> <<>>]
Event == [it: Iterator, match: [known: BOOLEAN, input: Input \cup {Rewritten}], of: Input]

Batch(keys)  == [op |-> "B", keys |-> keys]
Pick(cover)  == [op |-> "S", cover |-> cover]
Clear        == [op |-> "C"]
Idle         == [op |-> "idle"]
Wait         == [op |-> "wait"]
Fetch        == [op |-> "fetch"]
Gone         == [op |-> "gone"]

Init ==
  /\ typed = <<>> /\ asked = <<>> /\ made = 0 /\ returned = [it \in Iterator |-> 0]
  /\ pend = NoEvent /\ queue = <<>> /\ overflow = {} /\ at = Idle
  /\ sent = <<>> /\ sentKnown = TRUE /\ spans = FALSE
  /\ best = NoEvent /\ cur = None /\ covers = {} /\ from = None

----------------------------------------------------------------------------
(* The engine's callback thread.                                           *)

\* A search completes: PendingInput and newIterator are set (F_SetLongField).
SetNewIterator ==
  /\ pend = NoEvent /\ made < MaxSearches /\ at # Gone
  /\ \E i \in DOMAIN asked : \E m \in Matches(asked[i]) :
       /\ pend' = [it |-> made + 1, match |-> m, of |-> asked[i]]
       /\ asked' = RemoveAt(asked, i)
  /\ made' = made + 1
  /\ UNCHANGED <<typed, returned, queue, overflow, at, sessionVars, best, listVars>>

OnBatchEventUnbounded ==   \* mutant: the limit of the queue is not enforced
  /\ pend # NoEvent /\ at # Gone
  /\ queue' = Append(queue, pend) /\ pend' = NoEvent
  /\ UNCHANGED <<typed, asked, made, returned, overflow, at, sessionVars, best, listVars>>

\* onBatchEvent: the event is queued; a full queue loses its oldest.
OnBatchEvent ==
  /\ pend # NoEvent /\ at # Gone
  /\ IF Len(queue) = QueueSize
     THEN /\ queue' = Append(Tail(queue), pend)
          /\ overflow' = overflow \cup {Head(queue).it}
     ELSE /\ queue' = Append(queue, pend)
          /\ overflow' = overflow
  /\ pend' = NoEvent
  /\ UNCHANGED <<typed, asked, made, returned, at, sessionVars, best, listVars>>

----------------------------------------------------------------------------
(* The daemon's main thread.                                               *)

\* delete_candidate_iterator for each of some iterators.
Return(its) == returned' = [it \in Iterator |-> IF it \in its THEN returned[it] + 1 ELSE returned[it]]

ItsOf(events) == {events[i].it : i \in DOMAIN events}
FreeNone(its) == {}   \* mutant: late events are dropped, not returned
\* daemon_free_it frees all but the current one.
Freeable(its) == its \ {None, cur}

Option ==
  /\ at = Idle /\ spans' = TRUE
  /\ UNCHANGED <<engineVars, returned, queue, overflow, at, sent, sentKnown, best, listVars>>

\* A command is read.  An S out of the list (ERR), and an empty B (EMPTY),
\* change nothing and are left out.
Commands ==
  {Batch(keys) : keys \in Batches} \cup {Pick(c) : c \in covers} \cup {Clear}

\* B, S and C first return what came late (daemon_drop_events).
DropEvents ==
  /\ at = Idle
  /\ \E c \in Commands : at' = c
  /\ Return(Freeable(ItsOf(queue)))
  /\ queue' = <<>>
  /\ UNCHANGED <<engineVars, overflow, sessionVars, best, listVars>>

\* The keys are sent one by one, and each starts a search; `sent' keeps them
\* while it has room.
Room(keys) == Len(sent) + Len(keys) <= SentSize
SendKeys ==
  /\ at.op = "B"
  /\ Len(asked) + made + Len(at.keys) <= MaxSearches
  /\ typed' = typed \o at.keys
  /\ asked' = asked \o [i \in DOMAIN at.keys |-> typed \o SubSeq(at.keys, 1, i)]
  /\ sentKnown' = (sentKnown /\ Room(at.keys))
  /\ sent' = IF ~sentKnown THEN sent
             ELSE IF Room(at.keys) THEN sent \o at.keys
             ELSE SubSeq(sent \o at.keys, 1, SentSize)
  /\ at' = Wait
  /\ UNCHANGED <<made, pend, returned, queue, overflow, spans, best, listVars>>

\* select_candidate: the engine keeps what the candidate does not cover, and
\* searches again.
Select(cover) ==
  LET rest == SubSeq(typed, cover + 1, Len(typed))
  IN /\ typed' = rest
     /\ asked' = IF rest = <<>> THEN asked ELSE Append(asked, rest)

PartialPick(cover) == spans /\ sentKnown /\ cover > 0 /\ cover < Len(sent)

SelectRest ==
  /\ at.op = "S" /\ PartialPick(at.cover)
  /\ Len(asked) + made < MaxSearches
  /\ Select(at.cover)
  /\ sent' = SubSeq(sent, at.cover + 1, Len(sent))
  /\ at' = Wait
  /\ UNCHANGED <<made, pend, returned, queue, overflow, sentKnown, spans, best, listVars>>

SelectAllKnown ==   \* mutant: sent_known is not cleared
  /\ at.op = "S" /\ ~PartialPick(at.cover)
  /\ Len(asked) + made < MaxSearches
  /\ Select(at.cover)
  /\ sent' = <<>> /\ sentKnown' = sentKnown
  /\ at' = Idle
  /\ UNCHANGED <<made, pend, returned, queue, overflow, spans, best, listVars>>

\* The rest, if any, is unknown from now on.
SelectAll ==
  /\ at.op = "S" /\ ~PartialPick(at.cover)
  /\ Len(asked) + made < MaxSearches
  /\ Select(at.cover)
  /\ sent' = <<>> /\ sentKnown' = FALSE
  /\ at' = Idle
  /\ UNCHANGED <<made, pend, returned, queue, overflow, spans, best, listVars>>

ClearKeepsList ==   \* mutant: g_ct_n is not reset
  /\ at = Clear
  /\ Return({cur}) /\ cur' = None
  /\ typed' = <<>> /\ asked' \in {asked, <<>>}
  /\ sent' = <<>> /\ sentKnown' = TRUE
  /\ at' = Idle
  /\ UNCHANGED <<made, pend, queue, overflow, spans, best, covers, from>>

\* C: the list is dropped, its iterator returned, the session rebuilt; searches
\* of the old one end or are still delivered.
ClearSession ==
  /\ at = Clear
  /\ covers' = {} /\ from' = None
  /\ Return({cur}) /\ cur' = None
  /\ typed' = <<>> /\ asked' \in {asked, <<>>}
  /\ sent' = <<>> /\ sentKnown' = TRUE
  /\ at' = Idle
  /\ UNCHANGED <<made, pend, queue, overflow, spans, best>>

\* What daemon_wait_cand waits for: <<>> when the input is unknown.
Expected == IF sentKnown THEN sent ELSE <<>>
Exact(event) == event.match.known /\ event.match.input = Expected

\* A batch of events is taken at once: all but the last are returned, and the
\* last ends the wait when it answers what was sent.
TakeEvents ==
  /\ at = Wait /\ queue # <<>>
  /\ Return(Freeable({best.it} \cup ItsOf(Front(queue))))
  /\ best' = Last(queue)
  /\ queue' = <<>>
  /\ at' = IF Exact(Last(queue)) THEN Fetch ELSE Wait
  /\ UNCHANGED <<engineVars, overflow, sessionVars, listVars>>

\* The timeout, or the quiet window after the last event.
WaitEnds ==
  /\ at = Wait /\ queue = <<>>
  /\ at' = Fetch
  /\ UNCHANGED <<engineVars, returned, queue, overflow, sessionVars, best, listVars>>

\* daemon_fetch_cands: the candidates are copied and the old iterator returned.
\* The engine finds candidates for the whole and for the first letter, or none.
FetchCands ==
  /\ at = Fetch /\ best # NoEvent
  /\ \E found \in {{}, {1, Len(best.of)}} :
       /\ covers' = found
       /\ from' = IF found = {} THEN None ELSE best.it
  /\ Return({cur} \ {best.it})
  /\ cur' = best.it
  /\ best' = NoEvent /\ at' = Idle
  /\ UNCHANGED <<engineVars, queue, overflow, sessionVars>>

FetchNothing ==
  /\ at = Fetch /\ best = NoEvent
  /\ at' = Idle
  /\ UNCHANGED <<engineVars, returned, queue, overflow, sessionVars, best, listVars>>

\* Q, or the end of its input: the last iterator goes back, and the process ends.
Quit ==
  /\ at = Idle /\ at' = Gone
  /\ Return({cur}) /\ cur' = None
  /\ covers' = {} /\ from' = None
  /\ UNCHANGED <<engineVars, queue, overflow, sessionVars, best>>

Engine == SetNewIterator \/ OnBatchEvent
Daemon ==
  \/ Option \/ DropEvents \/ SendKeys \/ SelectRest \/ SelectAll \/ ClearSession
  \/ TakeEvents \/ WaitEnds \/ FetchCands \/ FetchNothing \/ Quit
Next == Engine \/ Daemon
Spec == Init /\ [][Next]_vars

----------------------------------------------------------------------------
(* Properties.                                                             *)

TypeOK ==
  /\ typed \in Input /\ asked \in Seq(Input) /\ made \in 0..MaxSearches
  /\ returned \in [Iterator -> Nat]
  /\ pend \in Event \cup {NoEvent} /\ best \in Event \cup {NoEvent}
  /\ queue \in Seq(Event) /\ Len(queue) <= QueueSize /\ overflow \subseteq Iterator
  /\ at \in [op: {"B"}, keys: Batches] \cup [op: {"S"}, cover: Nat]
            \cup {Clear, Idle, Wait, Fetch, Gone}
  /\ sent \in Input /\ Len(sent) <= SentSize /\ sentKnown \in BOOLEAN /\ spans \in BOOLEAN
  /\ cur \in Iterator \cup {None} /\ covers \subseteq Nat /\ from \in Iterator \cup {None}

\* Where an iterator is: at a place of the queue, with the callback thread, in
\* the wait, the current one; or lost to a full queue.
Places(it) ==
  {<<"queue", i>> : i \in {j \in DOMAIN queue : queue[j].it = it}} \cup
  {<<p, 0>> : p \in {x \in {"pend", "best", "cur", "overflow"} :
     \/ x = "pend" /\ pend.it = it
     \/ x = "best" /\ best.it = it
     \/ x = "cur" /\ cur = it
     \/ x = "overflow" /\ it \in overflow}}

\* Every iterator the engine hands out is held in exactly one place until it is
\* returned, and returned once: none leaks but those a full queue gives up
\* (jinterop.c:317), none is returned twice or used after it was returned.
IteratorOwned ==
  \A it \in Iterator :
    /\ \A p, q \in Places(it) : p = q
    /\ returned[it] = IF it <= made /\ Places(it) = {} THEN 1 ELSE 0
    /\ it > made => Places(it) = {}

\* The candidates that S may select were read from the iterator still held.
ListHeld == covers # {} => from = cur /\ cur # None

\* While the daemon believes to know what the engine is composing, it does
\* (sent, sent_known): across merged batches, partial picks and `sent' filled up.
SentTracks == sentKnown => sent = typed

\* "an exact hit still returns at once" (jinterop.c:987): of the events taken
\* from the queue, one for exactly the letters sent is the answer.
ExactReturned ==
  [][at = Wait /\ queue' = <<>> /\ (\E i \in DOMAIN queue : Exact(queue[i]))
       => Exact(best')]_vars
============================================================================
