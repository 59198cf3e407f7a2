-------------------------- MODULE HarnessSession --------------------------
(***************************************************************************)
(* The harness's side of the protocol (run_daemon, jinterop.c): the engine *)
(* session it keeps, and what it answers to each line.  EngineProc has the *)
(* pipes and the one-reply-per-line shape; this module has the content.    *)
(*                                                                         *)
(* The engine is a proprietary library: what a search finds is any member  *)
(* of Answers, a list of how many letters each candidate covers.  It hands *)
(* its lists over when its searches are done, and the daemon takes the one *)
(* it has when it gives up waiting: perhaps that of an earlier search, of  *)
(* fewer letters or of those before a pick or a C (daemon_wait_cand; how   *)
(* the lists come and go is in CandQueue).                                 *)
(***************************************************************************)
EXTENDS EngineProc, FiniteSetsExt, SequencesExt

CONSTANTS
  Letter,     \* the letters that can be typed
  Answers,    \* what the engine may find: sequences of covers, <<>> for nothing
  SentSize    \* letters the array sent[] has room for (255 in the code)

\* Ghost: what a session holds that went another way than the addon's page did.
Astray == <<"astray">>

\* A candidate covers one letter at least: 0 is what the daemon writes when the
\* engine's object has no cover_input_len (jinterop.c:922), and says nothing of
\* what the candidate spells.
ASSUME AnswersAssumption == Answers \subseteq Seq(Nat \ {0})

ASSUME SentAssumption == SentSize \in Nat /\ "astray" \notin Letter

VARIABLES
  sent,    \* letters in the engine's session (the array sent[], while known)
  known,   \* sent_known: they can still be told from the lines received
  spans,   \* spans: "OPT spans" was received
  list,    \* g_ct, g_cid, g_ccover: the candidates last fetched
  asked,   \* the letters this process's engine was given to search for
  astray   \* ghost: a pick was refused, or was not what the page showed

sessionVars == <<sent, known, spans, list, asked, astray>>

\* A line.  The cover of an S is a ghost: that of the candidate on the page.
Pinyin  == Seq(Letter)
Command == [op: {"B", "C", "S", "OPT", "SAVE"}, keys: Pinyin, idx: Nat, cover: Nat]

\* Candidates found for some letters: each covers one at least, none more than
\* there are.
Covered(f) == \A i \in DOMAIN f.covers : f.covers[i] \in 1..Len(f.of)
Found      == {f \in [of: Pinyin, covers: Seq(Nat)] : Covered(f)}
Answer     == [kind: {"OK", "ERR", "SKIP", "EMPTY"}]
                \cup {t \in [kind: {"CAND"}, of: Pinyin, covers: Seq(Nat), at: Pinyin \cup {Astray}] :
                        Covered(t)}

SessionTypeOK ==
  /\ sent \in Pinyin
  /\ known \in BOOLEAN
  /\ spans \in BOOLEAN
  /\ list \in Found
  /\ asked \subseteq Pinyin \ {<<>>}
  /\ astray \in BOOLEAN

Batch(keys)    == [op |-> "B", keys |-> keys, idx |-> 0, cover |-> 0]
Pick(i, cover) == [op |-> "S", keys |-> <<>>, idx |-> i, cover |-> cover]
Plain(op)      == [op |-> op, keys |-> <<>>, idx |-> 0, cover |-> 0]

\* A list of candidates carries, as a ghost, what the session holds by then.
Say(kind)   == [kind |-> kind]
Held        == IF astray THEN Astray ELSE sent
Offer(f)    == [kind |-> "CAND", of |-> f.of, covers |-> f.covers, at |-> Held']
NoList      == [of |-> <<>>, covers |-> <<>>]
Find(s, a)  == [of |-> s, covers |-> [i \in DOMAIN a |-> Min({a[i], Len(s)})]]

\* A new process: an empty session, no spans, nothing fetched or searched for.
FreshSession ==
  /\ sent' = <<>> /\ known' = TRUE /\ spans' = FALSE /\ list' = NoList
  /\ asked' = {} /\ astray' = FALSE

SessionInit ==
  /\ sent = <<>> /\ known = TRUE /\ spans = FALSE /\ list = NoList
  /\ asked = {} /\ astray = FALSE

----------------------------------------------------------------------------
Outcome(f) == IF f.covers = <<>> THEN Say("EMPTY") ELSE Offer(f)

\* The wait for a search and the reply to it, after one SKIP to each batch
\* merged.  No list in time: EMPTY, and the list fetched before stays.  Else the
\* list of some search asked for, which replaces it even if nothing was found.
Search(skips) ==
  \/ list' = list /\ Take(skips \o <<Say("EMPTY")>>)
  \/ \E s \in asked', a \in Answers :
       list' = Find(s, a) /\ Take(skips \o <<Outcome(list')>>)

\* B, and the B lines queued behind it: fed together, a letter at a time, and
\* answered by one list.
TakeBatches ==
  \E n \in 1..Len(inPipe) :
    /\ \A i \in 1..n : inPipe[i].op = "B"
    /\ sent' = sent \o FlattenSeq([i \in 1..n |-> inPipe[i].keys])
    /\ known' = (known /\ Len(sent') <= SentSize)
    /\ asked' = asked \cup {SubSeq(sent', 1, k) : k \in (Len(sent) + 1)..Len(sent')}
    /\ UNCHANGED <<spans, astray>>
    /\ Search([i \in 1..(n - 1) |-> Say("SKIP")])

\* The daemon is picking: the candidate's cover, the letters left over, and
\* whether the addon is going the same way.
Picking     == inPipe # <<>> /\ Head(inPipe).op = "S"
Listed      == Picking /\ Head(inPipe).idx \in DOMAIN list.covers
Cover       == list.covers[Head(inPipe).idx]
Leftover    == SubSeq(sent, Cover + 1, Len(sent))
PartialPick == spans /\ known /\ 0 < Cover /\ Cover < Len(sent)

\* S on an index with no candidate, or on one without an id: refused.
TakeBadPick ==
  /\ Picking
  /\ astray' = TRUE
  /\ Take(<<Say("ERR")>>)
  /\ UNCHANGED <<sent, known, spans, list, asked>>

\* S on a candidate that covers a prefix: the engine keeps the rest composing.
TakePrefixPick ==
  /\ Listed /\ PartialPick
  /\ sent' = Leftover
  /\ asked' = asked \cup {sent'}
  /\ astray' = (astray \/ Cover # Head(inPipe).cover)
  /\ Search(<<>>)
  /\ UNCHANGED <<known, spans>>

\* S on any other: the daemon no longer knows what is left in the session.
TakeWholePick ==
  /\ Listed /\ ~PartialPick
  /\ sent' = Leftover /\ known' = FALSE
  /\ asked' = IF sent' = <<>> THEN asked ELSE asked \cup {sent'}
  /\ astray' = (astray \/ ~known \/ Cover # Head(inPipe).cover)
  /\ Take(<<Say("OK")>>)
  /\ UNCHANGED <<spans, list>>

\* C: the session is destroyed and another created.
TakeClear ==
  /\ inPipe # <<>> /\ Head(inPipe).op = "C"
  /\ sent' = <<>> /\ known' = TRUE /\ list' = NoList /\ astray' = FALSE
  /\ Take(<<Say("OK")>>)
  /\ UNCHANGED <<spans, asked>>

TakeOption ==
  /\ inPipe # <<>> /\ Head(inPipe).op \in {"OPT", "SAVE"}
  /\ spans' = (spans \/ Head(inPipe).op = "OPT")
  /\ Take(<<Say("OK")>>)
  /\ UNCHANGED <<sent, known, list, asked, astray>>

HarnessTakes ==
  TakeBatches \/ TakeBadPick \/ TakePrefixPick \/ TakeWholePick \/ TakeClear \/ TakeOption
============================================================================
