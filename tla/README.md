# WeType IME for Linux: a TLA+ model of the input method

This directory holds a TLA+ model of the Fcitx 5 addon in
`src/fcitx5-wetype/src/wetype.cpp` and of the engine daemon it talks to,
`src/harness/jinterop.c` (`run_daemon`), with TLC configurations that check it
on small instances and proofs, checked by TLAPS, that hold for every instance.

## 1. The system

A keyboard event reaches class `WeTypeEngine` (the addon) on Fcitx's main
thread. The addon keeps the pinyin typed so far and asks the *engine*, a
proprietary Android library, for candidates. The library runs in a separate
process, the *harness*, often under QEMU; the addon and the harness talk in
lines over two pipes. Inside the harness the library believes it is in an
Android app: it calls a table of fake JNI functions and calls back on threads
of its own.

```
 Fcitx loop ── keys, focus, reset, switch, click ──▶ WeTypeEngine ── send(line, handler) ──▶ EngineProc
     │  timers (5 s pending Space, 200 ms restart,        ▲                                  │ pipe in
     │          90 s start watchdog)                      │ handler(reply or "")             ▼
     └────────────────────────────────────────────────────┴──── pipe out ◀────── harness: run_daemon
                                                                  candidate events ▲   │ candidate_get_n, JNI objects
                                                                                   └── engine threads
```

| Component | State | Operations | What makes it correct |
|---|---|---|---|
| `EngineProc` (wetype.cpp 191-411) | child pid, pipes, read buffer, queue of handlers, Dead/Starting/Ready, failure count | `start`, `stop`, `send`, `die`, `onReadable`, `onLine`, watchdog | each handler is called once, with its own reply or with `""`; replies have no number, so position alone must pair them; a hung process is given up |
| `WeTypeEngine`, composition (596-871) | `buf_`, candidates and covers, `candidatesCurrent_`, `revision_`, `epoch_`, `icRef_`, `recoveryTried_` | commit, partial selection, request, reply handler, restart, clear | no letter lost, doubled or reordered; only candidates sent for the pinyin as it is can be selected; an answer is on its way |
| pending Space (758-834) | `pending_`, queue of keys, timer | arm, fall back, cancel, drain | the wait ends; what is queued leaves in order; the pinyin is frozen meanwhile |
| keys and callbacks (466-495, 873-1115) | — | one branch per key, `reset`, `deactivate`, click | the panel shows the composition of its own context |
| paging (502-563, 987-1067) | `windowStart_`, `selected_`, `renderedPageSize_`, the panel | `normalizePage`, `updateUI`, arrows, page keys, digits | what the panel, as the key press redraws it, shows beside a label is what the label picks, also when the page size has changed |
| punctuation (413-443, 565-594; punctuation.h) | per context: a digit before the cursor, the side of each quote | `punctFor`, `fullwidthPunctuation`, `rememberTrailing`, surrounding text | quotes alternate in each context; the digit known is the digit there |
| restart and unloading (426-464, 639-664) | `restartSource_`, `spansEnabled_` | restart timer, `OPT spans`, destructor | the engine comes back; covers are not misread; nothing runs after unloading |
| harness main loop (jinterop.c 1071-1307) | session letters, `spans`, fetched candidates | `B` (merged), `S`, `C`, `OPT`, `SAVE`, `Q` | one reply per line; the session follows the lines |
| candidate events (jinterop.c 280-335, 884-1039) | event queue, pending iterator, current iterator | engine callback, drop, wait, fetch | an iterator is returned once; the exact hit wins |
| fake JNI objects (jinterop.c 35-235, 371-555, 637-704) | registry with times and pins, `g_last_bytes`, auto-completed objects | make, store, pin, unpin, sweep by age, release | nothing in use is freed, nothing is freed twice or forgotten |
| segmentation, glossary, log | small | pure functions, a table, a file | display only |
| installation scripts | directories, links | install, upgrade, remove | a crash leaves a working version |

What is hard in the addon is not concurrency (it has one thread) but re-entrancy
and asynchrony: a write can fail, which kills the process, which calls the
handlers of every pending request, which start another process and write to it,
all inside one key press; and every reply may be late, merged into a later one,
for another buffer, or never come. In the harness it is concurrency: the engine's
threads hand out iterators and make objects between any two steps of the
daemon. Every hazard met in the code is in `PROJECT.json`, with its line and the
properties that watch it.

## 2. The modules

| Module | Models | Extends |
|---|---|---|
| `AsyncCalls` | abstract: what `EngineProc::send` promises | |
| `EngineProc` | class `EngineProc`, the two pipes, a harness that takes, answers, dies | |
| `EngineCalls` | `EngineProc` under the most general client; refines `AsyncCalls` | `EngineProc` |
| `HarnessSession` | `run_daemon`'s session, and the content of its replies | `EngineProc` |
| `Composition` | composition, reply handler, pending Space, recovery | `HarnessSession` |
| `WeTypeEngine` | keys, callbacks, timers, destructor: the whole system | `Composition` |
| `WeTypeProperties` | its type invariant and properties, fairness | `WeTypeEngine` |
| `Paging` | the size of a page, `normalizePage` | |
| `Punctuation` | punctuation.h, the state of a context | |
| `Keyboard` | every key on the page of candidates and on punctuation | `Paging`, `Punctuation` |
| `CandQueue` | the harness's candidate events and iterators, its `sent` | |
| `LocalRefs` | abstract: how long JNI promises native code that an object lives | |
| `Objects` | the registry of fake JNI objects; refines `LocalRefs` | |
| `MCEngineCalls`, `MCWeTypeEngine`, `MCCandQueue`, `MCKeyboard`, `MCObjects` | small instances for TLC | |
| `EngineProcProofs` | lemmas: what each step of `EngineProc` preserves, for any client | `EngineProc` |
| `EngineCallsProofs`, `KeyboardProofs`, `CandQueueProofs`, `ObjectsProofs` | the theorems | the module named |
| `WeTypeTypeProofs` | facts about sequences; the types of the whole input method | `WeTypeProperties`, `EngineProcProofs` |
| `WeTypeEngineProofs` | its safety: pending Space, focus, panels, restart, unloading, `OPT spans`, the letters | `WeTypeTypeProofs` |
| `WeTypeSessionProofs` | the buffer and the engine's session stay in step | `WeTypeEngineProofs` |

**The call stack.** The addon's code is sequential but re-entrant, and where
functions are cut matters. `todo` is its call stack: the head is the next call,
and making it replaces it by the calls it makes, in order. `die()` becomes
`stop`, `exit`; a failed write becomes `die`, then the handler of the failed
line. A function that calls the engine in its middle is cut there and its rest
is a call of its own (`type`, `ui`, `drainOn`), because the engine call may run
handlers. An event of Fcitx's loop is taken only when `todo` is empty. The
counters and lists the calls share are the code's own members, under their
names without the underscore (`buf` is `buf_`, `current` is
`candidatesCurrent_`, `tried` is `recoveryTried_`, `gaveUp` is `gaveUp_`).

**Text is what it stands for.** A candidate is the string of letters it spells,
and a commit delivers those letters. The ghost `owed` is then the letters typed
and not yet delivered or cancelled; a commit must be a prefix of it
(`Delivered`), else `owed` becomes `Mismatch` and stays so. The Space itself,
digits, punctuation and capitals carry no letter and are not tracked. Ghosts
(`owed`, `spurned`, `astray`, the `re` of a reply, the `at` of a candidate, the
`cover` of a pick, `issued`, `replied`, `lost`, `calls`) are never read by a guard.

**The engine** is external. `Answers` is the set of things a search may find:
sequences of covers. `<<9, 1>>` is one candidate for all the letters and one for
the first; `<<>>` is nothing. A search may find any of them, something else for
the same letters too.

**Late lists.** The engine hands a list over when it has completed a search, and
the daemon takes the newest it has when its quiet window or its timeout ends, an
exact hit or not (`daemon_wait_cand`, jinterop.c:984-1039). So `Search` answers
with the list of any search this process was asked for (`asked`: every prefix fed
letter by letter, what a pick left, and all that came before a pick or a `C`),
or with `EMPTY` when none came. Without a list the candidates fetched before stay
and can be picked from (jinterop.c:1237); a list with nothing in it replaces them
by nothing (893-895). `CandQueue` shows how the lists come and go.

**What a list is worth.** Three ghosts keep apart what the protocol promises from
what the engine's timing decides. `at`, on each candidate, is what the session
held when its list was sent, which the list may well not be about. `astray` says
that the session went another way than the addon's page: a pick was refused
(any may be: `!g_cid[idx]`, jinterop.c:1253, 912-920), or the index meant a
candidate of another cover than on the page, or was picked in a session whose
letters the daemon no longer knew; a `C` ends it. `Misled` is the value `owed` takes
when the user picks a candidate that does not spell a beginning of the pinyin it
is shown for, which a late list may contain: what is delivered then is what the
panel offered, and there is no telling which letters it stands for.

**The harness's steps.** In `EngineCalls` the harness moves between any two
calls of the addon. In `WeTypeEngine` it moves between callbacks, which loses
nothing the addon could see: inside a callback the addon reads nothing from the
harness, it only appends to one pipe or discards both, so the two commute. A
death can be seen inside a callback, by a write, so it may come before any
write.

**Contexts that go away.** A context may be destroyed while it is composed in
(`Close`): `icRef_` and what handlers and timers captured are then references to
nothing. The code is written for this (`if (!ic ...) return`,
wetype.cpp:680, 814), and whether Fcitx calls `deactivate` first is not in this
repository, so that it does not here.

**Two views of the keys.** `WeTypeEngine` follows letters and the engine;
`Keyboard` follows what `WeTypeEngine` leaves out of the same functions: the
window, the selection, the panel as drawn, and what each context remembers for
its punctuation. There the pinyin is a length, a text is the kinds of its
characters, the candidates are a number, and the engine is a reply that may come
whenever there is pinyin without current candidates. A key is one step; the keys
queued behind a Space are replayed one by one before anything else happens
(`Draining`), and a reply, a click, a new page size, a change of focus or the
application's news of what is before the cursor comes between. The ghosts `last`
and `paired` say what a context really has before its cursor, as far as the
addon could know it, and which Chinese quote it was given last.

**Inside the harness.** `HarnessSession` gives the harness's answers as the addon
can tell them apart. `CandQueue` looks inside: the engine's callback thread hands
out an iterator per search it completes, the event queue holds them, and the
main thread waits, fetches and returns them, all under one mutex, so that a step
is a critical section. `daemon_drop_events` and what follows it are two steps,
since the callback thread may come between. An iterator is a number, new each
time; `typed` is the engine's composition, which the daemon never sees; a search
may complete in any order, with the input it was for, a correction of it, or no
input at all. Timeouts and quiet windows are a choice: the wait may end whenever
the queue is empty. `overflow` and `from` are ghosts.

**The objects.** In `Objects` a step is a critical section of `g_reg_mu` or the
use of one object outside it. `reg_sweep` takes what is due off the registry
under the mutex and frees it afterwards, one object at a time (`dying`), while
callbacks go on; `malloc` may hand out an address just freed. `refs` is where the
fields or elements of an object point. Two of its entries are not what JNI says
and are modelled as the code does it: a field set to a String takes the String's
*text* (`Held`), which belongs to the String it was copied into; and a field read
gives a new String for that text. Which object of a class is auto-completed is
looked up by a name that points into a buffer no longer there (jinterop.c:394,
400-402: `o->cls` is the local `clsname`), so that a call may find one or make
another, up to 32 and then `NULL`, against "重复调用不再新建" (jinterop.c:380);
`Complete` allows each. What the engine does is external: it uses an object in
the call that made it or under a global reference, and its callbacks return
within `CallTicks`, less than the grace period of 3 s.

## 3. The runs

| Run | Question | Bounds |
|---|---|---|
| `EngineCalls` | is every handler called once, in order, with its own reply or `""`, and in the end? does a process that never says READY end? | 5 requests, 2 starts, any number of deaths; 120 k states |
| `Typing` | letters, Space, BackSpace against late and merged replies, lists of earlier searches, an engine that finds a prefix first or nothing, refused picks | 4 keys, 2 letters, no death; 5.4 M states |
| `Contexts` | two contexts, reset, focus, a context destroyed, switch, click, unload, a death at any step: does the engine come back, is `OPT` answered first, does each panel show its own composition? | 3 events, 1 death; 3.1 M states |
| `EachKey` | every kind of key but punctuation, releases, a queue at its limit, late lists, refused picks, a death at any step | 4 keys, `QueueLimit` 2, 1 death, `GiveUpAfter` 1; 1.8 M states |
| `Liveness` | does a pending Space end with a hung harness? do candidates come after a death? | 3 keys, 1 death, `GiveUpAfter` 1; 101 k states |
| `Iterators` | is every iterator returned once, and does the daemon know its session? | 4 searches, a queue of 2, room for 3 letters; 700 k states |
| `Objects` | is anything freed that is in use, freed twice or forgotten? does the engine see what JNI promises? | 1 start-up object, 3 addresses, 1 callback thread, 2 ticks of grace; 2.1 M states |
| `Keyboard` | does a label pick what is beside it, do quotes alternate, is the digit known? | 2 contexts, pages of 2 and 3, 4 candidates, 2 letters, a queue of 2; 480 k states |

Two starts are enough for a second refusal to follow a first; five requests for a
merged batch, one behind it and a restart with requests of its own. Four keys
are a word of two letters, a Space that has to wait and a correction or a second
Space; in `EachKey` the second key queued reaches the limit. Four searches fill
an event queue of two while one is waited for. Three addresses are an array, a
candidate in it and its id, or two objects and an address used again; one tick is
a callback's life, two are the grace period. Four candidates make two pages of
two, the second reached by a window that a page of three would cut elsewhere;
`Settings` 4 is beyond `MaxPageSize` and falls back to 2. Lists that come late or
not at all, and picks refused, are in every run of `WeTypeEngine`: neither is a
parameter. `EachKey` and `Liveness` give up after one start without `READY`, so that
a death is either recovered from or the end of the engine; in `Contexts` a second
start follows the first.

A behaviour of `WeTypeEngine` stops when its `MaxEvents` keys are used up and
all is answered, and one of `CandQueue` when its searches are: those
configurations switch deadlock checking off; `EngineCalls`, `Keyboard` and
`Objects` never stop and have it on. Bounds are in the guards of `KeyEvent` and
`Happens` (`MaxEvents`), `Crash` (`MaxCrashes`), `AskStep` (`MaxAsks`),
`SetNewIterator`, `SendKeys`, `SelectRest` and `SelectAll` (`MaxSearches`),
`Keyboard`'s `KeyEvent` and `Reply` (`MaxBuf`, `MaxCandidates`), `SetField` and
`NewGlobalRef` (`MaxFields`, `MaxGlobals`); `GiveUpAfter` stands for the code's
5, `QueueLimit` for its 256, `QueueSize` for 32, `SentSize` for 255,
`SinglesLimit` for 32 and `MaxPageSize` for 10. `owed` needs two letters to tell
an exchange of letters from none: `Letter` always has two (and is symmetric),
even where the keys of a run use one; `CandQueue` compares inputs only, and there
one letter makes every two inputs of a length equal, the worst case for `Exact`.

### Fairness

`LoopFairness` is what Fcitx's loop gives: a callback returns (weak fairness of
the addon's calls), and a source that is ready, or a timer that is due, whenever
the loop has its turn is dispatched in the end (strong fairness: between two
turns a callback is running, and the action is disabled). `LoopFairSpec` assumes
nothing of the harness: it may hang. `PendingEnds` and `StartingEnds` hold so.
`EveryAskTold` and `CandidatesArrive` are of the form `HarnessAnswers => ...`:
they promise something only in behaviours where a harness that has not exited
goes on reading and answering. Keys, crashes and other callbacks are never fair.

### Disagreements found

Four runs are expected to be violated: each checks one property, quoted from a
comment of the code, that some short behaviour breaks.

| Run | Behaviour |
|---|---|
| `PunctuationLoses` | `ab`, Right to a candidate for `a`, a comma: `a` and the comma are committed, `b` is gone |
| `WrongSession` | pick a prefix; type another letter before the reply; the engine refuses the pick: the refusal is ignored, the engine's session and `buf_` differ from then on, and candidates that session sent are selectable (`ResultsForBuffer`) |
| `ExactLost` | the exact hit and an older search's event are taken in one batch, in that order: the exact one is given back and the wait goes on |
| `StringMixed` | a callback makes a byte array between the daemon's `NewByteArray` and the String made of it: `g_last_bytes` is the callback's, and so is the text |

Seen in the models, with no run of their own:

* The page of a dead session stays selectable while the restart timer replays the
  pinyin (wetype.cpp:649; `candidatesCurrent_` stays set). A pick from it goes as an
  index into the new session's list. When that is in another order, the session
  may keep one letter and `buf_` two: the session is then astray.
* A list of an earlier search is sent, parsed and made current as if it were the
  one asked for. After a partial pick it may be for the letters before the pick:
  its first candidate then spells a letter already delivered, and a Space commits
  that letter again (`Misled`). The comments at jinterop.c:984-989 and 1151-1152
  accept this ("the next key corrects it"). `LettersKept`, `CurrentMatches` and
  `RequestHeld` say what holds in spite of it.
* `recoveryTried_` spent on a lost reply, or on one refusal, is not reset by a
  partial pick, so that a refusal of the next pick is not recovered from: the
  pinyin stays on the panel with no candidates and no request, until a key. The
  ghost `spurned` is the revision this happened to, and `RequestHeld` and
  `CandidatesArrive` except it.
* When `pipe2()` or `fork()` fails in the restart timer, nothing tries again
  until a key: `EngineComesBack` fails with `ForkMayFail`.
* Unloading the addon with a request open starts a process from inside the
  destructor's `stop()` (`~EngineProc` ends it, which `NoProcessLeft` checks).
* The handler of a lost request starts the next process at once, before the
  200 ms restart timer is set.
* A context destroyed while composed in, with no `deactivate` first, leaves its
  pinyin in `buf_`: a key elsewhere cancels it, but a switch of the input method
  before any key commits it to the context that has the focus by then
  (wetype.cpp:484-489 does not ask whose pinyin it is). A Space that was
  pending then stays so, its timer spent, until that key or switch.
* In `Keyboard`, the ghost `last` is "unknown", so that `DigitKnown` promises
  nothing, where the code knowingly or not forgets: a digit passed on while
  composing is not remembered (wetype.cpp:947 asks for an empty buffer); a lone
  Space committed raw forgets a digit before it, which punctuation.h:68-70 says
  it would not cancel; `afterDigit` stays set after an ASCII comma passed on.

What holds of the composition, then, and is proved in section 4: with late lists,
refused picks and deaths, no letter is lost, doubled or moved on a keyboard
without punctuation keys, unless the user picked a candidate that spells
something else (`LettersKept`); what can be selected was sent by a session that
held the pinyin as it is, unless a pick had led it astray (`CurrentMatches`); the
pinyin has an answer on its way, unless it was refused with its recovery spent
(`RequestHeld`). `RequestHeld` and `EngineComesBack` are checked where `fork()` does
not fail. `RequestHeld` speaks of pinyin whose context still exists: that of a
context destroyed has nobody to show candidates to, and its handlers return
(wetype.cpp:680). That nothing but `READY` resets the failure counter is not
checked: `TypeOK` sees only that it stays within `GiveUpAfter`.

## 4. The proofs

**`EngineCallsProofs`** proves, for every `MaxAsks`, every set of client
programs, every set of texts and handlers, and without bound on deaths or
restarts:

* `TypeCorrect`, `PairingHolds`, `OwnReplyHolds`, `ShapeHolds`:
  `Spec => []TypeOK`, `[]Pairing`, `[]OwnReply`, `[]ProcShape`;
* from `Inductive`: `IInv == TypeOK /\ ProcTypeOK /\ ProcShape /\ Pairing /\ OwnReply`
  is an inductive invariant.

`OwnReply` is what a reader wants: no handler gets another's answer. It is not
inductive: the next line must be known to answer the oldest handler, which is
the head of `Pairing`. `Pairing` says that the lines owed (`READY` first, then
those of the handlers) are the lines on the way (read, in the pipe out, to be
written, in the pipe in, in that order). It needs `ProcShape` when a process is
started: no handler may be left over from the one before. Each step then moves a
cut of one sequence (`ReadStep`, `WriteStep`, `TakeStep`), takes the same element
off the front of both (`LineBeforeReady`, `LineAnswers`), or puts one at the back
of both (`SendPairing`). `EngineProcProofs` states these for any client, so that
`WeTypeEngine` uses them too. Assumed: `GiveUpAfter` is positive; `READY` is
not the answer to a line and `""` is not a reply (`GhostAssumption`); the
client's programs are finite sequences of `start`, `stop` and requests
(`ClientAssumption`).

`NoHandlerLost` (`[]NoLostHandler`) and `CallsImplemented`, that the class
implements `AsyncCalls`, need more: where each open request is held. `HeldInv`
says that the stack and `pending_` hold it together, once; that `pending_` holds
requests in the order they were made; and that a line is written, or a handler
given one, only on top of a stack on which nothing else is being written or
answered (`Stacks`), which is why the oldest request is the one answered even
when handlers re-enter `send`. For the refinement each step issues a request,
tells one handler, or changes nothing the abstraction sees (`CallsStep`).

**`ObjectsProofs`** proves `RootsKept`, `FieldsKept`, `Accounted`, `PinsHeld`,
`LastBytesLive` and the refinement `RefinesLocalRefs`, for any finite set of
addresses, any threads, any grace period and limits. What may still be
used is not only unfreed but still registered (`RootsListed`), which is what
makes the rest inductive. A sweep cannot reach it for one of three reasons, each
a conjunct: it is pinned (`PinsHeld`), it belongs to a callback and is no older
than it (`OwnYoung`, with `CallTicks < Grace`), or it is the daemon's own, which
has none when it sweeps (`OwnCalling`). A release cannot reach another's because
calls share no object and point to none of each other's (`OwnApart`,
`OwnClosed`), and takes each object once (`ReleasesOnce`, `ReleaseOnce`).
`FieldsKept` follows from `OwnClosed`. For the refinement, a step makes one
object, drops some, collects one or none of it, case by case (`StepRefines`). Assumed
(`ObjectsAssumption`): a callback is shorter than the grace period, and the main
thread is not one of the engine's.

**`KeyboardProofs`** proves all five invariants of `Keyboard`, for any page
sizes, limits and contexts. Each step is first reduced to what it does to
the page (drawn again, left, or nothing there to draw: `PageMoves`), to the text
(something delivered, a symbol produced, something not known: `TextMoves`) and
to the queue; the invariant is then proved of these few forms. That a page drawn
is sound rests on `PageLies`: rounding the window down and clamping the selection
stay within the list. `LabelsPick` is not inductive and follows from `PanelSound`
and the types (`SoundPicks`): when the page size differs from the one drawn the
panel is drawn again before the label is looked at. Assumed: the fallback size is
between 1 and `MaxPageSize`, and the queue limit is positive.

**`CandQueueProofs`** proves all four invariants of `CandQueue`, for any number of
searches, inputs and sizes. `IteratorOwned` counts the places of an
iterator; it is replaced by `Apart` (the places hold different iterators) and
`Counted` (one is returned when no place holds it), which each step disturbs in
few conjuncts. Facts about sequences of events (`AppendIts`, `TailIts`,
`FrontIts`) are lemmas.

**`WeTypeTypeProofs`** proves the types of the whole input method
(`WeTypeTypeCorrect`), for any letters, keys, contexts, answers, limits, deaths
and number of events. `WInductive` joins them to the protocol's invariant, which
they need: a handler reads the covers of its reply only if the reply is to its
line. `WeTypeOwnReply` is then `Pairing`, `OwnReply` and `ProcShape` with the
addon itself as the client, where `EngineCallsProofs` has the most general one.

**`WeTypeEngineProofs`** proves eight of the properties of `WeTypeProperties`.
Seven rest on `FInv`, the strengthening of the four that speak of moments when
the stack is empty to every moment in between:

* `Ordered`: which call may wait below which. The code calls a function only
  from a few places, so of the many stacks one could write down few occur:
  nothing is below a key of the user's, at most the reading of lines below a
  drain, and a handler is given a line only there.
* `TasksOk`: what each call may assume when it is made, of the context it was
  given, the focus and the buffer. A key that types is typed in the context
  composed in; a panel is drawn for that context or for none; a clear without
  redrawing finds nothing to clear.
* `FocusOk`, `WaitOk`, `PanelOk`: each property, with the calls still to be made
  that will restore it (a composition out of focus is about to be cleared, a
  panel out of date about to be drawn).

Each action is then put in one of a few forms (the head of the stack replaced by
calls that may stand there, `Pushed`, `Quiet`, `Moved`, ...) and the invariant is
proved once per form. `PendingFrozenCorrect`, `ComposedInFocusCorrect`,
`PreeditCompleteCorrect` and `ShownIsSelectedCorrect` are what is left of `FInv`
when the stack is empty. The other three add an invariant of their own:

* `EngineComesBackCorrect` (`Back`): without a process there is a restart set, the
  engine was given up, or a call that will set or do one is on the stack. Assumed:
  `fork()` and `pipe2()` do not fail (`~ForkMayFail`). If they may, the property
  is false: section 3.
* `NoProcessLeftCorrect` (`Unloading`): in the destructor, above its own two
  calls are only handlers told of a loss and what they do about it (`Low`), and
  only the first of them to want its answer starts an engine, because it spends
  `recoveryTried_` (`Quenched`). So when the second `stop()` tells its handlers,
  none starts another.
* `SpansFirstCorrect` (`SInv`): after a start, `OPT` is the first line written,
  its handler the first in `pending_`, and the harness answers it with OK
  (`AskedFirst`, `AskedYet`, `OptApproved`); until it is answered no handler is
  given anything else (`ToldKnowing`). What makes it inductive is `Hushed`: the
  handler of an `OPT` that was lost waits below the calls of `die()` only, so
  that it cannot clear `spansEnabled_` for a process started since.

The same module proves the property a user cares for most, `LettersKeptCorrect`:

    ASSUME AsUsed, \A key \in Keys : key.k # "punct"
    PROVE  Spec => []LettersKept

No letter typed is lost, doubled or moved on a keyboard without the punctuation
keys, or a candidate was picked that spells something else than the pinyin
(`Misled`, section 2). The hypothesis cannot be dropped: `PunctuationLoses` is the
behaviour without it. Of the engine nothing is assumed but that a candidate covers
at least one letter (`AnswersAssumption`; 0 is what the daemon writes when the
engine gives no cover, and then nobody knows what the candidate spells), and of
the harness nothing but that it sends what it fetched.

The invariant is `KInv`. Between callbacks `owed` is the pinyin and the letters
queued (`Raw`). Within one it is not: `commitText` has cleared the buffer and not
yet delivered, `drainQueued` has taken a key off the queue and not yet pressed
it, a letter that found the queue full has drained it and is not yet in the
buffer. `Ahead` says, of each call that may wait on the stack, what is owed
before the queue when it is made; `StackKept` that a call that moves letters finds
it so, and `Single` that there is only one, which is why a letter cannot be in two
hands. `CandsOk` (a candidate spells the letters it covers) makes a partial pick
take off the buffer what it delivers, and needs `SpansFirst`, since a reply parsed
without covers would be taken as covering everything. `QueuedOk` (only printable
keys and releases wait behind a Space) keeps a replayed key from editing. Facts
about `LettersOf`, a `FlattenSeq` (`LettersConcat`, `LettersWithout`), rest on
lemmas by `Induction`. Once `owed` is `Misled` it stays so
(`MisledStays`), and until then a candidate picked spells a beginning of the buffer.

**`WeTypeSessionProofs`** proves that the buffer and the session stay in step:

    CurrentMatchesCorrect  AsUsed                |-  Spec => []CurrentMatches
    RequestHeldCorrect     AsUsed, ~ForkMayFail  |-  Spec => []RequestHeld

Nothing is assumed of the engine or of the daemon's timing: any list of any search
asked for may be the answer, and any pick may be refused. `~ForkMayFail` is needed
because nothing tries again after a failure in the restart timer (section 3).

The addon and the session share no state, only lines on the way, any of which may
be lost with the process. The invariant, `MInv`, follows each of them:

* `End` is what the session will hold once it has taken every line written, or
  `Astray`. `Chain`: each line in the pipe fits what is before it (a batch adds
  letters and its handler waits for the sum; a pick that waits leaves what the
  candidate on the page did not cover), or the session is astray by then.
* `Replies`: each list on its way was sent by a session of the letters its handler
  waits for, or one astray; SKIP goes to a handler with another behind it. What the
  list holds, and which search found it, plays no part.
* `Revs`: a handler made for this revision has captured the input as it is, and
  no two of them wait. So the one reply accepted as current was asked for last.
* `Mirror`: with no call on the stack that will still send, the session will hold
  the pinyin or be astray (`End`); otherwise each such call finds it as it needs to
  (`Due`).
  A letter typed with the engine dead replays all of the pinyin; one typed with
  it alive sends only itself.
* `Stacked`, `TasksFine`, `TopFine`: which calls may wait below which, now with
  what they will send. A write that fails in the middle of `requestCandidates` may
  start another process from a handler, and what is left to send must then
  still be right for the new one. `Over` and `Whole` say why: below the calls of
  the engine at most one call asks for candidates, and that one sends the whole
  pinyin whenever the process may be another.
* `SpansOk`: `OPT` comes before any pick, else the daemon would not keep the rest.

`CurrentMatches` is then inductive with these: a handler that makes its candidates
selectable was told of a list whose session held what it waits for.

For `RequestHeld`, `HInv` adds that no older reply can unmake candidates that are
selectable (`Settled`) and that pinyin without them has a handler waiting or a
call on the stack that will see to it (`Sought`), unless this revision was
refused for good.

Assumed throughout: `AsUsed`, that the parameters of `EngineProc` (lines,
handlers, texts, calls) are the addon's, as `MCWeTypeEngine` gives them; and
`EngineAssumption`, `AnswersAssumption` and those of `EngineProc`.

**Facts about sequences.** `FlattenSeq`, `Min` and `Max` are recursive or chosen,
and need induction over data. The library's induction theorems take a predicate,
which no installed prover can instantiate; `Induction` (`WeTypeTypeProofs`) is
stated for a set of naturals instead, and a predicate is given as the set it
holds on, which it can.

Only model-checked:

* Liveness: `EveryAskTold`, `StartingEnds`, `PendingEnds`, `CandidatesArrive`.
  Fairness and ENABLED are out of the prover's reach.
* `ExactReturned`, `StringOwnBytes` and `ResultsForBuffer`, which are violated.

Every invariant of the passing runs, and every safety property that holds, is a theorem.

## 5. Not modelled

Within modelled components:

* `L`, `PING` and `X`, which the addon never sends; the length of the harness's
  quiet window (any list asked for may have come by its end, or none); a line longer than
  the harness's buffer, which it discards with an answer; a partial write to the
  pipe; a session the engine fails to create.
* The registry when `realloc` fails (its object then leaks, jinterop.c:72), and
  `WETYPE_GC_OFF`, with which nothing is collected. Races on `g_last_bytes`
  itself, which is read and written outside the mutex: a step takes it as a
  whole. Two candidates that share one id array. An object of the engine kept
  only in a field of a globally referenced or completed object is not protected
  (JNI would): the grace period may take it; `FieldsKept` speaks of the fields of
  a call's own objects.
* Key releases in `Keyboard`, which change nothing there, and the letters
  themselves.

Components left out, and why:

* Pinyin segmentation and glossary: pure functions of the text shown, with no
  effect on what is selected or committed.
* The harness log: a file opened once. (Its size is checked when it is opened,
  not while it is written.)
* The JNI functions that keep no object, and the table's header: data conversion.
* The engine and its start-up: a proprietary library, external here.
* Allocation tracing and the binary patches: diagnostics of that library, not
  part of the running input method.
* Installation scripts: shell and Python run once by hand.
* Tests and benchmarks: read as documentation.

What could still be done: `Keyboard` shown to be a view of `WeTypeEngine`, and
`HarnessSession` of `CandQueue`.
