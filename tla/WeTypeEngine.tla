---------------------------- MODULE WeTypeEngine ----------------------------
(***************************************************************************)
(* The whole input method at work: processKey() and the other callbacks    *)
(* Fcitx makes into class WeTypeEngine (wetype.cpp), the two timers, and   *)
(* the harness, over the composition of Composition.tla.                   *)
(***************************************************************************)
EXTENDS Composition

CONSTANTS
  Keys,         \* keys the user may press or release
  Callbacks,    \* other callbacks made: "reset", "focus", "close", "switch", "click", "destroy"
  QueueLimit,   \* keys queued behind a pending Space (256 in the code)
  MaxEvents,    \* bound: keys and callbacks in a behaviour
  MaxCrashes    \* bound: deaths of the harness in a behaviour

ASSUME EngineAssumption ==
  /\ Keys \subseteq Key
  /\ Callbacks \subseteq {"reset", "focus", "close", "switch", "click", "destroy"}
  /\ QueueLimit \in Nat \ {0}
  /\ NoIc \notin IC \cup Letter

VARIABLES
  focus,     \* the input context that has the focus
  gone,      \* how far the destructor has come: "no", "stopping", "destroyed"
  events, crashes

worldVars == <<focus, gone, events, crashes>>
vars == <<procVars, sessionVars, typingVars, worldVars>>

\* What a call made by the addon itself leaves alone.
quietVars == <<engineVars, ctxVars, linkVars, worldVars>>

Press(ic, key) == [op |-> "key", ic |-> ic, key |-> key, src |-> "user"]
TypeNoReplay(key) == [op |-> "type", ic |-> Head(todo).ic, c |-> key.c,   \* mutant
                      src |-> Head(todo).src, replay |-> FALSE]
Type(key)      == [op |-> "type", ic |-> Head(todo).ic, c |-> key.c, src |-> Head(todo).src,
                   replay |-> ~alive /\ buf # <<>>]
ClearAll(ic, redraw, cancel) == [op |-> "clear", ic |-> ic, redraw |-> redraw, cancel |-> cancel]

\* A letter typed is owed; text cancelled by the user is owed no longer; text
\* lost stays lost.
Owing(c)  == IF Unaccounted(owed) THEN owed ELSE Append(owed, c)
Cancelled == IF Unaccounted(owed) THEN owed ELSE <<>>
Erased    == IF Unaccounted(owed) THEN owed ELSE Front(owed)

Shortcut(key)   == key.k = "ctrl"
Printable(key)  == key.k \in {"letter", "space", "digit", "punct"}
Composing       == buf # <<>>
Selectable      == current /\ cands # <<>>

----------------------------------------------------------------------------
(* clearAll() and the change of input context.                             *)

ForgetNotPending ==   \* mutant: cancelPending() is not called
  /\ epoch' = epoch + 1
  /\ NewInput
  /\ UNCHANGED <<pend, timer, queued>>

Forget ==
  /\ pend' = FALSE /\ timer' = NoTimer /\ queued' = <<>>
  /\ epoch' = epoch + 1
  /\ NewInput

ClearEverything ==
  /\ Calling("clear")
  /\ Forget
  /\ owed' = IF Head(todo).cancel THEN Cancelled ELSE owed
  /\ Then(<<Clear>> \o IF Head(todo).redraw THEN <<Ui(Head(todo).ic)>> ELSE <<>>)
  /\ UNCHANGED <<engineVars, draining, icRef, linkVars, panel, spurned, worldVars>>

\* A key for another context than the one being composed in.
KeyElsewhere ==
  /\ Calling("key") /\ icRef # Head(todo).ic
  /\ Forget
  /\ owed' = Cancelled
  /\ icRef' = Head(todo).ic
  /\ todo' = <<Clear>> \o todo
  /\ UNCHANGED <<engineVars, draining, linkVars, panel, spurned, worldVars>>

----------------------------------------------------------------------------
(* processKey() while a Space is pending: the key waits, or ends the wait. *)

WaitingKey(key) ==
  /\ Calling("key") /\ icRef = Head(todo).ic /\ pend
  /\ key = Head(todo).key

PressesIn(keys) == {i \in DOMAIN keys : ~keys[i].rel}

PendingEsc ==
  \E key \in Keys :
    /\ WaitingKey(key) /\ key.k = "esc" /\ ~key.rel
    /\ Then(<<ClearAll(icRef, TRUE, TRUE)>>)
    /\ UNCHANGED <<quietVars, inputVars, pendVars, outVars>>

\* BackSpace takes back the last key queued, and its release.
PendingBackQueued ==
  \E key \in Keys :
    /\ WaitingKey(key) /\ key.k = "back" /\ ~key.rel
    /\ PressesIn(queued) # {}
    /\ LET last == Max(PressesIn(queued))
           release == [queued[last] EXCEPT !.rel = TRUE]
           left == RemoveAt(queued, last)
           after == {i \in last..Len(left) : left[i] = release}
       IN  /\ queued' = IF after = {} THEN left ELSE RemoveAt(left, Min(after))
           /\ owed' = IF IsLetter(queued[last]) THEN Erased ELSE owed
    /\ todo' = Rest
    /\ UNCHANGED <<quietVars, inputVars, pend, timer, draining, spurned>>
    /\ Show(icRef)

\* BackSpace with nothing queued edits the pinyin; the Space stays pending.
PendingBackPinyin ==
  \E key \in Keys :
    /\ WaitingKey(key) /\ key.k = "back" /\ ~key.rel
    /\ PressesIn(queued) = {}
    /\ buf' = Front(buf)
    /\ revision' = revision + 1
    /\ current' = FALSE /\ cands' = <<>>
    /\ owed' = Erased
    /\ Then(<<Clear>> \o IF buf' = <<>> THEN <<Fallback(icRef)>>
                                       ELSE <<Request(buf'), Ui(icRef)>>)
    /\ UNCHANGED <<quietVars, selected, tried, pendVars, panel, spurned>>

\* Navigation and shortcuts must not overtake the text already consumed.
PendingOvertaken ==
  \E key \in Keys :
    /\ WaitingKey(key) /\ ~key.rel
    /\ key.k \notin {"esc", "back"} /\ (~Printable(key) \/ Shortcut(key))
    /\ Then(<<Fallback(icRef)>>)
    /\ UNCHANGED <<quietVars, inputVars, pendVars, outVars>>

PendingQueued ==
  \E key \in Keys :
    /\ WaitingKey(key)
    /\ key.rel \/ Printable(key)
    /\ queued' = Append(queued, key)
    /\ owed' = IF IsLetter(key) THEN Owing(key.c) ELSE owed
    /\ UNCHANGED <<quietVars, inputVars, pend, timer, draining, spurned>>
    /\ IF Len(queued') >= QueueLimit
         THEN Then(<<Fallback(icRef)>>) /\ UNCHANGED panel
         ELSE todo' = Rest /\ Show(icRef)

----------------------------------------------------------------------------
(* processKey() otherwise.                                                 *)

KeyNow(key) ==
  /\ Calling("key") /\ icRef = Head(todo).ic /\ ~pend
  /\ key = Head(todo).key

\* A letter: the engine first, then the buffer, then the request.  Replaying
\* is decided before the engine is started.
KeyLetter ==
  \E key \in Keys :
    /\ KeyNow(key) /\ IsLetter(key)
    /\ tried' = (tried /\ Composing)
    /\ Then(IfDead(<<Do("ensure")>>) \o <<Type(key)>>)
    /\ UNCHANGED <<quietVars, buf, cands, current, selected, revision, pendVars, outVars>>

TypeLetter ==
  /\ Calling("type")
  /\ revision' = revision + 1
  /\ buf' = Append(buf, Head(todo).c)
  /\ current' = FALSE
  /\ owed' = IF Head(todo).src = "user" THEN Owing(Head(todo).c) ELSE owed
  /\ Then(<<Request(IF Head(todo).replay THEN buf' ELSE <<Head(todo).c>>)>>)
  /\ UNCHANGED <<quietVars, cands, selected, tried, pendVars, spurned>>
  /\ Show(Head(todo).ic)

\* Right: the next candidate.
KeyNext ==
  \E key \in Keys :
    /\ KeyNow(key) /\ ~key.rel /\ key.k = "next" /\ Composing /\ Selectable
    /\ selected' = Min({selected + 1, Len(cands)})
    /\ todo' = Rest
    /\ UNCHANGED <<quietVars, buf, cands, current, revision, tried, pendVars, outVars>>

\* Punctuation commits the selected candidate, or the pinyin, and itself.
KeyPunctuation ==
  \E key \in Keys :
    /\ KeyNow(key) /\ ~key.rel /\ key.k = "punct" /\ Composing
    /\ LET cand == cands[selected]
       IN  /\ owed' = IF Selectable THEN Choosing(cand) ELSE owed
           /\ Then(IF Selectable
                     THEN <<Send(Pick(selected, cand.cover), Nobody), Commit(icRef, cand.spells)>>
                     ELSE <<Commit(icRef, buf)>>)
    /\ UNCHANGED <<quietVars, inputVars, pendVars, panel, spurned>>

KeyDigit ==
  \E key \in Keys :
    /\ KeyNow(key) /\ ~key.rel /\ key.k = "digit" /\ Selectable /\ key.c \in DOMAIN cands
    /\ Then(<<Select(icRef, key.c)>>)
    /\ UNCHANGED <<quietVars, inputVars, pendVars, outVars>>

KeySpace ==
  \E key \in Keys :
    /\ KeyNow(key) /\ ~key.rel /\ key.k = "space" /\ Composing
    /\ Then(<<IF Selectable THEN Select(icRef, selected) ELSE [op |-> "arm", ic |-> icRef]>>)
    /\ UNCHANGED <<quietVars, inputVars, pendVars, outVars>>

KeyReturn ==
  \E key \in Keys :
    /\ KeyNow(key) /\ ~key.rel /\ key.k = "return" /\ Composing
    /\ Then(<<Commit(icRef, buf)>>)
    /\ UNCHANGED <<quietVars, inputVars, pendVars, outVars>>

\* BackSpace: a new session, and the shorter pinyin replayed into it.
KeyBack ==
  \E key \in Keys :
    /\ KeyNow(key) /\ ~key.rel /\ key.k = "back" /\ Composing
    /\ buf' = Front(buf)
    /\ revision' = revision + 1
    /\ owed' = Erased
    /\ IF buf' = <<>>
         THEN NoCandidates /\ Then(<<Clear, Ui(icRef)>>)
         ELSE /\ current' = FALSE /\ UNCHANGED <<cands, selected>>
              /\ Then(<<Clear, Request(buf'), Ui(icRef)>>)
    /\ UNCHANGED <<quietVars, tried, pendVars, panel, spurned>>

KeyEsc ==
  \E key \in Keys :
    /\ KeyNow(key) /\ ~key.rel /\ key.k = "esc" /\ Composing
    /\ Then(<<ClearAll(icRef, TRUE, TRUE)>>)
    /\ UNCHANGED <<quietVars, inputVars, pendVars, outVars>>

\* Anything else is left to the application.
KeyPasses ==
  \E key \in Keys :
    /\ KeyNow(key)
    /\ \/ key.rel \/ Shortcut(key)
       \/ key.k \in {"punct", "space", "return", "back", "esc"} /\ ~Composing
       \/ key.k = "next" /\ ~(Composing /\ Selectable)
       \/ key.k = "digit" /\ ~(Selectable /\ key.c \in DOMAIN cands)
    /\ todo' = Rest
    /\ UNCHANGED <<quietVars, inputVars, pendVars, outVars>>

KeyCalls ==
  \/ ClearEverything \/ KeyElsewhere
  \/ PendingEsc \/ PendingBackQueued \/ PendingBackPinyin \/ PendingOvertaken \/ PendingQueued
  \/ KeyLetter \/ TypeLetter \/ KeyNext \/ KeyPunctuation \/ KeyDigit \/ KeySpace
  \/ KeyReturn \/ KeyBack \/ KeyEsc \/ KeyPasses

----------------------------------------------------------------------------
(* Callbacks: keys, the other events of Fcitx, the two timers.             *)

Turn == Idle /\ gone = "no"

Happens(name) == Turn /\ events < MaxEvents /\ events' = events + 1 /\ name \in Callbacks

KeyEvent ==
  /\ Turn /\ events < MaxEvents /\ events' = events + 1
  /\ \E key \in Keys : todo' = <<Press(focus, key)>>
  /\ UNCHANGED <<engineVars, typingVars, focus, gone, crashes>>

ShownNever == FALSE   \* mutant: the panel is not redrawn
Shown == buf # <<>> \/ cands # <<>>

\* reset(): the application moved the cursor or the like.
Reset ==
  /\ Happens("reset")
  /\ todo' = <<Send(Plain("SAVE"), Nobody), ClearAll(focus, Shown, TRUE)>>
  /\ UNCHANGED <<engineVars, typingVars, focus, gone, crashes>>

FocusOutWaiting ==   \* mutant: a pending Space is left to its timer
  /\ Happens("focus")
  /\ focus' \in IC \ {focus}
  /\ todo' = IF pend THEN <<>> ELSE <<ClearAll(focus, Shown, TRUE)>>
  /\ UNCHANGED <<engineVars, typingVars, gone, crashes>>

\* deactivate(): the focus moves to another context.
FocusOut ==
  /\ Happens("focus")
  /\ focus' \in IC \ {focus}
  /\ todo' = <<ClearAll(focus, Shown, TRUE)>>
  /\ UNCHANGED <<engineVars, typingVars, gone, crashes>>

\* The context with the focus is destroyed, with no deactivate(): icRef_, if it
\* watched it, watches nothing, and so does every handler and timer that did.
\* (They keep the name here, but no longer equal icRef; a new context of that
\* name begins with a key, which finds another icRef_ and changes the epoch.)
Close ==
  /\ Happens("close")
  /\ focus' \in IC \ {focus}
  /\ icRef' = IF icRef = focus THEN NoIc ELSE icRef
  /\ panel' = [panel EXCEPT ![focus] = Panel(<<>>, <<>>)]
  /\ UNCHANGED <<engineVars, inputVars, pendVars, epoch, linkVars, owed, spurned, todo, gone, crashes>>

\* deactivate() because the input method is switched: the pinyin is kept as text.
SwitchInputMethod ==
  /\ Happens("switch")
  /\ owed' = IF Composing THEN Delivered(Raw) ELSE owed
  /\ todo' = <<ClearAll(focus, Shown, FALSE)>>
  /\ UNCHANGED <<engineVars, inputVars, pendVars, ctxVars, linkVars, panel, spurned, focus, gone, crashes>>

\* A candidate on some context's panel is clicked.
Click ==
  /\ Happens("click")
  /\ \E ic \in IC : \E i \in DOMAIN panel[ic].cands : todo' = <<Select(ic, i)>>
  /\ UNCHANGED <<engineVars, typingVars, focus, gone, crashes>>

\* The addon is unloaded: ~WeTypeEngine, then its members', ~EngineProc last.
Destroy ==
  /\ Happens("destroy")
  /\ pend' = FALSE /\ timer' = NoTimer /\ queued' = <<>>
  /\ restart' = FALSE
  /\ gone' = "stopping"
  /\ todo' = <<Do("stop"), Do("members"), Do("stop")>>
  /\ UNCHANGED <<engineVars, inputVars, draining, ctxVars, spansOn, outVars, focus, crashes>>

\* A handler called after this reads icRef_ destroyed: as it was, or nothing.
DestroyMembers ==
  /\ Calling("members")
  /\ gone' = "destroyed"
  /\ icRef' \in {icRef, NoIc}
  /\ todo' = Rest
  /\ UNCHANGED <<engineVars, inputVars, pendVars, epoch, linkVars, outVars, focus, events, crashes>>

\* 5 s after armPending(), unless disarmed; it checks whose Space it was.
OnPendingTimer ==
  /\ Turn /\ timer # NoTimer
  /\ IF timer.ic = icRef /\ timer.epoch = epoch /\ pend
       THEN todo' = <<Fallback(icRef)>> /\ UNCHANGED timer
       ELSE timer' = NoTimer /\ UNCHANGED todo
  /\ UNCHANGED <<quietVars, inputVars, pend, queued, draining, outVars>>

\* 200 ms after the engine died: start it and replay the unfinished pinyin.
OnRestartTimer ==
  /\ Turn /\ restart
  /\ restart' = FALSE
  /\ IF alive THEN UNCHANGED todo ELSE todo' = Revive
  /\ UNCHANGED <<engineVars, inputVars, pendVars, ctxVars, spansOn, outVars, worldVars>>

Timers == OnPendingTimer \/ OnRestartTimer

Callback == KeyEvent \/ Reset \/ FocusOut \/ Close \/ SwitchInputMethod \/ Click \/ Destroy

----------------------------------------------------------------------------
(* The specification.                                                      *)

\* The constructor: scheduleRestart is the engine's onExit_, and the engine is
\* started at once.
Init ==
  /\ ProcInit(<<Do("ensure")>>)
  /\ SessionInit
  /\ CompositionInit
  /\ focus \in IC
  /\ gone = "no" /\ events = 0 /\ crashes = 0

\* The calls of EngineProc; a process that is stopped takes its session along.
ProcStep ==
  /\ ProcCalls
  /\ IF Calling("stop") THEN FreshSession ELSE UNCHANGED sessionVars
  /\ UNCHANGED <<typingVars, worldVars>>

AddonCalls == ProcStep \/ (CompositionCalls /\ UNCHANGED worldVars) \/ KeyCalls \/ DestroyMembers

ProcEvent(E) == E /\ gone = "no" /\ UNCHANGED <<sessionVars, typingVars, worldVars>>

(* The harness is another process and may move at any time (EngineCalls lets  *)
(* it).  Here it moves between callbacks, which loses nothing the addon could *)
(* see: inside a callback the addon reads nothing from it, only appends to    *)
(* inPipe or discards both pipes, so its steps commute with the addon's calls.*)
(* Its death can be seen there, by a write, so it may die before any write.   *)

HarnessStep ==
  /\ Idle
  /\ \/ HarnessTakes
     \/ WriteLine /\ UNCHANGED sessionVars
  /\ UNCHANGED <<typingVars, worldVars>>

Crash ==
  /\ Idle \/ Calling("send")
  /\ crashes < MaxCrashes /\ crashes' = crashes + 1
  /\ ChildExit
  /\ FreshSession
  /\ UNCHANGED <<typingVars, focus, gone, events>>

Next ==
  \/ AddonCalls \/ Callback \/ Timers
  \/ ProcEvent(OnReadable) \/ ProcEvent(OnEof) \/ ProcEvent(OnStartTimeout)
  \/ HarnessStep \/ Crash

Spec == Init /\ [][Next]_vars
============================================================================
