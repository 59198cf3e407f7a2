---------------------------- MODULE EngineProc ----------------------------
(***************************************************************************)
(* The addon's end of the engine process (class EngineProc, wetype.cpp)    *)
(* and the two pipes that join it to the harness running as its child.     *)
(*                                                                         *)
(* Everything in the addon runs on Fcitx's main thread, one callback after *)
(* another, but the callbacks re-enter each other: a failed write calls    *)
(* die(), die() calls the handlers of every pending request, and a handler *)
(* may start a new process and send to it before die() goes on to          *)
(* onExit_().  `todo' is that call stack: its head is the next call to be  *)
(* made, and making it replaces it by the calls it makes.  An event of     *)
(* Fcitx's loop is only taken when `todo' is empty; the harness, a process *)
(* of its own, may move at any time.                                       *)
(*                                                                         *)
(* A line sent is any record with a field op ("B" lines may be merged by   *)
(* the harness).  A reply carries `re', the line it answers: a ghost the   *)
(* program does not have, which is what lets pairing be stated.            *)
(***************************************************************************)
EXTENDS Naturals, Sequences

CONSTANTS
  Line,          \* lines the client may send
  Handler,       \* continuations the client passes to send()
  Local,         \* calls private to the client
  Text,          \* what a reply line may say
  Boot,          \* stands for "READY", and for what it answers
  Failed,        \* the "" a handler is given when its request was lost
  GiveUpAfter,   \* start() refuses after this many attempts without READY
  ForkMayFail    \* whether pipe2() and fork() may fail

ASSUME GiveUpAssumption == GiveUpAfter \in Nat \ {0}
ASSUME GhostAssumption  == Boot \notin Line /\ Failed \notin [re: Line, text: Text]

VARIABLES
  todo,       \* the addon's call stack, next call first
  alive,      \* pid_ > 0
  state,      \* state_
  pending,    \* pending_: handlers not answered yet, each with its line
  rbuf,       \* rbuf_: lines read and not yet handled
  failCount,  \* failCount_
  gaveUp,     \* gaveUp_
  exited,     \* the child has exited but has not been waited for
  inPipe,     \* lines written to the child and not yet consumed by it
  unwritten,  \* lines the child has still to write for what it consumed
  outPipe     \* lines the child wrote and the addon has not read

addonVars == <<todo, alive, state, pending, rbuf, failCount, gaveUp>>
childVars == <<exited, inPipe, unwritten, outPipe>>
procVars  == <<addonVars, childVars>>

Reply   == [re: Line, text: Text]
Ready   == [re |-> Boot, text |-> Boot]
Entry   == [line: Line, h: Handler]
Task    == [op: {"send"}, line: Line, h: Handler]
             \cup [op: {"call"}, line: Line, h: Handler, resp: Reply \cup {Failed}]
             \cup [op: {"start", "stop", "die", "exit", "lines"}]
             \cup Local

ReplyOrReady == Reply \cup {Ready}

ProcTypeOK ==
  /\ todo \in Seq(Task)
  /\ alive \in BOOLEAN
  /\ state \in {"dead", "starting", "ready"}
  /\ pending \in Seq(Entry)
  /\ rbuf \in Seq(ReplyOrReady)
  /\ failCount \in 0..GiveUpAfter
  /\ gaveUp \in BOOLEAN
  /\ exited \in BOOLEAN
  /\ inPipe \in Seq(Line)
  /\ unwritten \in Seq(ReplyOrReady)
  /\ outPipe \in Seq(ReplyOrReady)

Send(line, h)       == [op |-> "send", line |-> line, h |-> h]
Call(entry, resp)   == [op |-> "call", line |-> entry.line, h |-> entry.h, resp |-> resp]
Do(op)              == [op |-> op]

ProcInit(program) ==
  /\ todo = program
  /\ alive = FALSE /\ state = "dead" /\ pending = <<>> /\ rbuf = <<>>
  /\ failCount = 0 /\ gaveUp = FALSE
  /\ exited = FALSE /\ inPipe = <<>> /\ unwritten = <<>> /\ outPipe = <<>>

Idle    == todo = <<>>
Calling(op) == ~Idle /\ Head(todo).op = op

----------------------------------------------------------------------------
(* Calls on the stack.  `cont' is what the caller of start() does next.    *)

\* start() returns true: there is a process already, or one was forked.
\* A new process has not said READY: that is the first line it will write.
StartAlive(cont) ==
  /\ alive
  /\ todo' = cont \o Tail(todo)
  /\ UNCHANGED <<alive, state, pending, rbuf, failCount, gaveUp, childVars>>

MayStartAlways == TRUE   \* mutant: failures are not counted
MayStart == failCount < GiveUpAfter

StartForkDirty(cont) ==   \* mutant: rbuf_ is not cleared
  /\ ~alive /\ MayStart
  /\ alive' = TRUE /\ state' = "starting" /\ failCount' = failCount + 1
  /\ exited' = FALSE /\ inPipe' = <<>> /\ unwritten' = <<Ready>> /\ outPipe' = <<>>
  /\ todo' = cont \o Tail(todo)
  /\ UNCHANGED <<pending, rbuf, gaveUp>>

StartFork(cont) ==
  /\ ~alive /\ MayStart
  /\ alive' = TRUE
  /\ state' = "starting"
  /\ rbuf' = <<>>
  /\ failCount' = failCount + 1
  /\ exited' = FALSE
  /\ inPipe' = <<>>
  /\ unwritten' = <<Ready>>
  /\ outPipe' = <<>>
  /\ todo' = cont \o Tail(todo)
  /\ UNCHANGED <<pending, gaveUp>>

\* start() returns false: too many failures, or no pipe or process to be had.
StartRefused ==
  /\ ~alive
  /\ \/ ~MayStart /\ gaveUp' = TRUE
     \/ MayStart /\ ForkMayFail /\ UNCHANGED gaveUp
  /\ todo' = Tail(todo)
  /\ UNCHANGED <<alive, state, pending, rbuf, failCount, childVars>>

FailNobody == <<>>   \* mutant: pending_ is cleared, its handlers not called
FailPendingHandlers == [i \in DOMAIN pending |-> Call(pending[i], Failed)]

StopStaysReady ==   \* mutant: state_ is left as it was
  /\ Calling("stop")
  /\ alive' = FALSE /\ pending' = <<>>
  /\ todo' = FailPendingHandlers \o Tail(todo)
  /\ exited' = FALSE /\ inPipe' = <<>> /\ unwritten' = <<>> /\ outPipe' = <<>>
  /\ UNCHANGED <<state, rbuf, failCount, gaveUp>>

StopKeepsPending ==   \* mutant: the handlers are called but stay in pending_
  /\ Calling("stop")
  /\ alive' = FALSE /\ state' = "dead"
  /\ todo' = FailPendingHandlers \o Tail(todo)
  /\ exited' = FALSE /\ inPipe' = <<>> /\ unwritten' = <<>> /\ outPipe' = <<>>
  /\ UNCHANGED <<pending, rbuf, failCount, gaveUp>>

\* stop(): the child is told to quit or killed and waited for, its pipes are
\* closed, and every request still pending fails, in order.
Stop ==
  /\ Calling("stop")
  /\ alive' = FALSE
  /\ state' = "dead"
  /\ pending' = <<>>
  /\ todo' = FailPendingHandlers \o Tail(todo)
  /\ exited' = FALSE
  /\ inPipe' = <<>> /\ unwritten' = <<>> /\ outPipe' = <<>>
  /\ UNCHANGED <<rbuf, failCount, gaveUp>>

\* die() is stop() and then the client's onExit_.
Die ==
  /\ Calling("die")
  /\ todo' = <<Do("stop"), Do("exit")>> \o Tail(todo)
  /\ UNCHANGED <<alive, state, pending, rbuf, failCount, gaveUp, childVars>>

SendDeadSilent ==   \* mutant: the handler is dropped
  /\ Calling("send") /\ ~alive
  /\ todo' = Tail(todo)
  /\ UNCHANGED <<alive, state, pending, rbuf, failCount, gaveUp, childVars>>

SendBrokenTwice ==   \* mutant: the handler is pushed before the write fails
  /\ Calling("send") /\ alive /\ exited
  /\ pending' = Append(pending, [line |-> Head(todo).line, h |-> Head(todo).h])
  /\ todo' = <<Do("die"), Call(Head(todo), Failed)>> \o Tail(todo)
  /\ UNCHANGED <<alive, state, rbuf, failCount, gaveUp, childVars>>

\* send(): no process; a process that has exited (EPIPE); a process.
SendDead ==
  /\ Calling("send") /\ ~alive
  /\ todo' = <<Call(Head(todo), Failed)>> \o Tail(todo)
  /\ UNCHANGED <<alive, state, pending, rbuf, failCount, gaveUp, childVars>>

SendBroken ==
  /\ Calling("send") /\ alive /\ exited
  /\ todo' = <<Do("die"), Call(Head(todo), Failed)>> \o Tail(todo)
  /\ UNCHANGED <<alive, state, pending, rbuf, failCount, gaveUp, childVars>>

SendWritten ==
  /\ Calling("send") /\ alive /\ ~exited
  /\ inPipe' = Append(inPipe, Head(todo).line)
  /\ pending' = Append(pending, [line |-> Head(todo).line, h |-> Head(todo).h])
  /\ todo' = Tail(todo)
  /\ UNCHANGED <<alive, state, rbuf, failCount, gaveUp, exited, unwritten, outPipe>>

\* The loop of onReadable() over the lines read, and onLine() on each: before
\* READY only READY counts, then each line answers the oldest request.
LinesDone ==
  /\ Calling("lines") /\ rbuf = <<>>
  /\ todo' = Tail(todo)
  /\ UNCHANGED <<alive, state, pending, rbuf, failCount, gaveUp, childVars>>

LineBeforeReady ==
  /\ Calling("lines") /\ rbuf # <<>> /\ state = "starting"
  /\ rbuf' = Tail(rbuf)
  /\ IF Head(rbuf) = Ready
       THEN state' = "ready" /\ failCount' = 0
       ELSE UNCHANGED <<state, failCount>>
  /\ UNCHANGED <<todo, alive, pending, gaveUp, childVars>>

LineIgnored ==
  /\ Calling("lines") /\ rbuf # <<>>
  /\ state = "dead" \/ (state = "ready" /\ pending = <<>>)
  /\ rbuf' = Tail(rbuf)
  /\ UNCHANGED <<todo, alive, state, pending, failCount, gaveUp, childVars>>

LineAnswers ==
  /\ Calling("lines") /\ rbuf # <<>> /\ state = "ready" /\ pending # <<>>
  /\ rbuf' = Tail(rbuf)
  /\ pending' = Tail(pending)
  /\ todo' = <<Call(Head(pending), Head(rbuf))>> \o todo
  /\ UNCHANGED <<alive, state, failCount, gaveUp, childVars>>

ProcCalls ==
  \/ Stop \/ Die
  \/ SendDead \/ SendBroken \/ SendWritten
  \/ LinesDone \/ LineBeforeReady \/ LineIgnored \/ LineAnswers

----------------------------------------------------------------------------
(* Events of Fcitx's loop that concern the process.                        *)

\* The pipe is readable: one read() takes some of the lines in it.
OnReadable ==
  /\ Idle /\ alive /\ outPipe # <<>>
  /\ \E n \in 1..Len(outPipe) :
       /\ rbuf' = rbuf \o SubSeq(outPipe, 1, n)
       /\ outPipe' = SubSeq(outPipe, n + 1, Len(outPipe))
  /\ todo' = <<Do("lines")>>
  /\ UNCHANGED <<alive, state, pending, failCount, gaveUp, exited, inPipe, unwritten>>

\* End of file: the child is gone and all it wrote has been read.
OnEof ==
  /\ Idle /\ alive /\ exited /\ outPipe = <<>>
  /\ todo' = <<Do("die")>>
  /\ UNCHANGED <<alive, state, pending, rbuf, failCount, gaveUp, childVars>>

OnStartTimeoutIdle ==   \* mutant: the watchdog only logs
  /\ Idle /\ state = "starting"
  /\ UNCHANGED procVars

\* 90 s after start(), unless READY or stop() disarmed the timer.
OnStartTimeout ==
  /\ Idle /\ state = "starting"
  /\ todo' = <<Do("die")>>
  /\ UNCHANGED <<alive, state, pending, rbuf, failCount, gaveUp, childVars>>

ProcEvents == OnReadable \/ OnEof \/ OnStartTimeout

----------------------------------------------------------------------------
(* The harness, as far as pairing goes: one reply per line consumed, in    *)
(* order.  texts[i] is what it answers to the i-th line it takes; it takes *)
(* more than one only to merge consecutive B lines.                        *)

Take(texts) ==
  LET n == Len(texts)
  IN  /\ alive /\ ~exited /\ unwritten = <<>>
      /\ n \in 1..Len(inPipe)
      /\ n > 1 => \A i \in 1..n : inPipe[i].op = "B"
      /\ unwritten' = [i \in 1..n |-> [re |-> inPipe[i], text |-> texts[i]]]
      /\ inPipe' = SubSeq(inPipe, n + 1, Len(inPipe))
      /\ UNCHANGED <<addonVars, exited, outPipe>>

WriteLine ==
  /\ alive /\ ~exited /\ unwritten # <<>>
  /\ outPipe' = Append(outPipe, Head(unwritten))
  /\ unwritten' = Tail(unwritten)
  /\ UNCHANGED <<addonVars, exited, inPipe>>

\* It dies.  Nothing will read inPipe or write the rest of unwritten.
ChildExit ==
  /\ alive /\ ~exited
  /\ exited' = TRUE
  /\ UNCHANGED <<addonVars, inPipe, unwritten, outPipe>>

----------------------------------------------------------------------------
LinesOf(entries) == [i \in DOMAIN entries |-> entries[i].line]
Answered(replies) == [i \in DOMAIN replies |-> replies[i].re]

\* What the handlers in pending_ wait for, READY first.
Awaited == (IF state = "starting" THEN <<Boot>> ELSE <<>>) \o LinesOf(pending)

\* What is on its way to them: replies read, in the pipe, and to be written,
\* then the lines the harness has not looked at.
OnTheWay == Answered(((rbuf \o outPipe) \o unwritten)) \o inPipe

\* Safety.  The protocol has no request numbers: a reply is matched with the
\* oldest handler by position alone (wetype.cpp:356-374).  However writes,
\* merged batches, deaths and restarts interleave, the n-th line the addon
\* will get from the live process answers the n-th handler it still holds.
Pairing == alive => Awaited = OnTheWay

\* Safety.  A handler called with a line is called with the answer to the very
\* line it was sent with (wetype.cpp:369-373).
OwnReply ==
  \A i \in DOMAIN todo :
    todo[i].op = "call" /\ todo[i].resp # Failed => todo[i].resp.re = todo[i].line

\* The process and the state machine agree, and without a process no handler
\* is held back: stop() has failed them all (wetype.cpp:309-313).
ProcShape ==
  /\ alive <=> state # "dead"
  /\ ~alive => pending = <<>>
============================================================================
