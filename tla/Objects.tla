------------------------------ MODULE Objects ------------------------------
(***************************************************************************)
(* The harness's fake JNI objects (jinterop.c 35-235, 371-555, 637-704,    *)
(* 884-958).  The engine's native code makes Java objects through the JNI  *)
(* table; Android would collect them when the native call returns.  Here   *)
(* every object is entered in a registry, and the daemon's main thread     *)
(* frees, when it starts a command, what was registered a grace period ago *)
(* and has no global reference; the candidates it has copied it releases   *)
(* at once.  The engine's callback threads make objects all the while.     *)
(*                                                                         *)
(* A step is a critical section of g_reg_mu, or the use of one object      *)
(* outside it.  An address is a name: malloc may hand out a freed one.     *)
(* The registry's order is not kept: it matters for its first              *)
(* g_reg_keep_from entries only, which nothing moves or removes.           *)
(*                                                                         *)
(* What the engine does with its objects is external: any calls, provided  *)
(* it uses an object in the native call that made it, or holds a global    *)
(* reference to it, and its callbacks return within CallTicks.             *)
(***************************************************************************)
EXTENDS Naturals, FiniteSets

CONSTANTS
  Addr,          \* what malloc may return
  Startup,       \* the objects registered when the daemon starts
  None,          \* NULL
  Engine,        \* the engine's threads that call back
  Daemon,        \* the main thread
  Grace,         \* WETYPE_GC_MS, in ticks
  CallTicks,     \* how long a callback may take
  SinglesLimit,  \* auto-completed objects: 32
  MaxGlobals,    \* bound: global references to one object
  MaxFields      \* bound: the fields or elements of an object

ASSUME ObjectsAssumption ==
  /\ Startup \subseteq Addr /\ None \notin Addr /\ Daemon \notin Engine
  /\ Grace \in Nat /\ CallTicks \in Nat /\ CallTicks < Grace
  /\ SinglesLimit \in Nat /\ MaxGlobals \in Nat /\ MaxFields \in Nat
  /\ IsFiniteSet(Addr)

VARIABLES
  kind,       \* what is at an address
  refs,       \* the objects whose memory its fields or elements point into
  listed,     \* the registry, g_reg,
  age,        \* its times, as ticks since, up to Grace,
  pin,        \* and its pins
  dying,      \* taken off the registry, not yet freed
  last,       \* g_last_bytes
  calling,    \* the threads in a native call
  own,        \* ghost: what the call has made and may use
  clock,      \* ghost: how long a callback has taken
  singles,    \* F_GetObjectField's empty_str and objs[]
  globals,    \* ghost: how many global references the engine holds
  phase,      \* where the main thread is
  toRelease   \* how often daemon_fetch_cands is to release an object

registry == <<listed, age, pin, dying>>
heap     == <<kind, refs, last>>
calls    == <<calling, own, clock>>
others   == <<singles, globals>>
daemon   == <<phase, toRelease>>
vars     == <<registry, heap, calls, others, daemon>>

Thread    == Engine \cup {Daemon}
Allocated == {p \in Addr : kind[p] # "free"}
Free      == Addr \ Allocated

Init ==
  /\ kind = [p \in Addr |-> IF p \in Startup THEN "object" ELSE "free"]
  /\ refs = [p \in Addr |-> {}]
  /\ listed = Startup /\ age = [p \in Addr |-> 0] /\ pin = [p \in Addr |-> 0]
  /\ dying = {} /\ last = None
  /\ calling = {} /\ own = [th \in Thread |-> {}]
  /\ clock = [th \in Thread |-> 0]
  /\ singles = {} /\ globals = [p \in Addr |-> 0]
  /\ phase = "idle" /\ toRelease = [p \in Addr |-> 0]

----------------------------------------------------------------------------
(* The JNI functions, called by a thread in a native call.                 *)

RegAddUnlisted(p) ==   \* mutant: an object escapes the registry
  /\ UNCHANGED listed
  /\ age' = [age EXCEPT ![p] = 0]

\* reg_add: the object's time is that of its making.
RegAdd(p) ==
  /\ listed' = listed \cup {p}
  /\ age' = [age EXCEPT ![p] = 0]

\* A new object at p, of kind k, with fields that point into r; pinned or not.
Make(p, k, r, pins) ==
  /\ RegAdd(p)
  /\ kind' = [kind EXCEPT ![p] = k]
  /\ refs' = [refs EXCEPT ![p] = r]
  /\ pin' = [pin EXCEPT ![p] = pins]
  /\ UNCHANGED <<dying, calling, clock, globals, daemon>>

Own(th, p) == own' = [own EXCEPT ![th] = @ \cup {p}]

\* AllocObject, NewObject of a class of its own, NewObjectArray; and
\* NewStringUTF, which keeps its caller's text and owns none.
NewObject(th, p, k) ==
  /\ k \in {"object", "array"}
  /\ Make(p, k, {}, 0) /\ Own(th, p)
  /\ UNCHANGED <<last, singles>>

NewByteArray(th, p) ==
  /\ Make(p, "bytes", {}, 0) /\ Own(th, p)
  /\ last' = p
  /\ UNCHANGED singles

\* new String(byte[]): the text is copied from g_last_bytes, if there is one.
NewString(th, p) ==
  /\ \E b \in own[th] : kind[b] = "bytes"
  /\ Make(p, IF last = None THEN "object" ELSE "string", {}, 0) /\ Own(th, p)
  /\ UNCHANGED <<last, singles>>

\* GetObjectField of a string: a new String for the text, which stays where it is.
GetString(th, p) ==
  /\ \E o \in own[th] : \E s \in refs[o] :
       /\ kind[o] = "object" /\ kind[s] = "string"
       /\ Make(p, "string", {s}, 0)
  /\ Own(th, p)
  /\ UNCHANGED <<last, singles>>

\* GetObjectField of a field that was never set: an empty object, pinned and
\* kept.  The objects made before are looked up by sigs[], which hold class
\* names where signatures are compared, in a buffer that is gone: any call may
\* make another, and finding one, or NULL beyond the limit, changes nothing.
Complete(th, p) ==
  /\ Cardinality(singles) < SinglesLimit
  /\ Make(p, "object", {}, 1)
  /\ singles' = singles \cup {p}
  /\ UNCHANGED <<last, own>>

\* Where a field or element of o that is set to v points: a field, for a
\* string, to its text, which belongs to the String it was copied into.
Held(o, v) ==
  IF kind[o] = "object" /\ kind[v] = "string" /\ refs[v] # {} THEN refs[v] ELSE {v}

\* SetObjectField, SetObjectArrayElement: a value set before may go.
SetField(th) ==
  /\ \E o \in own[th], v \in own[th] \cup singles :
       /\ kind[o] \in {"object", "array"} /\ v # o
       /\ \E kept \in SUBSET refs[o] :
            /\ Cardinality(kept \cup Held(o, v)) <= MaxFields
            /\ refs' = [refs EXCEPT ![o] = kept \cup Held(o, v)]
  /\ UNCHANGED <<registry, kind, last, calls, others, daemon>>

\* reg_pin: the pins of a registered object become n.
RegPin(o, n) == pin' = IF o \in listed THEN [pin EXCEPT ![o] = n] ELSE pin

NewGlobalRef(th) ==
  /\ \E o \in own[th] \cup singles :
       /\ globals[o] < MaxGlobals
       /\ globals' = [globals EXCEPT ![o] = @ + 1]
       /\ RegPin(o, pin[o] + 1)
  /\ UNCHANGED <<listed, age, dying, heap, calls, singles, daemon>>

UnpinAll(n) == 0   \* mutant: one DeleteGlobalRef unpins for all
UnpinNone(n) == n  \* mutant: a pin is for ever
Unpin(n) == IF n > 0 THEN n - 1 ELSE 0

DeleteGlobalRef(th) ==
  /\ \E o \in Addr :
       /\ globals[o] > 0
       /\ globals' = [globals EXCEPT ![o] = @ - 1]
       /\ RegPin(o, Unpin(pin[o]))
  /\ UNCHANGED <<listed, age, dying, heap, calls, singles, daemon>>

Jni(th) ==
  /\ th \in calling
  /\ \/ \E p \in Free :
          \/ \E k \in {"object", "array"} : NewObject(th, p, k)
          \/ NewByteArray(th, p) \/ NewString(th, p) \/ GetString(th, p)
          \/ Complete(th, p)
     \/ SetField(th) \/ NewGlobalRef(th) \/ DeleteGlobalRef(th)

\* A callback starts, and returns: its local references end.
Enter(th) ==
  /\ th \in Engine \ calling
  /\ calling' = calling \cup {th}
  /\ UNCHANGED <<registry, heap, own, clock, others, daemon>>

EndCall(th) ==
  /\ calling' = calling \ {th}
  /\ own' = [own EXCEPT ![th] = {}]
  /\ clock' = [clock EXCEPT ![th] = 0]

Leave(th) ==
  /\ th \in Engine \cap calling
  /\ EndCall(th)
  /\ UNCHANGED <<registry, heap, others, daemon>>

Tick ==
  /\ \A th \in Engine \cap calling : clock[th] < CallTicks
  /\ clock' = [th \in Thread |-> IF th \in Engine \cap calling THEN clock[th] + 1 ELSE 0]
  /\ age' = [p \in Addr |-> IF p \in listed /\ age[p] < Grace THEN age[p] + 1 ELSE age[p]]
  /\ UNCHANGED <<listed, pin, dying, heap, calling, own, others, daemon>>

----------------------------------------------------------------------------
(* The daemon's main thread.                                               *)

DueEarly(p) == pin[p] = 0 /\ age[p] + 1 >= Grace   \* mutant: a tick too early
Due(p) == pin[p] = 0 /\ age[p] >= Grace

SweepAll == {p \in listed : Due(p)}   \* mutant: start-up objects too
\* reg_sweep, under the mutex: what is due leaves the registry.
Swept == {p \in listed \ Startup : Due(p)}
Sweep ==
  /\ phase = "idle"
  /\ listed' = listed \ Swept /\ dying' = Swept
  /\ age' = [p \in Addr |-> IF p \in Swept THEN 0 ELSE age[p]]
  /\ phase' = "sweep"
  /\ UNCHANGED <<pin, heap, calls, others, toRelease>>

\* g_last_bytes, when p is freed.
LastKept(p) == last   \* mutant: it is left pointing there
LastWithout(p) == IF last = p THEN None ELSE last

\* reg_free_obj, outside the mutex.
FreeObj(p) ==
  /\ p \in dying /\ dying' = dying \ {p}
  /\ kind' = [kind EXCEPT ![p] = "free"] /\ refs' = [refs EXCEPT ![p] = {}]
  /\ last' = LastWithout(p)
  /\ UNCHANGED <<listed, age, pin, calls, others, daemon>>

\* The command's native calls, up to candidate_get_n.
StartCall ==
  /\ phase = "sweep" /\ dying = {}
  /\ phase' = "call" /\ calling' = calling \cup {Daemon}
  /\ UNCHANGED <<registry, heap, own, clock, others, toRelease>>

Elements(arrays) == UNION {refs[a] : a \in arrays}
Ids(c) == {i \in refs[c] : kind[i] = "bytes"}
JObj(p) == kind[p] \in {"object", "string"}   \* is_jobj
Candidates(arrays) == {c \in Elements(arrays) : JObj(c)}
SharedNever(arrays) == FALSE   \* mutant: no look for objects met before
Shared(arrays) == \E a, b \in arrays : a # b /\ refs[a] \cap (refs[b] \cup {b}) # {}

\* The arrays, and what is in them, once for each time it is met; nothing, if
\* an object is in two batches.  (Nothing either if it is twice in one, which
\* then counts as not fetched.)
Releases(arrays) ==
  [p \in Addr |->
     IF Shared(arrays) THEN 0
     ELSE IF p \in arrays THEN 1
     ELSE Cardinality({a \in arrays : p \in refs[a] /\ JObj(p)})
          + Cardinality({c \in Candidates(arrays) : p \in Ids(c)})]

\* daemon_fetch_cands: text and id are copied, and what was fetched is to be
\* released.  No two candidates have their id in one byte[].
Fetched ==
  /\ phase = "call"
  /\ \E arrays \in SUBSET {a \in own[Daemon] : kind[a] = "array"} :
       /\ \A c, d \in Candidates(arrays) : c # d => Ids(c) \cap Ids(d) = {}
       /\ toRelease' = Releases(arrays)
  /\ calling' = calling \ {Daemon}
  /\ phase' = "release"
  /\ UNCHANGED <<registry, heap, own, clock, others>>

\* reg_release: what has a global reference is left to the grace period.
ReleasablePinned(p) == p \in listed   \* mutant: pins are not looked at
Releasable(p) == p \in listed /\ pin[p] = 0
Release(p) ==
  /\ phase = "release" /\ dying = {} /\ toRelease[p] > 0
  /\ toRelease' = [toRelease EXCEPT ![p] = @ - 1]
  /\ IF Releasable(p)
     THEN /\ listed' = listed \ {p} /\ dying' = {p}
          /\ age' = [age EXCEPT ![p] = 0]
          /\ own' = [own EXCEPT ![Daemon] = @ \ {p}]
     ELSE UNCHANGED <<listed, dying, age, own>>
  /\ UNCHANGED <<pin, heap, calling, clock, others, phase>>

Done ==
  /\ phase = "release" /\ dying = {} /\ \A p \in Addr : toRelease[p] = 0
  /\ phase' = "idle" /\ EndCall(Daemon)
  /\ UNCHANGED <<registry, heap, others, toRelease>>

DaemonStep ==
  \/ Sweep \/ StartCall \/ Fetched \/ Done
  \/ \E p \in Addr : FreeObj(p) \/ Release(p)
Next ==
  \/ \E th \in Thread : Jni(th) \/ Enter(th) \/ Leave(th)
  \/ Tick \/ DaemonStep
Spec == Init /\ [][Next]_vars

----------------------------------------------------------------------------
(* Properties.                                                             *)

TypeOK ==
  /\ kind \in [Addr -> {"free", "object", "string", "bytes", "array"}]
  /\ refs \in [Addr -> SUBSET Addr]
  /\ listed \subseteq Addr /\ age \in [Addr -> 0..Grace] /\ pin \in [Addr -> Nat]
  /\ dying \subseteq Addr /\ last \in Addr \cup {None}
  /\ calling \subseteq Thread /\ own \in [Thread -> SUBSET Addr]
  /\ clock \in [Thread -> 0..CallTicks]
  /\ singles \subseteq Addr /\ globals \in [Addr -> Nat]
  /\ phase \in {"idle", "sweep", "call", "release"} /\ toRelease \in [Addr -> Nat]

\* What may still be used: start-up and completed objects, those with a global
\* reference, those of a native call under way.
Global == {p \in Addr : globals[p] > 0}
Roots  == Startup \cup singles \cup Global \cup UNION {own[th] : th \in Thread}

\* Nothing that may still be used is freed or about to be (jinterop.c:38-48),
\* whatever callbacks allocate meanwhile and whatever address is used again.
RootsKept == Roots \subseteq Allocated \ dying

\* Nor is anything that the fields of a call's objects point to: the text of a
\* string belongs to another object than the one it is read from.
FieldsKept ==
  \A th \in calling : \A o \in own[th] : refs[o] \subseteq Allocated \ dying

\* Every object is in the registry or being freed, never both: none leaks, and
\* none is freed twice.
Accounted == Allocated = listed \cup dying /\ listed \cap dying = {}

\* Pins and global references go together (jinterop.c:45): an object that lost
\* its last one is collected, and one has to lose all of them first.
PinsHeld ==
  \A p \in Addr : pin[p] = globals[p] + (IF p \in singles THEN 1 ELSE 0)

\* g_last_bytes points to a byte array (reg_free_obj resets it).
LastBytesLive == last # None => kind[last] = "bytes"

\* Seen from the engine, this is JNI: an object lives while referenced.
Jvm == INSTANCE LocalRefs WITH Addr <- Addr, live <- Allocated, roots <- Roots
RefinesLocalRefs == Jvm!Spec

\* A String is made of the byte[] its own call passed to the constructor:
\* g_last_bytes is "the byte[] made last, for String([B)" (jinterop.c:64).
StringOwnBytes ==
  [][\A th \in calling, p \in Free : NewString(th, p) => last \in own[th]]_vars
============================================================================
