--------------------------- MODULE ObjectsProofs ---------------------------
(***************************************************************************)
(* Proofs about Objects, for any number of addresses and threads, any      *)
(* grace period longer than a callback, and any limit.                     *)
(***************************************************************************)
EXTENDS Objects, FiniteSetTheorems, TLAPS

(* What is to be kept is in the registry: RootsKept, where it is kept.      *)
RootsListed == Roots \subseteq listed

(* The objects of two calls, of start-up, and completed ones are distinct.  *)
OwnApart ==
  \A th \in Thread :
    /\ own[th] \cap (Startup \cup singles) = {}
    /\ \A t \in Thread : t # th => own[th] \cap own[t] = {}

(* A callback's objects are no older than the callback.                     *)
OwnYoung == \A th \in Engine : \A p \in own[th] : age[p] <= clock[th]

(* A thread between calls has no object, the main thread only from its      *)
(* call to the end of its releases.                                         *)
OwnCalling ==
  /\ \A th \in Engine : th \notin calling => own[th] = {}
  /\ Daemon \in calling <=> phase = "call"
  /\ phase \in {"idle", "sweep"} => own[Daemon] = {}

(* The objects of a call refer to objects of that call, or completed ones.  *)
OwnClosed == \A th \in calling : \A o \in own[th] : refs[o] \subseteq own[th] \cup singles

(* A completed object is no String, and has no field set.                   *)
SinglesPlain == \A p \in singles : kind[p] = "object" /\ refs[p] = {}

(* The main thread frees what it took off the registry before it goes on.   *)
DyingShape == phase \in {"idle", "call"} => dying = {}

(* What is to be released is the main thread's, or completed, and once.     *)
ReleaseOnce ==
  \A p \in Addr :
    /\ toRelease[p] <= 1
    /\ toRelease[p] > 0 => phase = "release" /\ p \in own[Daemon] \cup singles

(* The inductive invariant.                                                 *)
IInv ==
  /\ TypeOK /\ Accounted /\ RootsListed /\ PinsHeld
  /\ OwnApart /\ OwnYoung /\ OwnCalling /\ OwnClosed
  /\ SinglesPlain /\ DyingShape /\ ReleaseOnce /\ LastBytesLive

----------------------------------------------------------------------------
LEMMA InitInv == Init => IInv
  <1> SUFFICES ASSUME Init PROVE IInv
    OBVIOUS
  <1> USE ObjectsAssumption DEF Init, Thread
  <1>1. TypeOK
    BY DEF TypeOK
  <1>2. Accounted /\ PinsHeld /\ OwnApart /\ OwnYoung /\ OwnCalling /\ OwnClosed
    BY DEF Accounted, Allocated, PinsHeld, OwnApart, OwnYoung, OwnCalling, OwnClosed
  <1>3. RootsListed /\ SinglesPlain /\ DyingShape /\ ReleaseOnce /\ LastBytesLive
    BY DEF RootsListed, Roots, Global, SinglesPlain, DyingShape, ReleaseOnce, LastBytesLive
  <1> QED BY <1>1, <1>2, <1>3 DEF IInv

(* A thread that makes an object of its own keeps the invariant.            *)
LEMMA MakeOwn ==
  ASSUME IInv, NEW th \in calling, NEW p \in Free,
         NEW k \in {"object", "array", "string", "bytes"},
         NEW r, r \subseteq own[th] \cup singles,
         Make(p, k, r, 0), Own(th, p), UNCHANGED singles,
         last' = last \/ (last' = p /\ k = "bytes")
  PROVE  IInv'
  <1> USE ObjectsAssumption
  <1>0. TypeOK /\ p \in Addr /\ kind[p] = "free" /\ th \in Thread
    BY DEF IInv, TypeOK, Free, Allocated
  <1>1. p \notin listed /\ p \notin dying /\ p \notin Roots
    BY DEF IInv, Accounted, RootsListed, Free
  <1>2. TypeOK'
    <2>1. r \subseteq Addr
      BY <1>0 DEF TypeOK
    <2> QED BY <1>0, <2>1 DEF TypeOK, Make, RegAdd, Own, daemon, Thread
  <1>3. Allocated' = Allocated \cup {p}
    BY <1>0 DEF TypeOK, Allocated, Make
  <1>4. Accounted'
    BY <1>0, <1>1, <1>3 DEF IInv, Accounted, Make, RegAdd
  <1>5. Roots' = Roots \cup {p}
    BY <1>0 DEF TypeOK, Roots, Global, Make, Own, Thread
  <1>6. RootsListed'
    BY <1>5 DEF IInv, RootsListed, Make, RegAdd
  <1>7. p \notin singles /\ globals[p] = 0 /\ p \notin Startup /\ \A t \in Thread : p \notin own[t]
    BY <1>0, <1>1 DEF TypeOK, Roots, Global
  <1>8. PinsHeld'
    BY <1>0, <1>7 DEF IInv, TypeOK, PinsHeld, Make
  <1>9. OwnApart'
    BY <1>0, <1>7 DEF IInv, TypeOK, OwnApart, Own
  <1>10. OwnYoung'
    BY <1>0, <1>7 DEF IInv, TypeOK, OwnYoung, Own, Make, RegAdd, Thread
  <1>11. OwnCalling'
    BY <1>0 DEF IInv, TypeOK, OwnCalling, Own, Make, daemon, Thread
  <1>12. OwnClosed'
    BY <1>0, <1>7 DEF IInv, TypeOK, OwnClosed, Own, Make
  <1>13. DyingShape' /\ ReleaseOnce'
    BY <1>0 DEF IInv, TypeOK, DyingShape, ReleaseOnce, Own, Make, daemon, Thread
  <1>14. LastBytesLive' /\ SinglesPlain'
    BY <1>0, <1>7 DEF IInv, TypeOK, LastBytesLive, SinglesPlain, Make
  <1> QED BY <1>2, <1>4, <1>6, <1>8, <1>9, <1>10, <1>11, <1>12, <1>13, <1>14 DEF IInv

(* So does completing a field with an object of nobody's.                   *)
LEMMA CompleteInv ==
  ASSUME IInv, NEW th \in calling, NEW p \in Free, Complete(th, p)
  PROVE  IInv'
  <1> USE ObjectsAssumption DEF Complete
  <1>0. TypeOK /\ p \in Addr /\ kind[p] = "free" /\ th \in Thread
    BY DEF IInv, TypeOK, Free, Allocated
  <1>1. p \notin listed /\ p \notin dying /\ p \notin Roots
    BY DEF IInv, Accounted, RootsListed, Free
  <1>2. TypeOK'
    BY <1>0 DEF TypeOK, Make, RegAdd, daemon, Thread
  <1>3. Allocated' = Allocated \cup {p}
    BY <1>0 DEF TypeOK, Allocated, Make
  <1>4. Accounted'
    BY <1>0, <1>1, <1>3 DEF IInv, Accounted, Make, RegAdd
  <1>5. Roots' = Roots \cup {p}
    BY <1>0 DEF TypeOK, Roots, Global, Make, Thread
  <1>6. RootsListed'
    BY <1>5 DEF IInv, RootsListed, Make, RegAdd
  <1>7. p \notin singles /\ globals[p] = 0 /\ p \notin Startup /\ \A t \in Thread : p \notin own[t]
    BY <1>0, <1>1 DEF TypeOK, Roots, Global
  <1>8. PinsHeld'
    BY <1>0, <1>7 DEF IInv, TypeOK, PinsHeld, Make
  <1>9. OwnApart' /\ OwnYoung'
    BY <1>0, <1>7 DEF IInv, TypeOK, OwnApart, OwnYoung, Make, RegAdd, Thread
  <1>10. OwnCalling' /\ OwnClosed'
    BY <1>0, <1>7 DEF IInv, TypeOK, OwnCalling, OwnClosed, Make, daemon, Thread
  <1>11. DyingShape' /\ ReleaseOnce'
    BY <1>0 DEF IInv, TypeOK, DyingShape, ReleaseOnce, Make, daemon, Thread
  <1>12. LastBytesLive' /\ SinglesPlain'
    BY <1>0, <1>7 DEF IInv, TypeOK, LastBytesLive, SinglesPlain, Make
  <1> QED BY <1>2, <1>4, <1>6, <1>8, <1>9, <1>10, <1>11, <1>12 DEF IInv

(* Setting a field changes what its object refers to, and nothing else.     *)
LEMMA SetFieldInv ==
  ASSUME IInv, NEW th \in calling, SetField(th)
  PROVE  IInv'
  <1> USE ObjectsAssumption
  <1>0. TypeOK /\ th \in Thread
    BY DEF IInv, TypeOK
  <1>1. PICK o \in own[th], v \in own[th] \cup singles :
          \E kept \in SUBSET refs[o] : refs' = [refs EXCEPT ![o] = kept \cup Held(o, v)]
    BY DEF SetField
  <1>2. UNCHANGED <<listed, age, pin, dying, kind, last, calling, own, clock, singles,
                    globals, phase, toRelease>>
    BY DEF SetField, registry, calls, others, daemon
  <1>3. o \in Addr /\ Held(o, v) \subseteq Addr
    BY <1>0 DEF TypeOK, Held
  <1>4. TypeOK'
    BY <1>0, <1>1, <1>2, <1>3 DEF TypeOK
  <1>5. Roots' = Roots /\ Allocated' = Allocated
    BY <1>2 DEF Roots, Global, Allocated
  <1>6. OwnClosed'
    <2> SUFFICES ASSUME NEW t \in calling, NEW x \in own[t]
                 PROVE  refs'[x] \subseteq own[t] \cup singles
      BY <1>2 DEF OwnClosed
    <2>1. CASE x = o
      <3>1. t = th
        BY <1>0, <2>1 DEF IInv, OwnApart, TypeOK
      <3>2. refs[o] \subseteq own[th] \cup singles
        BY DEF IInv, OwnClosed
      <3>3. Held(o, v) \subseteq own[th] \cup singles
        <4>1. CASE v \in own[th]
          BY <4>1 DEF IInv, OwnClosed, Held
        <4>2. CASE v \in singles
          BY <4>2 DEF IInv, SinglesPlain, Held
        <4> QED BY <4>1, <4>2
      <3> QED BY <1>0, <1>1, <1>3, <2>1, <3>1, <3>2, <3>3 DEF TypeOK
    <2>2. CASE x # o
      BY <1>0, <1>1, <2>2 DEF IInv, OwnClosed, TypeOK
    <2> QED BY <2>1, <2>2
  <1>7. Accounted' /\ RootsListed' /\ PinsHeld' /\ DyingShape' /\ LastBytesLive'
    BY <1>2, <1>5 DEF IInv, Accounted, RootsListed, PinsHeld, DyingShape, LastBytesLive
  <1>9. SinglesPlain'
    BY <1>0, <1>1, <1>2 DEF IInv, SinglesPlain, OwnApart, TypeOK
  <1>8. OwnApart' /\ OwnYoung' /\ OwnCalling' /\ ReleaseOnce'
    BY <1>2 DEF IInv, OwnApart, OwnYoung, OwnCalling, ReleaseOnce
  <1> QED BY <1>4, <1>6, <1>7, <1>8, <1>9 DEF IInv

(* A global reference comes and goes with a pin.                            *)
LEMMA GlobalInv ==
  ASSUME IInv, NEW th \in calling, NewGlobalRef(th) \/ DeleteGlobalRef(th)
  PROVE  IInv'
  <1> USE ObjectsAssumption
  <1>0. TypeOK /\ RootsListed /\ PinsHeld /\ th \in Thread
    BY DEF IInv, TypeOK
  <1>1. UNCHANGED <<listed, age, dying, kind, refs, last, calling, own, clock, singles,
                    phase, toRelease>>
    BY DEF NewGlobalRef, DeleteGlobalRef, heap, calls, daemon
  <1>2. PICK o \in Addr : o \in Roots /\
          \/ globals' = [globals EXCEPT ![o] = @ + 1] /\ RegPin(o, pin[o] + 1)
          \/ globals[o] > 0 /\ globals' = [globals EXCEPT ![o] = @ - 1] /\ RegPin(o, Unpin(pin[o]))
    BY <1>0 DEF NewGlobalRef, DeleteGlobalRef, Roots, Global, TypeOK
  <1>3. pin' = [pin EXCEPT ![o] = pin[o] + 1] \/ pin' = [pin EXCEPT ![o] = Unpin(pin[o])]
    BY <1>0, <1>2 DEF RegPin, RootsListed
  <1>4. TypeOK' /\ PinsHeld'
    BY <1>0, <1>1, <1>2 DEF TypeOK, PinsHeld, RootsListed, RegPin, Unpin
  <1>5. RootsListed'
    BY <1>0, <1>1, <1>2 DEF TypeOK, RootsListed, Roots, Global
  <1>6. Accounted' /\ OwnApart' /\ OwnYoung' /\ OwnCalling'
    BY <1>1 DEF IInv, Accounted, Allocated, OwnApart, OwnYoung, OwnCalling
  <1>7. OwnClosed' /\ SinglesPlain' /\ DyingShape' /\ ReleaseOnce' /\ LastBytesLive'
    BY <1>1 DEF IInv, OwnClosed, SinglesPlain, DyingShape, ReleaseOnce, LastBytesLive
  <1> QED BY <1>4, <1>5, <1>6, <1>7 DEF IInv

LEMMA EnterInv ==
  ASSUME IInv, NEW th \in Thread, Enter(th)
  PROVE  IInv'
  <1> USE ObjectsAssumption DEF Enter, registry, heap, others, daemon
  <1>1. TypeOK' /\ Accounted' /\ RootsListed' /\ PinsHeld'
    BY DEF IInv, TypeOK, Accounted, Allocated, RootsListed, Roots, Global, PinsHeld
  <1>2. OwnApart' /\ OwnYoung' /\ OwnCalling'
    BY DEF IInv, OwnApart, OwnYoung, OwnCalling
  <1>3. OwnClosed'
    BY DEF IInv, OwnClosed, OwnCalling
  <1>4. SinglesPlain' /\ DyingShape' /\ ReleaseOnce' /\ LastBytesLive'
    BY DEF IInv, SinglesPlain, DyingShape, ReleaseOnce, LastBytesLive
  <1> QED BY <1>1, <1>2, <1>3, <1>4 DEF IInv

LEMMA LeaveInv ==
  ASSUME IInv, NEW th \in Thread, Leave(th)
  PROVE  IInv'
  <1> USE ObjectsAssumption DEF Leave, EndCall, registry, heap, others, daemon
  <1>0. TypeOK
    BY DEF IInv
  <1>1. TypeOK' /\ Accounted' /\ PinsHeld'
    BY <1>0 DEF IInv, TypeOK, Accounted, Allocated, PinsHeld
  <1>2. RootsListed' /\ OwnApart' /\ OwnYoung' /\ OwnCalling' /\ OwnClosed'
    BY <1>0 DEF IInv, TypeOK, RootsListed, Roots, Global, OwnApart, OwnYoung, OwnCalling, OwnClosed
  <1>3. SinglesPlain' /\ DyingShape' /\ ReleaseOnce' /\ LastBytesLive'
    BY <1>0 DEF IInv, TypeOK, SinglesPlain, DyingShape, ReleaseOnce, LastBytesLive, Thread
  <1> QED BY <1>1, <1>2, <1>3 DEF IInv

LEMMA TickInv ==
  ASSUME IInv, Tick
  PROVE  IInv'
  <1> USE ObjectsAssumption DEF Tick, heap, others, daemon
  <1>0. TypeOK
    BY DEF IInv
  <1>1. TypeOK' /\ Accounted' /\ PinsHeld'
    BY <1>0 DEF IInv, TypeOK, Accounted, Allocated, PinsHeld
  <1>2. OwnYoung'
    BY <1>0 DEF IInv, TypeOK, OwnYoung, OwnCalling, Thread
  <1>3. RootsListed' /\ OwnApart' /\ OwnCalling' /\ OwnClosed'
    BY DEF IInv, RootsListed, Roots, Global, OwnApart, OwnCalling, OwnClosed
  <1>4. SinglesPlain' /\ DyingShape' /\ ReleaseOnce' /\ LastBytesLive'
    BY DEF IInv, SinglesPlain, DyingShape, ReleaseOnce, LastBytesLive
  <1> QED BY <1>1, <1>2, <1>3, <1>4 DEF IInv

(* Nothing that may still be used is due: it is pinned, a start-up object,  *)
(* or younger than the callback it belongs to.                              *)
LEMMA SweptUnused ==
  ASSUME IInv, phase = "idle"
  PROVE  Swept \cap Roots = {}
  <1> SUFFICES ASSUME NEW p \in Swept, p \in Roots PROVE FALSE
    OBVIOUS
  <1>0. TypeOK /\ p \in Addr /\ pin[p] = 0 /\ age[p] >= Grace /\ p \notin Startup
    BY DEF IInv, TypeOK, Swept, Due
  <1>1. p \notin singles /\ p \notin Global
    BY <1>0 DEF IInv, PinsHeld, Global, TypeOK
  <1>2. \A th \in Engine : p \notin own[th]
    BY <1>0, ObjectsAssumption DEF IInv, OwnYoung, TypeOK, Thread
  <1>3. p \notin own[Daemon]
    BY DEF IInv, OwnCalling
  <1> QED BY <1>0, <1>1, <1>2, <1>3 DEF Roots, Thread

LEMMA SweepInv ==
  ASSUME IInv, Sweep
  PROVE  IInv'
  <1> USE ObjectsAssumption DEF Sweep, heap, calls, others
  <1>0. TypeOK /\ Swept \subseteq listed /\ Swept \cap Roots = {}
    BY SweptUnused DEF IInv, Swept
  <1>1. TypeOK' /\ PinsHeld'
    BY <1>0 DEF IInv, TypeOK, PinsHeld
  <1>2. Accounted'
    BY <1>0 DEF IInv, Accounted, Allocated, DyingShape
  <1>3. RootsListed'
    BY <1>0 DEF IInv, RootsListed, Roots, Global
  <1>4. OwnYoung'
    BY <1>0 DEF IInv, TypeOK, OwnYoung, Thread
  <1>5. OwnApart' /\ OwnCalling' /\ OwnClosed'
    BY DEF IInv, OwnApart, OwnCalling, OwnClosed
  <1>6. SinglesPlain' /\ DyingShape' /\ ReleaseOnce' /\ LastBytesLive'
    BY DEF IInv, SinglesPlain, DyingShape, ReleaseOnce, LastBytesLive
  <1> QED BY <1>1, <1>2, <1>3, <1>4, <1>5, <1>6 DEF IInv

LEMMA FreeInv ==
  ASSUME IInv, NEW p \in Addr, FreeObj(p)
  PROVE  IInv'
  <1> USE ObjectsAssumption DEF FreeObj, calls, others, daemon
  <1>0. TypeOK /\ p \notin listed /\ p \notin Roots
    BY DEF IInv, Accounted, RootsListed
  <1>1. TypeOK' /\ PinsHeld'
    BY <1>0 DEF IInv, TypeOK, PinsHeld, LastWithout
  <1>2. Allocated' = Allocated \ {p}
    BY <1>0 DEF TypeOK, Allocated
  <1>3. Accounted'
    BY <1>0, <1>2 DEF IInv, Accounted
  <1>4. RootsListed' /\ OwnApart' /\ OwnYoung' /\ OwnCalling'
    BY DEF IInv, RootsListed, Roots, Global, OwnApart, OwnYoung, OwnCalling
  <1>5. OwnClosed' /\ SinglesPlain'
    BY <1>0 DEF IInv, TypeOK, OwnClosed, SinglesPlain, Roots
  <1>6. DyingShape' /\ ReleaseOnce' /\ LastBytesLive'
    BY <1>0 DEF IInv, TypeOK, DyingShape, ReleaseOnce, LastBytesLive, LastWithout
  <1> QED BY <1>1, <1>3, <1>4, <1>5, <1>6 DEF IInv

LEMMA StartCallInv ==
  ASSUME IInv, StartCall
  PROVE  IInv'
  <1> USE ObjectsAssumption DEF StartCall, registry, heap, others
  <1>1. TypeOK' /\ Accounted' /\ RootsListed' /\ PinsHeld'
    BY DEF IInv, TypeOK, Accounted, Allocated, RootsListed, Roots, Global, PinsHeld, Thread
  <1>2. OwnApart' /\ OwnYoung' /\ OwnCalling'
    BY DEF IInv, OwnApart, OwnYoung, OwnCalling
  <1>3. OwnClosed'
    BY DEF IInv, OwnClosed, OwnCalling
  <1>4. SinglesPlain' /\ DyingShape' /\ ReleaseOnce' /\ LastBytesLive'
    BY DEF IInv, SinglesPlain, DyingShape, ReleaseOnce, LastBytesLive
  <1> QED BY <1>1, <1>2, <1>3, <1>4 DEF IInv

(* A set no two elements of which differ has at most one.                   *)
LEMMA AtMostOne ==
  ASSUME NEW S, \A x, y \in S : x = y
  PROVE  Cardinality(S) \in Nat /\ Cardinality(S) <= 1
                                /\ (Cardinality(S) > 0 => S # {})
  <1>1. CASE S = {}
    BY <1>1, FS_EmptySet
  <1>2. CASE S # {}
    <2>1. PICK x \in S : S = {x}
      BY <1>2
    <2> QED BY <2>1, FS_Singleton
  <1> QED BY <1>1, <1>2

(* What is fetched is released once, and belongs to the main thread's call. *)
LEMMA ReleasesOnce ==
  ASSUME IInv, Daemon \in calling,
         NEW arrays, arrays \subseteq {a \in own[Daemon] : kind[a] = "array"},
         \A c, d \in Candidates(arrays) : c # d => Ids(c) \cap Ids(d) = {},
         NEW p \in Addr
  PROVE  /\ Releases(arrays)[p] \in Nat /\ Releases(arrays)[p] <= 1
         /\ Releases(arrays)[p] > 0 => p \in own[Daemon] \cup singles
  <1>0. TypeOK /\ Daemon \in Thread
    BY DEF IInv, Thread
  <1>1. CASE Shared(arrays) \/ p \in arrays
    BY <1>1 DEF Releases
  <1>2. CASE ~Shared(arrays) /\ p \notin arrays
    <2> DEFINE A == {a \in arrays : p \in refs[a] /\ JObj(p)}
               C == {c \in Candidates(arrays) : p \in Ids(c)}
    <2>1. Releases(arrays)[p] = Cardinality(A) + Cardinality(C)
      BY <1>2 DEF Releases
    <2>2. \A a, b \in A : a = b
      BY <1>2 DEF Shared
    <2>3. \A c, d \in C : c = d
      OBVIOUS
    <2>4. A = {} \/ C = {}
      BY DEF JObj, Ids
    <2>5. \A a \in arrays : refs[a] \subseteq own[Daemon] \cup singles
      BY DEF IInv, OwnClosed
    <2>6. A # {} => p \in own[Daemon] \cup singles
      BY <2>5
    <2>7. C # {} => p \in own[Daemon] \cup singles
      <3> SUFFICES ASSUME NEW c \in C PROVE p \in own[Daemon] \cup singles
        OBVIOUS
      <3>1. c \in own[Daemon] \cup singles /\ p \in refs[c]
        BY <2>5 DEF Candidates, Elements, Ids
      <3> QED BY <3>1 DEF IInv, OwnClosed, SinglesPlain
    <2> HIDE DEF A, C
    <2>8. /\ Cardinality(A) \in Nat /\ Cardinality(A) <= 1 /\ (Cardinality(A) > 0 => A # {})
          /\ Cardinality(C) \in Nat /\ Cardinality(C) <= 1 /\ (Cardinality(C) > 0 => C # {})
      BY <2>2, <2>3, AtMostOne
    <2>9. (A = {} => Cardinality(A) = 0) /\ (C = {} => Cardinality(C) = 0)
      BY FS_EmptySet
    <2> QED BY <2>1, <2>4, <2>6, <2>7, <2>8, <2>9
  <1> QED BY <1>1, <1>2

LEMMA FetchedInv ==
  ASSUME IInv, Fetched
  PROVE  IInv'
  <1> USE ObjectsAssumption
  <1>0. TypeOK /\ Daemon \in calling
    BY DEF IInv, OwnCalling, Fetched
  <1>1. /\ phase = "call" /\ phase' = "release" /\ calling' = calling \ {Daemon}
        /\ UNCHANGED <<listed, age, pin, dying, kind, refs, last, own, clock, singles, globals>>
    BY DEF Fetched, registry, heap, others
  <1>2. PICK arrays \in SUBSET {a \in own[Daemon] : kind[a] = "array"} :
          /\ \A c, d \in Candidates(arrays) : c # d => Ids(c) \cap Ids(d) = {}
          /\ toRelease' = Releases(arrays)
    BY DEF Fetched
  <1>3. \A p \in Addr : /\ toRelease'[p] \in Nat /\ toRelease'[p] <= 1
                        /\ toRelease'[p] > 0 => p \in own[Daemon] \cup singles
    BY <1>0, <1>2, ReleasesOnce
  <1>4. toRelease' \in [Addr -> Nat]
    <2>1. toRelease' = [p \in Addr |-> toRelease'[p]]
      BY <1>2 DEF Releases
    <2> QED BY <1>3, <2>1
  <1>5. TypeOK' /\ ReleaseOnce'
    BY <1>0, <1>1, <1>3, <1>4 DEF TypeOK, ReleaseOnce
  <1>6. Accounted' /\ RootsListed' /\ PinsHeld' /\ OwnApart' /\ OwnYoung'
    BY <1>1 DEF IInv, Accounted, Allocated, RootsListed, Roots, Global, PinsHeld, OwnApart, OwnYoung
  <1>7. OwnCalling' /\ OwnClosed' /\ SinglesPlain' /\ DyingShape' /\ LastBytesLive'
    BY <1>1 DEF IInv, OwnCalling, OwnClosed, SinglesPlain, DyingShape, LastBytesLive
  <1> QED BY <1>5, <1>6, <1>7 DEF IInv

(* An object released is the main thread's only: nothing else refers to it. *)
LEMMA ReleaseInv ==
  ASSUME IInv, NEW p \in Addr, Release(p)
  PROVE  IInv' /\ (Releasable(p) => p \notin Roots')
  <1> USE ObjectsAssumption
  <1>0. /\ TypeOK /\ phase = "release" /\ dying = {} /\ toRelease[p] = 1
        /\ p \in own[Daemon] \cup singles /\ Daemon \in Thread /\ Daemon \notin calling
    BY DEF IInv, TypeOK, ReleaseOnce, OwnCalling, Release, Thread
  <1>1. /\ toRelease' = [toRelease EXCEPT ![p] = 0]
        /\ UNCHANGED <<pin, kind, refs, last, calling, clock, singles, globals, phase>>
    BY <1>0 DEF Release, heap, others
  <1>2. CASE Releasable(p)
    <2>1. /\ listed' = listed \ {p} /\ dying' = {p} /\ age' = [age EXCEPT ![p] = 0]
          /\ own' = [own EXCEPT ![Daemon] = @ \ {p}] /\ p \in listed /\ pin[p] = 0
      BY <1>2 DEF Release, Releasable
    <2>2. p \notin singles /\ p \notin Global /\ p \in own[Daemon]
      BY <1>0, <2>1 DEF IInv, TypeOK, PinsHeld, Global
    <2>3. p \notin Startup /\ \A th \in Thread : th # Daemon => p \notin own[th]
      BY <1>0, <2>2 DEF IInv, OwnApart
    <2>4. Roots' = Roots \ {p}
      BY <1>0, <1>1, <2>1, <2>2, <2>3 DEF TypeOK, Roots, Global
    <2>5. TypeOK' /\ PinsHeld'
      BY <1>0, <1>1, <2>1 DEF IInv, TypeOK, PinsHeld
    <2>6. Accounted' /\ RootsListed'
      BY <1>0, <1>1, <2>1, <2>4 DEF IInv, Accounted, Allocated, RootsListed
    <2>7. OwnApart' /\ OwnCalling'
      BY <1>0, <1>1, <2>1 DEF IInv, TypeOK, OwnApart, OwnCalling, Thread
    <2>8. OwnYoung'
      BY <1>0, <1>1, <2>1, <2>3 DEF IInv, TypeOK, OwnYoung, Thread
    <2>9. OwnClosed'
      BY <1>0, <1>1, <2>1 DEF IInv, TypeOK, OwnClosed
    <2>10. ReleaseOnce'
      BY <1>0, <1>1, <2>1 DEF IInv, TypeOK, ReleaseOnce
    <2>11. SinglesPlain' /\ DyingShape' /\ LastBytesLive'
      BY <1>0, <1>1 DEF IInv, SinglesPlain, DyingShape, LastBytesLive
    <2> QED BY <2>4, <2>5, <2>6, <2>7, <2>8, <2>9, <2>10, <2>11 DEF IInv
  <1>3. CASE ~Releasable(p)
    <2>1. UNCHANGED <<listed, dying, age, own>>
      BY <1>3 DEF Release
    <2>2. TypeOK' /\ ReleaseOnce'
      BY <1>0, <1>1, <2>1 DEF IInv, TypeOK, ReleaseOnce
    <2>3. Accounted' /\ RootsListed' /\ PinsHeld' /\ OwnApart' /\ OwnYoung'
      BY <1>1, <2>1 DEF IInv, Accounted, Allocated, RootsListed, Roots, Global, PinsHeld, OwnApart, OwnYoung
    <2>4. OwnCalling' /\ OwnClosed' /\ SinglesPlain' /\ DyingShape' /\ LastBytesLive'
      BY <1>1, <2>1 DEF IInv, OwnCalling, OwnClosed, SinglesPlain, DyingShape, LastBytesLive
    <2> QED BY <1>3, <2>2, <2>3, <2>4 DEF IInv
  <1> QED BY <1>2, <1>3

LEMMA DoneInv ==
  ASSUME IInv, Done
  PROVE  IInv'
  <1> USE ObjectsAssumption DEF Done, EndCall, registry, heap, others
  <1>0. TypeOK /\ Daemon \in Thread
    BY DEF IInv, Thread
  <1>1. TypeOK' /\ Accounted' /\ PinsHeld'
    BY <1>0 DEF IInv, TypeOK, Accounted, Allocated, PinsHeld
  <1>2. RootsListed' /\ OwnApart' /\ OwnYoung' /\ OwnCalling' /\ OwnClosed'
    BY <1>0 DEF IInv, TypeOK, RootsListed, Roots, Global, OwnApart, OwnYoung, OwnCalling, OwnClosed, Thread
  <1>3. SinglesPlain' /\ DyingShape' /\ ReleaseOnce' /\ LastBytesLive'
    BY <1>0 DEF IInv, TypeOK, SinglesPlain, DyingShape, ReleaseOnce, LastBytesLive
  <1> QED BY <1>1, <1>2, <1>3 DEF IInv

----------------------------------------------------------------------------
LEMMA MakeStep ==
  ASSUME IInv, NEW th \in calling, NEW p \in Free,
         \/ \E k \in {"object", "array"} : NewObject(th, p, k)
         \/ NewByteArray(th, p) \/ NewString(th, p) \/ GetString(th, p)
  PROVE  IInv' /\ Make(p, kind'[p], refs'[p], 0) /\ Own(th, p) /\ UNCHANGED singles
  <1>0. TypeOK /\ p \in Addr
    BY DEF IInv, Free
  <1>1. \E k \in {"object", "array", "string", "bytes"}, r \in SUBSET (own[th] \cup singles) :
          /\ Make(p, k, r, 0) /\ Own(th, p) /\ UNCHANGED singles
          /\ last' = last \/ (last' = p /\ k = "bytes")
    <2>1. CASE \E k \in {"object", "array"} : NewObject(th, p, k)
      BY <2>1 DEF NewObject
    <2>2. CASE NewByteArray(th, p)
      BY <2>2 DEF NewByteArray
    <2>3. CASE NewString(th, p)
      BY <2>3 DEF NewString
    <2>4. CASE GetString(th, p)
      BY <2>4 DEF GetString, IInv, OwnClosed
    <2> QED BY <2>1, <2>2, <2>3, <2>4
  <1>2. PICK k \in {"object", "array", "string", "bytes"}, r \in SUBSET (own[th] \cup singles) :
          /\ Make(p, k, r, 0) /\ Own(th, p) /\ UNCHANGED singles
          /\ last' = last \/ (last' = p /\ k = "bytes")
    BY <1>1
  <1>3. IInv'
    BY <1>2, MakeOwn
  <1>4. k = kind'[p] /\ r = refs'[p]
    BY <1>0, <1>2 DEF TypeOK, Make
  <1> QED BY <1>2, <1>3, <1>4

LEMMA Inductive == IInv /\ [Next]_vars => IInv'
  <1> SUFFICES ASSUME IInv, [Next]_vars PROVE IInv'
    OBVIOUS
  <1>1. ASSUME NEW th \in Thread, Jni(th) PROVE IInv'
    <2>1. th \in calling
      BY <1>1 DEF Jni
    <2>2. CASE \E p \in Free :
                 \/ \E k \in {"object", "array"} : NewObject(th, p, k)
                 \/ NewByteArray(th, p) \/ NewString(th, p) \/ GetString(th, p)
      BY <2>1, <2>2, MakeStep
    <2>3. CASE \E p \in Free : Complete(th, p)
      BY <2>1, <2>3, CompleteInv
    <2>4. CASE SetField(th)
      BY <2>1, <2>4, SetFieldInv
    <2>5. CASE NewGlobalRef(th) \/ DeleteGlobalRef(th)
      BY <2>1, <2>5, GlobalInv
    <2> QED BY <1>1, <2>2, <2>3, <2>4, <2>5 DEF Jni
  <1>2. ASSUME NEW th \in Thread, Enter(th) \/ Leave(th) PROVE IInv'
    BY <1>2, EnterInv, LeaveInv
  <1>3. CASE Tick
    BY <1>3, TickInv
  <1>4. CASE DaemonStep
    BY <1>4, SweepInv, StartCallInv, FetchedInv, DoneInv, FreeInv, ReleaseInv DEF DaemonStep
  <1>5. CASE UNCHANGED vars
    BY <1>5 DEF IInv, vars, registry, heap, calls, others, daemon, TypeOK, Accounted, Allocated,
         RootsListed, Roots, Global, PinsHeld, OwnApart, OwnYoung, OwnCalling, OwnClosed,
         SinglesPlain, DyingShape, ReleaseOnce, LastBytesLive
  <1> QED BY <1>1, <1>2, <1>3, <1>4, <1>5 DEF Next

(* The invariant of the fake JNI heap holds always.                         *)
THEOREM InvHolds == Spec => []IInv
  BY InitInv, Inductive, PTL DEF Spec

(* Every variable stays in its type.                                        *)
THEOREM ObjectsTypeCorrect == Spec => []TypeOK
  <1>1. IInv => TypeOK
    BY DEF IInv
  <1> QED BY <1>1, InvHolds, PTL

(* No object that native code may still use is freed, or about to be, for   *)
(* any number of threads, of objects, and any grace period: reg_sweep and   *)
(* reg_release free only what has no user.                                  *)
THEOREM RootsKeptHolds == Spec => []RootsKept
  <1>1. IInv => RootsKept
    BY DEF IInv, RootsKept, RootsListed, Accounted
  <1> QED BY <1>1, InvHolds, PTL

(* Nor is the text or the object that a field of such an object points to.  *)
THEOREM FieldsKeptHolds == Spec => []FieldsKept
  <1>1. IInv => FieldsKept
    <2> SUFFICES ASSUME IInv, NEW th \in calling, NEW o \in own[th]
                 PROVE  refs[o] \subseteq Allocated \ dying
      BY DEF FieldsKept
    <2>1. refs[o] \subseteq own[th] \cup singles /\ th \in Thread
      BY DEF IInv, OwnClosed, TypeOK
    <2>2. refs[o] \subseteq listed
      BY <2>1 DEF IInv, RootsListed, Roots
    <2> QED BY <2>2 DEF IInv, Accounted
  <1> QED BY <1>1, InvHolds, PTL

(* Every object is registered or being freed: none leaks or is freed twice. *)
THEOREM AccountedHolds == Spec => []Accounted
  <1>1. IInv => Accounted
    BY DEF IInv
  <1> QED BY <1>1, InvHolds, PTL

(* Pins and global references go together.                                  *)
THEOREM PinsHeldHolds == Spec => []PinsHeld
  <1>1. IInv => PinsHeld
    BY DEF IInv
  <1> QED BY <1>1, InvHolds, PTL

(* g_last_bytes never dangles.                                              *)
THEOREM LastBytesLiveHolds == Spec => []LastBytesLive
  <1>1. IInv => LastBytesLive
    BY DEF IInv
  <1> QED BY <1>1, InvHolds, PTL

----------------------------------------------------------------------------
(* The refinement of LocalRefs.                                             *)

(* Giving up references is an abstract Drop, or changes nothing.            *)
LEMMA DropRefines ==
  ASSUME Allocated' = Allocated, Roots' \subseteq Roots
  PROVE  [Jvm!Next]_(Jvm!vars)
  <1>1. Jvm!Drop(Roots \ Roots')
    BY DEF Jvm!Drop
  <1> QED BY <1>1 DEF Jvm!Next

(* A new object is an abstract New.                                         *)
LEMMA MakeRefines ==
  ASSUME IInv, NEW th \in Thread, NEW p \in Free,
         kind' = [kind EXCEPT ![p] = kind'[p]], kind'[p] # "free",
         UNCHANGED globals,
         \/ Own(th, p) /\ UNCHANGED singles
         \/ UNCHANGED own /\ singles' = singles \cup {p}
  PROVE  Jvm!Next
  <1>0. TypeOK /\ p \in Addr /\ p \notin Allocated
    BY DEF IInv, Free
  <1>1. Allocated' = Allocated \cup {p}
    BY <1>0 DEF TypeOK, Allocated
  <1>2. Roots' = Roots \cup {p}
    BY <1>0 DEF TypeOK, Roots, Global, Own
  <1>3. Jvm!New(p)
    BY <1>0, <1>1, <1>2 DEF Jvm!New
  <1> QED BY <1>0, <1>3 DEF Jvm!Next

LEMMA JniRefines ==
  ASSUME IInv, NEW th \in Thread, Jni(th)
  PROVE  [Jvm!Next]_(Jvm!vars)
  <1>0. TypeOK /\ th \in calling
    BY DEF IInv, Jni
  <1>1. CASE \E p \in Free :
               \/ \E k \in {"object", "array"} : NewObject(th, p, k)
               \/ NewByteArray(th, p) \/ NewString(th, p) \/ GetString(th, p)
    <2>1. PICK p \in Free : /\ Make(p, kind'[p], refs'[p], 0) /\ Own(th, p)
                            /\ UNCHANGED singles /\ kind'[p] # "free"
      <3>1. PICK p \in Free :
              \/ \E k \in {"object", "array"} : NewObject(th, p, k)
              \/ NewByteArray(th, p) \/ NewString(th, p) \/ GetString(th, p)
        BY <1>1
      <3>2. p \in Addr
        BY DEF Free
      <3>3. kind'[p] # "free"
        BY <1>0, <3>1, <3>2 DEF NewObject, NewByteArray, NewString, GetString, Make, TypeOK
      <3> QED BY <1>0, <3>1, <3>3, MakeStep
    <2> QED BY <2>1, MakeRefines DEF Make
  <1>2. CASE \E p \in Free : Complete(th, p)
    <2>1. PICK p \in Free : Complete(th, p)
      BY <1>2
    <2>2. p \in Addr /\ kind'[p] = "object"
      BY <1>0, <2>1 DEF Free, Complete, Make, TypeOK
    <2> QED BY <2>1, <2>2, MakeRefines DEF Complete, Make
  <1>3. CASE SetField(th)
    BY <1>3, DropRefines DEF SetField, calls, others, Allocated, Roots, Global
  <1>4. CASE NewGlobalRef(th) \/ DeleteGlobalRef(th)
    <2>1. Allocated' = Allocated /\ UNCHANGED <<own, singles>>
      BY <1>4 DEF NewGlobalRef, DeleteGlobalRef, heap, calls, Allocated
    <2>2. Global' \subseteq Roots
      BY <1>0, <1>4 DEF NewGlobalRef, DeleteGlobalRef, Global, Roots, TypeOK
    <2> QED BY <2>1, <2>2, DropRefines DEF Roots
  <1> QED BY <1>1, <1>2, <1>3, <1>4 DEF Jni

LEMMA StepRefines == IInv /\ [Next]_vars => [Jvm!Next]_(Jvm!vars)
  <1> SUFFICES ASSUME IInv, [Next]_vars PROVE [Jvm!Next]_(Jvm!vars)
    OBVIOUS
  <1>0. TypeOK
    BY DEF IInv
  <1>1. ASSUME NEW th \in Thread, Jni(th) PROVE [Jvm!Next]_(Jvm!vars)
    BY <1>1, JniRefines
  <1>2. ASSUME NEW th \in Thread, Enter(th) \/ Leave(th) PROVE [Jvm!Next]_(Jvm!vars)
    <2>1. UNCHANGED <<kind, singles, globals>> /\ \A t \in Thread : own'[t] \subseteq own[t]
      BY <1>0, <1>2 DEF Enter, Leave, EndCall, heap, others, TypeOK
    <2> QED BY <2>1, DropRefines DEF Allocated, Roots, Global
  <1>3. CASE Tick \/ Sweep \/ StartCall \/ Fetched
    <2>1. UNCHANGED <<kind, singles, globals, own>>
      BY <1>3 DEF Tick, Sweep, StartCall, Fetched, heap, calls, others
    <2> QED BY <2>1, DropRefines DEF Allocated, Roots, Global
  <1>4. CASE Done
    <2>1. UNCHANGED <<kind, singles, globals>> /\ \A t \in Thread : own'[t] \subseteq own[t]
      BY <1>0, <1>4 DEF Done, EndCall, heap, others, TypeOK
    <2> QED BY <2>1, DropRefines DEF Allocated, Roots, Global
  <1>5. ASSUME NEW p \in Addr, Release(p) PROVE [Jvm!Next]_(Jvm!vars)
    <2>1. UNCHANGED <<kind, singles, globals>> /\ \A t \in Thread : own'[t] \subseteq own[t]
      BY <1>0, <1>5 DEF Release, heap, others, TypeOK
    <2> QED BY <2>1, DropRefines DEF Allocated, Roots, Global
  <1>6. ASSUME NEW p \in Addr, FreeObj(p) PROVE [Jvm!Next]_(Jvm!vars)
    <2>1. p \in Allocated \ Roots
      BY <1>6 DEF IInv, FreeObj, Accounted, RootsListed
    <2>2. Allocated' = Allocated \ {p} /\ Roots' = Roots
      BY <1>0, <1>6 DEF FreeObj, calls, others, TypeOK, Allocated, Roots, Global
    <2>3. Jvm!Collect(p)
      BY <2>1, <2>2 DEF Jvm!Collect
    <2> QED BY <2>3 DEF Jvm!Next
  <1>7. CASE UNCHANGED vars
    BY <1>7, DropRefines DEF vars, heap, calls, others, Allocated, Roots, Global
  <1> QED BY <1>1, <1>2, <1>3, <1>4, <1>5, <1>6, <1>7 DEF Next, DaemonStep

(* The registry with its grace period implements JNI's references: objects  *)
(* come with a reference, and none is collected before its last one goes.   *)
THEOREM RefinesLocalRefsHolds == Spec => RefinesLocalRefs
  <1>1. Init => Jvm!Init
    BY ObjectsAssumption DEF Init, Jvm!Init, Allocated, Roots, Global, Thread
  <1> QED BY <1>1, StepRefines, InvHolds, PTL DEF Spec, RefinesLocalRefs, Jvm!Spec
============================================================================
