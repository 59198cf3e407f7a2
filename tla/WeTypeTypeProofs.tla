-------------------------- MODULE WeTypeTypeProofs --------------------------
(***************************************************************************)
(* The types of the whole input method, and what EngineProc's invariant    *)
(* becomes under its real client, for any letters, keys, callbacks, input  *)
(* contexts, answers of the engine and limits.                             *)
(*                                                                         *)
(* First, facts about the operators on sequences and sets the models take  *)
(* from the community modules, where they are recursive or chosen, and the *)
(* induction these need.  An induction theorem with a predicate as its     *)
(* parameter is out of the provers' reach, but one about a set of naturals *)
(* is not, and a predicate is given by the set it holds on.  Then facts    *)
(* about the sequences a call stack is made of: short ones, one on another,*)
(* and sequences in an order.                                              *)
(***************************************************************************)
EXTENDS WeTypeProperties, EngineProcProofs, WellFoundedInduction

----------------------------------------------------------------------------
(* Induction.                                                              *)

\* A set of naturals that is not empty has a least element.
LEMMA LeastNat ==
  ASSUME NEW T, T \subseteq Nat, T # {}
  PROVE  \E x \in T : \A y \in T : x <= y
<1> DEFINE R == {ss \in Nat \X Nat : ss[1] < ss[2]}
<1>1. IsWellFoundedOn(R, Nat)
  BY NatLessThanWellFounded DEF OpToRel
<1>2. \A x, y \in Nat : <<y, x>> \in R <=> y < x
  OBVIOUS
<1> HIDE DEF R
<1>3. PICK x \in T : \A y \in T : ~(<<y, x>> \in R)
  BY <1>1, WFMin
<1>4. \A y \in T : x <= y
  <2> SUFFICES ASSUME NEW y \in T PROVE x <= y
    OBVIOUS
  <2>1. x \in Nat /\ y \in Nat /\ ~(<<y, x>> \in R)
    BY <1>3
  <2> QED BY <2>1, <1>2
<1> QED BY <1>4

\* A set that has 0, and with each n also n + 1, has every natural.
LEMMA Induction ==
  ASSUME NEW T, 0 \in T, \A n \in Nat : n \in T => n + 1 \in T
  PROVE  \A n \in Nat : n \in T
<1> DEFINE F == {n \in Nat : n \notin T}
<1> SUFFICES ASSUME F # {} PROVE FALSE
  OBVIOUS
<1>1. F \subseteq Nat
  OBVIOUS
<1>2. PICK x \in F : \A y \in F : x <= y
  <2> HIDE DEF F
  <2> QED BY <1>1, LeastNat
<1>3. x \in Nat /\ x \notin T /\ x # 0
  OBVIOUS
<1>4. x - 1 \in Nat /\ (x - 1) + 1 = x /\ ~(x <= x - 1)
  BY <1>3
<1>5. x - 1 \notin F
  BY <1>2, <1>4
<1>6. x - 1 \in T
  BY <1>4, <1>5
<1> QED BY <1>3, <1>4, <1>6

----------------------------------------------------------------------------
(* Min and Max (FiniteSetsExt).                                            *)

\* Min of two naturals is one of them and at most each.
LEMMA MinOfTwo ==
  ASSUME NEW x \in Nat, NEW y \in Nat
  PROVE  Min({x, y}) \in {x, y} /\ Min({x, y}) <= x /\ Min({x, y}) <= y
<1>1. \E m \in {x, y} : \A n \in {x, y} : m <= n
  <2>1. CASE x <= y
    BY <2>1
  <2>2. CASE y <= x
    BY <2>2
  <2> QED BY <2>1, <2>2
<1>2. Min({x, y}) \in {x, y} /\ \A n \in {x, y} : Min({x, y}) <= n
  BY <1>1 DEF Min
<1> QED BY <1>2

\* Min of naturals is one of them.
LEMMA MinOfNats ==
  ASSUME NEW T, T \subseteq Nat, T # {}
  PROVE  Min(T) \in T
<1>1. \E x \in T : \A y \in T : x <= y
  BY LeastNat
<1> QED BY <1>1 DEF Min

\* Max of positions in a sequence is one of them, and none is after it.
LEMMA MaxOfRange ==
  ASSUME NEW n \in Nat, NEW T, T \subseteq 1..n, T # {}
  PROVE  Max(T) \in T /\ \A y \in T : Max(T) >= y
<1> DEFINE U == {n - x : x \in T}
<1>1. U \subseteq Nat /\ U # {}
  <2>1. ASSUME NEW x \in T PROVE n - x \in Nat
    <3>1. x \in 1..n
      OBVIOUS
    <3> QED BY <3>1
  <2>2. PICK x \in T : TRUE
    OBVIOUS
  <2>3. n - x \in U
    OBVIOUS
  <2> QED BY <2>1, <2>3
<1>2. PICK u \in U : \A v \in U : u <= v
  <2> HIDE DEF U
  <2> QED BY <1>1, LeastNat
<1>3. PICK x \in T : u = n - x
  BY <1>2
<1>4. \A y \in T : x >= y
  <2> SUFFICES ASSUME NEW y \in T PROVE x >= y
    OBVIOUS
  <2>1. n - x <= n - y /\ x \in 1..n /\ y \in 1..n
    BY <1>2, <1>3
  <2> QED BY <2>1
<1> HIDE DEF U
<1>5. \E z \in T : \A y \in T : z >= y
  BY <1>4
<1> QED BY <1>5 DEF Max

----------------------------------------------------------------------------
(* FlattenSeq (SequencesExt).                                              *)

\* The sequences flattened so far, one after another.
Flattens(f, s) ==
  /\ f = [i \in 1..Len(s) |-> f[i]]
  /\ \A i \in 1..Len(s) : f[i] = IF i = 1 THEN s[i] ELSE f[i - 1] \o s[i]

\* There are such sequences, and FlattenSeq is the last of them.
LEMMA FlattenIs ==
  ASSUME NEW S, NEW s \in Seq(Seq(S)), s # <<>>
  PROVE  \E f : /\ Flattens(f, s) /\ FlattenSeq(s) = f[Len(s)]
                /\ \A i \in 1..Len(s) : f[i] \in Seq(S)
<1> DEFINE n == Len(s)
           Good(f, k) == \A i \in 1..k : /\ f[i] \in Seq(S)
                                         /\ f[i] = IF i = 1 THEN s[i] ELSE f[i - 1] \o s[i]
           T == {k \in Nat : k <= n => \E f : Good(f, k)}
<1>1. n \in Nat /\ n # 0 /\ \A i \in 1..n : s[i] \in Seq(S)
  BY LenProperties, ElementOfSeq, EmptySeq
<1>2. 0 \in T
  OBVIOUS
<1>3. ASSUME NEW k \in Nat, k \in T PROVE k + 1 \in T
  <2> SUFFICES ASSUME k + 1 <= n PROVE \E f : Good(f, k + 1)
    OBVIOUS
  <2>1. PICK f : Good(f, k)
    BY <1>1, <1>3
  <2> DEFINE g == [i \in 1..(k + 1) |-> IF i <= k THEN f[i] ELSE IF i = 1 THEN s[i] ELSE f[k] \o s[i]]
  <2>2. ASSUME NEW i \in 1..(k + 1)
        PROVE  g[i] \in Seq(S) /\ g[i] = IF i = 1 THEN s[i] ELSE g[i - 1] \o s[i]
    <3>1. CASE i <= k
      <4>1. g[i] = f[i] /\ i \in 1..k
        BY <3>1
      <4>2. i # 1 => g[i - 1] = f[i - 1]
        BY <3>1
      <4> QED BY <2>1, <4>1, <4>2
    <3>2. CASE i = k + 1 /\ i = 1
      <4>1. g[i] = s[i] /\ i \in 1..n
        BY <3>2, <1>1
      <4> QED BY <3>2, <4>1, <1>1
    <3>3. CASE i = k + 1 /\ i # 1
      <4>0. i \in 1..n /\ k \in 1..k /\ ~(i <= k)
        BY <3>3, <1>1
      <4>1. g[i] = f[k] \o s[i] /\ i \in 1..n /\ k \in 1..k
        BY <3>3, <4>0
      <4>2. f[k] \in Seq(S) /\ s[i] \in Seq(S)
        BY <2>1, <4>1, <1>1
      <4>3. g[i - 1] = f[k]
        BY <3>3
      <4> QED BY <3>3, <4>1, <4>2, <4>3, ConcatProperties
    <3>4. i <= k \/ i = k + 1
      OBVIOUS
    <3> QED BY <3>1, <3>2, <3>3, <3>4
  <2> HIDE DEF g
  <2>3. Good(g, k + 1)
    BY <2>2
  <2> QED BY <2>3
<1>4. \E f : Good(f, n)
  <2>1. n \in T
    <3> HIDE DEF T
    <3> QED BY <1>1, <1>2, <1>3, Induction
  <2> QED BY <2>1
<1>5. PICK h : Good(h, n)
  BY <1>4
<1> DEFINE F(f) == [i \in 1..n |-> IF i = 1 THEN s[i] ELSE f[i - 1] \o s[i]]
           g == [i \in 1..n |-> h[i]]
<1>6. g = F(g)
  <2> SUFFICES ASSUME NEW i \in 1..n PROVE g[i] = F(g)[i]
    OBVIOUS
  <2>1. CASE i = 1
    BY <1>5, <2>1
  <2>2. CASE i # 1
    <3>1. i - 1 \in 1..n
      BY <2>2, <1>1
    <3> QED BY <1>5, <2>2, <3>1
  <2> QED BY <2>1, <2>2
<1> DEFINE c == CHOOSE f : f = F(f)
<1>7. c = F(c)
  <2> HIDE DEF F
  <2> QED BY <1>6
<1>8. FlattenSeq(s) = c[n]
  BY <1>1 DEF FlattenSeq
<1> HIDE DEF c
<1>9. \A i \in 1..n : c[i] = IF i = 1 THEN s[i] ELSE c[i - 1] \o s[i]
  BY <1>7
<1>10. c = [i \in 1..n |-> c[i]]
  BY <1>7
<1> DEFINE U == {k \in Nat : k \in 1..n => c[k] \in Seq(S)}
<1>11. 0 \in U
  OBVIOUS
<1>12. ASSUME NEW k \in Nat, k \in U PROVE k + 1 \in U
  <2> SUFFICES ASSUME k + 1 \in 1..n PROVE c[k + 1] \in Seq(S)
    OBVIOUS
  <2>1. CASE k = 0
    BY <2>1, <1>1, <1>9
  <2>2. CASE k # 0
    <3>1. k \in 1..n /\ k + 1 # 1 /\ (k + 1) - 1 = k
      BY <2>2, <1>1
    <3>2. c[k] \in Seq(S) /\ s[k + 1] \in Seq(S) /\ c[k + 1] = c[k] \o s[k + 1]
      BY <1>1, <1>9, <1>12, <3>1
    <3> QED BY <3>2, ConcatProperties
  <2> QED BY <2>1, <2>2
<1>13. \A k \in Nat : k \in U
  <2> HIDE DEF U
  <2> QED BY <1>11, <1>12, Induction
<1>14. \A i \in 1..n : c[i] \in Seq(S)
  BY <1>1, <1>13
<1> QED BY <1>8, <1>9, <1>10, <1>14 DEF Flattens

\* Flattening sequences over a set gives a sequence over it.
LEMMA FlattenType ==
  ASSUME NEW S, NEW s \in Seq(Seq(S))
  PROVE  FlattenSeq(s) \in Seq(S)
<1>1. CASE s = <<>>
  <2>1. FlattenSeq(<<>>) = <<>>
    BY DEF FlattenSeq
  <2> QED BY <1>1, <2>1, EmptySeq
<1>2. CASE s # <<>>
  <2>1. Len(s) \in 1..Len(s)
    BY <1>2, LenProperties, EmptySeq
  <2> QED BY <1>2, <2>1, FlattenIs
<1> QED BY <1>1, <1>2

\* Of none, it is empty.
LEMMA FlattenEmpty == FlattenSeq(<<>>) = <<>>
BY DEF FlattenSeq

\* There is one such sequence.
LEMMA FlattenOnly ==
  ASSUME NEW S, NEW s \in Seq(Seq(S)), s # <<>>, NEW f, Flattens(f, s)
  PROVE  FlattenSeq(s) = f[Len(s)]
<1>1. PICK g : Flattens(g, s) /\ FlattenSeq(s) = g[Len(s)]
  BY FlattenIs
<1> DEFINE n == Len(s)
           T == {k \in Nat : k \in 1..n => f[k] = g[k]}
<1>2. n \in Nat /\ n # 0
  BY LenProperties, EmptySeq
<1>3. 0 \in T
  OBVIOUS
<1>4. ASSUME NEW k \in Nat, k \in T PROVE k + 1 \in T
  <2> SUFFICES ASSUME k + 1 \in 1..n PROVE f[k + 1] = g[k + 1]
    OBVIOUS
  <2>1. /\ f[k + 1] = IF k + 1 = 1 THEN s[k + 1] ELSE f[(k + 1) - 1] \o s[k + 1]
        /\ g[k + 1] = IF k + 1 = 1 THEN s[k + 1] ELSE g[(k + 1) - 1] \o s[k + 1]
    BY <1>1 DEF Flattens
  <2>2. CASE k = 0
    BY <2>1, <2>2
  <2>3. CASE k # 0
    <3>1. k \in 1..n /\ k + 1 # 1 /\ (k + 1) - 1 = k
      BY <2>3, <1>2
    <3>2. f[k] = g[k]
      BY <1>4, <3>1
    <3> QED BY <2>1, <3>1, <3>2
  <2> QED BY <2>2, <2>3
<1>5. n \in T
  <2> HIDE DEF T
  <2> QED BY <1>2, <1>3, <1>4, Induction
<1> QED BY <1>1, <1>2, <1>5

\* One more sequence goes to the end.
LEMMA FlattenAppend ==
  ASSUME NEW S, NEW s \in Seq(Seq(S)), NEW x \in Seq(S)
  PROVE  FlattenSeq(Append(s, x)) = FlattenSeq(s) \o x
<1> DEFINE t == Append(s, x)
           n == Len(s)
<1>1. /\ t \in Seq(Seq(S)) /\ Len(t) = n + 1 /\ n \in Nat /\ t[n + 1] = x
      /\ \A i \in 1..n : t[i] = s[i]
  BY LenProperties, AppendProperties
<1> HIDE DEF t
<1>2. t # <<>>
  BY <1>1, EmptySeq
<1>3. PICK f : Flattens(f, t) /\ FlattenSeq(t) = f[Len(t)]
  BY <1>1, <1>2, FlattenIs
<1>4. \A i \in 1..(n + 1) : f[i] = IF i = 1 THEN t[i] ELSE f[i - 1] \o t[i]
  <2>1. \A i \in 1..Len(t) : f[i] = IF i = 1 THEN t[i] ELSE f[i - 1] \o t[i]
    BY <1>3 DEF Flattens
  <2> QED BY <1>1, <2>1
<1>0. n + 1 \in 1..(n + 1)
  BY <1>1
<1>5. CASE s = <<>>
  <2>1. n = 0 /\ FlattenSeq(s) = <<>> /\ <<>> \o x = x
    BY <1>5, FlattenEmpty, ConcatEmptySeq
  <2>2. FlattenSeq(t) = x
    BY <1>0, <1>1, <1>3, <1>4, <2>1
  <2> QED BY <2>1, <2>2 DEF t
<1>6. CASE s # <<>>
  <2> DEFINE g == [i \in 1..n |-> f[i]]
  <2>1. n # 0 /\ n \in 1..n /\ (n + 1) - 1 = n /\ n + 1 # 1
    BY <1>1, <1>6, EmptySeq
  <2>2. Flattens(g, s)
    <3>1. g = [i \in 1..n |-> g[i]]
      OBVIOUS
    <3>2. ASSUME NEW i \in 1..n PROVE g[i] = IF i = 1 THEN s[i] ELSE g[i - 1] \o s[i]
      <4>1. f[i] = IF i = 1 THEN s[i] ELSE f[i - 1] \o s[i]
        <5>1. i \in 1..(n + 1) /\ t[i] = s[i]
          BY <1>1
        <5> QED BY <1>4, <5>1
      <4>2. CASE i = 1
        BY <4>1, <4>2
      <4>3. CASE i # 1
        <5>1. i - 1 \in 1..n
          BY <4>3, <1>1
        <5> QED BY <4>1, <4>3, <5>1
      <4> QED BY <4>2, <4>3
    <3> HIDE DEF g
    <3> QED BY <3>1, <3>2 DEF Flattens
  <2>3. g[n] = f[n]
    BY <2>1
  <2> HIDE DEF g
  <2>4. FlattenSeq(s) = f[n]
    BY <1>6, <2>2, <2>3, FlattenOnly
  <2>5. FlattenSeq(t) = f[n] \o x
    BY <1>0, <1>1, <1>3, <1>4, <2>1
  <2> QED BY <2>4, <2>5 DEF t
<1> QED BY <1>5, <1>6

\* And so does a sequence of them.
LEMMA FlattenConcat ==
  ASSUME NEW S, NEW s \in Seq(Seq(S)), NEW t \in Seq(Seq(S))
  PROVE  FlattenSeq(s \o t) = FlattenSeq(s) \o FlattenSeq(t)
<1> DEFINE Q == Seq(Seq(S))
           T == {k \in Nat : \A q \in Q : Len(q) = k => FlattenSeq(s \o q) = FlattenSeq(s) \o FlattenSeq(q)}
<1>1. 0 \in T
  <2> SUFFICES ASSUME NEW q \in Q, Len(q) = 0 PROVE FlattenSeq(s \o q) = FlattenSeq(s) \o FlattenSeq(q)
    OBVIOUS
  <2>1. q = <<>>
    BY EmptySeq
  <2>2. s \o <<>> = s /\ FlattenSeq(<<>>) = <<>> /\ FlattenSeq(s) \o <<>> = FlattenSeq(s)
    BY FlattenEmpty, FlattenType, ConcatEmptySeq
  <2> QED BY <2>1, <2>2
<1>2. ASSUME NEW k \in Nat, k \in T PROVE k + 1 \in T
  <2> SUFFICES ASSUME NEW q \in Q, Len(q) = k + 1
               PROVE  FlattenSeq(s \o q) = FlattenSeq(s) \o FlattenSeq(q)
    OBVIOUS
  <2> DEFINE r == [i \in 1..k |-> q[i]]
             x == q[k + 1]
  <2>1. r \in Q /\ Len(r) = k /\ x \in Seq(S) /\ q = Append(r, x)
    <3>1. \A i \in 1..(k + 1) : q[i] \in Seq(S)
      BY ElementOfSeq
    <3>2. r \in Seq(Seq(S)) /\ Len(r) = k /\ x \in Seq(S)
      BY <3>1
    <3>3. q = Append(r, x)
      <4>1. Len(Append(r, x)) = k + 1 /\ Append(r, x) \in Seq(Seq(S))
        BY <3>2, AppendProperties
      <4>2. \A i \in 1..(k + 1) : Append(r, x)[i] = q[i]
        BY <3>2, AppendProperties
      <4> HIDE DEF r, x
      <4> QED BY <4>1, <4>2, SeqEqual
    <3> QED BY <3>2, <3>3
  <2> HIDE DEF r, x
  <2>2. FlattenSeq(q) = FlattenSeq(r) \o x
    BY <2>1, FlattenAppend
  <2>3. s \o q = Append(s \o r, x) /\ s \o r \in Q
    BY <2>1, ConcatProperties, AppendIsConcat, ConcatAssociative
  <2>4. FlattenSeq(s \o q) = FlattenSeq(s \o r) \o x
    BY <2>1, <2>3, FlattenAppend
  <2>5. FlattenSeq(s \o r) = FlattenSeq(s) \o FlattenSeq(r)
    BY <1>2, <2>1
  <2>6. (FlattenSeq(s) \o FlattenSeq(r)) \o x = FlattenSeq(s) \o (FlattenSeq(r) \o x)
    <3> DEFINE a == FlattenSeq(s)
               b == FlattenSeq(r)
    <3>1. a \in Seq(S) /\ b \in Seq(S) /\ x \in Seq(S)
      <4>1. r \in Seq(Seq(S)) /\ x \in Seq(S)
        BY <2>1
      <4> QED BY <4>1, FlattenType
    <3> HIDE DEF a, b, T
    <3>2. (a \o b) \o x = a \o (b \o x)
      BY <3>1, ConcatAssociative
    <3> QED BY <3>2 DEF a, b
  <2> QED BY <2>2, <2>4, <2>5, <2>6
<1>3. Len(t) \in T
  <2> HIDE DEF T
  <2> QED BY <1>1, <1>2, LenProperties, Induction
<1> QED BY <1>3

----------------------------------------------------------------------------
(* Short sequences, and sequences in an order.                             *)

\* One on another.
LEMMA Pair ==
  \A a, b : <<a>> \o <<b>> = <<a, b>>
<1> SUFFICES ASSUME NEW a, NEW b PROVE <<a>> \o <<b>> = <<a, b>>
  OBVIOUS
<1> DEFINE S == {a, b}
           p == <<a>>
           q == <<b>>
           s == <<a, b>>
<1>1. /\ p \in Seq(S) /\ q \in Seq(S) /\ s \in Seq(S) /\ Len(p) = 1 /\ Len(q) = 1 /\ Len(s) = 2
      /\ p[1] = a /\ q[1] = b /\ s[1] = a /\ s[2] = b
  <2>1. p \in Seq(S) /\ q \in Seq(S) /\ s \in Seq(S)
    OBVIOUS
  <2>2. Len(p) = 1 /\ Len(q) = 1 /\ p[1] = a /\ q[1] = b
    OBVIOUS
  <2>3. Len(s) = 2 /\ s[1] = a /\ s[2] = b
    OBVIOUS
  <2> HIDE DEF S, p, q, s
  <2> QED BY <2>1, <2>2, <2>3
<1> HIDE DEF S, p, q, s
<1>2. p \o q \in Seq(S) /\ Len(p \o q) = 2
      /\ \A i \in 1..2 : (p \o q)[i] = IF i <= 1 THEN p[i] ELSE q[i - 1]
  <2>1. /\ p \o q \in Seq(S) /\ Len(p \o q) = Len(p) + Len(q)
        /\ \A i \in 1..(Len(p) + Len(q)) : (p \o q)[i] = IF i <= Len(p) THEN p[i] ELSE q[i - Len(p)]
    BY <1>1, ConcatProperties
  <2>2. Len(p) + Len(q) = 2
    BY <1>1
  <2> QED BY <1>1, <2>1, <2>2
<1>3. \A i \in 1..2 : (p \o q)[i] = s[i]
  <2>1. 1 \in 1..2 /\ 2 \in 1..2 /\ \A i \in 1..2 : i = 1 \/ i = 2
    OBVIOUS
  <2>2. (p \o q)[1] = a /\ (p \o q)[2] = b
    BY <1>1, <1>2
  <2> QED BY <1>1, <2>1, <2>2
<1>4. p \o q = s
  BY <1>1, <1>2, <1>3, SeqEqual
<1> QED BY <1>4 DEF p, q, s

\* One on two.
LEMMA Triple ==
  \A a, b, c : <<a>> \o <<b, c>> = <<a, b, c>>
<1> SUFFICES ASSUME NEW a, NEW b, NEW c PROVE <<a>> \o <<b, c>> = <<a, b, c>>
  OBVIOUS
<1> DEFINE S == {a, b, c}
           p == <<a>>
           q == <<b, c>>
           s == <<a, b, c>>
<1>1. /\ p \in Seq(S) /\ q \in Seq(S) /\ s \in Seq(S) /\ Len(p) = 1 /\ Len(q) = 2 /\ Len(s) = 3
      /\ p[1] = a /\ q[1] = b /\ q[2] = c /\ s[1] = a /\ s[2] = b /\ s[3] = c
  OBVIOUS
<1> HIDE DEF S, p, q, s
<1>2. /\ p \o q \in Seq(S) /\ Len(p \o q) = Len(p) + Len(q)
      /\ \A i \in 1..(Len(p) + Len(q)) : (p \o q)[i] = IF i <= Len(p) THEN p[i] ELSE q[i - Len(p)]
  BY <1>1, ConcatProperties
<1>3. \A i \in 1..3 : (p \o q)[i] = s[i]
  <2>1. 1 \in 1..3 /\ 2 \in 1..3 /\ 3 \in 1..3 /\ \A i \in 1..3 : i = 1 \/ i = 2 \/ i = 3
    OBVIOUS
  <2>2. (p \o q)[1] = a /\ (p \o q)[2] = b /\ (p \o q)[3] = c
    BY <1>1, <1>2
  <2> QED BY <1>1, <2>1, <2>2
<1>4. Len(p \o q) = Len(s)
  BY <1>1, <1>2
<1>5. p \o q = s
  BY <1>1, <1>2, <1>3, <1>4, SeqEqual
<1> QED BY <1>5 DEF p, q, s

\* One on any: the one is its head.
LEMMA OneOnAny ==
  ASSUME NEW S, NEW x \in S, NEW s \in Seq(S)
  PROVE  <<x>> \o s # <<>> /\ Head(<<x>> \o s) = x /\ Tail(<<x>> \o s) = s
<1> DEFINE p == <<x>>
           w == p \o s
<1>1. p \in Seq(S) /\ Len(p) = 1 /\ p[1] = x
  OBVIOUS
<1> HIDE DEF p
<1>2. /\ w \in Seq(S) /\ Len(w) = Len(s) + 1 /\ Len(s) \in Nat
      /\ \A i \in 1..(Len(s) + 1) : w[i] = IF i <= 1 THEN p[i] ELSE s[i - 1]
  <2>1. /\ w \in Seq(S) /\ Len(w) = Len(p) + Len(s)
        /\ \A i \in 1..(Len(p) + Len(s)) : w[i] = IF i <= Len(p) THEN p[i] ELSE s[i - Len(p)]
    BY <1>1, ConcatProperties
  <2>2. Len(s) \in Nat
    BY LenProperties
  <2> HIDE DEF w
  <2>3. Len(p) + Len(s) = Len(s) + 1
    BY <1>1, <2>2
  <2> QED BY <1>1, <2>1, <2>2, <2>3
<1> HIDE DEF w
<1>3. w # <<>>
  BY <1>2, EmptySeq
<1>4. /\ Tail(w) \in Seq(S) /\ Len(Tail(w)) = Len(s)
      /\ \A i \in 1..Len(s) : Tail(w)[i] = w[i + 1]
  BY <1>2, <1>3, HeadTailProperties
<1>5. \A i \in 1..Len(s) : w[i + 1] = s[i]
  BY <1>2
<1>6. Tail(w) = s
  BY <1>4, <1>5, SeqEqual
<1>7. Head(w) = w[1] /\ w[1] = x
  BY <1>1, <1>2
<1> QED BY <1>3, <1>6, <1>7 DEF w, p

\* One more at the end.
LEMMA RangeAppend ==
  ASSUME NEW S, NEW s \in Seq(S), NEW e \in S
  PROVE  Range(Append(s, e)) = Range(s) \cup {e}
<1> DEFINE a == Append(s, e)
<1>1. /\ DOMAIN a = 1..(Len(s) + 1) /\ DOMAIN s = 1..Len(s) /\ Len(s) \in Nat
      /\ \A i \in 1..Len(s) : a[i] = s[i]
      /\ a[Len(s) + 1] = e
  BY AppendProperties, LenProperties
<1> HIDE DEF a
<1>2. \A i \in DOMAIN a : i \in DOMAIN s \/ i = Len(s) + 1
  BY <1>1
<1>3. Range(a) \subseteq Range(s) \cup {e}
  BY <1>1, <1>2 DEF Range
<1>4. \A i \in DOMAIN s : i \in DOMAIN a
  BY <1>1
<1>5. Range(s) \subseteq Range(a)
  BY <1>1, <1>4 DEF Range
<1>6. Len(s) + 1 \in DOMAIN a
  BY <1>1
<1>7. e \in Range(a)
  BY <1>1, <1>6 DEF Range
<1> QED BY <1>3, <1>5, <1>7 DEF a

\* Each stands in the relation R to all that come after it.
Sorted(s, R) == \A i, j \in DOMAIN s : i < j => <<s[i], s[j]>> \in R

\* A sequence on another.
LEMMA SortedConcat ==
  ASSUME NEW S, NEW R, NEW p \in Seq(S), NEW q \in Seq(S),
         Sorted(p, R), Sorted(q, R), \A x \in Range(p), y \in Range(q) : <<x, y>> \in R
  PROVE  Sorted(p \o q, R) /\ Range(p \o q) = Range(p) \cup Range(q)
<1> DEFINE s == p \o q
<1>1. /\ s \in Seq(S) /\ Len(s) = Len(p) + Len(q) /\ Len(p) \in Nat /\ Len(q) \in Nat
      /\ DOMAIN s = 1..(Len(p) + Len(q)) /\ DOMAIN p = 1..Len(p) /\ DOMAIN q = 1..Len(q)
  BY ConcatProperties, LenProperties
<1>2. \A i \in DOMAIN s : s[i] = IF i <= Len(p) THEN p[i] ELSE q[i - Len(p)]
  BY <1>1, ConcatProperties
<1> HIDE DEF s
<1>3. \A i \in DOMAIN s : IF i <= Len(p) THEN i \in DOMAIN p ELSE i - Len(p) \in DOMAIN q
  BY <1>1
<1>4. Range(s) = Range(p) \cup Range(q)
  <2>1. \A i \in DOMAIN s : s[i] \in Range(p) \cup Range(q)
    BY <1>2, <1>3 DEF Range
  <2>2. \A i \in DOMAIN p : i \in DOMAIN s /\ s[i] = p[i]
    BY <1>1, <1>2
  <2>3. \A i \in DOMAIN q : i + Len(p) \in DOMAIN s /\ s[i + Len(p)] = q[i]
    BY <1>1, <1>2
  <2> QED BY <2>1, <2>2, <2>3 DEF Range
<1>5. ASSUME NEW i \in DOMAIN s, NEW j \in DOMAIN s, i < j PROVE <<s[i], s[j]>> \in R
  <2>1. CASE j <= Len(p)
    <3>1. i \in DOMAIN p /\ j \in DOMAIN p /\ s[i] = p[i] /\ s[j] = p[j]
      BY <1>1, <1>2, <1>5, <2>1
    <3> QED BY <1>5, <3>1 DEF Sorted
  <2>2. CASE ~(j <= Len(p)) /\ i <= Len(p)
    <3>1. s[i] \in Range(p) /\ s[j] \in Range(q)
      BY <1>2, <1>3, <2>2 DEF Range
    <3> QED BY <3>1
  <2>3. CASE ~(j <= Len(p)) /\ ~(i <= Len(p))
    <3>1. i - Len(p) \in DOMAIN q /\ j - Len(p) \in DOMAIN q /\ i - Len(p) < j - Len(p)
      BY <1>1, <1>5, <2>3
    <3>2. s[i] = q[i - Len(p)] /\ s[j] = q[j - Len(p)]
      BY <1>2, <2>3
    <3> QED BY <3>1, <3>2 DEF Sorted
  <2> QED BY <2>1, <2>2, <2>3
<1>6. Sorted(s, R)
  BY <1>5 DEF Sorted
<1> QED BY <1>4, <1>6 DEF s

\* The first and the rest.
LEMMA SortedTail ==
  ASSUME NEW S, NEW R, NEW s \in Seq(S), s # <<>>
  PROVE  /\ Range(s) = {Head(s)} \cup Range(Tail(s))
         /\ Sorted(s, R) => Sorted(Tail(s), R) /\ \A t \in Range(Tail(s)) : <<Head(s), t>> \in R
<1>1. /\ Tail(s) \in Seq(S) /\ Len(Tail(s)) = Len(s) - 1 /\ Len(s) \in Nat /\ Len(s) >= 1
      /\ \A i \in 1..Len(Tail(s)) : Tail(s)[i] = s[i + 1]
  BY HeadTailProperties, LenProperties, EmptySeq
<1>2. DOMAIN s = 1..Len(s) /\ DOMAIN Tail(s) = 1..(Len(s) - 1) /\ s[1] = Head(s)
  BY <1>1, LenProperties
<1>3. Range(s) = {Head(s)} \cup Range(Tail(s))
  <2>1. \A i \in DOMAIN s : i = 1 \/ (i - 1 \in DOMAIN Tail(s) /\ Tail(s)[i - 1] = s[i])
    BY <1>1, <1>2
  <2>2. \A i \in DOMAIN Tail(s) : i + 1 \in DOMAIN s /\ Tail(s)[i] = s[i + 1]
    BY <1>1, <1>2
  <2>3. 1 \in DOMAIN s
    BY <1>1, <1>2
  <2>4. ASSUME NEW i \in DOMAIN s PROVE s[i] \in {Head(s)} \cup Range(Tail(s))
    BY <1>2, <2>1 DEF Range
  <2>5. Range(Tail(s)) \subseteq Range(s)
    BY <2>2 DEF Range
  <2>6. Head(s) \in Range(s)
    BY <1>2, <2>3 DEF Range
  <2>7. Range(s) \subseteq {Head(s)} \cup Range(Tail(s))
    BY <2>4 DEF Range
  <2> QED BY <2>5, <2>6, <2>7
<1>4. ASSUME Sorted(s, R) PROVE Sorted(Tail(s), R)
  <2>1. \A i, j \in DOMAIN Tail(s) : i < j => /\ i + 1 \in DOMAIN s /\ j + 1 \in DOMAIN s /\ i + 1 < j + 1
                                              /\ Tail(s)[i] = s[i + 1] /\ Tail(s)[j] = s[j + 1]
    BY <1>1, <1>2
  <2> QED BY <1>4, <2>1 DEF Sorted
<1>5. ASSUME Sorted(s, R), NEW t \in Range(Tail(s)) PROVE <<Head(s), t>> \in R
  <2>1. PICK i \in DOMAIN Tail(s) : t = Tail(s)[i]
    BY DEF Range
  <2>2. 1 \in DOMAIN s /\ i + 1 \in DOMAIN s /\ 1 < i + 1 /\ t = s[i + 1]
    BY <1>1, <1>2, <2>1
  <2> QED BY <1>2, <1>5, <2>2 DEF Sorted
<1> QED BY <1>3, <1>4, <1>5

----------------------------------------------------------------------------
(* The input method.                                                       *)

\* EngineProc's parameters are what this client makes of them.
AsUsed == Line = Command /\ Handler = Handlers /\ Text = Answer /\ Local = ClientTask

\* The inductive invariant: the types need the protocol's, since a handler may
\* take a reply for an answer to its own line only when the two are paired.
WInv == ProcInv /\ TypeOK

----------------------------------------------------------------------------
(* Calls.                                                                  *)

\* Calls that tell no handler anything.
Own == {t \in Task : t.op # "call"}

LEMMA Apart ==
  ASSUME AsUsed
  PROVE  LocalApart
BY DEF AsUsed, LocalApart, ProcOps, ClientTask

\* What a call of the client carries.
LEMMA ClientShape ==
  ASSUME AsUsed, NEW t \in Task
  PROVE  /\ t.op \in {"ui", "fallback", "drain", "drainOn", "arm", "commit", "select", "key", "type", "clear"}
              => t.ic \in IC
         /\ t.op = "commit" => t.text \in Pinyin
         /\ t.op = "select" => t.idx \in Nat
         /\ t.op = "key" => t.key \in Key /\ t.src \in {"user", "queue"}
         /\ t.op = "type" => t.c \in Letter /\ t.src \in {"user", "queue"} /\ t.replay \in BOOLEAN
         /\ t.op = "clear" => t.redraw \in BOOLEAN /\ t.cancel \in BOOLEAN
         /\ t.op = "request" => t.keys \in Pinyin
         /\ t.op = "call" => t.h \in Handlers /\ t.resp \in Reply \cup {Failed}
<1>1. CASE t \in [op: {"send"}, line: Line, h: Handler]
  BY <1>1
<1>2. CASE t \in [op: {"call"}, line: Line, h: Handler, resp: Reply \cup {Failed}]
  BY <1>2 DEF AsUsed
<1>3. CASE t \in [op: {"start", "stop", "die", "exit", "lines"}]
  BY <1>3
<1>4. CASE t \in ClientTask
  BY <1>4 DEF ClientTask
<1> QED BY <1>1, <1>2, <1>3, <1>4 DEF Task, AsUsed

\* The call at hand.
LEMMA AtHand ==
  ASSUME AsUsed, ProcInv, NEW op, Calling(op)
  PROVE  /\ todo # <<>> /\ Head(todo) \in Task /\ Head(todo).op = op
         /\ op \in {"ui", "fallback", "drain", "drainOn", "arm", "commit", "select", "key", "type", "clear"}
              => Head(todo).ic \in IC
         /\ op = "commit" => Head(todo).text \in Pinyin
         /\ op = "select" => Head(todo).idx \in Nat
         /\ op = "key" => Head(todo).key \in Key /\ Head(todo).src \in {"user", "queue"}
         /\ op = "type" => Head(todo).c \in Letter /\ Head(todo).src \in {"user", "queue"}
                           /\ Head(todo).replay \in BOOLEAN
         /\ op = "clear" => Head(todo).redraw \in BOOLEAN /\ Head(todo).cancel \in BOOLEAN
         /\ op = "request" => Head(todo).keys \in Pinyin
         /\ op = "call" => Head(todo).h \in Handlers /\ Head(todo).resp \in Reply \cup {Failed}
<1>1. todo # <<>> /\ Head(todo).op = op /\ todo \in Seq(Task)
  BY DEF Calling, Idle, ProcInv, ProcTypeOK
<1>2. Head(todo) \in Task
  BY <1>1, HeadTailProperties
<1> QED BY <1>1, <1>2, ClientShape

\* The calls the client makes are its own.
LEMMA OwnCalls ==
  ASSUME AsUsed
  PROVE  /\ \A ic \in IC : /\ Ui(ic) \in Own /\ Fallback(ic) \in Own /\ Drain(ic) \in Own
                           /\ DrainOn(ic) \in Own /\ [op |-> "arm", ic |-> ic] \in Own
                           /\ \A text \in Pinyin : Commit(ic, text) \in Own
                           /\ \A i \in Nat : Select(ic, i) \in Own
                           /\ \A key \in Key : Replay(ic, key) \in Own /\ Press(ic, key) \in Own
                           /\ \A r, c \in BOOLEAN : ClearAll(ic, r, c) \in Own
         /\ \A keys \in Pinyin : Request(keys) \in Own
         /\ Do("ensure") \in Own /\ Do("members") \in Own /\ Do("stop") \in Own
<1>1. ASSUME NEW t \in ClientTask PROVE t \in Own
  <2>1. t.op # "call"
    BY DEF ClientTask
  <2> QED BY <2>1 DEF Own, Task, AsUsed
<1>2. ASSUME NEW ic \in IC
      PROVE  /\ Ui(ic) \in ClientTask /\ Fallback(ic) \in ClientTask /\ Drain(ic) \in ClientTask
             /\ DrainOn(ic) \in ClientTask /\ [op |-> "arm", ic |-> ic] \in ClientTask
  BY DEF ClientTask, Ui, Fallback, Drain, DrainOn
<1>3. ASSUME NEW ic \in IC, NEW text \in Pinyin PROVE Commit(ic, text) \in ClientTask
  BY DEF ClientTask, Commit
<1>4. ASSUME NEW ic \in IC, NEW i \in Nat PROVE Select(ic, i) \in ClientTask
  BY DEF ClientTask, Select
<1>5. ASSUME NEW ic \in IC, NEW key \in Key PROVE Replay(ic, key) \in ClientTask /\ Press(ic, key) \in ClientTask
  BY DEF ClientTask, Replay, Press
<1>6. ASSUME NEW ic \in IC, NEW r \in BOOLEAN, NEW c \in BOOLEAN PROVE ClearAll(ic, r, c) \in ClientTask
  BY DEF ClientTask, ClearAll
<1>7. ASSUME NEW keys \in Pinyin PROVE Request(keys) \in ClientTask
  BY DEF ClientTask, Request
<1>8. Do("ensure") \in ClientTask /\ Do("members") \in ClientTask
  BY DEF ClientTask, Do
<1>9. Do("stop") \in Own
  BY DEF Own, Task, Do
<1> QED BY <1>1, <1>2, <1>3, <1>4, <1>5, <1>6, <1>7, <1>8, <1>9

\* So are the lines it sends, whoever waits for the answer.
LEMMA OwnSends ==
  ASSUME AsUsed
  PROVE  /\ \A line \in Command : \A h \in Handlers : Send(line, h) \in Own
         /\ Clear \in Own /\ Nobody \in Handlers /\ [kind |-> "spans"] \in Handlers
         /\ \A i, cover \in Nat : Pick(i, cover) \in Command
         /\ \A keys \in Pinyin : Batch(keys) \in Command
         /\ Plain("C") \in Command /\ Plain("OPT") \in Command /\ Plain("SAVE") \in Command
<1>1. <<>> \in Pinyin
  BY EmptySeq DEF Pinyin
<1>2. ASSUME NEW line \in Command, NEW h \in Handlers PROVE Send(line, h) \in Own
  BY DEF Own, Task, Send, AsUsed
<1>3. Plain("C") \in Command /\ Plain("OPT") \in Command /\ Plain("SAVE") \in Command
  BY <1>1 DEF Command, Plain
<1>4. Nobody \in Handlers /\ [kind |-> "spans"] \in Handlers
  BY DEF Handlers, Nobody
<1>5. \A i, cover \in Nat : Pick(i, cover) \in Command
  BY <1>1 DEF Command, Pick
<1>6. \A keys \in Pinyin : Batch(keys) \in Command
  BY DEF Command, Batch
<1> QED BY <1>2, <1>3, <1>4, <1>5, <1>6 DEF Clear

\* Own calls are calls, and honest.
LEMMA OwnHonest ==
  ASSUME NEW p \in Seq(Own)
  PROVE  p \in Seq(Task) /\ AllHonest(p)
<1>1. Own \subseteq Task /\ \A t \in Own : Honest(t)
  BY DEF Own, Honest
<1>2. p \in Seq(Task)
  BY <1>1, SeqMonotonic
<1>3. \A i \in 1..Len(p) : p[i] \in Own
  BY ElementOfSeq
<1> QED BY <1>1, <1>2, <1>3 DEF AllHonest

\* A step of the client that makes calls of its own and leaves the engine alone.
LEMMA OwnStep ==
  ASSUME ProcInv, SessionTypeOK, NEW p \in Seq(Own),
         \/ todo' = p
         \/ todo # <<>> /\ todo' = p \o Tail(todo)
         \/ todo' = p \o todo,
         UNCHANGED engineVars
  PROVE  ProcInv' /\ SessionTypeOK'
<1>1. p \in Seq(Task) /\ AllHonest(p) /\ todo \in Seq(Task) /\ AllHonest(todo)
  BY OwnHonest, OwnReplyIs DEF ProcInv, ProcTypeOK
<1>2. p \o todo \in Seq(Task) /\ AllHonest(p \o todo)
  BY <1>1, HonestConcat
<1>3. todo # <<>> => p \o Tail(todo) \in Seq(Task) /\ AllHonest(p \o Tail(todo))
  BY <1>1, HonestTail, HonestConcat
<1>4. todo' \in Seq(Task) /\ AllHonest(todo')
  BY <1>1, <1>2, <1>3
<1>5. UNCHANGED <<alive, state, pending, rbuf, failCount, gaveUp, childVars>> /\ UNCHANGED sessionVars
  BY DEF engineVars
<1>6. \A q \in Seq(Task) : AllHonest(q) /\ todo' = q => ProcInv'
  BY <1>5, ClientInv
<1>7. SessionTypeOK'
  BY <1>5 DEF SessionTypeOK, sessionVars
<1> QED BY <1>4, <1>6, <1>7

\* So for one that makes none.
LEMMA PopStep ==
  ASSUME ProcInv, SessionTypeOK, todo # <<>>, todo' = Rest, UNCHANGED engineVars
  PROVE  ProcInv' /\ SessionTypeOK'
<1>1. todo \in Seq(Task)
  BY DEF ProcInv, ProcTypeOK
<1>2. Tail(todo) \in Seq(Task) /\ <<>> \in Seq(Own)
  BY <1>1, HeadTailProperties, EmptySeq
<1>3. <<>> \o Tail(todo) = Tail(todo)
  BY <1>2, ConcatEmptySeq
<1> QED BY <1>2, <1>3, OwnStep DEF Rest

----------------------------------------------------------------------------
(* Data.                                                                   *)

\* A sequence without its last element.
LEMMA FrontType ==
  ASSUME NEW S, NEW s \in Seq(S)
  PROVE  Front(s) \in Seq(S)
<1>1. CASE s = <<>>
  <2>1. SubSeq(<<>>, 1, 0 - 1) = <<>>
    OBVIOUS
  <2> QED BY <1>1, <2>1, EmptySeq DEF Front
<1>2. CASE s # <<>>
  <2>1. Len(s) - 1 \in 0..Len(s)
    BY <1>2, LenProperties, EmptySeq
  <2> QED BY <2>1, SubSeqProperties, LenProperties DEF Front
<1> QED BY <1>1, <1>2

\* The letters of keys are letters.
LEMMA LettersType ==
  ASSUME NEW keys \in Seq(Key)
  PROVE  LettersOf(keys) \in Pinyin
<1> DEFINE s == [i \in DOMAIN keys |-> IF IsLetter(keys[i]) THEN <<keys[i].c>> ELSE <<>>]
<1>1. DOMAIN keys = 1..Len(keys) /\ Len(keys) \in Nat
  BY LenProperties
<1>2. ASSUME NEW i \in 1..Len(keys)
      PROVE  (IF IsLetter(keys[i]) THEN <<keys[i].c>> ELSE <<>>) \in Seq(Letter)
  <2>1. keys[i] \in Key
    BY ElementOfSeq
  <2>2. IsLetter(keys[i]) => keys[i].c \in Letter
    BY <2>1 DEF Key, IsLetter
  <2> QED BY <2>2, EmptySeq
<1>3. s \in [1..Len(keys) -> Seq(Letter)]
  BY <1>1, <1>2
<1>4. s \in Seq(Seq(Letter))
  BY <1>1, <1>3
<1> HIDE DEF s
<1>5. FlattenSeq(s) \in Seq(Letter)
  BY <1>4, FlattenType
<1> QED BY <1>5 DEF s, LettersOf, Pinyin

\* So is the whole of what was consumed.
LEMMA RawType ==
  ASSUME InputTypeOK, PendTypeOK
  PROVE  Raw \in Pinyin /\ buf \in Pinyin
<1>1. LettersOf(queued) \in Pinyin /\ buf \in Pinyin
  BY LettersType DEF InputTypeOK, PendTypeOK
<1> QED BY <1>1, ConcatProperties DEF Raw, Pinyin

\* What is owed after text is handed over, typed, erased or cancelled, or a
\* candidate chosen.
LEMMA OwedType ==
  ASSUME OutTypeOK
  PROVE  /\ \A text \in Pinyin : Delivered(text) \in Pinyin \cup {Mismatch, Misled}
         /\ \A c \in Letter : Owing(c) \in Pinyin \cup {Mismatch, Misled}
         /\ \A cand : Choosing(cand) \in Pinyin \cup {Mismatch, Misled}
         /\ Cancelled \in Pinyin \cup {Mismatch, Misled}
         /\ Erased \in Pinyin \cup {Mismatch, Misled}
<1>1. owed \in Pinyin \cup {Mismatch, Misled} /\ (~Unaccounted(owed) => owed \in Pinyin)
  BY DEF OutTypeOK, Unaccounted
<1>2. ASSUME NEW text \in Pinyin PROVE Delivered(text) \in Pinyin \cup {Mismatch, Misled}
  <2> SUFFICES ASSUME IsPrefix(text, owed), ~Unaccounted(owed)
               PROVE  SubSeq(owed, Len(text) + 1, Len(owed)) \in Pinyin
    BY <1>1 DEF Delivered
  <2>1. Len(text) <= Len(owed) /\ Len(text) \in Nat
    BY LenProperties DEF IsPrefix, Pinyin
  <2>2. Len(owed) \in Nat /\ owed \in Seq(Letter)
    BY <1>1, LenProperties DEF Pinyin
  <2>3. Len(text) + 1 \in 1..(Len(owed) + 1) /\ Len(owed) \in (Len(text) + 1 - 1)..Len(owed)
    BY <2>1, <2>2
  <2>4. SubSeq(owed, Len(text) + 1, Len(owed)) \in Seq(Letter)
    BY <2>2, <2>3, SubSeqProperties
  <2> QED BY <2>4 DEF Pinyin
<1>3. \A cand : Choosing(cand) \in Pinyin \cup {Mismatch, Misled}
  BY <1>1 DEF Choosing
<1>4. ASSUME NEW c \in Letter PROVE Owing(c) \in Pinyin \cup {Mismatch, Misled}
  BY <1>1, AppendProperties DEF Owing, Pinyin
<1>5. Cancelled \in Pinyin \cup {Mismatch, Misled}
  BY <1>1, EmptySeq DEF Cancelled, Pinyin
<1>6. Erased \in Pinyin \cup {Mismatch, Misled}
  BY <1>1, FrontType DEF Erased, Pinyin
<1> QED BY <1>2, <1>3, <1>4, <1>5, <1>6

\* The panel of any context, redrawn.
LEMMA PanelType ==
  ASSUME OutTypeOK, NEW ic, NEW p \in Pinyin, NEW cs \in Seq(Cand),
         panel' = [panel EXCEPT ![ic] = Panel(p, cs)]
  PROVE  panel' \in [IC -> [preedit: Pinyin, cands: Seq(Cand)]]
<1>1. Panel(p, cs) \in [preedit: Pinyin, cands: Seq(Cand)]
  BY DEF Panel
<1> QED BY <1>1 DEF OutTypeOK

\* updateUI() shows what the buffer and the queue are by then.
LEMMA ShowType ==
  ASSUME OutTypeOK, InputTypeOK', PendTypeOK', NEW ic, Show(ic)
  PROVE  panel' \in [IC -> [preedit: Pinyin, cands: Seq(Cand)]]
<1>1. queued' \in Seq(Key) /\ buf' \in Pinyin /\ cands' \in Seq(Cand)
  BY DEF InputTypeOK, PendTypeOK
<1>2. LettersOf(queued') \in Pinyin
  BY <1>1, LettersType
<1>3. buf' \o LettersOf(queued') \in Pinyin
  BY <1>1, <1>2, ConcatProperties DEF Pinyin
<1> DEFINE p == IF pend' THEN buf' \o LettersOf(queued') ELSE buf'
<1>4. p \in Pinyin
  BY <1>1, <1>3
<1>5. panel' = [panel EXCEPT ![ic] = Panel(p, cands')]
  BY DEF Show
<1> HIDE DEF p
<1> QED BY <1>1, <1>4, <1>5, PanelType

\* What candidateHandler() captures.
LEMMA HandlerType ==
  ASSUME LinkTypeOK, NEW b \in Pinyin, NEW r \in Nat
  PROVE  HandlerFor(b, r) \in Handlers
BY DEF LinkTypeOK, HandlerFor, Handlers

\* The parts of the invariant.
LEMMA Inv ==
  WInv <=> /\ ProcInv /\ SessionTypeOK
           /\ InputTypeOK /\ PendTypeOK /\ LinkTypeOK /\ OutTypeOK /\ WorldTypeOK
BY DEF WInv, TypeOK, ProcInv

\* What does not change keeps its type.
LEMMA Same ==
  /\ InputTypeOK /\ UNCHANGED inputVars => InputTypeOK'
  /\ PendTypeOK /\ UNCHANGED pendVars => PendTypeOK'
  /\ LinkTypeOK /\ UNCHANGED <<ctxVars, linkVars>> => LinkTypeOK'
  /\ OutTypeOK /\ UNCHANGED outVars => OutTypeOK'
  /\ WorldTypeOK /\ UNCHANGED <<focus, gone>> => WorldTypeOK'
  /\ SessionTypeOK /\ UNCHANGED sessionVars => SessionTypeOK'
<1>1. InputTypeOK /\ UNCHANGED inputVars => InputTypeOK'
  BY DEF InputTypeOK, inputVars
<1>2. PendTypeOK /\ UNCHANGED pendVars => PendTypeOK'
  BY DEF PendTypeOK, pendVars
<1>3. LinkTypeOK /\ UNCHANGED <<ctxVars, linkVars>> => LinkTypeOK'
  BY DEF LinkTypeOK, ctxVars, linkVars
<1>4. OutTypeOK /\ UNCHANGED outVars => OutTypeOK'
  BY DEF OutTypeOK, outVars
<1>5. WorldTypeOK /\ UNCHANGED <<focus, gone>> => WorldTypeOK'
  BY DEF WorldTypeOK
<1>6. SessionTypeOK /\ UNCHANGED sessionVars => SessionTypeOK'
  BY DEF SessionTypeOK, sessionVars
<1> QED BY <1>1, <1>2, <1>3, <1>4, <1>5, <1>6

----------------------------------------------------------------------------
(* Composition: committing.                                                *)

\* The forgetting that commitText() and clearAll() share.
LEMMA NewInputType ==
  ASSUME InputTypeOK, NewInput
  PROVE  InputTypeOK'
<1>1. <<>> \in Seq(Letter) /\ <<>> \in Seq(Cand)
  BY EmptySeq
<1>2. buf' \in Pinyin /\ cands' \in Seq(Cand) /\ cands' = <<>> /\ current' = FALSE /\ selected' = 1 /\ tried' = FALSE
  BY <1>1 DEF NewInput, NoCandidates, Pinyin
<1>3. revision' \in Nat
  BY DEF InputTypeOK, NewInput
<1> QED BY <1>2, <1>3 DEF InputTypeOK

\* commitText() keeps the types.
LEMMA CommitTypes ==
  ASSUME AsUsed, WInv, CommitText \/ UpdateUI, UNCHANGED worldVars
  PROVE  WInv'
<1>1. ProcInv /\ SessionTypeOK /\ InputTypeOK /\ PendTypeOK /\ LinkTypeOK /\ OutTypeOK /\ WorldTypeOK
  BY Inv
<1>2. CASE CommitText
  <2>1. Head(todo).text \in Pinyin /\ Head(todo).ic \in IC /\ todo # <<>>
    BY <1>1, <1>2, AtHand DEF CommitText
  <2>2. Clear \in Own /\ Ui(Head(todo).ic) \in Own
    BY <2>1, OwnCalls, OwnSends
  <2>3. <<Clear, Ui(Head(todo).ic)>> \in Seq(Own)
    BY <2>2
  <2>4. ProcInv' /\ SessionTypeOK'
    BY <1>1, <1>2, <2>1, <2>3, OwnStep DEF CommitText, Then, Rest
  <2>5. InputTypeOK'
    BY <1>1, <1>2, NewInputType DEF CommitText
  <2>6. OutTypeOK'
    BY <1>1, <1>2, <2>1, OwedType DEF CommitText, OutTypeOK
  <2>7. PendTypeOK' /\ LinkTypeOK' /\ WorldTypeOK'
    BY <1>1, <1>2, Same DEF CommitText, worldVars
  <2> QED BY <2>4, <2>5, <2>6, <2>7, Inv DEF WInv, TypeOK, ProcInv
<1>3. CASE UpdateUI
  <2>1. todo # <<>>
    BY <1>1, <1>3, AtHand DEF UpdateUI
  <2>2. ProcInv' /\ SessionTypeOK'
    BY <1>1, <1>3, <2>1, PopStep DEF UpdateUI
  <2>3. InputTypeOK' /\ PendTypeOK' /\ LinkTypeOK' /\ WorldTypeOK'
    BY <1>1, <1>3, Same DEF UpdateUI, worldVars
  <2>4. OutTypeOK'
    BY <1>1, <1>3, <2>3, ShowType DEF UpdateUI, OutTypeOK
  <2> QED BY <2>2, <2>3, <2>4 DEF WInv, TypeOK, ProcInv
<1> QED BY <1>2, <1>3

\* So does commitCandidate(), whatever of the buffer it selects.
LEMMA SelectTypes ==
  ASSUME AsUsed, WInv, SelectNothing \/ SelectWhole \/ SelectPrefix, UNCHANGED worldVars
  PROVE  WInv'
<1> DEFINE i == Head(todo).idx
           ic == Head(todo).ic
           cand == cands[i]
<1>1. ProcInv /\ SessionTypeOK /\ InputTypeOK /\ PendTypeOK /\ LinkTypeOK /\ OutTypeOK /\ WorldTypeOK
  BY Inv
<1>2. Calling("select")
  BY DEF SelectNothing, SelectWhole, SelectPrefix
<1>3. ic \in IC /\ i \in Nat /\ todo # <<>>
  BY <1>1, <1>2, AtHand
<1>4. i \in DOMAIN cands => cand \in Cand
  <2>1. cands \in Seq(Cand)
    BY <1>1 DEF InputTypeOK
  <2>2. DOMAIN cands = 1..Len(cands)
    BY <2>1, LenProperties
  <2> QED BY <2>1, <2>2, ElementOfSeq
<1>5. Nobody \in Handlers /\ (i \in DOMAIN cands => Pick(i, cand.cover) \in Command)
  BY <1>3, <1>4, OwnSends DEF Cand
<1> HIDE DEF i, ic
<1>6. CASE SelectNothing
  <2>1. ProcInv' /\ SessionTypeOK'
    BY <1>1, <1>3, <1>6, PopStep DEF SelectNothing
  <2>2. InputTypeOK' /\ PendTypeOK' /\ LinkTypeOK' /\ OutTypeOK' /\ WorldTypeOK'
    BY <1>1, <1>6, Same DEF SelectNothing, worldVars, typingVars
  <2> QED BY <2>1, <2>2 DEF WInv, TypeOK, ProcInv
<1>7. CASE SelectWhole
  <2>1. i \in DOMAIN cands
    BY <1>7 DEF SelectWhole, i
  <2>2. cand.spells \in Pinyin
    BY <1>4, <2>1 DEF Cand
  <2> DEFINE p == <<Send(Pick(i, cand.cover), Nobody), Commit(ic, cand.spells)>>
  <2>3. p \in Seq(Own)
    <3>1. Send(Pick(i, cand.cover), Nobody) \in Own /\ Commit(ic, cand.spells) \in Own
      BY <1>3, <1>5, <2>1, <2>2, OwnCalls, OwnSends
    <3> QED BY <3>1
  <2>4. todo' = p \o Tail(todo)
    BY <1>7 DEF SelectWhole, Then, Rest, i, ic
  <2> HIDE DEF p
  <2>5. ProcInv' /\ SessionTypeOK'
    BY <1>1, <1>3, <1>7, <2>3, <2>4, OwnStep DEF SelectWhole
  <2>6. InputTypeOK' /\ PendTypeOK' /\ LinkTypeOK' /\ WorldTypeOK'
    BY <1>1, <1>7, Same DEF SelectWhole, worldVars
  <2>7. owed' = Choosing(cand) /\ UNCHANGED <<panel, spurned>>
    BY <1>7 DEF SelectWhole, i
  <2>8. OutTypeOK'
    BY <1>1, <2>7, OwedType DEF OutTypeOK
  <2> QED BY <2>5, <2>6, <2>8 DEF WInv, TypeOK, ProcInv
<1>8. CASE SelectPrefix
  <2>1. i \in DOMAIN cands /\ 0 < cand.cover /\ cand.cover < Len(buf) /\ buf' = Remaining(cand.cover)
        /\ owed' \in {Delivered(cand.spells), Choosing(cand)} /\ NoCandidates /\ revision' = revision + 1
        /\ UNCHANGED <<engineVars, tried, pendVars, ctxVars, linkVars, panel, spurned>>
    BY <1>8 DEF SelectPrefix, i
  <2>2. cand.spells \in Pinyin /\ cand.cover \in Nat
    BY <1>4, <2>1 DEF Cand
  <2>3. buf' \in Pinyin
    <3>1. buf \in Seq(Letter) /\ Len(buf) \in Nat
      BY <1>1, LenProperties DEF InputTypeOK, Pinyin
    <3>2. \A k \in (cand.cover + 1)..Len(buf) : buf[k] \in Letter
      <4> SUFFICES ASSUME NEW k \in (cand.cover + 1)..Len(buf) PROVE buf[k] \in Letter
        OBVIOUS
      <4>1. k \in 1..Len(buf)
        BY <2>2, <3>1
      <4> QED BY <3>1, <4>1, ElementOfSeq
    <3>3. cand.cover + 1 \in Int /\ Len(buf) \in Int
      BY <2>2, <3>1
    <3>4. SubSeq(buf, cand.cover + 1, Len(buf)) \in Seq(Letter)
      BY <3>2, <3>3, SubSeqProperties
    <3> QED BY <2>1, <3>4 DEF Remaining, Pinyin
  <2>4. InputTypeOK'
    <3>1. <<>> \in Seq(Cand) /\ revision' \in Nat
      BY <1>1, <2>1, EmptySeq DEF InputTypeOK
    <3> QED BY <1>1, <2>1, <2>3, <3>1 DEF InputTypeOK, NoCandidates
  <2> DEFINE p == <<Send(Pick(i, cand.cover), HandlerFor(buf', revision')), Ui(ic)>>
  <2>5. p \in Seq(Own)
    <3>1. HandlerFor(buf', revision') \in Handlers
      BY <1>1, <2>4, HandlerType DEF InputTypeOK
    <3>2. Send(Pick(i, cand.cover), HandlerFor(buf', revision')) \in Own /\ Ui(ic) \in Own
      BY <1>3, <1>5, <2>1, <3>1, OwnCalls, OwnSends
    <3> QED BY <3>2
  <2>6. todo' = p \o Tail(todo)
    BY <1>8 DEF SelectPrefix, Then, Rest, i, ic
  <2> HIDE DEF p
  <2>7. ProcInv' /\ SessionTypeOK'
    BY <1>1, <1>3, <2>1, <2>5, <2>6, OwnStep
  <2>8. OutTypeOK'
    BY <1>1, <2>1, <2>2, OwedType DEF OutTypeOK
  <2>9. PendTypeOK' /\ LinkTypeOK' /\ WorldTypeOK'
    BY <1>1, <2>1, Same DEF worldVars
  <2> QED BY <2>4, <2>7, <2>8, <2>9 DEF WInv, TypeOK, ProcInv
<1> QED BY <1>6, <1>7, <1>8

----------------------------------------------------------------------------
(* Composition: the link to the engine.                                    *)

\* Asking for candidates, starting the engine if need be.
LEMMA RequestTypes ==
  ASSUME AsUsed, WInv, RequestCandidates \/ ScheduleRestart, UNCHANGED worldVars
  PROVE  WInv'
<1>1. ProcInv /\ SessionTypeOK /\ InputTypeOK /\ PendTypeOK /\ LinkTypeOK /\ OutTypeOK /\ WorldTypeOK
  BY Inv
<1>2. todo # <<>>
  BY <1>1, AtHand DEF RequestCandidates, ScheduleRestart
<1>3. CASE RequestCandidates
  <2>1. Head(todo).keys \in Pinyin
    BY <1>1, <1>3, AtHand DEF RequestCandidates
  <2>2. PendTypeOK' /\ LinkTypeOK' /\ WorldTypeOK' /\ InputTypeOK' /\ OutTypeOK'
    BY <1>1, <1>3, Same DEF RequestCandidates, worldVars, typingVars
  <2>3. CASE todo' = Rest
    <3>1. ProcInv' /\ SessionTypeOK'
      BY <1>1, <1>2, <1>3, <2>3, PopStep DEF RequestCandidates
    <3> QED BY <2>2, <3>1 DEF WInv, TypeOK, ProcInv
  <2>4. CASE todo' # Rest
    <3> DEFINE s == Send(Batch(Head(todo).keys), HandlerFor(buf, revision))
               p == IfDead(<<Do("ensure")>>) \o <<s>>
    <3>1. s \in Own /\ Do("ensure") \in Own
      <4>1. HandlerFor(buf, revision) \in Handlers
        BY <1>1, HandlerType DEF InputTypeOK
      <4> QED BY <2>1, <4>1, OwnCalls, OwnSends
    <3>2. p \in Seq(Own)
      <4> HIDE DEF s
      <4>1. <<s>> \in Seq(Own) /\ <<Do("ensure")>> \in Seq(Own) /\ <<>> \in Seq(Own)
        BY <3>1, EmptySeq
      <4>2. IfDead(<<Do("ensure")>>) \in Seq(Own)
        BY <4>1 DEF IfDead
      <4> QED BY <4>1, <4>2, ConcatProperties
    <3>3. todo' = p \o Tail(todo)
      BY <1>3, <2>4 DEF RequestCandidates, Then, Rest
    <3> HIDE DEF p
    <3>4. ProcInv' /\ SessionTypeOK'
      BY <1>1, <1>2, <1>3, <3>2, <3>3, OwnStep DEF RequestCandidates
    <3> QED BY <2>2, <3>4 DEF WInv, TypeOK, ProcInv
  <2> QED BY <2>3, <2>4
<1>4. CASE ScheduleRestart
  <2>1. ProcInv' /\ SessionTypeOK'
    BY <1>1, <1>2, <1>4, PopStep DEF ScheduleRestart
  <2>2. InputTypeOK' /\ PendTypeOK' /\ OutTypeOK' /\ WorldTypeOK'
    BY <1>1, <1>4, Same DEF ScheduleRestart, worldVars
  <2>3. LinkTypeOK'
    <3>1. restart' \in BOOLEAN
      BY <1>4 DEF ScheduleRestart
    <3> QED BY <1>1, <1>4, <3>1 DEF ScheduleRestart, LinkTypeOK, ctxVars
  <2> QED BY <2>1, <2>2, <2>3 DEF WInv, TypeOK, ProcInv
<1> QED BY <1>3, <1>4

\* ensureEngine(), which may start a process.
LEMMA EnsureTypes ==
  ASSUME AsUsed, WInv, EnsureEngine, UNCHANGED worldVars
  PROVE  WInv'
<1>1. ProcInv /\ SessionTypeOK /\ InputTypeOK /\ PendTypeOK /\ LinkTypeOK /\ OutTypeOK /\ WorldTypeOK
  BY Inv
<1>2. todo # <<>> /\ LocalApart
  BY <1>1, AtHand, Apart DEF EnsureEngine
<1>3. InputTypeOK' /\ PendTypeOK' /\ OutTypeOK' /\ WorldTypeOK'
  BY <1>1, Same DEF EnsureEngine, worldVars
<1>4. CASE alive \/ gaveUp
  <2>1. ProcInv' /\ SessionTypeOK'
    BY <1>1, <1>2, <1>4, PopStep DEF EnsureEngine
  <2>2. LinkTypeOK'
    BY <1>1, <1>4 DEF EnsureEngine, LinkTypeOK, ctxVars
  <2> QED BY <1>3, <2>1, <2>2 DEF WInv, TypeOK, ProcInv
<1>5. CASE ~(alive \/ gaveUp)
  <2>1. spansOn' = FALSE /\ (StartFork(Greeting) \/ StartRefused) /\ UNCHANGED sessionVars
    BY <1>5 DEF EnsureEngine
  <2>2. Greeting \in Seq(Own)
    <3>1. Send(Plain("OPT"), [kind |-> "spans"]) \in Own
      BY OwnSends
    <3> QED BY <3>1 DEF Greeting
  <2>3. Greeting \in Seq(Task) /\ AllHonest(Greeting)
    BY <2>2, OwnHonest
  <2>4. ProcInv'
    BY <1>1, <1>2, <2>1, <2>3, StartInv
  <2>5. SessionTypeOK'
    BY <1>1, <2>1, Same
  <2>6. LinkTypeOK'
    BY <1>1, <2>1 DEF EnsureEngine, LinkTypeOK, ctxVars
  <2> QED BY <1>3, <2>4, <2>5, <2>6 DEF WInv, TypeOK, ProcInv
<1> QED BY <1>4, <1>5

----------------------------------------------------------------------------
(* Composition: the handlers.                                              *)

\* What ensureEngine() and the request of the pinyin are, called together.
LEMMA ReviveOwn ==
  ASSUME AsUsed, InputTypeOK
  PROVE  Revive \in Seq(Own)
<1>1. Do("ensure") \in Own /\ Request(buf) \in Own
  BY OwnCalls DEF InputTypeOK
<1> QED BY <1>1 DEF Revive

\* Handlers that do nothing, or only learn of spans, or of a loss.
LEMMA HandleTypes ==
  ASSUME AsUsed, WInv, HandleNothing \/ HandleSpans \/ HandleStale \/ HandleLost, UNCHANGED worldVars
  PROVE  WInv'
<1>1. ProcInv /\ SessionTypeOK /\ InputTypeOK /\ PendTypeOK /\ LinkTypeOK /\ OutTypeOK /\ WorldTypeOK
  BY Inv
<1>2. todo # <<>>
  BY <1>1, AtHand DEF HandleNothing, HandleSpans, HandleStale, HandleLost
<1>3. CASE HandleNothing \/ HandleStale
  <2>1. ProcInv' /\ SessionTypeOK'
    BY <1>1, <1>2, <1>3, PopStep DEF HandleNothing, HandleStale
  <2>2. InputTypeOK' /\ PendTypeOK' /\ LinkTypeOK' /\ OutTypeOK' /\ WorldTypeOK'
    BY <1>1, <1>3, Same DEF HandleNothing, HandleStale, worldVars, typingVars
  <2> QED BY <2>1, <2>2 DEF WInv, TypeOK, ProcInv
<1>4. CASE HandleSpans
  <2>1. ProcInv' /\ SessionTypeOK'
    BY <1>1, <1>2, <1>4, PopStep DEF HandleSpans
  <2>2. InputTypeOK' /\ PendTypeOK' /\ OutTypeOK' /\ WorldTypeOK'
    BY <1>1, <1>4, Same DEF HandleSpans, worldVars
  <2>3. LinkTypeOK'
    <3>1. spansOn' \in BOOLEAN
      BY <1>4 DEF HandleSpans
    <3> QED BY <1>1, <1>4, <3>1 DEF HandleSpans, LinkTypeOK, ctxVars
  <2> QED BY <2>1, <2>2, <2>3 DEF WInv, TypeOK, ProcInv
<1>5. CASE HandleLost
  <2>1. ProcInv' /\ SessionTypeOK'
    <3>1. todo' = Revive \o Tail(todo) \/ todo' = Rest
      BY <1>5 DEF HandleLost, Then, Rest
    <3>2. UNCHANGED engineVars
      BY <1>5 DEF HandleLost
    <3> QED BY <1>1, <1>2, <3>1, <3>2, ReviveOwn, OwnStep, PopStep
  <2>2. InputTypeOK'
    <3>1. tried' \in BOOLEAN
      BY <1>1, <1>5 DEF HandleLost, InputTypeOK
    <3> QED BY <1>1, <1>5, <3>1 DEF HandleLost, InputTypeOK
  <2>3. PendTypeOK' /\ LinkTypeOK' /\ WorldTypeOK'
    BY <1>1, <1>5, Same DEF HandleLost, worldVars
  <2>4. OutTypeOK'
    BY <1>1, <1>5, <2>2, <2>3, ShowType DEF HandleLost, OutTypeOK
  <2> QED BY <2>1, <2>2, <2>3, <2>4 DEF WInv, TypeOK, ProcInv
<1> QED BY <1>3, <1>4, <1>5

\* A handler that is wanted is one for the context composed in, which there is.
LEMMA WantedHere ==
  ASSUME LinkTypeOK, NEW h, NEW resp, Wanted(h, resp)
  PROVE  icRef \in IC
BY DEF LinkTypeOK, Wanted, SameInput

\* A refusal: the session is rebuilt, or the wait given up.
LEMMA RefusedTypes ==
  ASSUME AsUsed, WInv, HandleRefused, UNCHANGED worldVars
  PROVE  WInv'
<1>1. ProcInv /\ SessionTypeOK /\ InputTypeOK /\ PendTypeOK /\ LinkTypeOK /\ OutTypeOK /\ WorldTypeOK
  BY Inv
<1>2. todo # <<>>
  BY <1>1, AtHand DEF HandleRefused
<1>3. Clear \in Own /\ Request(buf) \in Own /\ Fallback(icRef) \in Own
  <2>1. icRef \in IC
    BY <1>1, WantedHere DEF HandleRefused
  <2> QED BY <1>1, <2>1, OwnCalls, OwnSends DEF InputTypeOK
<1> DEFINE p == IF ~tried THEN <<Clear, Request(buf)>> ELSE IF pend THEN <<Fallback(icRef)>> ELSE <<>>
<1>4. p \in Seq(Own)
  <2>1. <<Clear, Request(buf)>> \in Seq(Own) /\ <<Fallback(icRef)>> \in Seq(Own) /\ <<>> \in Seq(Own)
    BY <1>3, EmptySeq
  <2> QED BY <2>1
<1>5. todo' = p \o Tail(todo)
  BY DEF HandleRefused, Then, Rest
<1> HIDE DEF p
<1>6. ProcInv' /\ SessionTypeOK'
  BY <1>1, <1>2, <1>4, <1>5, OwnStep DEF HandleRefused
<1>7. InputTypeOK'
  BY <1>1 DEF HandleRefused, InputTypeOK
<1>8. PendTypeOK' /\ LinkTypeOK' /\ WorldTypeOK'
  BY <1>1, Same DEF HandleRefused, worldVars
<1>9. OutTypeOK'
  <2>1. spurned' \in {revision, spurned} /\ UNCHANGED <<panel, owed>>
    BY DEF HandleRefused
  <2> QED BY <1>1, <2>1 DEF OutTypeOK, InputTypeOK
<1> QED BY <1>6, <1>7, <1>8, <1>9 DEF WInv, TypeOK, ProcInv

\* The candidates of a reply: none covers more letters than they are for.
LEMMA ParseType ==
  ASSUME NEW text \in Answer, text.kind = "CAND"
  PROVE  Parse(text) \in Seq(Cand)
<1>1. text.of \in Pinyin /\ text.covers \in Seq(Nat) /\ text.at \in Pinyin \cup {Astray} /\ Covered(text)
  BY DEF Answer
<1>2. DOMAIN text.covers = 1..Len(text.covers) /\ Len(text.covers) \in Nat
      /\ \A i \in 1..Len(text.covers) : text.covers[i] \in Nat /\ text.covers[i] <= Len(text.of)
  <2>1. /\ DOMAIN text.covers = 1..Len(text.covers) /\ Len(text.covers) \in Nat
        /\ \A i \in 1..Len(text.covers) : text.covers[i] \in Nat
    BY <1>1, LenProperties, ElementOfSeq
  <2>2. Len(text.of) \in Nat
    BY <1>1, LenProperties DEF Pinyin
  <2> QED BY <1>1, <2>1, <2>2 DEF Covered
<1> DEFINE c(i) == [at |-> text.at, spells |-> SubSeq(text.of, 1, text.covers[i]),
                    cover |-> IF spansOn THEN text.covers[i] ELSE 0]
<1>3. ASSUME NEW i \in 1..Len(text.covers) PROVE c(i) \in Cand
  <2>1. Len(text.of) \in Nat /\ text.of \in Seq(Letter)
    BY <1>1, LenProperties DEF Pinyin
  <2>2. \A k \in 1..text.covers[i] : text.of[k] \in Letter
    <3> SUFFICES ASSUME NEW k \in 1..text.covers[i] PROVE text.of[k] \in Letter
      OBVIOUS
    <3>1. k \in 1..Len(text.of)
      BY <1>2, <2>1
    <3> QED BY <2>1, <3>1, ElementOfSeq
  <2>3. SubSeq(text.of, 1, text.covers[i]) \in Pinyin
    BY <1>2, <2>2, SubSeqProperties DEF Pinyin
  <2>4. (IF spansOn THEN text.covers[i] ELSE 0) \in Nat
    BY <1>2
  <2> QED BY <1>1, <2>3, <2>4 DEF Cand
<1>4. Parse(text) = [i \in 1..Len(text.covers) |-> c(i)]
  BY <1>2 DEF Parse
<1> HIDE DEF c
<1>5. Parse(text) \in [1..Len(text.covers) -> Cand]
  BY <1>3, <1>4
<1> QED BY <1>2, <1>5

\* Candidates, or none, are shown; a pending Space takes the first.
LEMMA CandidatesTypes ==
  ASSUME AsUsed, WInv, HandleCandidates, UNCHANGED worldVars
  PROVE  WInv'
<1> DEFINE h == Head(todo).h
           resp == Head(todo).resp
           found == IF Kind(resp) = "CAND" THEN Parse(resp.text) ELSE <<>>
           chosen == ForNow(h) /\ pend
           p == IF ~chosen THEN <<>> ELSE IF found = <<>> THEN <<Fallback(icRef)>>
                ELSE <<Select(icRef, 1), Drain(icRef)>>
<1>1. ProcInv /\ SessionTypeOK /\ InputTypeOK /\ PendTypeOK /\ LinkTypeOK /\ OutTypeOK /\ WorldTypeOK
  BY Inv
<1>2. todo # <<>> /\ resp \in Reply \cup {Failed}
  BY <1>1, AtHand DEF HandleCandidates
<1>3. /\ Wanted(h, resp) /\ Kind(resp) \in {"CAND", "EMPTY"}
      /\ cands' = found /\ current' = ForNow(h) /\ selected' = 1
      /\ panel' = [panel EXCEPT ![icRef] = Panel(IF pend THEN Raw ELSE buf, found)]
      /\ (pend' = FALSE /\ timer' = NoTimer) \/ UNCHANGED <<pend, timer>>
      /\ todo' = p \o Tail(todo)
      /\ UNCHANGED <<engineVars, buf, revision, tried, queued, draining, ctxVars, linkVars, owed, spurned>>
  BY DEF HandleCandidates, Then, Rest
<1>4. icRef \in IC
  BY <1>1, <1>3, WantedHere
<1>5. found \in Seq(Cand)
  <2>1. CASE Kind(resp) = "CAND"
    <3>1. resp \in Reply /\ resp.text.kind = "CAND"
      BY <1>2, <2>1 DEF Kind, Lost
    <3>2. resp.text \in Answer
      BY <3>1 DEF Reply, AsUsed
    <3> QED BY <2>1, <3>1, <3>2, ParseType
  <2>2. CASE Kind(resp) # "CAND"
    BY <2>2, EmptySeq
  <2> QED BY <2>1, <2>2
<1>6. p \in Seq(Own)
  <2>1. Fallback(icRef) \in Own /\ Select(icRef, 1) \in Own /\ Drain(icRef) \in Own
    BY <1>4, OwnCalls
  <2>2. <<>> \in Seq(Own) /\ <<Fallback(icRef)>> \in Seq(Own) /\ <<Select(icRef, 1), Drain(icRef)>> \in Seq(Own)
    BY <2>1, EmptySeq
  <2> QED BY <2>2
<1>7. current' \in BOOLEAN
  BY <1>3 DEF ForNow
<1>a. found # <<>> => 1 \in DOMAIN found
  BY <1>5, LenProperties, EmptySeq
<1> HIDE DEF p, found
<1>8. ProcInv' /\ SessionTypeOK'
  BY <1>1, <1>2, <1>3, <1>6, OwnStep
<1>9. InputTypeOK'
  BY <1>1, <1>3, <1>5, <1>7, <1>a DEF InputTypeOK
<1>10. PendTypeOK'
  BY <1>1, <1>3 DEF PendTypeOK
<1>11. OutTypeOK'
  <2>1. (IF pend THEN Raw ELSE buf) \in Pinyin
    BY <1>1, RawType
  <2> QED BY <1>1, <1>3, <1>5, <2>1, PanelType DEF OutTypeOK
<1>12. LinkTypeOK' /\ WorldTypeOK'
  BY <1>1, <1>3, Same DEF worldVars
<1> QED BY <1>8, <1>9, <1>10, <1>11, <1>12 DEF WInv, TypeOK, ProcInv

----------------------------------------------------------------------------
(* Composition: a pending Space.                                           *)

\* Falling back, waiting and draining keep the types.
LEMMA WaitTypes ==
  ASSUME AsUsed, WInv, FallbackPending \/ ArmPending \/ DrainQueued \/ DrainNext, UNCHANGED worldVars
  PROVE  WInv'
<1> DEFINE ic == Head(todo).ic
<1>1. ProcInv /\ SessionTypeOK /\ InputTypeOK /\ PendTypeOK /\ LinkTypeOK /\ OutTypeOK /\ WorldTypeOK
  BY Inv
<1>2. todo # <<>> /\ ic \in IC
  BY <1>1, AtHand DEF FallbackPending, ArmPending, DrainQueued, DrainNext
<1>3. <<>> \in Seq(Own) /\ <<>> \in Seq(Key)
  BY EmptySeq
<1>4. CASE FallbackPending
  <2>1. Commit(ic, Raw) \in Own
    BY <1>1, <1>2, RawType, OwnCalls
  <2> DEFINE p == <<Commit(ic, Raw)>>
  <2>2. p \in Seq(Own)
    BY <2>1
  <2>3. todo' = p \o Tail(todo)
    BY <1>4 DEF FallbackPending, Then, Rest
  <2> HIDE DEF p
  <2>4. ProcInv' /\ SessionTypeOK'
    BY <1>1, <1>2, <1>4, <2>2, <2>3, OwnStep DEF FallbackPending
  <2>5. PendTypeOK'
    BY <1>1, <1>3, <1>4 DEF FallbackPending, PendTypeOK
  <2>6. InputTypeOK' /\ LinkTypeOK' /\ OutTypeOK' /\ WorldTypeOK'
    BY <1>1, <1>4, Same DEF FallbackPending, worldVars
  <2> QED BY <2>4, <2>5, <2>6 DEF WInv, TypeOK, ProcInv
<1>5. CASE ArmPending
  <2> DEFINE p == IF (current /\ cands = <<>>) \/ gaveUp THEN <<Fallback(ic)>> ELSE <<>>
  <2>1. p \in Seq(Own)
    <3>1. Fallback(ic) \in Own
      BY <1>2, OwnCalls
    <3>2. <<Fallback(ic)>> \in Seq(Own)
      BY <3>1
    <3> QED BY <1>3, <3>2
  <2>2. todo' = p \o Tail(todo)
    BY <1>5 DEF ArmPending, Then, Rest
  <2> HIDE DEF p
  <2>3. ProcInv' /\ SessionTypeOK'
    BY <1>1, <1>2, <1>5, <2>1, <2>2, OwnStep DEF ArmPending
  <2>4. PendTypeOK'
    <3>1. epoch \in Nat
      BY <1>1 DEF LinkTypeOK
    <3> QED BY <1>1, <1>2, <1>5, <3>1 DEF ArmPending, PendTypeOK
  <2>5. InputTypeOK' /\ LinkTypeOK' /\ WorldTypeOK'
    BY <1>1, <1>5, Same DEF ArmPending, worldVars
  <2>6. OutTypeOK'
    BY <1>1, <1>5, <2>4, <2>5, ShowType DEF ArmPending, OutTypeOK
  <2> QED BY <2>3, <2>4, <2>5, <2>6 DEF WInv, TypeOK, ProcInv
<1>6. CASE DrainQueued
  <2>1. <<DrainOn(ic)>> \in Seq(Own)
    <3>1. DrainOn(ic) \in Own
      BY <1>2, OwnCalls
    <3> QED BY <3>1
  <2>2. todo' = Rest \/ todo' = <<DrainOn(ic)>> \o Tail(todo)
    BY <1>6 DEF DrainQueued, Then, Rest
  <2>3. UNCHANGED engineVars
    BY <1>6 DEF DrainQueued
  <2>4. ProcInv' /\ SessionTypeOK'
    BY <1>1, <1>2, <2>1, <2>2, <2>3, OwnStep, PopStep
  <2>5. PendTypeOK'
    BY <1>1, <1>6 DEF DrainQueued, PendTypeOK
  <2>6. InputTypeOK' /\ LinkTypeOK' /\ OutTypeOK' /\ WorldTypeOK'
    BY <1>1, <1>6, Same DEF DrainQueued, worldVars
  <2> QED BY <2>4, <2>5, <2>6 DEF WInv, TypeOK, ProcInv
<1>7. CASE DrainNext
  <2>1. UNCHANGED <<engineVars, inputVars, pend, timer, ctxVars, linkVars, outVars>>
    BY <1>7 DEF DrainNext
  <2>2. InputTypeOK' /\ LinkTypeOK' /\ OutTypeOK' /\ WorldTypeOK'
    BY <1>1, <2>1, Same DEF worldVars
  <2>3. CASE ~pend /\ queued # <<>> /\ icRef = ic
    <3>1. Head(queued) \in Key /\ Tail(queued) \in Seq(Key)
      BY <1>1, <2>3, HeadTailProperties DEF PendTypeOK
    <3> DEFINE p == <<Replay(icRef, Head(queued))>>
    <3>2. p \in Seq(Own)
      <4>1. Replay(icRef, Head(queued)) \in Own
        BY <1>2, <2>3, <3>1, OwnCalls
      <4> QED BY <4>1
    <3>3. todo' = p \o todo /\ queued' = Tail(queued) /\ UNCHANGED draining
      BY <1>7, <2>3 DEF DrainNext
    <3> HIDE DEF p
    <3>4. ProcInv' /\ SessionTypeOK'
      BY <1>1, <2>1, <3>2, <3>3, OwnStep
    <3>5. PendTypeOK'
      BY <1>1, <2>1, <3>1, <3>3 DEF PendTypeOK
    <3> QED BY <2>2, <3>4, <3>5 DEF WInv, TypeOK, ProcInv
  <2>4. CASE ~(~pend /\ queued # <<>> /\ icRef = ic)
    <3>1. draining' = FALSE /\ todo' = Rest /\ UNCHANGED queued
      BY <1>7, <2>4 DEF DrainNext
    <3>2. ProcInv' /\ SessionTypeOK'
      BY <1>1, <1>2, <2>1, <3>1, PopStep
    <3>3. PendTypeOK'
      BY <1>1, <2>1, <3>1 DEF PendTypeOK
    <3> QED BY <2>2, <3>2, <3>3 DEF WInv, TypeOK, ProcInv
  <2> QED BY <2>3, <2>4
<1> QED BY <1>4, <1>5, <1>6, <1>7

----------------------------------------------------------------------------
(* Keys.                                                                   *)

\* clearAll(), and a key for another context, forget what was composed.
LEMMA ClearTypes ==
  ASSUME AsUsed, WInv, ClearEverything \/ KeyElsewhere
  PROVE  WInv'
<1> DEFINE ic == Head(todo).ic
<1>1. ProcInv /\ SessionTypeOK /\ InputTypeOK /\ PendTypeOK /\ LinkTypeOK /\ OutTypeOK /\ WorldTypeOK
  BY Inv
<1>2. todo # <<>> /\ ic \in IC
  BY <1>1, AtHand DEF ClearEverything, KeyElsewhere
<1>3. Forget /\ UNCHANGED <<engineVars, draining, linkVars, panel, spurned, worldVars>>
  BY DEF ClearEverything, KeyElsewhere
<1>4. InputTypeOK'
  BY <1>1, <1>3, NewInputType DEF Forget
<1>5. PendTypeOK'
  BY <1>1, <1>3, EmptySeq DEF Forget, PendTypeOK
<1>6. WorldTypeOK'
  BY <1>1, <1>3, Same DEF worldVars
<1>7. owed' \in Pinyin \cup {Mismatch, Misled}
  BY <1>1, OwedType DEF ClearEverything, KeyElsewhere, OutTypeOK
<1>8. OutTypeOK'
  BY <1>1, <1>3, <1>7 DEF OutTypeOK
<1>9. epoch' \in Nat
  BY <1>1, <1>3 DEF Forget, LinkTypeOK
<1>10. LinkTypeOK'
  <2>1. icRef' \in IC \cup {NoIc}
    BY <1>1, <1>2 DEF ClearEverything, KeyElsewhere, LinkTypeOK
  <2> QED BY <1>1, <1>3, <1>9, <2>1 DEF LinkTypeOK, linkVars
<1>11. Clear \in Own /\ Ui(ic) \in Own
  BY <1>2, OwnCalls, OwnSends
<1>12. ProcInv' /\ SessionTypeOK'
  <2>1. CASE ClearEverything
    <3> DEFINE p == <<Clear>> \o IF Head(todo).redraw THEN <<Ui(ic)>> ELSE <<>>
    <3>1. p \in Seq(Own)
      <4>1. <<Clear>> \in Seq(Own) /\ <<Ui(ic)>> \in Seq(Own) /\ <<>> \in Seq(Own)
        BY <1>11, EmptySeq
      <4>2. (IF Head(todo).redraw THEN <<Ui(ic)>> ELSE <<>>) \in Seq(Own)
        BY <4>1
      <4> QED BY <4>1, <4>2, ConcatProperties
    <3>2. todo' = p \o Tail(todo)
      BY <2>1 DEF ClearEverything, Then, Rest
    <3> HIDE DEF p
    <3> QED BY <1>1, <1>2, <1>3, <3>1, <3>2, OwnStep
  <2>2. CASE KeyElsewhere
    <3>1. <<Clear>> \in Seq(Own)
      BY <1>11
    <3>2. todo' = <<Clear>> \o todo
      BY <2>2 DEF KeyElsewhere
    <3> QED BY <1>1, <1>2, <1>3, <3>1, <3>2, OwnStep
  <2> QED BY <2>1, <2>2 DEF ClearEverything, KeyElsewhere
<1> QED BY <1>4, <1>5, <1>6, <1>8, <1>10, <1>12 DEF WInv, TypeOK, ProcInv

\* Keys that only make calls.
KeyMakesCalls ==
  PendingEsc \/ PendingOvertaken \/ KeyPunctuation \/ KeyDigit \/ KeySpace \/ KeyReturn \/ KeyEsc \/ KeyPasses

\* They leave everything else alone, and their calls are typed.
LEMMA KeyCallTypes ==
  ASSUME AsUsed, WInv, KeyMakesCalls
  PROVE  WInv'
<1>1. ProcInv /\ SessionTypeOK /\ InputTypeOK /\ PendTypeOK /\ LinkTypeOK /\ OutTypeOK /\ WorldTypeOK
  BY Inv
<1>2. UNCHANGED <<quietVars, inputVars, pendVars, panel, spurned>> /\ Calling("key")
  BY DEF KeyMakesCalls, PendingEsc, PendingOvertaken, KeyPunctuation, KeyDigit, KeySpace,
         KeyReturn, KeyEsc, KeyPasses, WaitingKey, KeyNow, outVars
<1>3. todo # <<>> /\ Head(todo).ic \in IC /\ UNCHANGED engineVars
  BY <1>1, <1>2, AtHand DEF quietVars
<1>4. InputTypeOK' /\ PendTypeOK' /\ LinkTypeOK' /\ WorldTypeOK' /\ OutTypeOK'
  <2>1. InputTypeOK' /\ PendTypeOK' /\ LinkTypeOK' /\ WorldTypeOK'
    BY <1>1, <1>2, Same DEF quietVars, worldVars
  <2>2. owed' \in {owed, Choosing(cands[selected])}
    BY DEF KeyMakesCalls, PendingEsc, PendingOvertaken, KeyPunctuation, KeyDigit, KeySpace,
           KeyReturn, KeyEsc, KeyPasses, outVars
  <2>3. OutTypeOK'
    BY <1>1, <1>2, <2>2, OwedType DEF OutTypeOK
  <2> QED BY <2>1, <2>3
<1>5. cands \in Seq(Cand) /\ buf \in Pinyin /\ selected \in Nat
  BY <1>1 DEF InputTypeOK
<1> SUFFICES ProcInv' /\ SessionTypeOK'
  BY <1>4 DEF WInv, TypeOK, ProcInv
<1>6. ASSUME NEW p \in Seq(Own), todo' = p \o Tail(todo) PROVE ProcInv' /\ SessionTypeOK'
  BY <1>1, <1>3, <1>6, OwnStep
<1>8. icRef \in IC
  BY <1>3 DEF KeyMakesCalls, PendingEsc, PendingOvertaken, KeyPunctuation, KeyDigit, KeySpace,
         KeyReturn, KeyEsc, KeyPasses, WaitingKey, KeyNow
<1>9. CASE PendingEsc \/ KeyEsc
  <2> DEFINE t == ClearAll(icRef, TRUE, TRUE)
  <2>1. t \in Own
    BY <1>8, OwnCalls
  <2>2. todo' = <<t>> \o Tail(todo)
    BY <1>9 DEF PendingEsc, KeyEsc, Then, Rest
  <2> HIDE DEF t
  <2>3. <<t>> \in Seq(Own)
    BY <2>1
  <2> QED BY <1>6, <2>2, <2>3
<1>10. CASE PendingOvertaken
  <2>1. Fallback(icRef) \in Own
    BY <1>8, OwnCalls
  <2>2. <<Fallback(icRef)>> \in Seq(Own)
    BY <2>1
  <2> QED BY <1>6, <1>10, <2>2 DEF PendingOvertaken, Then, Rest
<1>11. CASE KeyReturn
  <2>1. Commit(icRef, buf) \in Own
    BY <1>5, <1>8, OwnCalls
  <2>2. <<Commit(icRef, buf)>> \in Seq(Own)
    BY <2>1
  <2> QED BY <1>6, <1>11, <2>2 DEF KeyReturn, Then, Rest
<1>12. CASE KeyDigit
  <2>1. PICK key \in Keys : Then(<<Select(icRef, key.c)>>) /\ key.c \in DOMAIN cands
    BY <1>12 DEF KeyDigit
  <2>2. key.c \in Nat
    BY <1>5, <2>1, LenProperties
  <2>3. Select(icRef, key.c) \in Own
    BY <1>8, <2>2, OwnCalls
  <2>4. <<Select(icRef, key.c)>> \in Seq(Own)
    BY <2>3
  <2> QED BY <1>6, <2>1, <2>4 DEF Then, Rest
<1>13. CASE KeySpace
  <2>1. Select(icRef, selected) \in Own /\ [op |-> "arm", ic |-> icRef] \in Own
    BY <1>5, <1>8, OwnCalls
  <2> DEFINE t == IF Selectable THEN Select(icRef, selected) ELSE [op |-> "arm", ic |-> icRef]
  <2>2. t \in Own
    BY <2>1
  <2>3. todo' = <<t>> \o Tail(todo)
    BY <1>13 DEF KeySpace, Then, Rest
  <2> HIDE DEF t
  <2>4. <<t>> \in Seq(Own)
    BY <2>2
  <2> QED BY <1>6, <2>3, <2>4
<1>14. CASE KeyPunctuation
  <2>1. CASE ~Selectable
    <3>1. Commit(icRef, buf) \in Own
      BY <1>5, <1>8, OwnCalls
    <3>2. <<Commit(icRef, buf)>> \in Seq(Own)
      BY <3>1
    <3> QED BY <1>6, <1>14, <2>1, <3>2 DEF KeyPunctuation, Then, Rest
  <2>2. CASE Selectable
    <3>1. selected \in DOMAIN cands
      BY <1>1, <2>2 DEF Selectable, InputTypeOK
    <3>2. cands[selected].spells \in Pinyin /\ cands[selected].cover \in Nat
      <4>1. selected \in 1..Len(cands)
        BY <1>5, <3>1, LenProperties
      <4>2. cands[selected] \in Cand
        BY <1>5, <4>1, ElementOfSeq
      <4> QED BY <4>2 DEF Cand
    <3> DEFINE p == <<Send(Pick(selected, cands[selected].cover), Nobody), Commit(icRef, cands[selected].spells)>>
    <3>3. Send(Pick(selected, cands[selected].cover), Nobody) \in Own /\ Commit(icRef, cands[selected].spells) \in Own
      BY <1>5, <1>8, <3>2, OwnCalls, OwnSends
    <3>4. p \in Seq(Own)
      BY <3>3
    <3>5. todo' = p \o Tail(todo)
      BY <1>14, <2>2 DEF KeyPunctuation, Then, Rest
    <3> HIDE DEF p
    <3> QED BY <1>6, <3>4, <3>5
  <2> QED BY <2>1, <2>2
<1>15. CASE KeyPasses
  BY <1>1, <1>3, <1>15, PopStep DEF KeyPasses
<1> QED BY <1>9, <1>10, <1>11, <1>12, <1>13, <1>14, <1>15 DEF KeyMakesCalls

\* A key queued behind a pending Space, or taken back from there.
LEMMA QueueTypes ==
  ASSUME AsUsed, WInv, PendingBackQueued \/ PendingQueued
  PROVE  WInv'
<1>1. ProcInv /\ SessionTypeOK /\ InputTypeOK /\ PendTypeOK /\ LinkTypeOK /\ OutTypeOK /\ WorldTypeOK
  BY Inv
<1>2. UNCHANGED <<quietVars, inputVars, pend, timer, draining, spurned>> /\ Calling("key")
  BY DEF PendingBackQueued, PendingQueued, WaitingKey
<1>3. todo # <<>> /\ Head(todo).ic \in IC /\ Head(todo).key \in Key /\ UNCHANGED engineVars
  BY <1>1, <1>2, AtHand DEF quietVars
<1>4. InputTypeOK' /\ LinkTypeOK' /\ WorldTypeOK'
  BY <1>1, <1>2, Same DEF quietVars, worldVars
<1>5. queued \in Seq(Key) /\ DOMAIN queued = 1..Len(queued) /\ Len(queued) \in Nat
  BY <1>1, LenProperties DEF PendTypeOK
<1>6. CASE PendingBackQueued
  <2> DEFINE last == Max(PressesIn(queued))
             release == [queued[last] EXCEPT !.rel = TRUE]
             left == RemoveAt(queued, last)
             after == {i \in last..Len(left) : left[i] = release}
  <2>1. /\ PressesIn(queued) # {} /\ todo' = Rest /\ Show(icRef)
        /\ queued' = IF after = {} THEN left ELSE RemoveAt(left, Min(after))
        /\ owed' = IF IsLetter(queued[last]) THEN Erased ELSE owed
    BY <1>6 DEF PendingBackQueued
  <2>2. last \in 1..Len(queued)
    <3>1. PressesIn(queued) \subseteq 1..Len(queued)
      BY <1>5 DEF PressesIn
    <3> QED BY <1>5, <2>1, <3>1, MaxOfRange
  <2>3. ASSUME NEW s \in Seq(Key), NEW i \in 1..Len(s) PROVE RemoveAt(s, i) \in Seq(Key)
    <3>1. Len(s) \in Nat /\ i - 1 \in Int /\ i + 1 \in Int /\ 1 \in Int /\ Len(s) \in Int
      BY LenProperties
    <3>2. \A k \in 1..(i - 1) : s[k] \in Key
      <4> SUFFICES ASSUME NEW k \in 1..(i - 1) PROVE s[k] \in Key
        OBVIOUS
      <4>1. k \in 1..Len(s)
        BY <3>1
      <4> QED BY <4>1, ElementOfSeq
    <3>3. \A k \in (i + 1)..Len(s) : s[k] \in Key
      <4> SUFFICES ASSUME NEW k \in (i + 1)..Len(s) PROVE s[k] \in Key
        OBVIOUS
      <4>1. k \in 1..Len(s)
        BY <3>1
      <4> QED BY <4>1, ElementOfSeq
    <3>4. SubSeq(s, 1, i - 1) \in Seq(Key) /\ SubSeq(s, i + 1, Len(s)) \in Seq(Key)
      BY <3>1, <3>2, <3>3, SubSeqProperties
    <3> QED BY <3>4, ConcatProperties DEF RemoveAt
  <2>4. left \in Seq(Key)
    BY <1>5, <2>2, <2>3
  <2> HIDE DEF last, left, release
  <2>5. after # {} => Min(after) \in after
    <3>1. after \subseteq Nat
      BY <2>2, <2>4, LenProperties
    <3> HIDE DEF after
    <3> QED BY <3>1, MinOfNats
  <2>6. after # {} => Min(after) \in 1..Len(left)
    <3>1. after \subseteq 1..Len(left)
      BY <2>2, <2>4, LenProperties
    <3> HIDE DEF after
    <3> QED BY <2>5, <3>1
  <2> HIDE DEF after
  <2>7. queued' \in Seq(Key)
    BY <2>1, <2>3, <2>4, <2>6
  <2>8. PendTypeOK'
    BY <1>1, <1>2, <2>7 DEF PendTypeOK
  <2>9. OutTypeOK'
    <3>1. owed' \in Pinyin \cup {Mismatch, Misled}
      BY <1>1, <2>1, OwedType DEF OutTypeOK
    <3> QED BY <1>1, <1>2, <1>4, <2>1, <2>8, <3>1, ShowType DEF OutTypeOK
  <2>10. ProcInv' /\ SessionTypeOK'
    BY <1>1, <1>3, <2>1, PopStep
  <2> QED BY <1>4, <2>8, <2>9, <2>10 DEF WInv, TypeOK, ProcInv
<1>7. CASE PendingQueued
  <2>1. PICK key \in Keys :
          /\ WaitingKey(key) /\ queued' = Append(queued, key)
          /\ owed' = IF IsLetter(key) THEN Owing(key.c) ELSE owed
          /\ IF Len(queued') >= QueueLimit
               THEN Then(<<Fallback(icRef)>>) /\ UNCHANGED panel
               ELSE todo' = Rest /\ Show(icRef)
    BY <1>7 DEF PendingQueued
  <2>2. key \in Key /\ icRef \in IC
    BY <1>3, <2>1 DEF WaitingKey
  <2>3. queued' \in Seq(Key)
    BY <1>5, <2>1, <2>2, AppendProperties
  <2>4. PendTypeOK'
    BY <1>1, <1>2, <2>3 DEF PendTypeOK
  <2>5. owed' \in Pinyin \cup {Mismatch, Misled}
    <3>1. IsLetter(key) => key.c \in Letter
      BY <2>2 DEF IsLetter, Key
    <3> QED BY <1>1, <2>1, <3>1, OwedType DEF OutTypeOK
  <2>6. OutTypeOK'
    <3>1. CASE UNCHANGED panel
      BY <1>1, <1>2, <2>5, <3>1 DEF OutTypeOK
    <3>2. CASE Show(icRef)
      BY <1>1, <1>2, <1>4, <2>4, <2>5, <3>2, ShowType DEF OutTypeOK
    <3> QED BY <2>1, <3>1, <3>2
  <2>7. ProcInv' /\ SessionTypeOK'
    <3>1. Fallback(icRef) \in Own
      BY <2>2, OwnCalls
    <3>2. <<Fallback(icRef)>> \in Seq(Own)
      BY <3>1
    <3>3. todo' = <<Fallback(icRef)>> \o Tail(todo) \/ todo' = Rest
      BY <2>1 DEF Then, Rest
    <3> QED BY <1>1, <1>3, <3>2, <3>3, OwnStep, PopStep
  <2> QED BY <1>4, <2>4, <2>6, <2>7 DEF WInv, TypeOK, ProcInv
<1> QED BY <1>6, <1>7

\* BackSpace on the pinyin, with a Space pending or not.
LEMMA BackTypes ==
  ASSUME AsUsed, WInv, PendingBackPinyin \/ KeyBack
  PROVE  WInv'
<1>1. ProcInv /\ SessionTypeOK /\ InputTypeOK /\ PendTypeOK /\ LinkTypeOK /\ OutTypeOK /\ WorldTypeOK
  BY Inv
<1>2. /\ Calling("key") /\ icRef = Head(todo).ic
      /\ buf' = Front(buf) /\ revision' = revision + 1 /\ owed' = Erased
      /\ UNCHANGED <<quietVars, tried, pendVars, panel, spurned>>
  BY DEF PendingBackPinyin, KeyBack, WaitingKey, KeyNow
<1>3. todo # <<>> /\ icRef \in IC /\ UNCHANGED engineVars
  BY <1>1, <1>2, AtHand DEF quietVars
<1>4. PendTypeOK' /\ LinkTypeOK' /\ WorldTypeOK'
  BY <1>1, <1>2, Same DEF quietVars, worldVars
<1>5. buf' \in Pinyin /\ revision' \in Nat /\ tried' \in BOOLEAN
  BY <1>1, <1>2, FrontType DEF InputTypeOK, Pinyin
<1>6. InputTypeOK'
  <2>1. CASE PendingBackPinyin
    <3>1. current' = FALSE /\ cands' = <<>> /\ selected' = selected
      BY <2>1 DEF PendingBackPinyin
    <3> QED BY <1>1, <1>5, <3>1, EmptySeq DEF InputTypeOK
  <2>2. CASE KeyBack
    <3>1. (cands' = <<>> /\ current' = FALSE /\ selected' = 1)
          \/ (current' = FALSE /\ UNCHANGED <<cands, selected>>)
      BY <2>2 DEF KeyBack, NoCandidates
    <3>2. CASE cands' = <<>> /\ current' = FALSE /\ selected' = 1
      BY <1>5, <3>2, EmptySeq DEF InputTypeOK
    <3>3. CASE current' = FALSE /\ UNCHANGED <<cands, selected>>
      BY <1>1, <1>5, <3>3 DEF InputTypeOK
    <3> QED BY <3>1, <3>2, <3>3
  <2> QED BY <2>1, <2>2
<1>7. OutTypeOK'
  BY <1>1, <1>2, OwedType DEF OutTypeOK
<1>8. ProcInv' /\ SessionTypeOK'
  <2>1. Clear \in Own /\ Ui(icRef) \in Own /\ Fallback(icRef) \in Own /\ Request(buf') \in Own
    BY <1>3, <1>5, OwnCalls, OwnSends
  <2>2. <<Clear, Ui(icRef)>> \in Seq(Own) /\ <<Clear, Request(buf'), Ui(icRef)>> \in Seq(Own)
    BY <2>1
  <2>3. <<Clear>> \o <<Fallback(icRef)>> \in Seq(Own) /\ <<Clear>> \o <<Request(buf'), Ui(icRef)>> \in Seq(Own)
    <3>1. <<Clear>> \in Seq(Own) /\ <<Fallback(icRef)>> \in Seq(Own) /\ <<Request(buf'), Ui(icRef)>> \in Seq(Own)
      BY <2>1
    <3> QED BY <3>1, ConcatProperties
  <2>4. \E p \in Seq(Own) : todo' = p \o Tail(todo)
    <3>1. CASE PendingBackPinyin
      BY <2>3, <3>1 DEF PendingBackPinyin, Then, Rest
    <3>2. CASE KeyBack
      BY <2>2, <3>2 DEF KeyBack, Then, Rest
    <3> QED BY <3>1, <3>2
  <2> QED BY <1>1, <1>3, <2>4, OwnStep
<1> QED BY <1>4, <1>6, <1>7, <1>8 DEF WInv, TypeOK, ProcInv

\* A letter, and Right.
LEMMA LetterTypes ==
  ASSUME AsUsed, WInv, KeyLetter \/ TypeLetter \/ KeyNext
  PROVE  WInv'
<1>1. ProcInv /\ SessionTypeOK /\ InputTypeOK /\ PendTypeOK /\ LinkTypeOK /\ OutTypeOK /\ WorldTypeOK
  BY Inv
<1>2. UNCHANGED <<quietVars, pendVars>>
  BY DEF KeyLetter, TypeLetter, KeyNext
<1>3. PendTypeOK' /\ LinkTypeOK' /\ WorldTypeOK' /\ UNCHANGED engineVars
  BY <1>1, <1>2, Same DEF quietVars, worldVars
<1>4. CASE KeyLetter
  <2>1. PICK key \in Keys :
          /\ KeyNow(key) /\ IsLetter(key) /\ tried' = (tried /\ Composing)
          /\ Then(IfDead(<<Do("ensure")>>) \o <<Type(key)>>)
          /\ UNCHANGED <<buf, cands, current, selected, revision, outVars>>
    BY <1>4 DEF KeyLetter
  <2>2. todo # <<>> /\ Head(todo).ic \in IC /\ key \in Key /\ Head(todo).src \in {"user", "queue"}
    BY <1>1, <2>1, AtHand DEF KeyNow
  <2>3. key.c \in Letter
    BY <2>1, <2>2 DEF IsLetter, Key
  <2>4. Type(key) \in Own
    <3>1. Type(key).replay \in BOOLEAN
      BY DEF Type
    <3>2. Type(key) \in ClientTask
      BY <2>2, <2>3, <3>1 DEF Type, ClientTask
    <3>3. Type(key).op # "call"
      BY DEF Type
    <3> QED BY <3>2, <3>3 DEF Own, Task, AsUsed
  <2> DEFINE p == IfDead(<<Do("ensure")>>) \o <<Type(key)>>
  <2>5. p \in Seq(Own)
    <3>1. Do("ensure") \in Own
      BY OwnCalls
    <3>2. <<Do("ensure")>> \in Seq(Own) /\ <<Type(key)>> \in Seq(Own) /\ <<>> \in Seq(Own)
      BY <2>4, <3>1, EmptySeq
    <3>3. IfDead(<<Do("ensure")>>) \in Seq(Own)
      BY <3>2 DEF IfDead
    <3> QED BY <3>2, <3>3, ConcatProperties
  <2>6. todo' = p \o Tail(todo)
    BY <2>1 DEF Then, Rest
  <2> HIDE DEF p
  <2>7. ProcInv' /\ SessionTypeOK'
    BY <1>1, <1>3, <2>2, <2>5, <2>6, OwnStep
  <2>8. InputTypeOK'
    BY <1>1, <2>1 DEF InputTypeOK
  <2>9. OutTypeOK'
    BY <1>1, <2>1, Same
  <2> QED BY <1>3, <2>7, <2>8, <2>9 DEF WInv, TypeOK, ProcInv
<1>5. CASE TypeLetter
  <2> DEFINE c == Head(todo).c
             keys == IF Head(todo).replay THEN buf' ELSE <<c>>
  <2>1. /\ Calling("type") /\ revision' = revision + 1 /\ buf' = Append(buf, c) /\ current' = FALSE
        /\ owed' = IF Head(todo).src = "user" THEN Owing(c) ELSE owed
        /\ todo' = <<Request(keys)>> \o Tail(todo)
        /\ UNCHANGED <<cands, selected, tried, spurned>>
        /\ Show(Head(todo).ic)
    BY <1>5 DEF TypeLetter, Then, Rest
  <2>2. todo # <<>> /\ c \in Letter /\ Head(todo).ic \in IC
    BY <1>1, <2>1, AtHand
  <2> HIDE DEF c
  <2>3. buf' \in Pinyin /\ revision' \in Nat
    BY <1>1, <2>1, <2>2, AppendProperties DEF InputTypeOK, Pinyin
  <2>4. keys \in Pinyin
    BY <2>2, <2>3 DEF Pinyin
  <2> HIDE DEF keys
  <2>5. <<Request(keys)>> \in Seq(Own)
    <3>1. Request(keys) \in Own
      BY <2>4, OwnCalls
    <3> QED BY <3>1
  <2>6. ProcInv' /\ SessionTypeOK'
    BY <1>1, <1>3, <2>1, <2>2, <2>5, OwnStep
  <2>7. InputTypeOK'
    BY <1>1, <2>1, <2>3 DEF InputTypeOK
  <2>8. OutTypeOK'
    <3>1. owed' \in Pinyin \cup {Mismatch, Misled}
      BY <1>1, <2>1, <2>2, OwedType DEF OutTypeOK
    <3> QED BY <1>1, <1>3, <2>1, <2>7, <3>1, ShowType DEF OutTypeOK
  <2> QED BY <1>3, <2>6, <2>7, <2>8 DEF WInv, TypeOK, ProcInv
<1>6. CASE KeyNext
  <2>1. /\ Calling("key") /\ cands # <<>> /\ selected' = Min({selected + 1, Len(cands)})
        /\ todo' = Rest /\ UNCHANGED <<buf, cands, current, revision, tried, outVars>>
    BY <1>6 DEF KeyNext, KeyNow, Selectable
  <2>2. todo # <<>>
    BY <1>1, <2>1, AtHand
  <2>3. ProcInv' /\ SessionTypeOK'
    BY <1>1, <1>3, <2>1, <2>2, PopStep
  <2>4. cands \in Seq(Cand) /\ DOMAIN cands = 1..Len(cands) /\ Len(cands) \in Nat /\ Len(cands) # 0
        /\ selected \in Nat
    BY <1>1, <2>1, LenProperties, EmptySeq DEF InputTypeOK
  <2>5. selected' \in {selected + 1, Len(cands)} /\ selected' <= Len(cands)
    <3>1. selected + 1 \in Nat
      BY <2>4
    <3> QED BY <2>1, <2>4, <3>1, MinOfTwo
  <2>6. selected' \in 1..Len(cands)
    BY <2>4, <2>5
  <2>7. InputTypeOK'
    BY <1>1, <2>1, <2>4, <2>6 DEF InputTypeOK
  <2>8. OutTypeOK'
    BY <1>1, <2>1, Same
  <2> QED BY <1>3, <2>3, <2>7, <2>8 DEF WInv, TypeOK, ProcInv
<1> QED BY <1>4, <1>5, <1>6

----------------------------------------------------------------------------
(* Callbacks.                                                              *)

\* A key event, a reset, a click, and the loss of focus only make calls.
LEMMA CallbackTypes ==
  ASSUME AsUsed, WInv, KeyEvent \/ Reset \/ FocusOut \/ Click
  PROVE  WInv'
<1>1. ProcInv /\ SessionTypeOK /\ InputTypeOK /\ PendTypeOK /\ LinkTypeOK /\ OutTypeOK /\ WorldTypeOK
  BY Inv
<1>2. UNCHANGED <<engineVars, typingVars, gone>> /\ focus' \in IC /\ focus \in IC
  BY <1>1 DEF KeyEvent, Reset, FocusOut, Click, WorldTypeOK
<1>3. InputTypeOK' /\ PendTypeOK' /\ LinkTypeOK' /\ OutTypeOK'
  BY <1>1, <1>2, Same DEF typingVars
<1>4. WorldTypeOK'
  BY <1>1, <1>2 DEF WorldTypeOK
<1> SUFFICES \E p \in Seq(Own) : todo' = p
  BY <1>1, <1>2, <1>3, <1>4, OwnStep DEF WInv, TypeOK, ProcInv
<1>5. ASSUME NEW t \in Own PROVE <<t>> \in Seq(Own)
  OBVIOUS
<1>6. CASE KeyEvent
  <2>1. PICK key \in Keys : todo' = <<Press(focus, key)>>
    BY <1>6 DEF KeyEvent
  <2>2. Press(focus, key) \in Own
    BY <1>2, OwnCalls, EngineAssumption
  <2> QED BY <1>5, <2>1, <2>2
<1>7. CASE Reset
  <2> DEFINE s == Send(Plain("SAVE"), Nobody)
             t == ClearAll(focus, Shown, TRUE)
  <2>1. s \in Own
    BY OwnSends
  <2>2. Shown \in BOOLEAN
    BY DEF Shown
  <2>3. t \in Own
    BY <1>2, <2>2, OwnCalls
  <2>4. todo' = <<s, t>>
    BY <1>7 DEF Reset
  <2> HIDE DEF s, t
  <2>5. <<s, t>> \in Seq(Own)
    BY <2>1, <2>3
  <2> QED BY <2>4, <2>5
<1>8. CASE FocusOut
  <2> DEFINE t == ClearAll(focus, Shown, TRUE)
  <2>1. Shown \in BOOLEAN
    BY DEF Shown
  <2>2. t \in Own
    BY <1>2, <2>1, OwnCalls
  <2>3. todo' = <<t>>
    BY <1>8 DEF FocusOut
  <2> HIDE DEF t
  <2> QED BY <1>5, <2>2, <2>3
<1>9. CASE Click
  <2>1. PICK ic \in IC : \E i \in DOMAIN panel[ic].cands : todo' = <<Select(ic, i)>>
    BY <1>9 DEF Click
  <2>2. PICK i \in DOMAIN panel[ic].cands : todo' = <<Select(ic, i)>>
    BY <2>1
  <2>3. panel[ic].cands \in Seq(Cand)
    BY <1>1 DEF OutTypeOK
  <2>4. i \in Nat
    BY <2>3, LenProperties
  <2>5. Select(ic, i) \in Own
    BY <2>4, OwnCalls
  <2> QED BY <1>5, <2>2, <2>5
<1> QED BY <1>6, <1>7, <1>8, <1>9

\* A context destroyed, the input method switched, the addon unloaded.
LEMMA ContextTypes ==
  ASSUME AsUsed, WInv, Close \/ SwitchInputMethod
  PROVE  WInv'
<1>1. ProcInv /\ SessionTypeOK /\ InputTypeOK /\ PendTypeOK /\ LinkTypeOK /\ OutTypeOK /\ WorldTypeOK
  BY Inv
<1>2. focus \in IC
  BY <1>1 DEF WorldTypeOK
<1>3. CASE Close
  <2>1. /\ focus' \in IC /\ icRef' = (IF icRef = focus THEN NoIc ELSE icRef)
        /\ panel' = [panel EXCEPT ![focus] = Panel(<<>>, <<>>)]
        /\ UNCHANGED <<engineVars, inputVars, pendVars, epoch, linkVars, owed, spurned, todo, gone>>
    BY <1>3 DEF Close
  <2>2. InputTypeOK' /\ PendTypeOK'
    BY <1>1, <2>1, Same
  <2>3. LinkTypeOK'
    BY <1>1, <2>1 DEF LinkTypeOK, linkVars
  <2>4. OutTypeOK'
    <3>1. <<>> \in Pinyin /\ <<>> \in Seq(Cand)
      BY EmptySeq DEF Pinyin
    <3> QED BY <1>1, <2>1, <3>1, PanelType DEF OutTypeOK
  <2>5. WorldTypeOK'
    BY <1>1, <2>1 DEF WorldTypeOK
  <2>6. ProcInv' /\ SessionTypeOK'
    <3>1. todo \in Seq(Task) /\ <<>> \in Seq(Own)
      BY <1>1, EmptySeq DEF ProcInv, ProcTypeOK
    <3>2. todo' = <<>> \o todo
      BY <2>1, <3>1, ConcatEmptySeq
    <3> QED BY <1>1, <2>1, <3>1, <3>2, OwnStep
  <2> QED BY <2>2, <2>3, <2>4, <2>5, <2>6 DEF WInv, TypeOK, ProcInv
<1>4. CASE SwitchInputMethod
  <2> DEFINE t == ClearAll(focus, Shown, FALSE)
  <2>1. /\ owed' = IF Composing THEN Delivered(Raw) ELSE owed
        /\ todo' = <<t>>
        /\ UNCHANGED <<engineVars, inputVars, pendVars, ctxVars, linkVars, panel, spurned, focus, gone>>
    BY <1>4 DEF SwitchInputMethod
  <2>2. InputTypeOK' /\ PendTypeOK' /\ LinkTypeOK' /\ WorldTypeOK'
    BY <1>1, <2>1, Same
  <2>3. OutTypeOK'
    BY <1>1, <2>1, RawType, OwedType DEF OutTypeOK
  <2>4. Shown \in BOOLEAN
    BY DEF Shown
  <2>5. t \in Own
    BY <1>2, <2>4, OwnCalls
  <2> HIDE DEF t
  <2>6. <<t>> \in Seq(Own)
    BY <2>5
  <2>7. ProcInv' /\ SessionTypeOK'
    BY <1>1, <2>1, <2>6, OwnStep
  <2> QED BY <2>2, <2>3, <2>7 DEF WInv, TypeOK, ProcInv
<1> QED BY <1>3, <1>4

\* The addon is unloaded, in its two stages.
LEMMA DestroyTypes ==
  ASSUME AsUsed, WInv, Destroy \/ DestroyMembers
  PROVE  WInv'
<1>1. ProcInv /\ SessionTypeOK /\ InputTypeOK /\ PendTypeOK /\ LinkTypeOK /\ OutTypeOK /\ WorldTypeOK
  BY Inv
<1>2. CASE Destroy
  <2> DEFINE s == Do("stop")
             m == Do("members")
  <2>1. /\ pend' = FALSE /\ timer' = NoTimer /\ queued' = <<>> /\ restart' = FALSE /\ gone' = "stopping"
        /\ todo' = <<s, m, s>>
        /\ UNCHANGED <<engineVars, inputVars, draining, ctxVars, spansOn, outVars, focus>>
    BY <1>2 DEF Destroy
  <2>2. s \in Own /\ m \in Own
    BY OwnCalls
  <2> HIDE DEF s, m
  <2>3. <<s, m, s>> \in Seq(Own)
    BY <2>2
  <2>4. ProcInv' /\ SessionTypeOK'
    BY <1>1, <2>1, <2>3, OwnStep
  <2>5. InputTypeOK' /\ OutTypeOK'
    BY <1>1, <2>1, Same
  <2>6. PendTypeOK'
    BY <1>1, <2>1, EmptySeq DEF PendTypeOK
  <2>7. LinkTypeOK' /\ WorldTypeOK'
    BY <1>1, <2>1 DEF LinkTypeOK, WorldTypeOK, ctxVars
  <2> QED BY <2>4, <2>5, <2>6, <2>7 DEF WInv, TypeOK, ProcInv
<1>3. CASE DestroyMembers
  <2>1. /\ Calling("members") /\ gone' = "destroyed" /\ icRef' \in {icRef, NoIc} /\ todo' = Rest
        /\ UNCHANGED <<engineVars, inputVars, pendVars, epoch, linkVars, outVars, focus>>
    BY <1>3 DEF DestroyMembers
  <2>2. todo # <<>>
    BY <1>1, <2>1, AtHand
  <2>3. ProcInv' /\ SessionTypeOK'
    BY <1>1, <2>1, <2>2, PopStep
  <2>4. InputTypeOK' /\ PendTypeOK' /\ OutTypeOK'
    BY <1>1, <2>1, Same
  <2>5. LinkTypeOK' /\ WorldTypeOK'
    BY <1>1, <2>1 DEF LinkTypeOK, WorldTypeOK, linkVars
  <2> QED BY <2>3, <2>4, <2>5 DEF WInv, TypeOK, ProcInv
<1> QED BY <1>2, <1>3

\* The timers: a wait that ends, an engine brought back.
LEMMA TimerTypes ==
  ASSUME AsUsed, WInv, Timers
  PROVE  WInv'
<1>1. ProcInv /\ SessionTypeOK /\ InputTypeOK /\ PendTypeOK /\ LinkTypeOK /\ OutTypeOK /\ WorldTypeOK
  BY Inv
<1>2. todo \in Seq(Task) /\ <<>> \in Seq(Own) /\ (UNCHANGED todo => todo' = <<>> \o todo)
  BY <1>1, EmptySeq, ConcatEmptySeq DEF ProcInv, ProcTypeOK
<1>3. CASE OnPendingTimer
  <2>1. /\ timer # NoTimer
        /\ \/ timer.ic = icRef /\ todo' = <<Fallback(icRef)>> /\ UNCHANGED timer
           \/ timer' = NoTimer /\ UNCHANGED todo
        /\ UNCHANGED <<quietVars, inputVars, pend, queued, draining, outVars>>
    BY <1>3 DEF OnPendingTimer
  <2>2. timer \in [ic: IC, epoch: Nat]
    BY <1>1, <2>1 DEF PendTypeOK
  <2>3. \E p \in Seq(Own) : todo' = p \/ todo' = p \o todo
    <3>1. CASE todo' = <<Fallback(icRef)>> /\ timer.ic = icRef
      <4>1. Fallback(icRef) \in Own
        BY <2>2, <3>1, OwnCalls
      <4>2. <<Fallback(icRef)>> \in Seq(Own)
        BY <4>1
      <4> QED BY <3>1, <4>2
    <3> QED BY <1>2, <2>1, <3>1
  <2>4. ProcInv' /\ SessionTypeOK'
    BY <1>1, <2>1, <2>3, OwnStep DEF quietVars
  <2>5. InputTypeOK' /\ LinkTypeOK' /\ OutTypeOK' /\ WorldTypeOK'
    BY <1>1, <2>1, Same DEF quietVars, worldVars
  <2>6. PendTypeOK'
    BY <1>1, <2>1 DEF PendTypeOK
  <2> QED BY <2>4, <2>5, <2>6 DEF WInv, TypeOK, ProcInv
<1>4. CASE OnRestartTimer
  <2>1. /\ restart' = FALSE /\ (UNCHANGED todo \/ todo' = Revive)
        /\ UNCHANGED <<engineVars, inputVars, pendVars, ctxVars, spansOn, outVars, worldVars>>
    BY <1>4 DEF OnRestartTimer
  <2>2. ProcInv' /\ SessionTypeOK'
    BY <1>1, <1>2, <2>1, ReviveOwn, OwnStep
  <2>3. InputTypeOK' /\ PendTypeOK' /\ OutTypeOK' /\ WorldTypeOK'
    BY <1>1, <2>1, Same DEF worldVars
  <2>4. LinkTypeOK'
    BY <1>1, <2>1 DEF LinkTypeOK, ctxVars
  <2> QED BY <2>2, <2>3, <2>4 DEF WInv, TypeOK, ProcInv
<1> QED BY <1>3, <1>4 DEF Timers

----------------------------------------------------------------------------
(* The harness.                                                            *)

\* What the engine finds covers some of the letters it was given.
LEMMA FindType ==
  ASSUME NEW s \in Pinyin \ {<<>>}, NEW a \in Answers
  PROVE  Find(s, a) \in Found
<1>1. a \in Seq(Nat \ {0}) /\ Len(s) \in Nat /\ Len(s) # 0
  BY AnswersAssumption, LenProperties, EmptySeq DEF Pinyin
<1>2. DOMAIN a = 1..Len(a) /\ Len(a) \in Nat /\ \A i \in 1..Len(a) : a[i] \in Nat \ {0}
  BY <1>1, LenProperties, ElementOfSeq
<1> DEFINE c == [i \in DOMAIN a |-> Min({a[i], Len(s)})]
<1>3. ASSUME NEW i \in 1..Len(a)
      PROVE  Min({a[i], Len(s)}) \in 1..Len(s)
  <2>1. a[i] \in Nat \ {0}
    BY <1>2
  <2> QED BY <1>1, <2>1, MinOfTwo
<1>4. /\ c \in [1..Len(a) -> Nat] /\ DOMAIN c = 1..Len(a)
      /\ \A i \in 1..Len(a) : c[i] \in 1..Len(s)
  BY <1>1, <1>2, <1>3
<1>5. c \in Seq(Nat)
  BY <1>2, <1>4
<1> DEFINE f == [of |-> s, covers |-> c]
<1>6. Find(s, a) = f
  BY DEF Find
<1> HIDE DEF c
<1>7. f \in [of: Pinyin, covers: Seq(Nat)] /\ Covered(f)
  BY <1>4, <1>5 DEF Covered
<1> QED BY <1>6, <1>7 DEF Found

\* The reply made of what it finds.
LEMMA OutcomeType ==
  ASSUME NEW f \in Found, SessionTypeOK'
  PROVE  Outcome(f) \in Answer
<1>1. Held' \in Pinyin \cup {Astray} /\ f \in [of: Pinyin, covers: Seq(Nat)] /\ Covered(f)
  BY DEF Held, SessionTypeOK, Found
<1> DEFINE t == [kind |-> "CAND", of |-> f.of, covers |-> f.covers, at |-> Held']
<1>2. t.of = f.of /\ t.covers = f.covers /\ t.at = Held' /\ t.kind = "CAND"
  OBVIOUS
<1>3. t \in [kind: {"CAND"}, of: Pinyin, covers: Seq(Nat), at: Pinyin \cup {Astray}]
  BY <1>1
<1>4. Covered(t)
  BY <1>1, <1>2 DEF Covered
<1>5. Offer(f) \in Answer
  BY <1>3, <1>4 DEF Answer, Offer
<1>6. Say("EMPTY") \in Answer
  BY DEF Answer, Say
<1> QED BY <1>5, <1>6 DEF Outcome

\* The wait for a search takes a reply to each line, and keeps a list of the
\* right type.
LEMMA SearchType ==
  ASSUME AsUsed, SessionTypeOK, NEW n \in Nat, NEW skips \in [1..n -> Text], Search(skips),
         sent' \in Pinyin, known' \in BOOLEAN, spans' \in BOOLEAN, asked' \subseteq Pinyin \ {<<>>},
         astray' \in BOOLEAN
  PROVE  /\ SessionTypeOK'
         /\ \E t \in Text : Take(skips \o <<t>>)
<1>1. CASE list' = list /\ Take(skips \o <<Say("EMPTY")>>)
  <2>1. SessionTypeOK'
    BY <1>1 DEF SessionTypeOK
  <2>2. Say("EMPTY") \in Text
    BY DEF Answer, Say, AsUsed
  <2> QED BY <1>1, <2>1, <2>2
<1>2. CASE \E s \in asked', a \in Answers :
             list' = Find(s, a) /\ Take(skips \o <<Outcome(list')>>)
  <2>1. PICK s \in asked', a \in Answers :
               list' = Find(s, a) /\ Take(skips \o <<Outcome(list')>>)
    BY <1>2
  <2>2. list' \in Found
    BY <2>1, FindType
  <2>3. SessionTypeOK'
    BY <2>2 DEF SessionTypeOK
  <2>4. Outcome(list') \in Text
    BY <2>2, <2>3, OutcomeType DEF AsUsed
  <2> QED BY <2>1, <2>3, <2>4
<1> QED BY <1>1, <1>2 DEF Search

\* Replies before a last one.
LEMMA TakeMore ==
  ASSUME NEW n \in Nat, NEW skips \in [1..n -> Text], NEW t \in Text, Take(skips \o <<t>>)
  PROVE  \E m \in Nat : \E texts \in [1..m -> Text] : Take(texts)
<1>1. skips \in Seq(Text) /\ <<t>> \in Seq(Text)
  OBVIOUS
<1>2. skips \o <<t>> \in Seq(Text)
  BY <1>1, ConcatProperties
<1> DEFINE s == skips \o <<t>>
<1>3. Len(s) \in Nat /\ s \in [1..Len(s) -> Text]
  BY <1>2, LenProperties
<1> HIDE DEF s
<1> QED BY <1>3 DEF s

\* One reply to one line.
LEMMA TakeOne ==
  ASSUME NEW t \in Text, Take(<<t>>)
  PROVE  \E n \in Nat : \E texts \in [1..n -> Text] : Take(texts)
<1>1. <<t>> \in [1..1 -> Text]
  OBVIOUS
<1> QED BY <1>1

\* Whatever the harness takes, it answers as EngineProc expects, and its
\* session keeps its types.
LEMMA HarnessTypes ==
  ASSUME AsUsed, WInv, HarnessTakes
  PROVE  ProcInv' /\ SessionTypeOK'
<1>1. ProcInv /\ SessionTypeOK
  BY Inv
<1>2. /\ sent \in Pinyin /\ known \in BOOLEAN /\ spans \in BOOLEAN /\ list \in Found
      /\ asked \subseteq Pinyin \ {<<>>} /\ astray \in BOOLEAN
  BY <1>1 DEF SessionTypeOK
<1>3. inPipe \in Seq(Command)
  BY <1>1 DEF ProcInv, ProcTypeOK, AsUsed
<1>4. \A kind \in {"OK", "ERR", "SKIP", "EMPTY"} : Say(kind) \in Text
  BY DEF Say, Answer, AsUsed
<1> SUFFICES /\ \E n \in Nat : \E texts \in [1..n -> Text] : Take(texts)
             /\ SessionTypeOK'
  BY <1>1, HarnessInv
<1>5. CASE TakeBatches
  <2> DEFINE skips(n) == [i \in 1..(n - 1) |-> Say("SKIP")]
  <2>1. PICK n \in 1..Len(inPipe) :
          /\ sent' = sent \o FlattenSeq([i \in 1..n |-> inPipe[i].keys])
          /\ known' = (known /\ Len(sent') <= SentSize)
          /\ asked' = asked \cup {SubSeq(sent', 1, k) : k \in (Len(sent) + 1)..Len(sent')}
          /\ UNCHANGED <<spans, astray>>
          /\ Search(skips(n))
    BY <1>5 DEF TakeBatches
  <2>2. n \in Nat /\ Len(inPipe) \in Nat /\ n - 1 \in Nat
    BY <1>3, LenProperties
  <2> DEFINE k == [i \in 1..n |-> inPipe[i].keys]
  <2>3. ASSUME NEW i \in 1..n PROVE inPipe[i].keys \in Seq(Letter)
    <3>1. i \in 1..Len(inPipe)
      BY <2>2
    <3>2. inPipe[i] \in Command
      BY <1>3, <3>1, ElementOfSeq
    <3> QED BY <3>2 DEF Command, Pinyin
  <2>4. k \in [1..n -> Seq(Letter)]
    BY <2>3
  <2>5. k \in Seq(Seq(Letter))
    BY <2>2, <2>4
  <2> HIDE DEF k
  <2>6. FlattenSeq(k) \in Seq(Letter)
    BY <2>5, FlattenType
  <2>7. sent' \in Pinyin
    BY <1>2, <2>1, <2>6, ConcatProperties DEF Pinyin, k
  <2>8. asked' \subseteq Pinyin \ {<<>>}
    <3>1. Len(sent') \in Nat /\ Len(sent) \in Nat /\ sent' \in Seq(Letter)
      BY <1>2, <2>7, LenProperties DEF Pinyin
    <3>2. \A j \in (Len(sent) + 1)..Len(sent') : SubSeq(sent', 1, j) \in Pinyin \ {<<>>}
      <4> SUFFICES ASSUME NEW j \in (Len(sent) + 1)..Len(sent') PROVE SubSeq(sent', 1, j) \in Pinyin \ {<<>>}
        OBVIOUS
      <4>1. j \in Int /\ 1 \in Int /\ 1 <= j /\ \A i \in 1..j : i \in 1..Len(sent')
        BY <3>1
      <4>2. \A i \in 1..j : sent'[i] \in Letter
        BY <3>1, <4>1, ElementOfSeq
      <4>3. SubSeq(sent', 1, j) \in Seq(Letter) /\ Len(SubSeq(sent', 1, j)) = j - 1 + 1
        BY <4>1, <4>2, SubSeqProperties
      <4>4. Len(<<>>) = 0
        OBVIOUS
      <4> QED BY <4>1, <4>3, <4>4 DEF Pinyin
    <3> QED BY <1>2, <2>1, <3>2
  <2>9. skips(n) \in [1..(n - 1) -> Text]
    BY <1>4
  <2>10. known' \in BOOLEAN /\ spans' \in BOOLEAN /\ astray' \in BOOLEAN
    BY <1>2, <2>1
  <2> HIDE DEF skips
  <2>11. SessionTypeOK' /\ \E t \in Text : Take(skips(n) \o <<t>>)
    BY <1>1, <2>1, <2>2, <2>7, <2>8, <2>9, <2>10, SearchType
  <2> QED BY <2>2, <2>9, <2>11, TakeMore
<1>6. CASE TakeBadPick
  <2>1. Take(<<Say("ERR")>>) /\ astray' = TRUE /\ UNCHANGED <<sent, known, spans, list, asked>>
    BY <1>6 DEF TakeBadPick
  <2>2. SessionTypeOK'
    BY <1>1, <2>1 DEF SessionTypeOK
  <2> QED BY <1>4, <2>1, <2>2, TakeOne
<1>7. Listed => Leftover \in Pinyin /\ (0 < Cover /\ Cover < Len(sent) => Leftover # <<>>)
  <2> SUFFICES ASSUME Listed
               PROVE  Leftover \in Pinyin /\ (0 < Cover /\ Cover < Len(sent) => Leftover # <<>>)
    OBVIOUS
  <2>1. Cover \in Nat
    <3>1. list.covers \in Seq(Nat) /\ Head(inPipe).idx \in DOMAIN list.covers
      BY <1>2 DEF Found, Listed
    <3>2. DOMAIN list.covers = 1..Len(list.covers)
      BY <3>1, LenProperties
    <3> QED BY <3>1, <3>2, ElementOfSeq DEF Cover
  <2>2. sent \in Seq(Letter) /\ Len(sent) \in Nat
    BY <1>2, LenProperties DEF Pinyin
  <2>3. \A k \in (Cover + 1)..Len(sent) : sent[k] \in Letter
    <3> SUFFICES ASSUME NEW k \in (Cover + 1)..Len(sent) PROVE sent[k] \in Letter
      OBVIOUS
    <3>1. k \in 1..Len(sent)
      BY <2>1, <2>2
    <3> QED BY <2>2, <3>1, ElementOfSeq
  <2>4. Cover + 1 \in Int /\ Len(sent) \in Int
    BY <2>1, <2>2
  <2>5. Leftover \in Seq(Letter) /\ (Cover + 1 <= Len(sent) => Len(Leftover) = Len(sent) - (Cover + 1) + 1)
    BY <2>3, <2>4, SubSeqProperties DEF Leftover
  <2>6. Len(<<>>) = 0
    OBVIOUS
  <2> QED BY <2>1, <2>2, <2>5, <2>6 DEF Pinyin
<1>8. CASE TakePrefixPick
  <2>1. /\ Listed /\ sent' = Leftover /\ asked' = asked \cup {sent'}
        /\ astray' = (astray \/ Cover # Head(inPipe).cover)
        /\ Search(<<>>) /\ UNCHANGED <<known, spans>>
    BY <1>8 DEF TakePrefixPick
  <2>2. sent' \in Pinyin
    BY <1>7, <2>1
  <2>3. asked' \subseteq Pinyin \ {<<>>}
    <3>1. sent' # <<>>
      BY <1>7, <1>8, <2>1 DEF TakePrefixPick, PartialPick
    <3> QED BY <1>2, <2>1, <2>2, <3>1
  <2>4. known' \in BOOLEAN /\ spans' \in BOOLEAN /\ astray' \in BOOLEAN
    BY <1>2, <2>1
  <2>5. <<>> \in [1..0 -> Text]
    OBVIOUS
  <2>6. SessionTypeOK' /\ \E t \in Text : Take(<<>> \o <<t>>)
    BY <1>1, <2>1, <2>2, <2>3, <2>4, <2>5, SearchType
  <2> QED BY <2>5, <2>6, TakeMore
<1>9. CASE TakeWholePick \/ TakeClear \/ TakeOption
  <2>1. Take(<<Say("OK")>>)
    BY <1>9 DEF TakeWholePick, TakeClear, TakeOption
  <2>2. <<>> \in Pinyin /\ NoList \in Found
    <3>1. <<>> \in Seq(Letter) /\ <<>> \in Seq(Nat) /\ DOMAIN <<>> = {}
      BY EmptySeq
    <3> QED BY <3>1 DEF NoList, Found, Covered, Pinyin
  <2>3. CASE TakeWholePick
    <3>1. /\ Listed /\ sent' = Leftover /\ known' = FALSE
          /\ asked' = IF sent' = <<>> THEN asked ELSE asked \cup {sent'}
          /\ astray' = (astray \/ ~known \/ Cover # Head(inPipe).cover)
          /\ UNCHANGED <<spans, list>>
      BY <2>3 DEF TakeWholePick
    <3>2. sent' \in Pinyin
      BY <1>7, <3>1
    <3>3. SessionTypeOK'
      BY <1>2, <3>1, <3>2 DEF SessionTypeOK
    <3> QED BY <1>4, <2>1, <3>3, TakeOne
  <2>4. CASE TakeClear \/ TakeOption
    <3>1. SessionTypeOK'
      BY <1>2, <2>2, <2>4 DEF TakeClear, TakeOption, SessionTypeOK
    <3> QED BY <1>4, <2>1, <3>1, TakeOne
  <2> QED BY <1>9, <2>3, <2>4
<1> QED BY <1>5, <1>6, <1>8, <1>9 DEF HarnessTakes

\* A session just begun.
LEMMA FreshType ==
  <<>> \in Pinyin /\ NoList \in Found
<1>1. <<>> \in Seq(Letter) /\ <<>> \in Seq(Nat) /\ DOMAIN <<>> = {}
  BY EmptySeq
<1> QED BY <1>1 DEF NoList, Found, Covered, Pinyin

\* The calls of EngineProc, its events, and whatever the harness does.
LEMMA EngineTypes ==
  ASSUME AsUsed, WInv,
         \/ ProcStep \/ ProcEvent(OnReadable) \/ ProcEvent(OnEof) \/ ProcEvent(OnStartTimeout)
         \/ HarnessStep \/ Crash
  PROVE  WInv'
<1>1. ProcInv /\ SessionTypeOK /\ InputTypeOK /\ PendTypeOK /\ LinkTypeOK /\ OutTypeOK /\ WorldTypeOK
  BY Inv
<1>2. UNCHANGED <<typingVars, focus, gone>>
  BY DEF ProcStep, ProcEvent, HarnessStep, Crash, worldVars
<1>3. InputTypeOK' /\ PendTypeOK' /\ LinkTypeOK' /\ OutTypeOK' /\ WorldTypeOK'
  BY <1>1, <1>2, Same DEF typingVars
<1> SUFFICES ProcInv' /\ SessionTypeOK'
  BY <1>3 DEF WInv, TypeOK, ProcInv
<1>4. FreshSession => SessionTypeOK'
  BY FreshType DEF FreshSession, SessionTypeOK
<1>5. UNCHANGED sessionVars => SessionTypeOK'
  BY <1>1, Same
<1>6. CASE ProcStep
  <2>1. ProcCalls /\ (FreshSession \/ UNCHANGED sessionVars)
    BY <1>6 DEF ProcStep
  <2>2. ProcInv'
    BY <1>1, <2>1, Apart, CallsInv
  <2> QED BY <1>4, <1>5, <2>1, <2>2
<1>7. CASE ProcEvent(OnReadable) \/ ProcEvent(OnEof) \/ ProcEvent(OnStartTimeout)
  <2>1. ProcEvents /\ UNCHANGED sessionVars
    BY <1>7 DEF ProcEvent, ProcEvents
  <2> QED BY <1>1, <1>5, <2>1, EventsInv
<1>8. CASE HarnessStep
  <2>1. HarnessTakes \/ (WriteLine /\ UNCHANGED sessionVars)
    BY <1>8 DEF HarnessStep
  <2>2. CASE WriteLine /\ UNCHANGED sessionVars
    BY <1>1, <1>5, <2>2, HarnessInv
  <2> QED BY <2>1, <2>2, HarnessTypes
<1>9. CASE Crash
  <2>1. ChildExit /\ FreshSession
    BY <1>9 DEF Crash
  <2> QED BY <1>1, <1>4, <2>1, HarnessInv
<1> QED BY <1>6, <1>7, <1>8, <1>9

----------------------------------------------------------------------------
(* Together.                                                               *)

\* The constructor's first call is made with nothing in flight.
LEMMA InitTypes ==
  ASSUME AsUsed, Init
  PROVE  WInv
<1> DEFINE e == Do("ensure")
<1>1. todo = <<e>> /\ ProcInit(<<e>>) /\ SessionInit /\ CompositionInit /\ focus \in IC /\ gone = "no"
  BY DEF Init, ProcInit
<1>2. e \in Own
  BY OwnCalls
<1> HIDE DEF e
<1>3. <<e>> \in Seq(Own)
  BY <1>2
<1>4. todo \in Seq(Task) /\ AllHonest(todo)
  BY <1>1, <1>3, OwnHonest
<1>5. <<>> \in Seq(Entry) /\ <<>> \in Seq(ReplyOrReady) /\ <<>> \in Seq(Line) /\ <<>> \in Seq(Cand)
      /\ <<>> \in Seq(Key) /\ <<>> \in Pinyin
  BY EmptySeq DEF Pinyin
<1>6. ProcTypeOK
  <2>1. pending \in Seq(Entry) /\ rbuf \in Seq(ReplyOrReady) /\ failCount \in 0..GiveUpAfter
    BY <1>1, <1>5, GiveUpAssumption DEF ProcInit
  <2>2. inPipe \in Seq(Line) /\ unwritten \in Seq(ReplyOrReady) /\ outPipe \in Seq(ReplyOrReady)
    BY <1>1, <1>5 DEF ProcInit
  <2>3. alive \in BOOLEAN /\ state \in {"dead", "starting", "ready"} /\ gaveUp \in BOOLEAN /\ exited \in BOOLEAN
    BY <1>1 DEF ProcInit
  <2> QED BY <1>4, <2>1, <2>2, <2>3 DEF ProcTypeOK
<1>7. ProcShape /\ Pairing
  BY <1>1 DEF ProcInit, ProcShape, Pairing
<1>8. OwnReply
  BY <1>4, OwnReplyIs
<1>9. SessionTypeOK
  BY <1>1, FreshType DEF SessionInit, SessionTypeOK
<1>10. InputTypeOK /\ PendTypeOK /\ LinkTypeOK /\ WorldTypeOK
  BY <1>1, <1>5 DEF CompositionInit, InputTypeOK, PendTypeOK, LinkTypeOK, WorldTypeOK
<1>11. OutTypeOK
  <2>1. Panel(<<>>, <<>>) \in [preedit: Pinyin, cands: Seq(Cand)]
    BY <1>5 DEF Panel
  <2> QED BY <1>1, <1>5, <2>1 DEF CompositionInit, OutTypeOK
<1> QED BY <1>6, <1>7, <1>8, <1>9, <1>10, <1>11 DEF WInv, TypeOK, ProcInv

\* Nothing happening keeps everything.
LEMMA StutterTypes ==
  ASSUME WInv, UNCHANGED vars
  PROVE  WInv'
<1>1. ProcInv /\ SessionTypeOK /\ InputTypeOK /\ PendTypeOK /\ LinkTypeOK /\ OutTypeOK /\ WorldTypeOK
  BY Inv
<1>2. UNCHANGED procVars /\ UNCHANGED sessionVars /\ UNCHANGED typingVars /\ UNCHANGED worldVars
  BY DEF vars
<1>3. InputTypeOK' /\ PendTypeOK' /\ LinkTypeOK' /\ OutTypeOK' /\ WorldTypeOK' /\ SessionTypeOK'
  BY <1>1, <1>2, Same DEF typingVars, worldVars
<1>4. UNCHANGED <<todo, alive, state, pending, rbuf, failCount, gaveUp, exited, inPipe, unwritten, outPipe>>
  BY <1>2 DEF procVars, addonVars, childVars
<1>5. ProcInv'
  BY <1>1, <1>4 DEF ProcInv, ProcTypeOK, ProcShape, Pairing, Awaited, OnTheWay, LinesOf, Answered, OwnReply
<1> QED BY <1>3, <1>5 DEF WInv, TypeOK, ProcInv

\* Every step keeps the types and the protocol's invariant.
LEMMA NextTypes ==
  ASSUME AsUsed, WInv, [Next]_vars
  PROVE  WInv'
<1>1. CASE UNCHANGED vars
  BY <1>1, StutterTypes
<1>2. CASE CompositionCalls /\ UNCHANGED worldVars
  BY <1>2, CommitTypes, SelectTypes, RequestTypes, EnsureTypes, HandleTypes, RefusedTypes,
     CandidatesTypes, WaitTypes DEF CompositionCalls
<1>3. CASE KeyCalls
  BY <1>3, ClearTypes, KeyCallTypes, QueueTypes, BackTypes, LetterTypes DEF KeyCalls, KeyMakesCalls
<1>4. CASE Callback \/ DestroyMembers
  BY <1>4, CallbackTypes, ContextTypes, DestroyTypes DEF Callback
<1>5. CASE Timers
  BY <1>5, TimerTypes
<1>6. CASE \/ ProcStep \/ ProcEvent(OnReadable) \/ ProcEvent(OnEof) \/ ProcEvent(OnStartTimeout)
           \/ HarnessStep \/ Crash
  BY <1>6, EngineTypes
<1> QED BY <1>1, <1>2, <1>3, <1>4, <1>5, <1>6 DEF Next, AddonCalls

\* The types and the protocol's invariant are inductive for the whole input
\* method: wetype.cpp and run_daemon (jinterop.c) together.
THEOREM WInductive ==
  ASSUME AsUsed
  PROVE  Spec => []WInv
<1>1. Init => WInv
  BY InitTypes
<1>2. WInv /\ [Next]_vars => WInv'
  BY NextTypes
<1> QED BY <1>1, <1>2, PTL DEF Spec

\* Every variable of the input method keeps its type: what keys, replies,
\* deaths and contexts in any order leave in it is what the code says it holds.
THEOREM WeTypeTypeCorrect ==
  ASSUME AsUsed
  PROVE  Spec => []TypeOK
<1>1. WInv => TypeOK
  BY DEF WInv
<1> QED BY <1>1, WInductive, PTL

\* The protocol keeps its promise to its real client: a handler is called with
\* the answer to the line it was sent with, or told of its loss.
THEOREM WeTypeOwnReply ==
  ASSUME AsUsed
  PROVE  Spec => [](Pairing /\ OwnReply /\ ProcShape)
<1>1. WInv => Pairing /\ OwnReply /\ ProcShape
  BY DEF WInv, ProcInv
<1> QED BY <1>1, WInductive, PTL
============================================================================
