----------------------------- MODULE Induction ------------------------------
(***************************************************************************)
(* Induction over numbers and sequences, stated with sets instead of       *)
(* predicates so that the provers can use it, and what it gives: functions *)
(* defined by recursion on a number exist and are what they say.           *)
(***************************************************************************)
EXTENDS Integers, Sequences, SequencesExt, SequenceTheorems, FiniteSetTheorems,
  WellFoundedInduction, TLAPS

(* A set with 0 and all successors has every number: the least number it   *)
(* lacks would have a predecessor in it.                                   *)

LEMMA SetInduction ==
  ASSUME NEW S, 0 \in S, \A n \in Nat : n \in S => n + 1 \in S
  PROVE  Nat \subseteq S
<1> SUFFICES ASSUME Nat \ S # {} PROVE FALSE
  OBVIOUS
<1> DEFINE R == {p \in Nat \X Nat : p[1] < p[2]}
<1>1. IsWellFoundedOn(R, Nat)
  BY NatLessThanWellFounded DEF OpToRel
<1> HIDE DEF R
<1>2. PICK x \in Nat \ S : \A y \in Nat \ S : ~ (<<y, x>> \in R)
  <2>1. Nat \ S \subseteq Nat
    OBVIOUS
  <2> QED  BY <1>1, <2>1, WFMin
<1>3. x # 0 /\ x - 1 \in Nat
  OBVIOUS
<1>4. <<x - 1, x>> \in R
  BY <1>3 DEF R
<1>5. x - 1 \in S
  BY <1>2, <1>3, <1>4
<1>6. (x - 1) + 1 = x
  BY <1>3
<1> QED  BY <1>2, <1>3, <1>5, <1>6

(* A set with the empty sequence and all extensions has every sequence.    *)
LEMMA SeqInduction ==
  ASSUME NEW T, NEW S, <<>> \in S,
         \A s \in Seq(T) : \A e \in T : s \in S => Append(s, e) \in S
  PROVE  Seq(T) \subseteq S
<1> DEFINE N == {n \in Nat : \A s \in Seq(T) : Len(s) = n => s \in S}
<1>1. 0 \in N
  <2>1. \A s \in Seq(T) : Len(s) = 0 => s = <<>>  BY EmptySeq
  <2>2. QED BY <2>1
<1>2. ASSUME NEW n \in Nat, n \in N PROVE n + 1 \in N
  <2> SUFFICES ASSUME NEW s \in Seq(T), Len(s) = n + 1 PROVE s \in S
    OBVIOUS
  <2>1. s # <<>>  BY EmptySeq
  <2>2. PICK t \in Seq(T), e \in T : s = Append(t, e)
    BY <2>1, SequenceEmptyOrAppend
  <2>3. Len(t) = n
    <3>1. Len(s) = Len(t) + 1 /\ Len(t) \in Nat  BY <2>2, AppendProperties, LenProperties
    <3>2. QED BY <3>1
  <2>4. QED BY <1>2, <2>2, <2>3
<1> HIDE DEF N
<1>3. Nat \subseteq N  BY <1>1, <1>2, SetInduction
<1>4. QED
  BY <1>3, LenProperties DEF N

(* What a recursion over 1..n computes stays where each step leaves it.    *)
LEMMA RecursionStays ==
  ASSUME NEW X, NEW n \in Nat, NEW F, F[0] \in X,
         \A i \in 1..n : F[i - 1] \in X => F[i] \in X
  PROVE  \A i \in 0..n : F[i] \in X
<1> DEFINE N == {k \in Nat : k <= n => F[k] \in X}
<1>1. 0 \in N  OBVIOUS
<1>2. ASSUME NEW k \in Nat, k \in N PROVE k + 1 \in N
  <2> SUFFICES ASSUME k + 1 <= n PROVE F[k + 1] \in X  OBVIOUS
  <2>1. F[k] \in X  BY <1>2
  <2>2. k + 1 \in 1..n /\ (k + 1) - 1 = k  OBVIOUS
  <2>3. QED BY <2>1, <2>2
<1> HIDE DEF N
<1>3. Nat \subseteq N  BY <1>1, <1>2, SetInduction
<1>4. QED BY <1>3 DEF N

(* A recursion over 1..n whose steps are the function g has a solution.    *)
LEMMA Recursion ==
  ASSUME NEW X
  PROVE  \A a \in X : \A n \in Nat : \A g \in [1..n -> [X -> X]] :
           \E f \in [0..n -> X] : f[0] = a /\ \A i \in 1..n : f[i] = g[i][f[i - 1]]
<1> SUFFICES ASSUME NEW a \in X, NEW n \in Nat, NEW g \in [1..n -> [X -> X]]
             PROVE  \E f \in [0..n -> X] :
                      f[0] = a /\ \A i \in 1..n : f[i] = g[i][f[i - 1]]
  OBVIOUS
<1> DEFINE Upto(k, f) == f[0] = a /\ \A i \in 1..k : f[i] = g[i][f[i - 1]]
           N == {k \in Nat : k <= n => \E f \in [0..k -> X] : Upto(k, f)}
<1>1. 0 \in N
  <2>1. Upto(0, [i \in 0..0 |-> a])  OBVIOUS
  <2>2. [i \in 0..0 |-> a] \in [0..0 -> X]  OBVIOUS
  <2>3. QED BY <2>1, <2>2
<1>2. ASSUME NEW k \in Nat, k \in N PROVE k + 1 \in N
  <2> SUFFICES ASSUME k + 1 <= n PROVE \E f \in [0..(k+1) -> X] : Upto(k + 1, f)
    OBVIOUS
  <2>1. PICK f \in [0..k -> X] : Upto(k, f)
    BY <1>2
  <2> DEFINE h == [i \in 0..(k+1) |-> IF i = k + 1 THEN g[k + 1][f[k]] ELSE f[i]]
  <2>2. k + 1 \in 1..n /\ f[k] \in X  OBVIOUS
  <2>3. g[k + 1][f[k]] \in X  BY <2>2
  <2>4. h \in [0..(k+1) -> X]  BY <2>3
  <2>5. h[0] = a  BY <2>1
  <2>6. ASSUME NEW i \in 1..(k+1) PROVE h[i] = g[i][h[i - 1]]
    <3>1. h[i - 1] = f[i - 1]  OBVIOUS
    <3>2. CASE i = k + 1
      <4>1. k + 1 \in 0..(k+1) /\ (k + 1) - 1 = k  OBVIOUS
      <4>2. h[k + 1] = g[k + 1][f[k]]  BY <4>1
      <4>3. QED BY <3>1, <3>2, <4>1, <4>2
    <3>3. CASE i # k + 1
      <4>1. i \in 1..k /\ h[i] = f[i]  BY <3>3
      <4>2. f[i] = g[i][f[i - 1]]  BY <2>1, <4>1
      <4>3. QED BY <3>1, <4>1, <4>2
    <3>4. QED BY <3>2, <3>3
  <2>7. Upto(k + 1, h)  BY <2>5, <2>6
  <2>8. QED BY <2>4, <2>7
<1> HIDE DEF N
<1>3. n \in N  BY <1>1, <1>2, SetInduction
<1>4. QED BY <1>3 DEF N

(* The sums of the first terms of a sequence of numbers.                   *)
LEMMA Sums ==
  \A n \in Nat : \A d \in [1..n -> Nat] :
    \E f \in [0..n -> Nat] : f[0] = 0 /\ \A i \in 1..n : f[i] = f[i - 1] + d[i]
<1>1. ASSUME NEW X, \A x : x \in X <=> x \in Nat
      PROVE  \A n \in Nat : \A d \in [1..n -> Nat] :
               \E f \in [0..n -> X] : f[0] = 0 /\ \A i \in 1..n : f[i] = f[i - 1] + d[i]
  <2>1. \A a \in X : \A m \in Nat : \A h \in [1..m -> [X -> X]] :
          \E f \in [0..m -> X] : f[0] = a /\ \A i \in 1..m : f[i] = h[i][f[i - 1]]
    BY Recursion
  <2> TAKE n \in Nat
  <2> TAKE d \in [1..n -> Nat]
  <2> DEFINE g == [i \in 1..n |-> [x \in X |-> x + d[i]]]
  <2>2. \A i \in 1..n, x \in X : x + d[i] \in X
    BY <1>1
  <2>3. g \in [1..n -> [X -> X]]
    BY <2>2
  <2>4. \A i \in 1..n, x \in X : g[i][x] = x + d[i]
    OBVIOUS
  <2>5. 0 \in X
    BY <1>1
  <2> HIDE DEF g
  <2>6. PICK f \in [0..n -> X] : f[0] = 0 /\ \A i \in 1..n : f[i] = g[i][f[i - 1]]
    BY <2>1, <2>3, <2>5, ZenonT(40)
  <2>7. \A i \in 1..n : f[i - 1] \in X
    BY <2>6
  <2> QED  BY <2>4, <2>6, <2>7, ZenonT(40)
<1> QED  BY <1>1, ZenonT(40)

(* Every list of members of X has its joins, one for each of its prefixes. *)
Joins(X) ==
  \A n \in Nat : \A s \in [1..n -> X] :
    \E f \in [0..n -> X] : f[0] = <<>> /\ \A i \in 1..n : f[i] = f[i - 1] \o s[i]

LEMMA Concatenations == \A T, X : X = Seq(T) => Joins(X)
<1>0. SUFFICES ASSUME NEW T, NEW X, X = Seq(T)
               PROVE  \A n \in Nat : \A s \in [1..n -> X] :
                        \E f \in [0..n -> X] :
                          f[0] = <<>> /\ \A i \in 1..n : f[i] = f[i - 1] \o s[i]
  BY DEF Joins
<1>1. \A a \in X : \A m \in Nat : \A h \in [1..m -> [X -> X]] :
        \E f \in [0..m -> X] : f[0] = a /\ \A i \in 1..m : f[i] = h[i][f[i - 1]]
  BY Recursion
<1> TAKE n \in Nat
<1> TAKE s \in [1..n -> X]
<1> DEFINE g == [i \in 1..n |-> [t \in X |-> t \o s[i]]]
<1>2. \A i \in 1..n, t \in X : t \o s[i] \in X
  BY <1>0, ConcatProperties
<1>3. g \in [1..n -> [X -> X]]
  BY <1>2
<1>4. \A i \in 1..n, t \in X : g[i][t] = t \o s[i]
  OBVIOUS
<1>5. <<>> \in X
  BY <1>0, EmptySeq
<1> HIDE DEF g
<1>6. PICK f \in [0..n -> X] : f[0] = <<>> /\ \A i \in 1..n : f[i] = g[i][f[i - 1]]
  BY <1>1, <1>3, <1>5, ZenonT(40)
<1>7. \A i \in 1..n : f[i - 1] \in X
  BY <1>6
<1> QED  BY <1>4, <1>6, <1>7, ZenonT(40)

(* FlattenSeq() of a sequence that is not empty, as a recursion.           *)
LEMMA FlattenRecursion ==
  \A T : \A s \in Seq(Seq(T)) : s # <<>> => \E f :
    /\ FlattenSeq(s) = f[Len(s)] /\ f[1] = s[1]
    /\ \A i \in 2..Len(s) : f[i] = f[i - 1] \o s[i]
<1> TAKE T
<1>a. PICK X : X = Seq(T)
  OBVIOUS
<1>b. Joins(X)
  BY <1>a, Concatenations
<1> SUFFICES ASSUME NEW s \in Seq(X), s # <<>>
             PROVE  \E f : /\ FlattenSeq(s) = f[Len(s)] /\ f[1] = s[1]
                           /\ \A i \in 2..Len(s) : f[i] = f[i - 1] \o s[i]
  BY <1>a
<1> DEFINE n == Len(s)
           Of(F) == [i \in 1..n |-> IF i = 1 THEN s[i] ELSE F[i - 1] \o s[i]]
           K == CHOOSE F : F = Of(F)
<1>0. n \in Nat /\ n # 0 /\ \A i \in 1..n : s[i] \in X
  BY LenProperties, ElementOfSeq, EmptySeq
<1>1. \E F : F = Of(F)
  <2>1. PICK f \in [0..n -> X] :
          f[0] = <<>> /\ \A i \in 1..n : f[i] = f[i - 1] \o s[i]
    <3> DEFINE d == [i \in 1..n |-> s[i]]
    <3>1. d \in [1..n -> X] /\ \A i \in 1..n : d[i] = s[i]
      BY <1>0
    <3> HIDE DEF n, d
    <3>2. PICK f \in [0..n -> X] :
            f[0] = <<>> /\ \A i \in 1..n : f[i] = f[i - 1] \o d[i]
      BY <1>0, <1>b, <3>1 DEF Joins
    <3> QED  BY <3>1, <3>2
  <2>2. f[1] = s[1]
    <3>a. 1 \in 1..n /\ 1 - 1 = 0
      BY <1>0
    <3>1. 1 \in 1..n /\ f[1] = f[0] \o s[1]
      BY <2>1, <3>a
    <3> QED  BY <1>0, <1>a, <2>1, <3>1, ConcatEmptySeq
  <2> DEFINE h == [i \in 1..n |-> f[i]]
  <2>3. \A i \in 1..n : i # 1 => i - 1 \in 1..n
    BY <1>0
  <2>4. \A i \in 1..n : h[i] = IF i = 1 THEN s[i] ELSE h[i - 1] \o s[i]
    BY <2>1, <2>2, <2>3
  <2>5. DOMAIN h = 1..n /\ h = [i \in 1..n |-> h[i]]
    OBVIOUS
  <2> HIDE DEF h
  <2>6. h = Of(h)
    BY <2>4, <2>5, Zenon
  <2> QED  BY <2>6
<1>2. K = Of(K)
  <2> HIDE DEF Of
  <2> QED  BY <1>1
<1>3. FlattenSeq(s) = K[n]
  BY <1>0 DEF FlattenSeq
<1> HIDE DEF K, n
<1>4. \A i \in 1..n : K[i] = IF i = 1 THEN s[i] ELSE K[i - 1] \o s[i]
  BY <1>2, Zenon
<1>5. 1 \in 1..n /\ \A i \in 2..n : i \in 1..n /\ i # 1
  BY <1>0
<1>6. K[1] = s[1] /\ \A i \in 2..n : K[i] = K[i - 1] \o s[i]
  BY <1>4, <1>5
<1> QED  BY <1>3, <1>6 DEF n

LEMMA FlattenNone == FlattenSeq(<<>>) = <<>>
  BY DEF FlattenSeq

(* FlattenSeq() takes its sequences one by one, from either end.          *)
LEMMA FlattenAppend ==
  \A T : \A s \in Seq(Seq(T)) : \A e \in Seq(T) :
    /\ FlattenSeq(s) \in Seq(T)
    /\ FlattenSeq(Append(s, e)) = FlattenSeq(s) \o e
<1> SUFFICES ASSUME NEW T, NEW s \in Seq(Seq(T)), NEW e \in Seq(T)
             PROVE  /\ FlattenSeq(s) \in Seq(T)
                    /\ FlattenSeq(Append(s, e)) = FlattenSeq(s) \o e
  OBVIOUS
<1> DEFINE n == Len(s)
           t == Append(s, e)
<1>1. n \in Nat /\ \A i \in 1..n : s[i] \in Seq(T)
  BY LenProperties, ElementOfSeq
<1>2. /\ t \in Seq(Seq(T)) /\ t # <<>> /\ Len(t) = n + 1 /\ t[n + 1] = e
      /\ \A i \in 1..n : t[i] = s[i]
  BY AppendProperties
<1> HIDE DEF t
<1>3. PICK l : /\ FlattenSeq(t) = l[n + 1] /\ l[1] = t[1]
               /\ \A i \in 2..(n + 1) : l[i] = l[i - 1] \o t[i]
  <2>1. \E f : /\ FlattenSeq(t) = f[Len(t)] /\ f[1] = t[1]
               /\ \A i \in 2..Len(t) : f[i] = f[i - 1] \o t[i]
    BY <1>2, FlattenRecursion, Zenon
  <2> QED  BY <1>2, <2>1
<1>4. CASE s = <<>>
  <2>1. n = 0 /\ FlattenSeq(s) = <<>> /\ <<>> \in Seq(T)
    BY <1>4, FlattenNone, EmptySeq
  <2>2. FlattenSeq(t) = e
    BY <1>2, <1>3, <2>1
  <2> QED  BY <2>1, <2>2, ConcatEmptySeq DEF t
<1>5. CASE s # <<>>
  <2>0. n \in Nat /\ n # 0
    BY <1>1, <1>5, EmptySeq
  <2>1. PICK k : /\ FlattenSeq(s) = k[n] /\ k[1] = s[1]
                 /\ \A i \in 2..n : k[i] = k[i - 1] \o s[i]
    BY <1>5, FlattenRecursion
  <2> HIDE DEF n
  <2> DEFINE N == {m \in Nat : m + 1 <= n => k[m + 1] = l[m + 1] /\ k[m + 1] \in Seq(T)}
  <2>2. 0 \in N
    <3>1. 1 \in 1..n
      BY <2>0
    <3> QED  BY <1>1, <1>2, <1>3, <2>1, <3>1
  <2>3. ASSUME NEW m \in Nat, m \in N PROVE m + 1 \in N
    <3> SUFFICES ASSUME (m + 1) + 1 <= n
                 PROVE  k[(m + 1) + 1] = l[(m + 1) + 1] /\ k[(m + 1) + 1] \in Seq(T)
      OBVIOUS
    <3> DEFINE j == (m + 1) + 1
    <3>1. k[m + 1] = l[m + 1] /\ k[m + 1] \in Seq(T)
      BY <2>0, <2>3
    <3>2. j \in 2..n /\ j \in 2..(n + 1) /\ j \in 1..n /\ j - 1 = m + 1
      BY <2>0
    <3> HIDE DEF j, N
    <3>3. k[j] = k[j - 1] \o s[j] /\ l[j] = l[j - 1] \o t[j] /\ t[j] = s[j] /\ s[j] \in Seq(T)
      BY <1>1, <1>2, <1>3, <2>1, <3>2
    <3>4. k[j - 1] \o s[j] \in Seq(T)
      BY <3>1, <3>2, <3>3, ConcatProperties
    <3>5. k[j] = l[j] /\ k[j] \in Seq(T)
      BY <3>1, <3>2, <3>3, <3>4
    <3> QED  BY <3>5 DEF j
  <2> HIDE DEF N
  <2>4. Nat \subseteq N
    BY <2>2, <2>3, SetInduction
  <2>5. n - 1 \in Nat /\ (n - 1) + 1 = n
    BY <2>0
  <2>6. k[n] = l[n] /\ k[n] \in Seq(T)
    <3>1. n - 1 \in N /\ (n - 1) + 1 <= n
      BY <2>0, <2>4, <2>5
    <3> QED  BY <2>5, <3>1 DEF N
  <2>7. l[n + 1] = l[n] \o e
    <3>1. n + 1 \in 2..(n + 1) /\ (n + 1) - 1 = n
      BY <2>0
    <3> QED  BY <1>2, <1>3, <3>1
  <2> QED  BY <1>3, <2>1, <2>6, <2>7 DEF t
<1> QED  BY <1>4, <1>5

LEMMA JoinsAssociate == \A T : \A a, b, c \in Seq(T) : (a \o b) \o c = a \o (b \o c)
BY ConcatAssociative

LEMMA FlattenHead ==
  \A T : \A s \in Seq(Seq(T)) : \A e \in Seq(T) :
    FlattenSeq(<<e>> \o s) = e \o FlattenSeq(s)
<1> SUFFICES ASSUME NEW T, NEW e \in Seq(T)
             PROVE  \A s \in Seq(Seq(T)) : FlattenSeq(<<e>> \o s) = e \o FlattenSeq(s)
  OBVIOUS
<1> DEFINE S == {s \in Seq(Seq(T)) : FlattenSeq(<<e>> \o s) = e \o FlattenSeq(s)}
<1>1. <<>> \in S
  <2>1. <<>> \in Seq(Seq(T)) /\ <<e>> \o <<>> = Append(<<>>, e) /\ <<>> \o e = e /\ e \o <<>> = e
    BY EmptySeq, ConcatEmptySeq
  <2>2. FlattenSeq(<<e>> \o <<>>) = <<>> \o e
    BY <2>1, FlattenAppend, FlattenNone
  <2> QED  BY <2>1, <2>2, FlattenNone
<1>2. ASSUME NEW s \in Seq(Seq(T)), NEW d \in Seq(T), s \in S PROVE Append(s, d) \in S
  <2>1. <<e>> \o Append(s, d) = Append(<<e>> \o s, d) /\ <<e>> \o s \in Seq(Seq(T))
        /\ Append(s, d) \in Seq(Seq(T))
    BY SMTT(40)
  <2>2. /\ FlattenSeq(<<e>> \o Append(s, d)) = (e \o FlattenSeq(s)) \o d
        /\ FlattenSeq(Append(s, d)) = FlattenSeq(s) \o d /\ FlattenSeq(s) \in Seq(T)
    BY <1>2, <2>1, FlattenAppend, ZenonT(40)
  <2>3. (e \o FlattenSeq(s)) \o d = e \o (FlattenSeq(s) \o d)
    <3> DEFINE f == FlattenSeq(s)
    <3>1. f \in Seq(T)
      BY <2>2
    <3> HIDE DEF f
    <3>2. (e \o f) \o d = e \o (f \o d)
      BY <3>1, JoinsAssociate, SMTT(40)
    <3>3. QED
      BY <3>2 DEF f
  <2> QED  BY <2>1, <2>2, <2>3
<1> HIDE DEF S
<1>3. Seq(Seq(T)) \subseteq S
  BY <1>1, <1>2, SeqInduction
<1> QED  BY <1>3 DEF S

(* Powers of two, by the number of subsets.                               *)
LEMMA PowerOfTwo == 2^0 = 1 /\ \A k \in Nat : 2^k \in Nat \ {0} /\ 2^(k + 1) = 2 * 2^k
<1> DEFINE C(k) == Cardinality(SUBSET (1..k))
<1>1. \A k \in Nat : /\ IsFiniteSet(1..k) /\ Cardinality(1..k) = k
                     /\ C(k) = 2^k /\ IsFiniteSet(SUBSET (1..k)) /\ C(k) \in Nat
  <2> SUFFICES ASSUME NEW k \in Nat
               PROVE  /\ IsFiniteSet(1..k) /\ Cardinality(1..k) = k
                      /\ C(k) = 2^k /\ IsFiniteSet(SUBSET (1..k)) /\ C(k) \in Nat
    OBVIOUS
  <2>1. IsFiniteSet(1..k) /\ Cardinality(1..k) = k
    BY FS_Interval
  <2>2. C(k) = 2^k /\ IsFiniteSet(SUBSET (1..k))
    BY <2>1, FS_SUBSET
  <2> QED  BY <2>1, <2>2, FS_CardinalityType
<1>2. \A k \in Nat : C(k + 1) = 2 * C(k)
  <2> SUFFICES ASSUME NEW k \in Nat PROVE C(k + 1) = 2 * C(k)
    OBVIOUS
  <2> DEFINE S == SUBSET (1..k)
             f == [x \in S |-> x \cup {k + 1}]
             U == {x \cup {k + 1} : x \in S}
  <2>1. f \in Bijection(S, U)
    <3>1. f \in [S -> U] /\ \A y \in U : \E x \in S : f[x] = y
      OBVIOUS
    <3>2. ASSUME NEW x \in S, NEW y \in S, f[x] = f[y] PROVE x = y
      <4>1. k + 1 \notin x /\ k + 1 \notin y /\ x \cup {k + 1} = y \cup {k + 1}
        BY <3>2
      <4> QED  BY <4>1
    <3> HIDE DEF f, U, S
    <3>3. f \in Injection(S, U)
      BY <3>1, <3>2 DEF Injection, IsInjective
    <3>4. f \in Surjection(S, U)
      BY <3>1 DEF Surjection
    <3> QED  BY <3>3, <3>4 DEF Bijection
  <2>2. IsFiniteSet(U) /\ Cardinality(U) = C(k)
    <3>1. ExistsBijection(S, U) /\ IsFiniteSet(S)
      BY <1>1, <2>1 DEF ExistsBijection
    <3> QED  BY <3>1, FS_Bijection
  <2>3. SUBSET (1..(k + 1)) = S \cup U
    <3>1. 1..(k + 1) = (1..k) \cup {k + 1}
      OBVIOUS
    <3>2. ASSUME NEW x \in SUBSET (1..(k + 1)) PROVE x \in S \cup U
      <4>1. CASE k + 1 \in x
        <5>1. x \ {k + 1} \in S /\ x = (x \ {k + 1}) \cup {k + 1}
          BY <3>1, <4>1
        <5> QED  BY <5>1
      <4>2. CASE k + 1 \notin x
        BY <3>1, <4>2
      <4> QED  BY <4>1, <4>2
    <3>3. \A x \in S \cup U : x \in SUBSET (1..(k + 1))
      BY <3>1
    <3> HIDE DEF S, U
    <3> QED  BY <3>2, <3>3
  <2>4. S \cap U = {}
    <3>1. \A x \in S : k + 1 \notin x
      OBVIOUS
    <3> QED  BY <3>1
  <2>5. Cardinality(S) = C(k) /\ IsFiniteSet(S) /\ C(k) \in Nat
    BY <1>1
  <2>6. C(k + 1) = Cardinality(S \cup U)
    BY <2>3
  <2> HIDE DEF S, U, C
  <2>7. Cardinality(S \cup U) = C(k) + C(k) - Cardinality({})
    BY <2>2, <2>4, <2>5, FS_Union
  <2> QED  BY <2>5, <2>6, <2>7, FS_EmptySet
<1>3. 2^0 = 1
  <2>1. 1..0 = {} /\ SUBSET {} = {{}}
    OBVIOUS
  <2>2. C(0) = 1
    BY <2>1, FS_Singleton
  <2> QED  BY <1>1, <2>2
<1>4. \A k \in Nat : 2^k # 0
  <2>1. \A k \in Nat : {} \in SUBSET (1..k)
    OBVIOUS
  <2> TAKE k \in Nat
  <2>2. IsFiniteSet(SUBSET (1..k)) /\ SUBSET (1..k) # {} /\ C(k) = 2^k
    BY <1>1, <2>1
  <2> QED  BY <2>2, FS_EmptySet
<1> HIDE DEF C
<1>5. \A k \in Nat : 2^(k + 1) = 2 * 2^k
  <2> TAKE k \in Nat
  <2>1. k + 1 \in Nat
    OBVIOUS
  <2>2. C(k) = 2^k
    BY <1>1
  <2>3. C(k + 1) = 2^(k + 1)
    BY <1>1, <2>1
  <2> QED  BY <1>2, <2>2, <2>3
<1> QED  BY <1>1, <1>3, <1>4, <1>5
=============================================================================
