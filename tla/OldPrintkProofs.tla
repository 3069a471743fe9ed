-------------------------- MODULE OldPrintkProofs ---------------------------
(***************************************************************************)
(* The printk() that is not built, for every width of a word, every size   *)
(* of the buffer that holds a word's digits, and every set of messages     *)
(* whose formats fit their arguments.                                      *)
(***************************************************************************)
EXTENDS OldPrintk, Induction, TLAPS

WordValues == 0..(2^WordBits - 1)

LEMMA SomeBits == /\ WordBits \in Nat \ {0} /\ BufSize \in Nat /\ BufSize > 9
                  /\ 2^WordBits \in Nat \ {0} /\ 2^(WordBits - 1) \in Nat \ {0}
<1>1. WordBits \in Nat \ {0} /\ BufSize \in Nat /\ BufSize > 9 /\ WordBits - 1 \in Nat
  BY BufferAssumption
<1> QED  BY <1>1, PowerOfTwo

LEMMA DivisionIs == 
  ASSUME NEW a \in Nat, NEW b \in Nat \ {0}
  PROVE  a \div b \in Nat /\ a % b \in 0..(b - 1) /\ a \div b <= a
<1>1. \E q \in Int, m \in 0..(b - 1) : q = a \div b /\ m = a % b /\ a = b * q + m
  OBVIOUS
<1>2. PICK q \in Int, m \in 0..(b - 1) : q = a \div b /\ m = a % b /\ a = b * q + m
  BY <1>1
<1>3. \A x \in Nat : x = 0 \/ b * x >= x
  OBVIOUS
<1>4. q >= 0
  <2>1. ASSUME q < 0 PROVE FALSE
    <3>1. PICK x \in Nat : q = -1 - x
      <4>1. -1 - q \in Nat /\ q = -1 - (-1 - q)
        BY <2>1
      <4> QED  BY <4>1
    <3>2. b * (-1 - x) = -b - b * x /\ b * x \in Nat
      OBVIOUS
    <3> QED  BY <1>2, <3>1, <3>2
  <2> QED  BY <2>1
<1>5. q \in Nat
  BY <1>4
<1> QED  BY <1>2, <1>3, <1>5

(* What is left of a value after each division.                            *)
LEMMA LeftIs ==
  \A v \in Nat : \A b \in Nat \ {0} :
    /\ Left(v, b)[0] = v
    /\ \A k \in 1..WordBits : Left(v, b)[k] = Left(v, b)[k - 1] \div b
    /\ \A k \in 0..WordBits : Left(v, b)[k] \in Nat
<1>a. PICK X : X = Nat
  OBVIOUS
<1>b. \A a \in X : \A m \in Nat : \A h \in [1..m -> [X -> X]] :
        \E f \in [0..m -> X] : f[0] = a /\ \A i \in 1..m : f[i] = h[i][f[i - 1]]
  BY Recursion
<1> TAKE v \in Nat
<1> TAKE b \in Nat \ {0}
<1>0. PICK n \in Nat : n = WordBits
  BY SomeBits
<1> DEFINE Of(F) == [k \in 0..WordBits |-> IF k = 0 THEN v ELSE F[k - 1] \div b]
           K == CHOOSE F : F = Of(F)
<1>1. \E F : F = Of(F)
  <2> DEFINE g == [j \in 1..n |-> [x \in X |-> x \div b]]
  <2>1. \A x \in X : x \div b \in X
    BY <1>a, DivisionIs
  <2>2. g \in [1..n -> [X -> X]]
    BY <2>1
  <2>3. \A j \in 1..n, x \in X : g[j][x] = x \div b
    OBVIOUS
  <2> HIDE DEF g
  <2>4. PICK f \in [0..n -> X] : f[0] = v /\ \A i \in 1..n : f[i] = g[i][f[i - 1]]
    <3>1. v \in X
      BY <1>a
    <3> QED  BY <1>b, <2>2, <3>1
  <2>5. \A i \in 1..n : f[i - 1] \in X
    BY <2>4
  <2>6. \A i \in 0..n : f[i] = IF i = 0 THEN v ELSE f[i - 1] \div b
    <3>1. \A i \in 0..n : i = 0 \/ (i \in 1..n /\ i # 0)
      OBVIOUS
    <3>2. \A i \in 1..n : f[i] = f[i - 1] \div b
      BY <2>3, <2>4, <2>5
    <3> QED  BY <2>4, <3>1, <3>2, Zenon
  <2>7. f = [i \in 0..n |-> f[i]]
    BY <2>4
  <2>8. f = Of(f)
    BY <1>0, <2>6, <2>7, Zenon
  <2> QED  BY <2>8
<1>2. K = Of(K)
  <2> HIDE DEF Of
  <2> QED  BY <1>1
<1>3. Left(v, b) = K
  BY DEF Left
<1> HIDE DEF K
<1>4. \A k \in 0..WordBits : K[k] = IF k = 0 THEN v ELSE K[k - 1] \div b
  BY <1>2, Zenon
<1>5. 0 \in 0..n /\ \A k \in 1..n : k \in 0..n /\ k # 0
  OBVIOUS
<1>6. K[0] = v /\ \A k \in 1..n : K[k] = K[k - 1] \div b
  BY <1>0, <1>4, <1>5, Zenon
<1>7. \A k \in 0..n : K[k] \in X
  <2>1. \A k \in 1..n : K[k - 1] \in X => K[k] \in X
    BY <1>6, <1>a, DivisionIs
  <2>2. K[0] \in X
    BY <1>6, <1>a
  <2> QED  BY <2>1, <2>2, RecursionStays
<1> QED  BY <1>0, <1>3, <1>6, <1>7, <1>a

LEMMA NoBitLeft ==
  \A v \in WordValues : \A b \in {10, 16} : Left(v, b)[WordBits] = 0
<1> TAKE v \in WordValues
<1> TAKE b \in {10, 16}
<1>0. PICK n \in Nat \ {0} : n = WordBits
  BY SomeBits
<1>1. v \in Nat /\ b \in Nat \ {0} /\ v < 2^n
  BY <1>0, SomeBits DEF WordValues
<1> DEFINE L == Left(v, b)
<1>2. L[0] = v /\ (\A k \in 1..n : L[k] = L[k - 1] \div b) /\ \A k \in 0..n : L[k] \in Nat
  BY <1>0, <1>1, LeftIs
<1> HIDE DEF L
<1> DEFINE N == {k \in Nat : k <= n => L[k] < 2^(n - k)}
<1>3. 0 \in N
  <2>1. n - 0 = n
    OBVIOUS
  <2> QED  BY <1>1, <1>2, <2>1
<1>4. ASSUME NEW k \in Nat, k \in N PROVE k + 1 \in N
  <2> SUFFICES ASSUME k + 1 <= n PROVE L[k + 1] < 2^(n - (k + 1))
    OBVIOUS
  <2>1. PICK j \in Nat : j = n - (k + 1) /\ n - k = j + 1
    <3>1. n - (k + 1) \in Nat /\ n - k = n - (k + 1) + 1
      OBVIOUS
    <3> QED  BY <3>1
  <2>2. PICK p \in Nat \ {0} : p = 2^j
    BY PowerOfTwo
  <2>3. PICK x \in Nat : x = L[k]
    BY <1>2
  <2>4. L[k] < 2^(j + 1) /\ 2^(j + 1) = 2 * 2^j
    BY <1>4, <2>1, PowerOfTwo
  <2>5. x < 2 * p
    BY <2>2, <2>3, <2>4
  <2>6. L[k + 1] = x \div b
    <3>1. k + 1 \in 1..n /\ (k + 1) - 1 = k
      OBVIOUS
    <3> QED  BY <1>2, <2>3, <3>1
  <2>7. x \div 10 < p /\ x \div 16 < p
    BY <2>5
  <2> QED  BY <2>1, <2>2, <2>6, <2>7
<1> HIDE DEF N
<1>5. Nat \subseteq N
  BY <1>3, <1>4, SetInduction
<1>6. L[n] < 2^(n - n) /\ n - n = 0
  <2>1. n \in N /\ n <= n /\ n - n = 0
    BY <1>5
  <2> QED  BY <2>1 DEF N
<1>7. L[n] < 1 /\ L[n] \in Nat
  BY <1>2, <1>6, PowerOfTwo
<1> QED  BY <1>0, <1>7 DEF L

(* Smaller values and larger bases leave less, and once nothing is left    *)
(* nothing ever is.                                                        *)
LEMMA LessLeft ==
  \A u, v \in Nat : \A b \in {10, 16} :
    u <= v => \A k \in 0..WordBits : Left(u, b)[k] <= Left(v, 10)[k]
<1> SUFFICES ASSUME NEW u \in Nat, NEW v \in Nat, NEW b \in {10, 16}, u <= v
             PROVE  \A k \in 0..WordBits : Left(u, b)[k] <= Left(v, 10)[k]
  OBVIOUS
<1>0. PICK n \in Nat \ {0} : n = WordBits
  BY SomeBits
<1> DEFINE L == Left(u, b)
           M == Left(v, 10)
<1>1. L[0] = u /\ (\A k \in 1..n : L[k] = L[k - 1] \div b) /\ \A k \in 0..n : L[k] \in Nat
  BY <1>0, LeftIs
<1>2. M[0] = v /\ (\A k \in 1..n : M[k] = M[k - 1] \div 10) /\ \A k \in 0..n : M[k] \in Nat
  BY <1>0, LeftIs
<1> HIDE DEF L, M
<1> DEFINE N == {k \in Nat : k <= n => L[k] <= M[k]}
<1>3. 0 \in N
  BY <1>1, <1>2
<1>4. ASSUME NEW k \in Nat, k \in N PROVE k + 1 \in N
  <2> SUFFICES ASSUME k + 1 <= n PROVE L[k + 1] <= M[k + 1]
    OBVIOUS
  <2>1. PICK x \in Nat : x = L[k]
    BY <1>1
  <2>2. PICK y \in Nat : y = M[k] /\ x <= y
    BY <1>2, <1>4, <2>1
  <2>3. k + 1 \in 1..n /\ (k + 1) - 1 = k
    OBVIOUS
  <2>4. L[k + 1] = x \div b /\ M[k + 1] = y \div 10
    BY <1>1, <1>2, <2>1, <2>2, <2>3
  <2>5. x \div 10 <= y \div 10 /\ x \div 16 <= y \div 10
    BY <2>2
  <2> QED  BY <2>4, <2>5
<1> HIDE DEF N
<1>5. Nat \subseteq N
  BY <1>3, <1>4, SetInduction
<1> QED  BY <1>0, <1>5 DEF N, L, M

LEMMA NothingLeft ==
  \A v \in Nat : \A b \in {10, 16} : \A k \in 0..WordBits :
    Left(v, b)[k] = 0 => \A l \in k..WordBits : Left(v, b)[l] = 0
<1> SUFFICES ASSUME NEW v \in Nat, NEW b \in {10, 16}, NEW k \in 0..WordBits, Left(v, b)[k] = 0
             PROVE  \A l \in k..WordBits : Left(v, b)[l] = 0
  OBVIOUS
<1>0. PICK n \in Nat \ {0} : n = WordBits
  BY SomeBits
<1> DEFINE L == Left(v, b)
<1>1. (\A l \in 1..n : L[l] = L[l - 1] \div b) /\ L[k] = 0
  BY <1>0, LeftIs
<1> HIDE DEF L
<1> DEFINE N == {d \in Nat : k + d <= n => L[k + d] = 0}
<1>2. 0 \in N
  BY <1>0, <1>1
<1>3. ASSUME NEW d \in Nat, d \in N PROVE d + 1 \in N
  <2> SUFFICES ASSUME k + (d + 1) <= n PROVE L[k + (d + 1)] = 0
    OBVIOUS
  <2>1. k + (d + 1) \in 1..n /\ (k + (d + 1)) - 1 = k + d /\ k + d <= n
    BY <1>0
  <2>2. L[k + (d + 1)] = 0 \div b
    BY <1>1, <1>3, <2>1
  <2> QED  BY <2>2
<1> HIDE DEF N
<1>4. Nat \subseteq N
  BY <1>2, <1>3, SetInduction
<1>5. \A l \in k..n : l - k \in Nat /\ k + (l - k) = l /\ l <= n
  BY <1>0
<1>6. \A l \in k..n : L[l] = 0
  BY <1>4, <1>5 DEF N
<1> QED  BY <1>0, <1>6 DEF L

ZerosBefore(s, z) ==
  [k \in 1..(IF Len(s) < z THEN z ELSE Len(s)) |->
     IF Len(s) < z /\ k <= z - Len(s) THEN "0" ELSE s[k - (IF Len(s) < z THEN z - Len(s) ELSE 0)]]

Glyphs == ToSet(DigitChars)

LEMMA GlyphsAre == /\ Glyphs = {DigitChars[k] : k \in 1..16} /\ "0" \in Glyphs
                   /\ {"%", NUL} \cap Glyphs = {}
<1>1. DOMAIN DigitChars = 1..16
  BY DEF DigitChars
<1>2. Glyphs = {DigitChars[k] : k \in 1..16}
  BY <1>1 DEF Glyphs, ToSet
<1>3. \A k \in 1..16 : DigitChars[k] \notin {"%", NUL}
  <2>1. \A k \in 1..16 : k = 1 \/ k = 2 \/ k = 3 \/ k = 4 \/ k = 5 \/ k = 6 \/ k = 7 \/ k = 8
         \/ k = 9 \/ k = 10 \/ k = 11 \/ k = 12 \/ k = 13 \/ k = 14 \/ k = 15 \/ k = 16
    OBVIOUS
  <2> QED  BY <2>1 DEF DigitChars, NUL
<1>4. DigitChars[1] = "0" /\ 1 \in 1..16
  BY DEF DigitChars
<1> QED  BY <1>2, <1>3, <1>4

LEMMA DigitsAre ==
  \A v \in WordValues : \A b \in {10, 16} :
    \E s \in Seq(Glyphs) :
      /\ s = Digits(v, b, 0) /\ Len(s) \in 1..(BufSize - 1)
      /\ \A z \in Nat : Digits(v, b, z) = ZerosBefore(s, z)
<1> TAKE v \in WordValues
<1> TAKE b \in {10, 16}
<1>0. PICK n \in Nat \ {0} : n = WordBits
  BY SomeBits
<1>1. v \in Nat /\ 2^WordBits - 1 \in Nat /\ v <= 2^WordBits - 1
  BY SomeBits DEF WordValues
<1> DEFINE L == Left(v, b)
           Is(k) == L[k] = 0 /\ (k = 1 \/ L[k - 1] # 0)
           len == CHOOSE k \in 1..WordBits : Is(k)
<1>2. (\A k \in 0..n : L[k] \in Nat) /\ L[n] = 0
      /\ \A k \in 0..n : L[k] = 0 => \A l \in k..n : L[l] = 0
  BY <1>0, <1>1, LeftIs, NoBitLeft, NothingLeft
<1>3. BufSize <= n => L[BufSize - 1] = 0
  <2> SUFFICES ASSUME BufSize <= n PROVE L[BufSize - 1] = 0
    OBVIOUS
  <2>1. BufSize - 1 \in 0..n /\ Left(2^WordBits - 1, 10)[BufSize - 1] = 0
    BY <1>0, BufferAssumption
  <2>2. L[BufSize - 1] <= 0
    BY <1>0, <1>1, <2>1, LessLeft
  <2> QED  BY <1>2, <2>1, <2>2
<1> DEFINE digit(k) == DigitChars[(L[k] % b) + 1]
<1>5. \A k \in 0..n : digit(k) \in Glyphs
  <2> TAKE k \in 0..n
  <2>1. PICK x \in Nat : x = L[k]
    BY <1>2
  <2>2. (x % 10) + 1 \in 1..16 /\ (x % 16) + 1 \in 1..16
    OBVIOUS
  <2> QED  BY <2>1, <2>2, GlyphsAre
<1>6. \A z : Digits(v, b, z) =
        [k \in 1..(IF len < z THEN z ELSE len) |->
           IF (IF len < z THEN z ELSE len) - k < len
           THEN digit((IF len < z THEN z ELSE len) - k) ELSE "0"]
  BY DEF Digits
<1> HIDE DEF L
<1>4. \E k \in 1..n : Is(k)
  <2> SUFFICES ASSUME \A k \in 1..n : ~Is(k) PROVE FALSE
    OBVIOUS
  <2> DEFINE N == {k \in Nat : k + 1 <= n => L[k + 1] # 0}
  <2>1. 0 \in N
    BY <1>0
  <2>2. ASSUME NEW k \in Nat, k \in N PROVE k + 1 \in N
    <3> SUFFICES ASSUME (k + 1) + 1 <= n PROVE L[(k + 1) + 1] # 0
      OBVIOUS
    <3>1. (k + 1) + 1 \in 1..n /\ ((k + 1) + 1) - 1 = k + 1 /\ k + 1 <= n
      OBVIOUS
    <3> QED  BY <2>2, <3>1
  <2> HIDE DEF N
  <2>3. Nat \subseteq N
    BY <2>1, <2>2, SetInduction
  <2>4. n - 1 \in N /\ (n - 1) + 1 = n
    BY <2>3
  <2> QED  BY <1>2, <2>4 DEF N
<1>7. len \in 1..n /\ L[len] = 0 /\ (len = 1 \/ L[len - 1] # 0)
  BY <1>0, <1>4
<1> HIDE DEF len
<1>8. PICK m \in 1..n : m = len /\ m < BufSize
  <2>1. ASSUME len >= BufSize PROVE FALSE
    <3>1. BufSize \in Nat /\ BufSize > 9 /\ len - 1 \in (BufSize - 1)..n /\ BufSize <= n
          /\ BufSize - 1 \in 0..n
      BY <1>7, <2>1, SomeBits
    <3> QED  BY <1>2, <1>3, <1>7, <2>1, <3>1
  <2> QED  BY <1>7, <2>1, SomeBits
<1> DEFINE s == [k \in 1..m |-> digit(m - k)]
<1> HIDE DEF digit
<1>9. s \in Seq(Glyphs) /\ Len(s) = m
  <2>1. \A k \in 1..m : digit(m - k) \in Glyphs
    <3>1. \A k \in 1..m : m - k \in 0..n
      OBVIOUS
    <3> QED  BY <1>5, <3>1
  <2> QED  BY <2>1
<1>10. ASSUME NEW z \in Nat PROVE Digits(v, b, z) = ZerosBefore(s, z)
  <2> DEFINE t == IF m < z THEN z ELSE m
  <2>1. t \in Nat /\ t >= m /\ t - m = IF m < z THEN z - m ELSE 0
    OBVIOUS
  <2>2. Digits(v, b, z) = [k \in 1..t |-> IF t - k < m THEN digit(t - k) ELSE "0"]
    BY <1>6, <1>8
  <2>3. ZerosBefore(s, z) = [k \in 1..t |-> IF m < z /\ k <= z - m THEN "0"
                                  ELSE s[k - (IF m < z THEN z - m ELSE 0)]]
    BY <1>9 DEF ZerosBefore
  <2>4. \A k \in 1..t : (IF t - k < m THEN digit(t - k) ELSE "0")
                       = (IF m < z /\ k <= z - m THEN "0"
                                  ELSE s[k - (IF m < z THEN z - m ELSE 0)])
    <3> TAKE k \in 1..t
    <3>1. CASE m < z
      <4>1. CASE k <= z - m
        BY <3>1, <4>1
      <4>2. CASE ~ (k <= z - m)
        <5>1. k - (z - m) \in 1..m /\ m - (k - (z - m)) = t - k /\ t - k < m
          BY <3>1, <4>2
        <5>2. s[k - (z - m)] = digit(m - (k - (z - m)))
          BY <5>1
        <5> QED  BY <3>1, <4>2, <5>1, <5>2
      <4> QED  BY <4>1, <4>2
    <3>2. CASE ~ (m < z)
      <4>1. k - 0 = k /\ k \in 1..m /\ t = m /\ t - k < m
        BY <3>2
      <4> QED  BY <3>2, <4>1
    <3> QED  BY <3>1, <3>2
  <2> QED  BY <2>2, <2>3, <2>4
<1>11. s = Digits(v, b, 0)
  <2>1. Digits(v, b, 0) = [k \in 1..m |-> IF m - k < m THEN digit(m - k) ELSE "0"]
    BY <1>6, <1>8
  <2>2. \A k \in 1..m : m - k < m
    OBVIOUS
  <2> QED  BY <2>1, <2>2
<1>12. Len(s) \in 1..(BufSize - 1)
  BY <1>8, <1>9, SomeBits
<1> QED  BY <1>9, <1>10, <1>11, <1>12

LEMMA ZerosStay ==
  \A s \in Seq(Glyphs) : \A z \in Nat :
    /\ ZerosBefore(s, z) \in Seq(Glyphs)
    /\ Len(ZerosBefore(s, z)) = IF Len(s) < z THEN z ELSE Len(s)
    /\ Len(s) >= z => ZerosBefore(s, z) = s
<1> TAKE s \in Seq(Glyphs)
<1> TAKE z \in Nat
<1> DEFINE t == IF Len(s) < z THEN z ELSE Len(s)
           g(k) == IF Len(s) < z /\ k <= z - Len(s) THEN "0"
                   ELSE s[k - (IF Len(s) < z THEN z - Len(s) ELSE 0)]
<1>0. Len(s) \in Nat /\ t \in Nat /\ \A k \in 1..Len(s) : s[k] \in Glyphs
  OBVIOUS
<1>1. \A k \in 1..t : g(k) \in Glyphs
  <2>0. "0" \in Glyphs
    BY GlyphsAre
  <2>1. CASE Len(s) < z
    <3> TAKE k \in 1..t
    <3>1. CASE k <= z - Len(s)
      BY <2>0, <2>1, <3>1
    <3>2. CASE ~(k <= z - Len(s))
      <4>1. k - (z - Len(s)) \in 1..Len(s)
        BY <1>0, <2>1, <3>2
      <4> QED  BY <1>0, <2>1, <3>2, <4>1
    <3> QED  BY <3>1, <3>2
  <2>2. CASE ~(Len(s) < z)
    <3>1. \A k \in 1..t : k \in 1..Len(s) /\ g(k) = s[k]
      BY <1>0, <2>2
    <3> QED  BY <1>0, <3>1
  <2> QED  BY <2>1, <2>2
<1>2. ZerosBefore(s, z) = [k \in 1..t |-> g(k)]
  BY DEF ZerosBefore
<1>3. Len(s) >= z => \A k \in 1..t : g(k) = s[k]
  BY <1>0
<1> HIDE DEF g
<1>4. ZerosBefore(s, z) \in Seq(Glyphs) /\ Len(ZerosBefore(s, z)) = t
  BY <1>0, <1>1, <1>2
<1>5. Len(s) >= z => ZerosBefore(s, z) = s
  BY <1>0, <1>2, <1>3
<1> QED  BY <1>4, <1>5

(* The buffer with a string in it, and the string in a buffer.             *)
Buffer(s) == [k \in 0..(BufSize - 1) |-> IF k < Len(s) THEN s[k + 1] ELSE NUL]

LEMMA StringInBuffer ==
  \A s \in Seq(Glyphs) : Len(s) < BufSize => Str(Buffer(s)) = s
<1> SUFFICES ASSUME NEW s \in Seq(Glyphs), Len(s) < BufSize PROVE Str(Buffer(s)) = s
  OBVIOUS
<1> DEFINE b == Buffer(s)
           Is(k) == b[k] = NUL /\ \A l \in 0..(k - 1) : b[l] # NUL
           m == CHOOSE k \in DOMAIN b : Is(k)
<1>0. BufSize \in Nat /\ Len(s) \in Nat /\ \A k \in 1..Len(s) : s[k] \in Glyphs
  BY SomeBits
<1>1. BufSize \in Nat /\ Len(s) \in Nat /\ \A k \in 1..Len(s) : s[k] \in Glyphs /\ s[k] # NUL
  BY <1>0, GlyphsAre
<1>2. DOMAIN b = 0..(BufSize - 1) /\ \A k \in 0..(BufSize - 1) : b[k] = IF k < Len(s) THEN s[k + 1] ELSE NUL
  BY DEF Buffer
<1> HIDE DEF b
<1>3. Is(Len(s)) /\ Len(s) \in DOMAIN b
  BY <1>1, <1>2
<1>4. m \in DOMAIN b /\ Is(m)
  BY <1>3
<1> HIDE DEF m
<1>5. m = Len(s)
  <2>1. m \in Nat /\ m < BufSize
    BY <1>1, <1>2, <1>4
  <2>2. ~ (m < Len(s))
    BY <1>1, <1>2, <1>4, <2>1
  <2>3. ~ (m > Len(s))
    <3>1. ASSUME m > Len(s) PROVE FALSE
      <4>1. Len(s) \in 0..(m - 1)
        BY <1>1, <2>1, <3>1
      <4> QED  BY <1>3, <1>4, <4>1
    <3> QED  BY <3>1
  <2> QED  BY <1>1, <2>1, <2>2, <2>3
<1>6. Str(b) = [k \in 1..m |-> b[k - 1]]
  BY DEF Str, m
<1>7. \A k \in 1..Len(s) : b[k - 1] = s[k]
  BY <1>1, <1>2
<1>8. s = [k \in 1..Len(s) |-> s[k]]
  OBVIOUS
<1>9. Str(b) = s
  BY <1>5, <1>6, <1>7, <1>8
<1> QED  BY <1>9 DEF b

(* The buffer on the way from s to s with zeros in front: above i it is as *)
(* it will be, from i on down as it was, and j is where the digit for i is. *)
Moving(s, z, i) ==
  [k \in 0..(BufSize - 1) |-> IF k > i THEN Buffer(ZerosBefore(s, z))[k] ELSE Buffer(s)[k]]

Holds(b, i, j, s, z) ==
  /\ Len(s) \in 1..(BufSize - 1) /\ i \in -1..(BufSize - 1) /\ j \in -BufSize..(BufSize - 1)
  /\ i >= 0 => Len(s) < z /\ i <= z /\ j = i - (z - Len(s))
  /\ b = Moving(s, z, i)

LEMMA BufferIs ==
  \A s \in Seq(Glyphs) :
    /\ DOMAIN Buffer(s) = 0..(BufSize - 1)
    /\ \A k \in 0..(BufSize - 1) : Buffer(s)[k] = IF k < Len(s) THEN s[k + 1] ELSE NUL
  BY DEF Buffer

LEMMA HoldsFirst ==
  \A s \in Seq(Glyphs) : \A z \in 0..9 :
    Len(s) \in 1..(BufSize - 1) =>
      Holds(Buffer(s), IF Len(s) < z THEN z ELSE -1, IF Len(s) < z THEN Len(s) ELSE -1, s, z)
<1> SUFFICES ASSUME NEW s \in Seq(Glyphs), NEW z \in 0..9, Len(s) \in 1..(BufSize - 1)
             PROVE  Holds(Buffer(s), IF Len(s) < z THEN z ELSE -1,
                          IF Len(s) < z THEN Len(s) ELSE -1, s, z)
  OBVIOUS
<1> DEFINE y == ZerosBefore(s, z)
           i == IF Len(s) < z THEN z ELSE -1
<1>1. BufSize \in Nat /\ BufSize > 9 /\ Len(s) \in Nat
  BY SomeBits
<1>2. y \in Seq(Glyphs) /\ Len(y) = (IF Len(s) < z THEN z ELSE Len(s)) /\ (Len(s) >= z => y = s)
  BY ZerosStay
<1> HIDE DEF y
<1>3. \A k \in 0..(BufSize - 1) : k > i => Buffer(y)[k] = Buffer(s)[k]
  BY <1>1, <1>2, BufferIs
<1>4. Buffer(s) = [k \in 0..(BufSize - 1) |-> Buffer(s)[k]]
  BY BufferIs DEF Buffer
<1>5. Buffer(s) = [k \in 0..(BufSize - 1) |-> IF k > i THEN Buffer(y)[k] ELSE Buffer(s)[k]]
  BY <1>3, <1>4
<1>6. Buffer(s) = Moving(s, z, i)
  BY <1>5 DEF Moving, y
<1> QED  BY <1>1, <1>6 DEF Holds

LEMMA HoldsNext ==
  ASSUME NEW s \in Seq(Glyphs), NEW z \in 0..9, NEW b, NEW i, NEW j, Holds(b, i, j, s, z), i >= 0
  PROVE  Holds([b EXCEPT ![i] = IF j >= 0 THEN b[j] ELSE "0"], i - 1, j - 1, s, z)
<1> DEFINE y == ZerosBefore(s, z)
           x == IF j >= 0 THEN b[j] ELSE "0"
<1>1. BufSize \in Nat /\ BufSize > 9 /\ Len(s) \in Nat /\ i \in 0..(BufSize - 1) /\ i <= z
      /\ Len(s) < z /\ Len(s) >= 1 /\ j = i - (z - Len(s)) /\ j < i /\ b = Moving(s, z, i)
  BY SomeBits DEF Holds
<1>2. y \in Seq(Glyphs) /\ Len(y) = z
  BY <1>1, ZerosStay
<1>3. \A k \in 1..z : y[k] = IF k <= z - Len(s) THEN "0" ELSE s[k - (z - Len(s))]
  BY <1>1 DEF ZerosBefore
<1>4. /\ DOMAIN b = 0..(BufSize - 1)
      /\ \A k \in 0..(BufSize - 1) : b[k] = IF k > i THEN Buffer(y)[k] ELSE Buffer(s)[k]
  BY <1>1 DEF Moving
<1> HIDE DEF y
<1>5. x = Buffer(y)[i]
  <2>1. CASE i = z
    <3>1. Buffer(y)[i] = NUL /\ j = Len(s) /\ b[j] = Buffer(s)[j] /\ Buffer(s)[j] = NUL
      BY <1>1, <1>2, <1>4, <2>1, BufferIs
    <3> QED  BY <1>1, <3>1
  <2>2. CASE i < z /\ j < 0
    <3>1. Buffer(y)[i] = y[i + 1] /\ i + 1 \in 1..z /\ i + 1 <= z - Len(s)
          /\ ~ (j >= 0)
      BY <1>1, <1>2, <2>2, BufferIs
    <3>2. y[i + 1] = "0"
      BY <1>3, <3>1
    <3> QED  BY <3>1, <3>2
  <2>3. CASE i < z /\ j >= 0
    <3>1. /\ Buffer(y)[i] = y[i + 1] /\ i + 1 \in 1..z /\ ~ (i + 1 <= z - Len(s))
          /\ (i + 1) - (z - Len(s)) = j + 1 /\ j < Len(s) /\ j \in 0..(BufSize - 1)
      BY <1>1, <1>2, <2>3, BufferIs, SMTT(40)
    <3>2. b[j] = Buffer(s)[j] /\ Buffer(s)[j] = s[j + 1]
      BY <1>1, <1>4, <3>1, BufferIs
    <3> QED  BY <1>3, <2>3, <3>1, <3>2
  <2> QED  BY <1>1, <2>1, <2>2, <2>3
<1> HIDE DEF x
<1>6. [b EXCEPT ![i] = x] = Moving(s, z, i - 1)
  <2>1. \A k \in 0..(BufSize - 1) :
          [b EXCEPT ![i] = x][k] = IF k > i - 1 THEN Buffer(y)[k] ELSE Buffer(s)[k]
    BY <1>1, <1>4, <1>5
  <2>2. [b EXCEPT ![i] = x] = [k \in 0..(BufSize - 1) |-> [b EXCEPT ![i] = x][k]]
    BY <1>4
  <2>3. [b EXCEPT ![i] = x]
          = [k \in 0..(BufSize - 1) |-> IF k > i - 1 THEN Buffer(y)[k] ELSE Buffer(s)[k]]
    BY <2>1, <2>2, Zenon
  <2> QED  BY <2>3 DEF Moving, y
<1>7. i - 1 \in -1..(BufSize - 1) /\ j - 1 \in -BufSize..(BufSize - 1)
      /\ i - 1 <= z /\ j - 1 = (i - 1) - (z - Len(s)) /\ Len(s) \in 1..(BufSize - 1)
  BY <1>1 DEF Holds
<1> QED  BY <1>1, <1>6, <1>7 DEF Holds, x

LEMMA HoldsLast ==
  ASSUME NEW s \in Seq(Glyphs), NEW z \in 0..9, NEW b, NEW i, NEW j, Holds(b, i, j, s, z), ~ (i >= 0)
  PROVE  Str(b) = ZerosBefore(s, z)
<1> DEFINE y == ZerosBefore(s, z)
<1>1. BufSize \in Nat /\ BufSize > 9 /\ i = -1 /\ b = Moving(s, z, i) /\ Len(s) < BufSize
  BY SomeBits DEF Holds
<1>2. y \in Seq(Glyphs) /\ Len(y) < BufSize
  BY <1>1, ZerosStay
<1>3. b = [k \in 0..(BufSize - 1) |-> Buffer(y)[k]]
  <2>1. \A k \in 0..(BufSize - 1) : k > i
    BY <1>1
  <2> QED  BY <1>1, <2>1 DEF Moving
<1> HIDE DEF y
<1>4. b = Buffer(y)
  BY <1>3, BufferIs, <1>2 DEF Buffer
<1>5. Str(b) = y
  BY <1>2, <1>4, StringInBuffer
<1> QED  BY <1>5 DEF y

LEMMA BufferChars ==
  ASSUME NEW s \in Seq(Glyphs), NEW z \in 0..9, NEW b, NEW i, NEW j, Holds(b, i, j, s, z)
  PROVE  b \in [0..(BufSize - 1) -> Glyphs \cup {NUL}]
<1>1. ZerosBefore(s, z) \in Seq(Glyphs) /\ b = Moving(s, z, i)
  BY ZerosStay DEF Holds
<1>2. \A y \in Seq(Glyphs) : \A k \in 0..(BufSize - 1) : Buffer(y)[k] \in Glyphs \cup {NUL}
  <2> TAKE y \in Seq(Glyphs)
  <2> TAKE k \in 0..(BufSize - 1)
  <2>1. BufSize \in Nat /\ Len(y) \in Nat
    BY SomeBits
  <2>2. k < Len(y) => k + 1 \in 1..Len(y)
    BY <2>1
  <2> QED  BY <2>2, BufferIs
<1> QED  BY <1>1, <1>2 DEF Moving

(* What a call may be given: the arguments of the messages, and digits;    *)
(* and what it may show.                                                   *)
Passed  == UNION {{m.args[k] : k \in DOMAIN m.args} : m \in OldMessages}
Passable  == Passed \cup Seq(Glyphs)
FormatSymbols == UNION {ToSet(m.fmt) : m \in OldMessages}
Strings == UNION {ToSet(v) : v \in Passable}
Symbols == Passable \cup Glyphs \cup {"-", "x", "%", "s"} \cup FormatSymbols \cup Strings

Texts == Seq(Symbols)

Lists == {m.args : m \in OldMessages} \cup {<<>>} \cup {<<s>> : s \in Seq(Glyphs)}

Readings(args) ==
  [at : {"text", "mark", "size", "wrong"}, size : 0..9, next : 1..(Len(args) + 1), text : Texts]

LEMMA ValuesAre == /\ Seq(Glyphs) \subseteq Passable /\ Passable \subseteq Symbols
                   /\ \A v \in Passable : ToSet(v) \subseteq Symbols
<1>1. Seq(Glyphs) \subseteq Passable
  BY DEF Passable
<1>2. \A v \in Passable : ToSet(v) \subseteq Strings
  BY DEF Strings
<1>3. Passable \subseteq Symbols /\ Strings \subseteq Symbols
  BY DEF Symbols
<1> QED  BY <1>1, <1>2, <1>3

LEMMA ListsAre ==
  \A args \in Lists : /\ Len(args) \in Nat /\ DOMAIN args = 1..Len(args)
                      /\ \A k \in 1..Len(args) : args[k] \in Passable
<1>1. \A m \in OldMessages : /\ Len(m.args) \in Nat /\ DOMAIN m.args = 1..Len(m.args)
                             /\ \A k \in 1..Len(m.args) : m.args[k] \in Passable
  <2> TAKE m \in OldMessages
  <2>1. Len(m.args) \in Nat /\ DOMAIN m.args = 1..Len(m.args)
    BY MessagesAssumption
  <2>2. {m.args[k] : k \in DOMAIN m.args} \subseteq Passed /\ Passed \subseteq Passable
    BY DEF Passable, Passed
  <2>3. \A k \in DOMAIN m.args : m.args[k] \in {m.args[l] : l \in DOMAIN m.args}
    OBVIOUS
  <2> QED  BY <2>1, <2>2, <2>3
<1>2. \A s \in Seq(Glyphs) : Len(<<s>>) = 1 /\ DOMAIN <<s>> = 1..1 /\ <<s>>[1] = s /\ s \in Passable
  <2>1. \A s \in Seq(Glyphs) : s \in Passable
    BY ValuesAre
  <2>2. \A s : Len(<<s>>) = 1 /\ DOMAIN <<s>> = 1..1 /\ <<s>>[1] = s
    OBVIOUS
  <2> QED  BY <2>1, <2>2
<1>3. Len(<<>>) = 0 /\ DOMAIN <<>> = 1..0
  OBVIOUS
<1> TAKE args \in Lists
<1>4. CASE args \in {m.args : m \in OldMessages}
  BY <1>1, <1>4
<1>5. CASE args = <<>>
  BY <1>3, <1>5
<1>6. CASE args \in {<<s>> : s \in Seq(Glyphs)}
  <2>1. PICK s \in Seq(Glyphs) : args = <<s>>
    BY <1>6
  <2> QED  BY <1>2, <2>1
<1> QED  BY <1>4, <1>5, <1>6 DEF Lists

LEMMA GlyphTexts == Seq(Glyphs) \subseteq Texts /\ Glyphs \subseteq Symbols
<1>1. Glyphs \subseteq Symbols
  BY DEF Symbols
<1>2. \A s \in Seq(Glyphs) : s \in Seq(Symbols)
  BY <1>1
<1> QED  BY <1>1, <1>2 DEF Texts

LEMMA JoinTexts == \A s, t \in Texts : s \o t \in Texts
  BY DEF Texts

LEMMA SignsAreTexts == <<"0", "x">> \in Texts /\ <<"-">> \in Texts /\ <<>> \in Texts
<1>1. "0" \in Symbols /\ "x" \in Symbols /\ "-" \in Symbols
  BY GlyphTexts, GlyphsAre DEF Symbols
<1> QED  BY <1>1 DEF Texts

LEMMA NumberTexts ==
  \A v \in WordValues : \A b \in {10, 16} : \A z \in Nat : Digits(v, b, z) \in Texts
<1> TAKE v \in WordValues
<1> TAKE b \in {10, 16}
<1> TAKE z \in Nat
<1>1. PICK s \in Seq(Glyphs) : Digits(v, b, z) = ZerosBefore(s, z)
  BY DigitsAre
<1> QED  BY <1>1, ZerosStay, GlyphTexts

LEMMA AbsoluteIs == \A c : \A v \in WordValues : Absolute(c, v) \in WordValues
<1> TAKE c
<1> TAKE v \in WordValues
<1>1. PICK p \in Nat \ {0} : p = 2^WordBits
  BY SomeBits
<1>2. (0 - v) % p \in 0..(p - 1)
  BY <1>1 DEF WordValues
<1> QED  BY <1>1, <1>2 DEF Absolute, WordValues

LEMMA MeaningIsText ==
  \A c : \A z \in 0..9 : \A v \in Passable :
    IsConversion(c) /\ Accepts(c, v) => OldMeaning(c, z, v) \in Texts
<1> SUFFICES ASSUME NEW c, NEW z \in 0..9, NEW v \in Passable, IsConversion(c), Accepts(c, v)
             PROVE  OldMeaning(c, z, v) \in Texts
  OBVIOUS
<1>1. IsNumber(c) => v \in WordValues /\ Absolute(c, v) \in WordValues
  BY AbsoluteIs DEF Accepts, WordValues
<1>2. z \in Nat /\ 0 \in Nat /\ PointerSize \in Nat
  BY DEF PointerSize
<1>3. CASE c = "d"
  <2>1. Digits(Absolute(c, v), 10, 0) \in Texts /\ Digits(Absolute(c, v), 10, z) \in Texts
    BY <1>1, <1>2, <1>3, NumberTexts DEF IsNumber
  <2>2. (IF IsNegative(c, v) THEN <<"-">> ELSE <<>>) \in Texts
    BY SignsAreTexts
  <2>3. OldMeaning(c, z, v) = Digits(Absolute(c, v), 10, 0)
                              \o (IF IsNegative(c, v) THEN <<"-">> ELSE <<>>)
                              \o Digits(Absolute(c, v), 10, z)
    BY <1>3 DEF OldMeaning
  <2> QED  BY <2>1, <2>2, <2>3, JoinTexts, ZenonT(40)
<1>4. CASE c = "u"
  <2>1. OldMeaning(c, z, v) = Digits(v, 10, z)
    BY <1>4 DEF OldMeaning
  <2> QED  BY <1>1, <1>2, <1>4, <2>1, NumberTexts DEF IsNumber
<1>5. CASE c \in {"x", "X"}
  <2>1. OldMeaning(c, z, v) = <<"0", "x">> \o Digits(v, 16, z)
    BY <1>5 DEF OldMeaning
  <2>2. Digits(v, 16, z) \in Texts
    BY <1>1, <1>2, <1>5, NumberTexts DEF IsNumber
  <2> QED  BY <2>1, <2>2, JoinTexts, SignsAreTexts
<1>6. CASE c = "p"
  <2>1. OldMeaning(c, z, v) = <<"0", "x">> \o Digits(v, 16, PointerSize)
    BY <1>6 DEF OldMeaning
  <2>2. Digits(v, 16, PointerSize) \in Texts
    BY <1>1, <1>2, <1>6, NumberTexts DEF IsNumber
  <2> QED  BY <2>1, <2>2, JoinTexts, SignsAreTexts
<1>7. CASE c = "s"
  <2>1. v \in Seq(ToSet(v))
    BY <1>7 DEF Accepts, PlainText
  <2>2. ToSet(v) \subseteq Symbols
    BY ValuesAre
  <2>3. v \in Texts
    BY <2>1, <2>2 DEF Texts
  <2> QED  BY <1>7, <2>3 DEF OldMeaning
<1>8. CASE c = "c"
  <2>1. v \in Symbols
    BY DEF Symbols
  <2> QED  BY <1>8, <2>1 DEF OldMeaning, Texts
<1> QED  BY <1>3, <1>4, <1>5, <1>6, <1>7, <1>8 DEF IsConversion, IsNumber

LEMMA SizeIs == \A c : IsSize(c) => SizeOf(c) \in 0..9
<1> SUFFICES ASSUME NEW c, IsSize(c) PROVE SizeOf(c) \in 0..9
  OBVIOUS
<1>1. PICK d \in 1..10 : c = DigitChars[d]
  BY DEF IsSize
<1>2. d - 1 \in 0..9 /\ (d - 1) + 1 = d
  OBVIOUS
<1>3. DigitChars[(d - 1) + 1] = c
  BY <1>1, <1>2
<1> QED  BY <1>2, <1>3 DEF SizeOf

(* One character read, case by case.                                       *)
LEMMA ReadText ==
  \A args \in Lists : \A r \in Readings(args) : \A c :
    r.at = "text" /\ c # "%" => Read(r, c, args) = [r EXCEPT !.text = Append(r.text, c)]
  BY DEF Read, Readings

LEMMA ReadMark ==
  \A args \in Lists : \A r \in Readings(args) : \A c :
    r.at = "text" /\ c = "%" => Read(r, c, args) = [r EXCEPT !.at = "mark", !.size = 0]
  BY DEF Read, Readings

LEMMA ReadWrong ==
  \A args \in Lists : \A r \in Readings(args) : \A c : r.at = "wrong" => Read(r, c, args) = r
  BY DEF Read, Readings

Converting(r, c) == (r.at = "mark" /\ ~IsSize(c)) \/ r.at = "size"
Missing(r, c, args) == r.next \notin DOMAIN args \/ ~Accepts(c, args[r.next])

LEMMA ReadSkip ==
  \A args \in Lists : \A r \in Readings(args) : \A c :
    Converting(r, c) /\ ~IsConversion(c) =>
      /\ Read(r, c, args).at = "text" /\ Read(r, c, args).next = r.next
      /\ Read(r, c, args).text = r.text
  BY DEF Read, Readings, Converting

LEMMA ReadMissing ==
  \A args \in Lists : \A r \in Readings(args) : \A c :
    Converting(r, c) /\ IsConversion(c) /\ Missing(r, c, args) =>
      Read(r, c, args).at = "wrong"
  BY DEF Read, Readings, Converting, Missing

LEMMA ReadTaken ==
  \A args \in Lists : \A r \in Readings(args) : \A c :
    Converting(r, c) /\ IsConversion(c) /\ ~Missing(r, c, args) =>
      /\ Read(r, c, args).at = "text" /\ Read(r, c, args).next = r.next + 1
      /\ Read(r, c, args).text = r.text \o OldMeaning(c, r.size, args[r.next])
  BY DEF Read, Readings, Converting, Missing

LEMMA ReadStays ==
  \A args \in Lists : \A r \in Readings(args) : \A c \in Symbols : Read(r, c, args) \in Readings(args)
<1> TAKE args \in Lists
<1> TAKE r \in Readings(args)
<1> TAKE c \in Symbols
<1>0. /\ r.at \in {"text", "mark", "size", "wrong"} /\ r.size \in 0..9
      /\ r.next \in 1..(Len(args) + 1) /\ r.text \in Texts
      /\ Len(args) \in Nat /\ DOMAIN args = 1..Len(args)
  BY ListsAre DEF Readings
<1>1. CASE r.at = "wrong"
  BY <1>1, ReadWrong
<1>2. CASE r.at = "text" /\ c # "%"
  <2>1. Append(r.text, c) \in Texts
    BY <1>0 DEF Texts
  <2>2. Read(r, c, args) = [r EXCEPT !.text = Append(r.text, c)]
    BY <1>2, ReadText
  <2> QED  BY <2>1, <2>2 DEF Readings
<1>3. CASE r.at = "text" /\ c = "%"
  <2>1. Read(r, c, args) = [r EXCEPT !.at = "mark", !.size = 0]
    BY <1>3, ReadMark
  <2>2. 0 \in 0..9
    OBVIOUS
  <2> QED  BY <2>1, <2>2 DEF Readings
<1>4. CASE r.at = "mark" /\ IsSize(c)
  <2>1. Read(r, c, args) = [r EXCEPT !.at = "size", !.size = SizeOf(c)]
    BY <1>4 DEF Read, Readings
  <2>2. SizeOf(c) \in 0..9
    BY <1>4, SizeIs
  <2> QED  BY <2>1, <2>2 DEF Readings
<1>5. CASE Converting(r, c)
  <2>1. CASE ~IsConversion(c)
    <3>1. Read(r, c, args) = [r EXCEPT !.at = "text"]
      BY <1>5, <2>1 DEF Read, Readings, Converting, Missing
    <3> QED  BY <3>1 DEF Readings
  <2>2. CASE IsConversion(c) /\ Missing(r, c, args)
    <3>1. Read(r, c, args) = [r EXCEPT !.at = "wrong"]
      BY <1>5, <2>2 DEF Read, Readings, Converting, Missing
    <3> QED  BY <3>1 DEF Readings
  <2>3. CASE IsConversion(c) /\ ~Missing(r, c, args)
    <3>1. /\ args[r.next] \in Passable /\ r.next + 1 \in 1..(Len(args) + 1)
          /\ Accepts(c, args[r.next])
      BY <1>0, <2>3, ListsAre DEF Missing
    <3>2. r.text \o OldMeaning(c, r.size, args[r.next]) \in Texts
      BY <1>0, <2>3, <3>1, MeaningIsText, JoinTexts
    <3>3. Read(r, c, args) = [r EXCEPT !.at = "text", !.next = r.next + 1,
                                 !.text = r.text \o OldMeaning(c, r.size, args[r.next])]
      BY <1>5, <2>3 DEF Read, Readings, Converting, Missing
    <3> QED  BY <3>1, <3>2, <3>3 DEF Readings
  <2> QED  BY <2>1, <2>2, <2>3
<1> QED  BY <1>0, <1>1, <1>2, <1>3, <1>4, <1>5 DEF Converting

First == [at |-> "text", size |-> 0, next |-> 1, text |-> <<>>]

LEMMA MeaningIs ==
  \A fmt \in Texts : \A args \in Lists :
    /\ MeaningOf(fmt, args)[0] = First
    /\ \A k \in 1..Len(fmt) :
         MeaningOf(fmt, args)[k] = Read(MeaningOf(fmt, args)[k - 1], fmt[k], args)
    /\ \A k \in 0..Len(fmt) : MeaningOf(fmt, args)[k] \in Readings(args)
<1> TAKE fmt \in Texts
<1> TAKE args \in Lists
<1>a. PICK X : X = Readings(args)
  OBVIOUS
<1>b. \A a \in X : \A m \in Nat : \A h \in [1..m -> [X -> X]] :
        \E f \in [0..m -> X] : f[0] = a /\ \A i \in 1..m : f[i] = h[i][f[i - 1]]
  BY Recursion
<1>0. PICK n \in Nat : n = Len(fmt) /\ \A k \in 1..n : fmt[k] \in Symbols
  BY DEF Texts
<1>c. First \in X
  <2>1. 0 \in 0..9 /\ 1 \in 1..(Len(args) + 1) /\ <<>> \in Texts
    BY ListsAre, SignsAreTexts
  <2> QED  BY <1>a, <2>1 DEF First, Readings
<1> DEFINE Of(F) == [k \in 0..Len(fmt) |-> IF k = 0 THEN First ELSE Read(F[k - 1], fmt[k], args)]
           K == CHOOSE F : F = Of(F)
<1>1. \E F : F = Of(F)
  <2> DEFINE g == [j \in 1..n |-> [x \in X |-> Read(x, fmt[j], args)]]
  <2>1. \A j \in 1..n, x \in X : Read(x, fmt[j], args) \in X
    BY <1>0, <1>a, ReadStays
  <2>2. g \in [1..n -> [X -> X]]
    BY <2>1
  <2>3. \A j \in 1..n, x \in X : g[j][x] = Read(x, fmt[j], args)
    OBVIOUS
  <2> HIDE DEF g
  <2>4. PICK f \in [0..n -> X] : f[0] = First /\ \A i \in 1..n : f[i] = g[i][f[i - 1]]
    BY <1>b, <1>c, <2>2, ZenonT(40)
  <2>5. \A i \in 1..n : f[i - 1] \in X
    BY <2>4
  <2>6. \A i \in 0..n : f[i] = IF i = 0 THEN First ELSE Read(f[i - 1], fmt[i], args)
    <3>1. \A i \in 0..n : i = 0 \/ (i \in 1..n /\ i # 0)
      OBVIOUS
    <3>2. \A i \in 1..n : f[i] = Read(f[i - 1], fmt[i], args)
      BY <2>3, <2>4, <2>5
    <3> QED  BY <2>4, <3>1, <3>2, Zenon
  <2>7. f = [i \in 0..n |-> f[i]]
    BY <2>4
  <2>8. f = Of(f)
    BY <1>0, <2>6, <2>7, Zenon
  <2> QED  BY <2>8
<1>2. K = Of(K)
  <2> HIDE DEF Of
  <2> QED  BY <1>1
<1>3. MeaningOf(fmt, args) = K
  BY DEF MeaningOf, First
<1> HIDE DEF K
<1>4. \A k \in 0..n : K[k] = IF k = 0 THEN First ELSE Read(K[k - 1], fmt[k], args)
  BY <1>0, <1>2, Zenon
<1>5. 0 \in 0..n /\ \A k \in 1..n : k \in 0..n /\ k # 0
  OBVIOUS
<1>6. K[0] = First /\ \A k \in 1..n : K[k] = Read(K[k - 1], fmt[k], args)
  BY <1>4, <1>5, Zenon
<1>7. \A k \in 0..n : K[k] \in X
  <2>1. \A k \in 1..n : K[k - 1] \in X => K[k] \in X
    BY <1>0, <1>6, <1>a, ReadStays
  <2>2. K[0] \in X
    BY <1>6, <1>c
  <2> QED  BY <2>1, <2>2, RecursionStays
<1> QED  BY <1>0, <1>3, <1>6, <1>7, <1>a

(* A format that fits its arguments, and that a call may be given.         *)
FitsArgs(fmt, args) ==
  /\ fmt \in Texts /\ args \in Lists /\ NUL \notin ToSet(fmt)
  /\ MeaningOf(fmt, args)[Len(fmt)].at = "text"

LEMMA NeverWrong ==
  \A fmt, args : FitsArgs(fmt, args) =>
    \A k \in 0..Len(fmt) : MeaningOf(fmt, args)[k].at # "wrong"
<1> SUFFICES ASSUME NEW fmt, NEW args, FitsArgs(fmt, args), NEW k \in 0..Len(fmt),
                    MeaningOf(fmt, args)[k].at = "wrong"
             PROVE  FALSE
  OBVIOUS
<1>0. PICK n \in Nat : n = Len(fmt)
  BY DEF FitsArgs, Texts
<1> DEFINE M == MeaningOf(fmt, args)
<1>1. /\ \A l \in 1..n : M[l] = Read(M[l - 1], fmt[l], args)
      /\ \A l \in 0..n : M[l] \in Readings(args)
      /\ M[k].at = "wrong" /\ M[n].at = "text" /\ args \in Lists
  BY <1>0, MeaningIs DEF FitsArgs
<1> HIDE DEF M
<1> DEFINE N == {d \in Nat : k + d <= n => M[k + d].at = "wrong"}
<1>2. 0 \in N
  BY <1>0, <1>1
<1>3. ASSUME NEW d \in Nat, d \in N PROVE d + 1 \in N
  <2> SUFFICES ASSUME k + (d + 1) <= n PROVE M[k + (d + 1)].at = "wrong"
    OBVIOUS
  <2>1. k + (d + 1) \in 1..n /\ (k + (d + 1)) - 1 = k + d /\ k + d \in 0..n
    BY <1>0
  <2>2. M[k + (d + 1)] = Read(M[k + d], fmt[k + (d + 1)], args) /\ M[k + d] \in Readings(args)
    BY <1>1, <2>1
  <2>3. M[k + d].at = "wrong"
    BY <1>3, <2>1
  <2> QED  BY <1>1, <2>2, <2>3, ReadWrong
<1> HIDE DEF N
<1>4. Nat \subseteq N
  BY <1>2, <1>3, SetInduction
<1>5. n - k \in N /\ k + (n - k) = n
  BY <1>0, <1>4
<1> QED  BY <1>1, <1>5 DEF N

(* What a call that stands at a conversion takes and shows.                *)
ConvAt(fmt, p) == p + (IF p + 1 <= Len(fmt) /\ IsSize(fmt[p + 1]) THEN 2 ELSE 1)
SizeAt(fmt, p) == IF p + 1 <= Len(fmt) /\ IsSize(fmt[p + 1]) THEN SizeOf(fmt[p + 1]) ELSE 0

ConversionShows(fmt, args, p, q, z) ==
  LET r == MeaningOf(fmt, args)[p - 1]
      t == MeaningOf(fmt, args)[q]
      v == args[r.next]
  IN /\ q \in 2..Len(fmt) /\ z \in 0..9 /\ t.at = "text"
     /\ ~IsConversion(fmt[q]) => t.next = r.next /\ t.text = r.text
     /\ IsConversion(fmt[q]) =>
          /\ r.next \in DOMAIN args /\ v \in Passable /\ Accepts(fmt[q], v)
          /\ t.next = r.next + 1 /\ t.text = r.text \o OldMeaning(fmt[q], z, v)

LEMMA Converts ==
  \A fmt, args, p :
    /\ FitsArgs(fmt, args) /\ p \in 1..Len(fmt)
    /\ MeaningOf(fmt, args)[p - 1].at = "text" /\ fmt[p] = "%"
    => ConversionShows(fmt, args, p, ConvAt(fmt, p), SizeAt(fmt, p))
<1> SUFFICES ASSUME NEW fmt, NEW args, NEW p, FitsArgs(fmt, args), p \in 1..Len(fmt),
                    MeaningOf(fmt, args)[p - 1].at = "text", fmt[p] = "%"
             PROVE  ConversionShows(fmt, args, p, ConvAt(fmt, p), SizeAt(fmt, p))
  OBVIOUS
<1>q. PICK q, z : q = ConvAt(fmt, p) /\ z = SizeAt(fmt, p)
  OBVIOUS
<1> DEFINE M == MeaningOf(fmt, args)
           r == M[p - 1]
<1>0. PICK n \in Nat : n = Len(fmt)
  BY DEF FitsArgs, Texts
<1>1. /\ \A l \in 1..n : M[l] = Read(M[l - 1], fmt[l], args)
      /\ \A l \in 0..n : M[l] \in Readings(args) /\ M[l].at # "wrong"
      /\ M[n].at = "text" /\ args \in Lists /\ M[p - 1].at = "text"
  BY <1>0, MeaningIs, NeverWrong, SMTT(40) DEF FitsArgs
<1> HIDE DEF M
<1>2. r \in Readings(args) /\ p \in 1..n
  BY <1>0, <1>1
<1>3. M[p] = [r EXCEPT !.at = "mark", !.size = 0]
  BY <1>1, <1>2, ZenonT(40) DEF Read, Readings
<1>4. M[p].at = "mark" /\ M[p].size = 0 /\ M[p].next = r.next /\ M[p].text = r.text
  BY <1>2, <1>3 DEF Readings
<1>5. p + 1 \in 1..n /\ (p + 1) - 1 = p /\ p \in 0..n
  <2>1. p # n
    BY <1>1, <1>4
  <2> QED  BY <1>2, <2>1
<1>6. M[p + 1] = Read(M[p], fmt[p + 1], args) /\ M[p] \in Readings(args)
  BY <1>1, <1>5
<1>7. /\ q \in 2..n /\ z \in 0..9 /\ M[q] = Read(M[q - 1], fmt[q], args)
      /\ M[q - 1] \in Readings(args) /\ Converting(M[q - 1], fmt[q])
      /\ M[q - 1].next = r.next /\ M[q - 1].text = r.text /\ M[q - 1].size = z
  <2>1. CASE IsSize(fmt[p + 1])
    <3>1. q = p + 2 /\ z = SizeOf(fmt[p + 1])
      BY <1>0, <1>5, <1>q, <2>1 DEF ConvAt, SizeAt
    <3>2. M[p + 1] = [M[p] EXCEPT !.at = "size", !.size = SizeOf(fmt[p + 1])]
      BY <1>4, <1>6, <2>1 DEF Read, Readings
    <3>3. M[p + 1].at = "size" /\ M[p + 1].size = z /\ M[p + 1].next = r.next /\ M[p + 1].text = r.text
      BY <1>4, <1>6, <3>1, <3>2 DEF Readings
    <3>4. p + 1 # n
      BY <1>1, <3>3
    <3>5. q \in 1..n /\ q - 1 = p + 1 /\ q - 1 \in 0..n /\ q \in 2..n
      BY <1>5, <3>1, <3>4
    <3>6. z \in 0..9
      BY <2>1, <3>1, SizeIs
    <3> QED  BY <1>1, <3>3, <3>5, <3>6 DEF Converting
  <2>2. CASE ~IsSize(fmt[p + 1])
    <3>1. q = p + 1 /\ z = 0
      BY <1>q, <2>2 DEF ConvAt, SizeAt
    <3>2. q \in 1..n /\ q - 1 = p /\ q - 1 \in 0..n /\ q \in 2..n
      BY <1>5, <3>1
    <3> QED  BY <1>1, <1>4, <2>2, <3>1, <3>2 DEF Converting
  <2> QED  BY <2>1, <2>2
<1>8. M[q] \in Readings(args) /\ M[q].at # "wrong"
  BY <1>1, <1>7
<1>9. CASE ~IsConversion(fmt[q])
  <2>1. M[q].at = "text" /\ M[q].next = M[q - 1].next /\ M[q].text = M[q - 1].text
    BY <1>1, <1>7, <1>9, ReadSkip
  <2> QED  BY <1>0, <1>7, <1>9, <1>q, <2>1 DEF M, ConversionShows
<1>10. CASE IsConversion(fmt[q])
  <2>1. ~Missing(M[q - 1], fmt[q], args)
    BY <1>1, <1>7, <1>8, <1>10, ReadMissing
  <2>2. /\ M[q].at = "text" /\ M[q].next = M[q - 1].next + 1
        /\ M[q].text = M[q - 1].text \o OldMeaning(fmt[q], M[q - 1].size, args[M[q - 1].next])
    <3>1. PICK x, c : x = M[q - 1] /\ c = fmt[q]
      OBVIOUS
    <3>2. x \in Readings(args) /\ Converting(x, c) /\ IsConversion(c) /\ ~Missing(x, c, args)
      BY <1>7, <1>10, <2>1, <3>1
    <3>3. /\ Read(x, c, args).at = "text" /\ Read(x, c, args).next = x.next + 1
          /\ Read(x, c, args).text = x.text \o OldMeaning(c, x.size, args[x.next])
      BY <1>1, <3>2, ReadTaken
    <3> QED  BY <1>7, <3>1, <3>3
  <2>3. M[q].at = "text" /\ M[q].next = r.next + 1
        /\ M[q].text = r.text \o OldMeaning(fmt[q], z, args[r.next])
    BY <1>7, <2>2
  <2>4. r.next \in DOMAIN args /\ Accepts(fmt[q], args[r.next]) /\ args[r.next] \in Passable
    BY <1>1, <1>7, <2>1, ListsAre DEF Missing
  <2> QED  BY <1>0, <1>7, <1>10, <1>q, <2>3, <2>4 DEF M, ConversionShows
<1> QED  BY <1>q, <1>9, <1>10

LEMMA Shows ==
  ASSUME NEW fmt, NEW args, FitsArgs(fmt, args), NEW p \in 1..Len(fmt),
         MeaningOf(fmt, args)[p - 1].at = "text", fmt[p] # "%"
  PROVE  /\ fmt[p] \in Symbols /\ MeaningOf(fmt, args)[p].at = "text"
         /\ MeaningOf(fmt, args)[p].next = MeaningOf(fmt, args)[p - 1].next
         /\ MeaningOf(fmt, args)[p].text = Append(MeaningOf(fmt, args)[p - 1].text, fmt[p])
<1>1. fmt \in Texts /\ args \in Lists /\ p - 1 \in 0..Len(fmt) /\ fmt[p] \in Symbols
  BY DEF FitsArgs, Texts
<1>2. PICK r : r = MeaningOf(fmt, args)[p - 1]
  OBVIOUS
<1>3. r \in Readings(args) /\ MeaningOf(fmt, args)[p] = Read(r, fmt[p], args)
  BY <1>1, <1>2, MeaningIs
<1>4. Read(r, fmt[p], args) = [r EXCEPT !.text = Append(r.text, fmt[p])]
  BY <1>2, <1>3 DEF Read, Readings
<1> QED  BY <1>1, <1>2, <1>3, <1>4 DEF Readings

(* A string without a conversion means itself.                             *)
LEMMA PlainFits ==
  \A fmt \in Texts : {"%", NUL} \cap ToSet(fmt) = {} =>
    FitsArgs(fmt, <<>>) /\ MeaningOf(fmt, <<>>)[Len(fmt)].text = fmt
<1> SUFFICES ASSUME NEW fmt \in Texts, {"%", NUL} \cap ToSet(fmt) = {}
             PROVE  FitsArgs(fmt, <<>>) /\ MeaningOf(fmt, <<>>)[Len(fmt)].text = fmt
  OBVIOUS
<1>0. PICK n \in Nat : n = Len(fmt) /\ fmt \in Seq(Symbols) /\ \A k \in 1..n : fmt[k] \in Symbols
  BY DEF Texts
<1>a. \A k \in 1..n : fmt[k] # "%"
  BY <1>0 DEF ToSet
<1>b. <<>> \in Lists
  BY DEF Lists
<1> DEFINE M == MeaningOf(fmt, <<>>)
           Like(t, k) == t \in Seq(Symbols) /\ Len(t) = k /\ \A l \in 1..k : t[l] = fmt[l]
<1>1. /\ M[0] = First /\ \A k \in 1..n : M[k] = Read(M[k - 1], fmt[k], <<>>)
      /\ \A k \in 0..n : M[k] \in Readings(<<>>)
  BY <1>0, <1>b, MeaningIs
<1> HIDE DEF M
<1> DEFINE N == {k \in Nat : k <= n => M[k].at = "text" /\ Like(M[k].text, k)}
<1>2. 0 \in N
  <2>1. Like(<<>>, 0)
    OBVIOUS
  <2>2. M[0].at = "text" /\ M[0].text = <<>>
    BY <1>1 DEF First
  <2> QED  BY <2>1, <2>2
<1>3. ASSUME NEW k \in Nat, k \in N PROVE k + 1 \in N
  <2> SUFFICES ASSUME k + 1 <= n PROVE M[k + 1].at = "text" /\ Like(M[k + 1].text, k + 1)
    OBVIOUS
  <2>1. k \in 0..n /\ k + 1 \in 1..n /\ (k + 1) - 1 = k /\ k <= n
    OBVIOUS
  <2>2. PICK r \in Readings(<<>>) : r = M[k] /\ r.at = "text" /\ Like(r.text, k)
    BY <1>1, <1>3, <2>1
  <2>3. PICK c \in Symbols : c = fmt[k + 1] /\ c # "%"
    BY <1>0, <1>a, <2>1
  <2>4. M[k + 1] = Read(r, c, <<>>)
    BY <1>1, <2>1, <2>2, <2>3
  <2>5. Read(r, c, <<>>) = [r EXCEPT !.text = Append(r.text, c)]
    BY <2>2, <2>3 DEF Read, Readings
  <2>6. M[k + 1].at = "text" /\ M[k + 1].text = Append(r.text, c)
    BY <2>2, <2>4, <2>5 DEF Readings
  <2>7. Like(Append(r.text, c), k + 1)
    BY <2>2, <2>3
  <2> QED  BY <2>6, <2>7
<1> HIDE DEF N
<1>4. Nat \subseteq N
  BY <1>2, <1>3, SetInduction
<1>5. M[n].at = "text" /\ Like(M[n].text, n)
  BY <1>4 DEF N
<1>6. M[n].text = fmt
  BY <1>0, <1>5
<1> QED  BY <1>0, <1>5, <1>6, <1>b DEF FitsArgs, M

LEMMA PassedFits ==
  \A v \in Passable : PlainText(v) => FitsArgs(v, <<>>) /\ MeaningOf(v, <<>>)[Len(v)].text = v
<1> TAKE v \in Passable
<1> HAVE PlainText(v)
<1>1. v \in Texts /\ {"%", NUL} \cap ToSet(v) = {}
  BY ValuesAre DEF PlainText, Texts
<1> QED  BY <1>1, PlainFits

LEMMA GlyphsPlain == \A s \in Seq(Glyphs) : PlainText(s) /\ s \in Passable /\ s \in Texts
<1> TAKE s \in Seq(Glyphs)
<1>1. ToSet(s) \subseteq Glyphs /\ s \in Seq(ToSet(s))
  BY DEF ToSet
<1> QED  BY <1>1, GlyphsAre, GlyphTexts, ValuesAre DEF PlainText

(* Short strings put together.                                             *)
LEMMA ShortJoins ==
  ASSUME NEW S, NEW a \in S, NEW b \in S, NEW c \in S, NEW d \in S
  PROVE  Append(<<a>>, b) = <<a, b>> /\ <<a>> \o <<c, d>> = <<a, c, d>>
<1>1. Append(<<a>>, b) = <<a, b>>
  <2>1. PICK x, y : x = Append(<<a>>, b) /\ y = <<a, b>>
    OBVIOUS
  <2>2. x \in Seq(S) /\ Len(x) = 2 /\ x[1] = a /\ x[2] = b
    BY <2>1
  <2>3. y \in Seq(S) /\ Len(y) = 2 /\ y[1] = a /\ y[2] = b
    BY <2>1
  <2>4. \A i \in 1..2 : i = 1 \/ i = 2
    OBVIOUS
  <2>5. x = y
    BY <2>2, <2>3, <2>4, SeqEqual
  <2> QED  BY <2>1, <2>5
<1>2. <<a>> \o <<c, d>> = <<a, c, d>>
  <2>1. PICK x, y : x = <<a>> \o <<c, d>> /\ y = <<a, c, d>>
    OBVIOUS
  <2>2. x \in Seq(S) /\ Len(x) = 3 /\ x[1] = a /\ x[2] = c /\ x[3] = d
    BY <2>1
  <2>3. y \in Seq(S) /\ Len(y) = 3 /\ y[1] = a /\ y[2] = c /\ y[3] = d
    BY <2>1
  <2>4. \A i \in 1..3 : i = 1 \/ i = 2 \/ i = 3
    OBVIOUS
  <2>5. x = y
    BY <2>2, <2>3, <2>4, SeqEqual
  <2> QED  BY <2>1, <2>5
<1> QED  BY <1>1, <1>2

LEMMA PairsJoin ==
  ASSUME NEW S PROVE \A a, b, c, d \in S : <<a, b>> \o <<c, d>> = <<a, b, c, d>>
<1> TAKE a, b, c, d \in S
<1>1. PICK x, y : x = <<a, b>> \o <<c, d>> /\ y = <<a, b, c, d>>
  OBVIOUS
<1>2. x \in Seq(S) /\ Len(x) = 4 /\ x[1] = a /\ x[2] = b /\ x[3] = c /\ x[4] = d
  BY <1>1
<1>3. y \in Seq(S) /\ Len(y) = 4 /\ y[1] = a /\ y[2] = b /\ y[3] = c /\ y[4] = d
  BY <1>1
<1>4. \A i \in 1..4 : i = 1 \/ i = 2 \/ i = 3 \/ i = 4
  OBVIOUS
<1>5. x = y
  BY <1>2, <1>3, <1>4, SeqEqual
<1> QED  BY <1>1, <1>5

(* The two formats with which a number is printed.                         *)
Signs == {<<"-">>, <<"0", "x">>}
Wrap(sign) == sign \o <<"%", "s">>

LEMMA NoSize == ~IsSize("s") /\ ~IsSize("%")
<1>1. \A k \in 1..16 : DigitChars[k] \notin {"s", "%"}
  <2>1. \A k \in 1..16 : k = 1 \/ k = 2 \/ k = 3 \/ k = 4 \/ k = 5 \/ k = 6 \/ k = 7 \/ k = 8
         \/ k = 9 \/ k = 10 \/ k = 11 \/ k = 12 \/ k = 13 \/ k = 14 \/ k = 15 \/ k = 16
    OBVIOUS
  <2> QED  BY <2>1 DEF DigitChars
<1>2. \A d \in 1..10 : d \in 1..16
  OBVIOUS
<1> QED  BY <1>1, <1>2 DEF IsSize

(* One more character of text, and a string converted, as read from r.     *)
ShownBy(r, c, m, args) ==
  m \in Readings(args) /\ m.at = "text" /\ m.next = r.next /\ m.text = Append(r.text, c)
TextGiven(l, t, s) == l.at = "text" /\ l.text = t \o s

LEMMA WrapFits ==
  \A sign \in Signs : \A s \in Seq(Glyphs) :
    /\ FitsArgs(Wrap(sign), <<s>>)
    /\ MeaningOf(Wrap(sign), <<s>>)[Len(Wrap(sign))].text = sign \o s
<1> TAKE sign \in Signs
<1> TAKE s \in Seq(Glyphs)
<1> DEFINE fmt == Wrap(sign)
           args == <<s>>
           M == MeaningOf(fmt, args)
<1>1. args \in Lists /\ DOMAIN args = 1..1 /\ args[1] = s /\ PlainText(s) /\ s \in Passable /\ s \in Texts
  BY GlyphsPlain DEF Lists
<1>2. "-" \in Symbols /\ "0" \in Symbols /\ "x" \in Symbols /\ "%" \in Symbols /\ "s" \in Symbols
  BY GlyphTexts, GlyphsAre DEF Symbols
<1>3. Accepts("s", s) /\ OldMeaning("s", 0, s) = s /\ IsConversion("s") /\ ~IsSize("s")
  BY <1>1, NoSize DEF Accepts, IsNumber, IsConversion, OldMeaning
<1>4. First \in Readings(args)
  <2>1. 0 \in 0..9 /\ 1 \in 1..(Len(args) + 1) /\ <<>> \in Texts
    BY SignsAreTexts
  <2> QED  BY <2>1 DEF First, Readings
<1> HIDE DEF args
<1>5. \A r \in Readings(args) : \A t \in Texts :
        r.at = "text" /\ r.next = 1 /\ r.text = t =>
          TextGiven(Read(Read(r, "%", args), "s", args), t, s)
  <2> SUFFICES ASSUME NEW r \in Readings(args), NEW t \in Texts,
                      r.at = "text", r.next = 1, r.text = t
               PROVE  TextGiven(Read(Read(r, "%", args), "s", args), t, s)
    OBVIOUS
  <2>1. Read(r, "%", args) = [r EXCEPT !.at = "mark", !.size = 0]
    BY DEF Read, Readings
  <2>2. PICK m \in Readings(args) : m = Read(r, "%", args) /\ m.at = "mark" /\ m.size = 0
                                    /\ m.next = 1 /\ m.text = t
    <3>1. Read(r, "%", args) \in Readings(args)
      BY <1>1, <1>2, ReadStays
    <3> QED  BY <2>1, <3>1 DEF Readings
  <2>3. Converting(m, "s") /\ ~Missing(m, "s", args)
    BY <1>1, <1>3, <2>2 DEF Converting, Missing
  <2>4. Read(m, "s", args).at = "text" /\ Read(m, "s", args).text = t \o OldMeaning("s", 0, s)
    BY <1>1, <1>3, <2>2, <2>3, ReadTaken, ZenonT(40)
  <2> QED  BY <1>3, <2>2, <2>4 DEF TextGiven
<1>6. \A r \in Readings(args) : \A c \in {"-", "0", "x"} :
        r.at = "text" => ShownBy(r, c, Read(r, c, args), args)
  <2> SUFFICES ASSUME NEW r \in Readings(args), NEW c \in {"-", "0", "x"}, r.at = "text"
               PROVE  ShownBy(r, c, Read(r, c, args), args)
    OBVIOUS
  <2>1. Read(r, c, args) = [r EXCEPT !.text = Append(r.text, c)]
    BY DEF Read, Readings
  <2>2. Read(r, c, args) \in Readings(args)
    BY <1>1, <1>2, ReadStays
  <2> QED  BY <2>1, <2>2 DEF Readings, ShownBy
<1>7. fmt \in Texts /\ NUL \notin ToSet(fmt) /\ M[Len(fmt)].at = "text"
      /\ M[Len(fmt)].text = sign \o s
  <2>1. CASE sign = <<"-">>
    <3>1. fmt = <<"-", "%", "s">>
      BY <1>2, <2>1, ShortJoins DEF Wrap
    <3>2. fmt \in Texts /\ NUL \notin ToSet(fmt) /\ Len(fmt) = 3
      BY <1>2, <3>1 DEF Texts, ToSet, NUL
    <3>3. M[0] = First /\ M[1] = Read(M[0], "-", args) /\ M[2] = Read(M[1], "%", args)
          /\ M[3] = Read(M[2], "s", args)
      <4>1. \A k \in 1..3 : M[k] = Read(M[k - 1], fmt[k], args)
        BY <1>1, <3>2, MeaningIs
      <4>2. M[1] = Read(M[1 - 1], fmt[1], args) /\ M[2] = Read(M[2 - 1], fmt[2], args)
            /\ M[3] = Read(M[3 - 1], fmt[3], args) /\ 1 - 1 = 0 /\ 2 - 1 = 1 /\ 3 - 1 = 2
        BY <4>1
      <4>3. fmt[1] = "-" /\ fmt[2] = "%" /\ fmt[3] = "s"
        BY <3>1
      <4>4. M[0] = First
        BY <1>1, <3>2, MeaningIs
      <4> QED  BY <4>2, <4>3, <4>4
    <3> HIDE DEF M, fmt
    <3>4. PICK r \in Readings(args) : r = M[1] /\ r.at = "text" /\ r.next = 1 /\ r.text = <<"-">>
      <4>1. First.at = "text" /\ First.next = 1 /\ Append(First.text, "-") = <<"-">>
        BY DEF First
      <4>2. ShownBy(First, "-", M[1], args)
        <5>1. ShownBy(First, "-", Read(First, "-", args), args)
          BY <1>4, <1>6, <4>1
        <5> QED  BY <3>3, <5>1
      <4>3. M[1] \in Readings(args) /\ M[1].at = "text" /\ M[1].next = 1 /\ M[1].text = <<"-">>
        BY <4>1, <4>2 DEF ShownBy
      <4> QED  BY <4>3
    <3>5. <<"-">> \in Texts
      BY SignsAreTexts
    <3>6. M[3].at = "text" /\ M[3].text = <<"-">> \o s
      <4>1. TextGiven(Read(Read(r, "%", args), "s", args), <<"-">>, s)
        BY <1>5, <3>4, <3>5
      <4> QED  BY <3>3, <3>4, <4>1 DEF TextGiven
    <3> QED  BY <2>1, <3>2, <3>6
  <2>2. CASE sign = <<"0", "x">>
    <3>1. fmt = <<"0", "x", "%", "s">>
      <4>1. <<"0", "x">> \o <<"%", "s">> = <<"0", "x", "%", "s">>
        BY <1>2, PairsJoin
      <4> QED  BY <2>2, <4>1 DEF Wrap
    <3>2. fmt \in Texts /\ NUL \notin ToSet(fmt) /\ Len(fmt) = 4
      BY <1>2, <3>1 DEF Texts, ToSet, NUL
    <3>3. M[0] = First /\ M[1] = Read(M[0], "0", args) /\ M[2] = Read(M[1], "x", args)
          /\ M[3] = Read(M[2], "%", args) /\ M[4] = Read(M[3], "s", args)
      <4>1. \A k \in 1..4 : M[k] = Read(M[k - 1], fmt[k], args)
        BY <1>1, <3>2, MeaningIs
      <4>2. M[1] = Read(M[1 - 1], fmt[1], args) /\ M[2] = Read(M[2 - 1], fmt[2], args)
            /\ M[3] = Read(M[3 - 1], fmt[3], args) /\ M[4] = Read(M[4 - 1], fmt[4], args)
            /\ 1 - 1 = 0 /\ 2 - 1 = 1 /\ 3 - 1 = 2 /\ 4 - 1 = 3
        BY <4>1
      <4>3. fmt[1] = "0" /\ fmt[2] = "x" /\ fmt[3] = "%" /\ fmt[4] = "s"
        BY <3>1
      <4>4. M[0] = First
        BY <1>1, <3>2, MeaningIs
      <4> QED  BY <4>2, <4>3, <4>4
    <3> HIDE DEF M, fmt
    <3>4. PICK r \in Readings(args) : r = M[1] /\ r.at = "text" /\ r.next = 1 /\ r.text = <<"0">>
      <4>1. First.at = "text" /\ First.next = 1 /\ Append(First.text, "0") = <<"0">>
        BY DEF First
      <4>2. ShownBy(First, "0", M[1], args)
        <5>1. ShownBy(First, "0", Read(First, "0", args), args)
          BY <1>4, <1>6, <4>1
        <5> QED  BY <3>3, <5>1
      <4>3. M[1] \in Readings(args) /\ M[1].at = "text" /\ M[1].next = 1 /\ M[1].text = <<"0">>
        BY <4>1, <4>2 DEF ShownBy
      <4> QED  BY <4>3
    <3>5. PICK t \in Readings(args) : t = M[2] /\ t.at = "text" /\ t.next = 1 /\ t.text = <<"0", "x">>
      <4>1. Append(<<"0">>, "x") = <<"0", "x">>
        BY <1>2, ShortJoins
      <4>2. ShownBy(r, "x", M[2], args)
        <5>1. ShownBy(r, "x", Read(r, "x", args), args)
          BY <1>6, <3>4
        <5> QED  BY <3>3, <3>4, <5>1
      <4>3. M[2] \in Readings(args) /\ M[2].at = "text" /\ M[2].next = 1 /\ M[2].text = <<"0", "x">>
        BY <3>4, <4>1, <4>2 DEF ShownBy
      <4> QED  BY <4>3
    <3>6. <<"0", "x">> \in Texts
      BY SignsAreTexts
    <3>7. M[4].at = "text" /\ M[4].text = <<"0", "x">> \o s
      <4>1. TextGiven(Read(Read(t, "%", args), "s", args), <<"0", "x">>, s)
        BY <1>5, <3>5, <3>6
      <4> QED  BY <3>3, <3>5, <4>1 DEF TextGiven
    <3> QED  BY <2>2, <3>2, <3>7
  <2> QED  BY <2>1, <2>2 DEF Signs
<1> QED  BY <1>1, <1>7 DEF FitsArgs, args

-----------------------------------------------------------------------------
(* The calls on the stack: each is at a place of its format at which it    *)
(* has read what it should have, and only the innermost owes a number.     *)
Framed ==
  [fmt : Texts, args : Lists, pos : Nat, next : Nat,
   buf : [0..(BufSize - 1) -> Glyphs \cup {NUL}], i : -1..(BufSize - 1),
   j : -BufSize..(BufSize - 1), then : {<<>>, <<"buf">>} \cup Signs]

SoFar(f) == MeaningOf(f.fmt, f.args)[f.pos - 1]
Whole(f) == MeaningOf(f.fmt, f.args)[Len(f.fmt)].text

FrameInv(f) ==
  /\ f \in Framed /\ FitsArgs(f.fmt, f.args) /\ f.pos \in 1..(Len(f.fmt) + 1)
  /\ SoFar(f).at = "text" /\ SoFar(f).next = f.next

Before(then) == IF then = <<"buf">> THEN <<>> ELSE then

Owes(f, t) ==
  \/ f.then = <<>> /\ t = <<>>
  \/ f.then # <<>> /\ \E s \in Seq(Glyphs) : \E z \in 0..9 :
                        Holds(f.buf, f.i, f.j, s, z) /\ t = Before(f.then) \o ZerosBefore(s, z)

(* A message calls for a number or a string, a number for its digits.      *)
Level(f, k) ==
  \/ k = 1
  \/ k = 2 /\ f.then = <<>> /\ \E sign \in Signs : f.fmt = Wrap(sign)
  \/ k \in 2..3 /\ f.then = <<>> /\ "%" \notin ToSet(f.fmt)

(* What had been printed when each call began.                             *)
Balance(f, o, a) == \E t \in Texts : Owes(f, t) /\ o \o t = a \o SoFar(f).text

Story(c, o, m, acc) ==
  /\ acc \in Seq(Texts) /\ Len(acc) = Len(c)
  /\ Len(c) = 0 => o = Whole(m)
  /\ Len(c) > 0 => /\ acc[1] = <<>> /\ c[1].fmt = m.fmt /\ c[1].args = m.args
                   /\ Balance(c[Len(c)], o, acc[Len(c)])
  /\ \A k \in 1..(Len(c) - 1) : acc[k] \o SoFar(c[k]).text = acc[k + 1] \o Whole(c[k + 1])

Calls(c) ==
  /\ c \in Seq(Framed) /\ Len(c) <= 3
  /\ \A k \in 1..Len(c) :
       FrameInv(c[k]) /\ Level(c[k], k) /\ (k < Len(c) => c[k].then = <<>>)

StackInv(c, o, m) == m \in OldMessages /\ o \in Texts /\ Calls(c) /\ \E acc : Story(c, o, m, acc)

OldInv == StackInv(calls, out, msg)

LEMMA Rewrites ==
  ASSUME NEW c, NEW o, NEW m, StackInv(c, o, m), NEW n, n = Len(c), n > 0,
         NEW f, FrameInv(f), f.fmt = c[n].fmt, f.args = c[n].args,
         n = 1 \/ f.then = <<>>,
         NEW p \in Texts, \A a \in Texts : Balance(c[n], o, a) => Balance(f, p, a)
  PROVE  StackInv([c EXCEPT ![n] = f], p, m)
<1> DEFINE d == [c EXCEPT ![n] = f]
<1>1. /\ c \in Seq(Framed) /\ n \in 1..3 /\ f \in Framed
      /\ \A k \in 1..n : FrameInv(c[k]) /\ Level(c[k], k) /\ (k < n => c[k].then = <<>>)
  BY SMTT(40) DEF StackInv, Calls, FrameInv
<1>2. PICK acc : Story(c, o, m, acc)
  BY DEF StackInv
<1>3. /\ d \in Seq(Framed) /\ Len(d) = n /\ d[n] = f
      /\ \A k \in 1..n : k # n => d[k] = c[k]
  BY <1>1
<1> HIDE DEF d
<1>4. Level(f, n)
  BY <1>1 DEF Level
<1>5. Calls(d)
  <2>1. \A k \in 1..n : FrameInv(d[k]) /\ Level(d[k], k) /\ (k < n => d[k].then = <<>>)
    BY <1>1, <1>3, <1>4
  <2> QED  BY <1>1, <1>3, <2>1 DEF Calls
<1>6. Story(d, p, m, acc)
  <2>1. /\ acc \in Seq(Texts) /\ Len(acc) = n /\ acc[1] = <<>>
        /\ c[1].fmt = m.fmt /\ c[1].args = m.args /\ Balance(c[n], o, acc[n])
        /\ \A k \in 1..(n - 1) : acc[k] \o SoFar(c[k]).text = acc[k + 1] \o Whole(c[k + 1])
    BY <1>1, <1>2 DEF Story
  <2>2. Balance(d[n], p, acc[n])
    <3>1. acc[n] \in Texts
      BY <1>1, <2>1
    <3> QED  BY <1>3, <2>1, <3>1
  <2>3. \A k \in 1..n : d[k].fmt = c[k].fmt /\ d[k].args = c[k].args
    BY <1>3
  <2>4. \A k \in 1..n : Whole(d[k]) = Whole(c[k])
    BY <2>3 DEF Whole
  <2>5. \A k \in 1..(n - 1) : acc[k] \o SoFar(d[k]).text = acc[k + 1] \o Whole(d[k + 1])
    <3> TAKE k \in 1..(n - 1)
    <3>1. k \in 1..n /\ k # n /\ k + 1 \in 1..n
      BY <1>1
    <3> QED  BY <1>3, <2>1, <2>4, <3>1
  <2>6. d[1].fmt = m.fmt /\ d[1].args = m.args
    BY <1>1, <2>1, <2>3
  <2>7. Len(d) > 0 /\ Len(d) # 0 /\ Len(acc) = Len(d)
    BY <1>1, <1>3, <2>1
  <2>8. Balance(d[Len(d)], p, acc[Len(d)])
    BY <1>3, <2>2
  <2>9. \A k \in 1..(Len(d) - 1) : acc[k] \o SoFar(d[k]).text = acc[k + 1] \o Whole(d[k + 1])
    BY <1>3, <2>5
  <2> QED  BY <2>1, <2>6, <2>7, <2>8, <2>9, Zenon DEF Story
<1> QED  BY <1>5, <1>6 DEF StackInv, d

LEMMA Enters ==
  ASSUME NEW c, NEW o, NEW m, StackInv(c, o, m), NEW n, n = Len(c), n > 0, n < 3,
         NEW f, FrameInv(f), f.fmt = c[n].fmt, f.args = c[n].args, f.then = <<>>,
         NEW g, FrameInv(g), Level(g, n + 1), g.then = <<>>, g.pos = 1,
         \A a \in Texts : Balance(c[n], o, a) => o \o Whole(g) = a \o SoFar(f).text
  PROVE  StackInv(Append([c EXCEPT ![n] = f], g), o, m)
<1> DEFINE d == Append([c EXCEPT ![n] = f], g)
<1>1. /\ c \in Seq(Framed) /\ n \in 1..2 /\ f \in Framed /\ g \in Framed /\ o \in Texts
      /\ \A k \in 1..n : FrameInv(c[k]) /\ Level(c[k], k) /\ (k < n => c[k].then = <<>>)
  BY DEF StackInv, Calls, FrameInv
<1>2. PICK acc : Story(c, o, m, acc)
  BY DEF StackInv
<1>3. /\ d \in Seq(Framed) /\ Len(d) = n + 1 /\ d[n] = f /\ d[n + 1] = g
      /\ \A k \in 1..n : k # n => d[k] = c[k]
  BY <1>1
<1> HIDE DEF d
<1>4. Level(f, n)
  BY <1>1 DEF Level
<1>5. Calls(d)
  <2>1. \A k \in 1..(n + 1) :
          FrameInv(d[k]) /\ Level(d[k], k) /\ (k < n + 1 => d[k].then = <<>>)
    <3> TAKE k \in 1..(n + 1)
    <3>1. CASE k = n + 1
      BY <1>1, <1>3, <3>1
    <3>2. CASE k = n
      BY <1>1, <1>3, <1>4, <3>2
    <3>3. CASE k \in 1..n /\ k # n
      <4>1. k < n
        BY <1>1, <3>3
      <4> QED  BY <1>1, <1>3, <3>3, <4>1
    <3> QED  BY <1>1, <3>1, <3>2, <3>3
  <2> QED  BY <1>1, <1>3, <2>1 DEF Calls
<1> DEFINE more == Append(acc, o)
<1>6. Story(d, o, m, more)
  <2>1. /\ acc \in Seq(Texts) /\ Len(acc) = n /\ acc[1] = <<>>
        /\ c[1].fmt = m.fmt /\ c[1].args = m.args /\ Balance(c[n], o, acc[n])
        /\ \A k \in 1..(n - 1) : acc[k] \o SoFar(c[k]).text = acc[k + 1] \o Whole(c[k + 1])
    BY <1>1, <1>2 DEF Story
  <2>2. /\ more \in Seq(Texts) /\ Len(more) = n + 1 /\ more[n + 1] = o
        /\ \A k \in 1..n : more[k] = acc[k]
    BY <1>1, <2>1
  <2> HIDE DEF more
  <2>3. \A k \in 1..n : d[k].fmt = c[k].fmt /\ d[k].args = c[k].args
    BY <1>3
  <2>4. \A k \in 1..n : Whole(d[k]) = Whole(c[k])
    BY <2>3 DEF Whole
  <2>5. \A k \in 1..n : more[k] \o SoFar(d[k]).text = more[k + 1] \o Whole(d[k + 1])
    <3> TAKE k \in 1..n
    <3>1. CASE k = n
      <4>1. acc[n] \in Texts
        BY <1>1, <2>1
      <4>2. o \o Whole(g) = acc[n] \o SoFar(f).text
        BY <2>1, <4>1
      <4> QED  BY <1>3, <2>2, <3>1, <4>2
    <3>2. CASE k # n
      <4>1. k \in 1..(n - 1) /\ k + 1 \in 1..n
        BY <1>1, <3>2
      <4> QED  BY <1>3, <2>1, <2>2, <2>4, <3>2, <4>1
    <3> QED  BY <3>1, <3>2
  <2>6. d[1].fmt = m.fmt /\ d[1].args = m.args /\ more[1] = <<>>
    BY <1>1, <2>1, <2>2, <2>3
  <2>7. Balance(d[n + 1], o, more[n + 1])
    <3>1. SoFar(g) = First
      <4>1. g.pos - 1 = 0
        OBVIOUS
      <4> QED  BY <4>1, MeaningIs DEF SoFar, FrameInv, FitsArgs
    <3>2. Owes(g, <<>>) /\ <<>> \in Texts /\ First.text = <<>>
      BY SignsAreTexts DEF Owes, First
    <3>3. o \o <<>> = o /\ o = o \o First.text
      BY <3>2 DEF StackInv, Texts
    <3>4. Balance(g, o, o)
      BY <3>1, <3>2, <3>3 DEF Balance
    <3> QED  BY <1>3, <2>2, <3>4
  <2>8. Len(d) > 0 /\ Len(d) # 0 /\ Len(more) = Len(d) /\ Len(d) - 1 = n
    BY <1>1, <1>3, <2>2
  <2>9. Balance(d[Len(d)], o, more[Len(d)])
    BY <1>3, <2>7
  <2>10. \A k \in 1..(Len(d) - 1) : more[k] \o SoFar(d[k]).text = more[k + 1] \o Whole(d[k + 1])
    BY <2>5, <2>8
  <2> QED  BY <2>2, <2>6, <2>8, <2>9, <2>10, Zenon DEF Story
<1> QED  BY <1>1, <1>5, <1>6 DEF StackInv, d

LEMMA Leaves ==
  ASSUME NEW c, NEW o, NEW m, StackInv(c, o, m), NEW n, n = Len(c), n > 0,
         c[n].pos = Len(c[n].fmt) + 1, c[n].then = <<>>
  PROVE  StackInv(Front(c), o, m)
<1> DEFINE d == Front(c)
<1>1. /\ c \in Seq(Framed) /\ n \in 1..3 /\ o \in Texts
      /\ \A k \in 1..n : FrameInv(c[k]) /\ Level(c[k], k) /\ (k < n => c[k].then = <<>>)
  BY DEF StackInv, Calls
<1>2. PICK acc : Story(c, o, m, acc)
  BY DEF StackInv
<1>3. /\ d \in Seq(Framed) /\ Len(d) = n - 1 /\ \A k \in 1..(n - 1) : d[k] = c[k]
  BY <1>1 DEF Front
<1> HIDE DEF d
<1>4. Calls(d)
  <2>1. \A k \in 1..(n - 1) : k \in 1..n /\ k < n
    BY <1>1
  <2>2. \A k \in 1..(n - 1) : FrameInv(d[k]) /\ Level(d[k], k) /\ d[k].then = <<>>
    BY <1>1, <1>3, <2>1
  <2> QED  BY <1>1, <1>3, <2>2 DEF Calls
<1> DEFINE less == Front(acc)
<1>5. Story(d, o, m, less)
  <2>1. /\ acc \in Seq(Texts) /\ Len(acc) = n /\ acc[1] = <<>>
        /\ c[1].fmt = m.fmt /\ c[1].args = m.args /\ Balance(c[n], o, acc[n])
        /\ \A k \in 1..(n - 1) : acc[k] \o SoFar(c[k]).text = acc[k + 1] \o Whole(c[k + 1])
    BY <1>1, <1>2 DEF Story
  <2>2. /\ less \in Seq(Texts) /\ Len(less) = n - 1
        /\ \A k \in 1..(n - 1) : less[k] = acc[k]
    BY <1>1, <2>1 DEF Front
  <2> HIDE DEF less
  <2>3. acc[n] \in Texts /\ Whole(c[n]) \in Texts /\ o = acc[n] \o Whole(c[n])
    <3>1. acc[n] \in Texts
      BY <1>1, <2>1
    <3>2. c[n].fmt \in Texts /\ c[n].args \in Lists
      BY <1>1 DEF FrameInv, Framed
    <3>3. Len(c[n].fmt) \in 0..Len(c[n].fmt) /\ (Len(c[n].fmt) + 1) - 1 = Len(c[n].fmt)
      BY <3>2 DEF Texts
    <3>4. Whole(c[n]) \in Texts
      BY <3>2, <3>3, MeaningIs DEF Whole, Readings
    <3>5. SoFar(c[n]).text = Whole(c[n])
      BY <3>3 DEF SoFar, Whole
    <3>6. o \o <<>> = acc[n] \o SoFar(c[n]).text
      BY <2>1 DEF Balance, Owes
    <3>7. o \o <<>> = o
      BY <1>1 DEF Texts
    <3> QED  BY <3>1, <3>4, <3>5, <3>6, <3>7
  <2>4. CASE n = 1
    <3>1. Whole(c[n]) = Whole(m)
      BY <2>1, <2>4 DEF Whole
    <3>2. <<>> \o Whole(c[n]) = Whole(c[n])
      BY <2>3 DEF Texts
    <3>3. o = Whole(m)
      BY <2>1, <2>3, <2>4, <3>1, <3>2
    <3> QED  BY <1>3, <2>2, <2>4, <3>3 DEF Story
  <2>5. CASE n # 1
    <3>1. n - 1 \in 1..n /\ n - 1 < n /\ (n - 1) + 1 = n /\ n - 1 \in 1..(n - 1) /\ 1 \in 1..(n - 1)
      BY <1>1, <2>5
    <3>2. o = acc[n - 1] \o SoFar(c[n - 1]).text
      BY <2>1, <2>3, <3>1
    <3>3. Owes(c[n - 1], <<>>)
      BY <1>1, <3>1 DEF Owes
    <3>4. o \o <<>> = o /\ <<>> \in Texts
      BY <1>1, SignsAreTexts DEF Texts
    <3>5. Balance(d[n - 1], o, less[n - 1])
      BY <1>3, <2>2, <3>1, <3>2, <3>3, <3>4 DEF Balance
    <3>6. \A k \in 1..((n - 1) - 1) : less[k] \o SoFar(d[k]).text = less[k + 1] \o Whole(d[k + 1])
      <4> TAKE k \in 1..((n - 1) - 1)
      <4>1. k \in 1..(n - 1) /\ k + 1 \in 1..(n - 1)
        BY <1>1
      <4> QED  BY <1>3, <2>1, <2>2, <4>1
    <3>7. d[1].fmt = m.fmt /\ d[1].args = m.args /\ less[1] = <<>>
      BY <1>3, <2>1, <2>2, <3>1
    <3>8. Len(d) > 0 /\ Len(d) # 0 /\ Len(less) = Len(d)
      BY <1>1, <1>3, <2>2, <2>5
    <3>9. Balance(d[Len(d)], o, less[Len(d)])
      BY <1>3, <3>5
    <3>10. \A k \in 1..(Len(d) - 1) : less[k] \o SoFar(d[k]).text = less[k + 1] \o Whole(d[k + 1])
      BY <1>3, <3>6
    <3> QED  BY <2>2, <3>7, <3>8, <3>9, <3>10, Zenon DEF Story
  <2> QED  BY <2>4, <2>5
<1>6. m \in OldMessages
  BY DEF StackInv
<1> QED  BY <1>1, <1>4, <1>5, <1>6 DEF StackInv, d

LEMMA Advances ==
  ASSUME NEW f, FrameInv(f), NEW q \in 1..Len(f.fmt), MeaningOf(f.fmt, f.args)[q].at = "text",
         NEW g, g \in Framed, g.fmt = f.fmt, g.args = f.args, g.pos = q + 1,
         g.next = MeaningOf(f.fmt, f.args)[q].next
  PROVE  FrameInv(g) /\ SoFar(g) = MeaningOf(f.fmt, f.args)[q]
<1>1. (q + 1) - 1 = q /\ f.fmt \in Texts /\ Len(f.fmt) \in Nat
  BY DEF FrameInv, FitsArgs, Texts
<1>2. SoFar(g) = MeaningOf(f.fmt, f.args)[q]
  BY <1>1 DEF SoFar
<1>3. q + 1 \in 1..(Len(f.fmt) + 1)
  BY <1>1
<1> QED  BY <1>2, <1>3 DEF FrameInv

LEMMA Begins ==
  ASSUME NEW fmt, NEW args, FitsArgs(fmt, args)
  PROVE  /\ FrameInv(Frame(fmt, args)) /\ Frame(fmt, args).then = <<>> /\ Frame(fmt, args).pos = 1
         /\ Frame(fmt, args).fmt = fmt /\ Frame(fmt, args).args = args
         /\ SoFar(Frame(fmt, args)) = First
<1> DEFINE g == Frame(fmt, args)
           b == [k \in 0..(BufSize - 1) |-> NUL]
<1>1. b \in [0..(BufSize - 1) -> Glyphs \cup {NUL}]
  OBVIOUS
<1>2. -1 \in -1..(BufSize - 1) /\ -1 \in -BufSize..(BufSize - 1)
  BY SomeBits
<1>3. fmt \in Texts /\ args \in Lists /\ Len(fmt) \in Nat
  BY DEF FitsArgs, Texts
<1> HIDE DEF b
<1>4. g = [fmt |-> fmt, args |-> args, pos |-> 1, next |-> 1, buf |-> b, i |-> -1, j |-> -1,
           then |-> <<>>]
  BY DEF Frame, b
<1>5. g \in Framed
  BY <1>1, <1>2, <1>3, <1>4 DEF Framed
<1>6. g.pos = 1 /\ g.next = 1 /\ g.fmt = fmt /\ g.args = args /\ g.then = <<>>
  BY <1>4
<1> HIDE DEF g
<1>7. SoFar(g) = First
  <2>1. MeaningOf(fmt, args)[0] = First /\ 1 - 1 = 0
    BY <1>3, MeaningIs
  <2> QED  BY <1>6, <2>1 DEF SoFar
<1>8. First.at = "text" /\ First.next = 1
  BY DEF First
<1>9. 1 \in 1..(Len(fmt) + 1)
  BY <1>3
<1>10. FrameInv(g)
  BY <1>5, <1>6, <1>7, <1>8, <1>9 DEF FrameInv
<1> QED  BY <1>6, <1>7, <1>10 DEF g

(* Where the innermost call is.                                            *)
LEMMA InnerIs ==
  ASSUME OldInv, calls # <<>>
  PROVE  /\ Len(calls) \in 1..3 /\ FrameInv(Inner) /\ Level(Inner, Len(calls)) /\ Inner \in Framed
         /\ SoFar(Inner).text \in Texts /\ msg \in OldMessages /\ out \in Texts
         /\ \E a \in Texts : Balance(Inner, out, a)
<1>1. calls \in Seq(Framed) /\ Len(calls) <= 3 /\ msg \in OldMessages /\ out \in Texts
      /\ \A k \in 1..Len(calls) : FrameInv(calls[k]) /\ Level(calls[k], k)
  BY DEF OldInv, StackInv, Calls
<1>2. Len(calls) \in 1..3
  <2>1. PICK c : c = calls
    OBVIOUS
  <2>2. c \in Seq(Framed) /\ Len(c) <= 3 /\ c # <<>>
    BY <1>1, <2>1
  <2>3. PICK n \in Nat : n = Len(c)
    BY <2>2
  <2>4. n # 0 /\ n <= 3
    BY <2>2, <2>3
  <2>5. n \in 1..3
    BY <2>4
  <2> QED  BY <2>1, <2>3, <2>5
<1>3. FrameInv(Inner) /\ Level(Inner, Len(calls)) /\ Inner \in Framed
  BY <1>1, <1>2 DEF Inner
<1>4. PICK f : f = Inner
  OBVIOUS
<1>5. SoFar(Inner).text \in Texts
  <2>1. f.fmt \in Texts /\ f.args \in Lists /\ f.pos - 1 \in 0..Len(f.fmt)
    BY <1>3, <1>4 DEF FrameInv, FitsArgs, Texts
  <2>2. SoFar(f) \in Readings(f.args)
    BY <2>1, MeaningIs DEF SoFar
  <2> QED  BY <1>4, <2>2 DEF Readings
<1>6. \E a \in Texts : Balance(Inner, out, a)
  <2>1. PICK acc : Story(calls, out, msg, acc)
    BY DEF OldInv, StackInv
  <2>2. acc \in Seq(Texts) /\ Len(acc) = Len(calls) /\ Balance(Inner, out, acc[Len(calls)])
    BY <1>2, <2>1 DEF Story, Inner
  <2>3. acc[Len(calls)] \in Texts
    BY <1>2, <2>2
  <2> QED  BY <2>2, <2>3
<1> QED  BY <1>1, <1>2, <1>3, <1>5, <1>6

LEMMA PlaceIs ==
  ASSUME OldInv, calls # <<>>
  PROVE  /\ CharAt(Inner.pos) = NUL => Inner.pos = Len(Inner.fmt) + 1
         /\ CharAt(Inner.pos) # NUL => Inner.pos \in 1..Len(Inner.fmt)
                                       /\ CharAt(Inner.pos) = Inner.fmt[Inner.pos]
<1>1. PICK f : f = Inner
  OBVIOUS
<1>2. f.fmt \in Texts /\ f.pos \in 1..(Len(f.fmt) + 1) /\ NUL \notin ToSet(f.fmt)
  BY <1>1, InnerIs DEF FrameInv, FitsArgs
<1>3. Len(f.fmt) \in Nat /\ \A k \in 1..Len(f.fmt) : f.fmt[k] # NUL
  BY <1>2 DEF Texts, ToSet
<1> QED  BY <1>1, <1>2, <1>3 DEF CharAt

(* The conversion at which the innermost call is.                          *)
LEMMA ConversionIs ==
  ASSUME OldInv, calls # <<>>, CharAt(Inner.pos) = "%"
  PROVE  LET t == MeaningOf(Inner.fmt, Inner.args)[ConvPos]
             r == SoFar(Inner)
         IN /\ ConvPos \in 1..Len(Inner.fmt) /\ Width \in 0..9 /\ t.at = "text"
            /\ ~IsConversion(Conv) => t.next = Inner.next /\ t.text = r.text
            /\ IsConversion(Conv) =>
                 /\ Inner.next \in DOMAIN Inner.args /\ Arg \in Passable /\ Accepts(Conv, Arg)
                 /\ t.next = Inner.next + 1 /\ t.text = r.text \o OldMeaning(Conv, Width, Arg)
<1>1. PICK f, p : f = Inner /\ p = f.pos
  OBVIOUS
<1>2. /\ FitsArgs(f.fmt, f.args) /\ MeaningOf(f.fmt, f.args)[p - 1].at = "text"
      /\ MeaningOf(f.fmt, f.args)[p - 1].next = f.next /\ f.fmt \in Texts
  BY <1>1, InnerIs DEF FrameInv, SoFar, FitsArgs
<1>3. p \in 1..Len(f.fmt) /\ f.fmt[p] = "%"
  BY <1>1, PlaceIs DEF NUL
<1>4. ~IsSize(NUL)
  <2>1. \A d \in 1..10 : d \in 1..16 /\ DigitChars[d] # NUL
    BY GlyphsAre
  <2> QED  BY <2>1 DEF IsSize
<1>5. HasSize <=> p + 1 <= Len(f.fmt) /\ IsSize(f.fmt[p + 1])
  BY <1>1, <1>4 DEF HasSize, CharAt
<1>6. PICK q, z : /\ q = p + (IF p + 1 <= Len(f.fmt) /\ IsSize(f.fmt[p + 1]) THEN 2 ELSE 1)
                  /\ z = IF p + 1 <= Len(f.fmt) /\ IsSize(f.fmt[p + 1]) THEN SizeOf(f.fmt[p + 1]) ELSE 0
  OBVIOUS
<1>7. ConvPos = q /\ Width = z
  BY <1>1, <1>5, <1>6, SMTT(40) DEF ConvPos, Width, CharAt
<1>8. LET r == MeaningOf(f.fmt, f.args)[p - 1]
          t == MeaningOf(f.fmt, f.args)[q]
          v == f.args[r.next]
      IN /\ q \in 2..Len(f.fmt) /\ z \in 0..9 /\ t.at = "text"
         /\ ~IsConversion(f.fmt[q]) => t.next = r.next /\ t.text = r.text
         /\ IsConversion(f.fmt[q]) =>
              /\ r.next \in DOMAIN f.args /\ v \in Passable /\ Accepts(f.fmt[q], v)
              /\ t.next = r.next + 1 /\ t.text = r.text \o OldMeaning(f.fmt[q], z, v)
  <2>1. PICK g, a : g = f.fmt /\ a = f.args
    OBVIOUS
  <2>2. FitsArgs(g, a) /\ p \in 1..Len(g) /\ MeaningOf(g, a)[p - 1].at = "text" /\ g[p] = "%"
    BY <1>2, <1>3, <2>1
  <2>3. q = ConvAt(g, p) /\ z = SizeAt(g, p)
    BY <1>6, <2>1 DEF ConvAt, SizeAt
  <2>4. ConversionShows(g, a, p, q, z)
    BY <2>2, <2>3, Converts
  <2> QED  BY <2>1, <2>4 DEF ConversionShows
<1>9. q \in 1..Len(f.fmt) /\ q <= Len(f.fmt)
  BY <1>8
<1>10. Conv = f.fmt[q] /\ Arg = f.args[f.next] /\ SoFar(Inner) = MeaningOf(f.fmt, f.args)[p - 1]
  BY <1>1, <1>7, <1>9 DEF Conv, CharAt, Arg, SoFar
<1> QED  BY <1>1, <1>2, <1>7, <1>8, <1>9, <1>10, Zenon

(* Only a message has a number in it, and only a message or the format of  *)
(* a number has a string.                                                  *)
LEMMA LevelIs ==
  ASSUME OldInv, calls # <<>>, CharAt(Inner.pos) = "%"
  PROVE  Len(calls) = 1 \/ (Len(calls) = 2 /\ Conv = "s")
<1>1. PICK f, p : f = Inner /\ p = f.pos
  OBVIOUS
<1>2. Level(f, Len(calls)) /\ Len(calls) \in 1..3 /\ f.fmt \in Texts
  BY <1>1, InnerIs DEF FrameInv, FitsArgs
<1>3. p \in 1..Len(f.fmt) /\ f.fmt[p] = "%"
  BY <1>1, PlaceIs DEF NUL
<1>4. "%" \in ToSet(f.fmt)
  BY <1>2, <1>3 DEF ToSet, Texts
<1>5. ASSUME Len(calls) = 2, NEW sign \in Signs, f.fmt = Wrap(sign) PROVE Conv = "s"
  <2>0. "-" \in Symbols /\ "0" \in Symbols /\ "x" \in Symbols /\ "%" \in Symbols /\ "s" \in Symbols
    BY GlyphTexts, GlyphsAre DEF Symbols
  <2>1. CASE sign = <<"-">>
    <3>1. f.fmt = <<"-", "%", "s">>
      BY <1>5, <2>0, <2>1, ShortJoins DEF Wrap
    <3>2. p = 2 /\ Len(f.fmt) = 3 /\ f.fmt[3] = "s"
      <4>1. \A k \in 1..3 : k = 1 \/ k = 2 \/ k = 3
        OBVIOUS
      <4> QED  BY <1>3, <3>1, <4>1
    <3> QED  BY <1>1, <3>2, NoSize DEF Conv, ConvPos, HasSize, CharAt
  <2>2. CASE sign = <<"0", "x">>
    <3>1. f.fmt = <<"0", "x", "%", "s">>
      <4>1. <<"0", "x">> \o <<"%", "s">> = <<"0", "x", "%", "s">>
        BY <2>0, PairsJoin
      <4> QED  BY <1>5, <2>2, <4>1 DEF Wrap
    <3>2. p = 3 /\ Len(f.fmt) = 4 /\ f.fmt[4] = "s"
      <4>1. \A k \in 1..4 : k = 1 \/ k = 2 \/ k = 3 \/ k = 4
        OBVIOUS
      <4> QED  BY <1>3, <3>1, <4>1
    <3> QED  BY <1>1, <3>2, NoSize DEF Conv, ConvPos, HasSize, CharAt
  <2> QED  BY <2>1, <2>2 DEF Signs
<1> QED  BY <1>2, <1>4, <1>5 DEF Level

(* The innermost call goes on.                                             *)
LEMMA InnerGoesOn ==
  ASSUME OldInv, calls # <<>>, NEW f, FrameInv(f), f.fmt = Inner.fmt, f.args = Inner.args,
         Len(calls) = 1 \/ f.then = <<>>, NEW p \in Texts,
         \A a \in Texts : Balance(Inner, out, a) => Balance(f, p, a),
         calls' = SetTop(f), out' = p, msg' = msg
  PROVE  OldInv'
<1>1. PICK c, o, m : c = calls /\ o = out /\ m = msg
  OBVIOUS
<1>2. PICK n : n = Len(c)
  OBVIOUS
<1>3. StackInv(c, o, m)
  BY <1>1 DEF OldInv
<1>4. n > 0 /\ Inner = c[n]
  BY <1>1, <1>2, InnerIs DEF Inner
<1>5. StackInv([c EXCEPT ![n] = f], p, m)
  BY <1>1, <1>2, <1>3, <1>4, Rewrites
<1>6. calls' = [c EXCEPT ![n] = f] /\ out' = p /\ msg' = m
  BY <1>1, <1>2 DEF SetTop
<1> QED  BY <1>5, <1>6 DEF OldInv

Associate(a, b, c) == (a \o b) \o c = a \o (b \o c)

LEMMA TextsAssociate == \A a, b, c \in Texts : Associate(a, b, c)
  BY JoinsAssociate DEF Texts, Associate

(* What is printed is what has been read.                                  *)
LEMMA Balances ==
  \A f, g : \A o, s, a \in Texts :
    /\ f.then = <<>> /\ g.then = <<>> /\ SoFar(f).text \in Texts
    /\ SoFar(g).text = SoFar(f).text \o s /\ Balance(f, o, a)
    => Balance(g, o \o s, a)
<1> SUFFICES ASSUME NEW f, NEW g, NEW o \in Texts, NEW s \in Texts, NEW a \in Texts,
                    f.then = <<>>, g.then = <<>>, SoFar(f).text \in Texts,
                    SoFar(g).text = SoFar(f).text \o s, Balance(f, o, a)
             PROVE  Balance(g, o \o s, a)
  OBVIOUS
<1>1. PICK r : r = SoFar(f).text
  OBVIOUS
<1>2. o \o <<>> = a \o r
  BY <1>1 DEF Balance, Owes
<1>3. o \o <<>> = o /\ (o \o s) \o <<>> = o \o s /\ o \o s \in Texts
  BY JoinTexts DEF Texts
<1>4. (a \o r) \o s = a \o (r \o s)
  <2>1. Associate(a, r, s)
    BY <1>1, TextsAssociate
  <2> QED  BY <2>1 DEF Associate
<1>5. (o \o s) \o <<>> = a \o SoFar(g).text
  BY <1>1, <1>2, <1>3, <1>4
<1>6. Owes(g, <<>>) /\ <<>> \in Texts
  BY SignsAreTexts DEF Owes
<1> QED  BY <1>5, <1>6 DEF Balance

LEMMA OneSymbol == \A c \in Symbols : <<c>> \in Texts /\ \A s \in Texts : Append(s, c) = s \o <<c>>
  BY DEF Texts

LEMMA PutStep == OldInv /\ Put => OldInv'
<1> SUFFICES ASSUME OldInv, Put PROVE OldInv'
  OBVIOUS
<1>1. calls # <<>> /\ Inner.then = <<>> /\ CharAt(Inner.pos) \notin {"%", NUL}
      /\ out' = Append(out, CharAt(Inner.pos)) /\ msg' = msg
      /\ calls' = SetTop([Inner EXCEPT !.pos = Inner.pos + 1])
  BY DEF Put, Runs
<1>2. PICK f, o, c, p : f = Inner /\ o = out /\ c = CharAt(Inner.pos) /\ p = Inner.pos
  OBVIOUS
<1>3. /\ f \in Framed /\ FrameInv(f) /\ FitsArgs(f.fmt, f.args) /\ SoFar(f).text \in Texts
      /\ o \in Texts /\ p \in 1..Len(f.fmt) /\ c = f.fmt[p] /\ c # "%"
      /\ SoFar(f) = MeaningOf(f.fmt, f.args)[p - 1] /\ SoFar(f).at = "text"
      /\ SoFar(f).next = f.next
  BY <1>1, <1>2, InnerIs, PlaceIs DEF FrameInv, SoFar
<1>4. PICK g : g = [f EXCEPT !.pos = p + 1]
  OBVIOUS
<1>5. g \in Framed /\ g.fmt = f.fmt /\ g.args = f.args /\ g.pos = p + 1 /\ g.next = f.next
      /\ g.then = f.then
  BY <1>2, <1>3, <1>4, SMTT(40) DEF Framed
<1>6. /\ c \in Symbols /\ MeaningOf(f.fmt, f.args)[p].at = "text"
      /\ MeaningOf(f.fmt, f.args)[p].next = f.next
      /\ MeaningOf(f.fmt, f.args)[p].text = Append(SoFar(f).text, c)
  <2>1. PICK fmt, args : fmt = f.fmt /\ args = f.args
    OBVIOUS
  <2>2. FitsArgs(fmt, args) /\ p \in 1..Len(fmt) /\ fmt[p] # "%"
        /\ MeaningOf(fmt, args)[p - 1].at = "text"
    BY <1>3, <2>1
  <2>3. /\ fmt[p] \in Symbols /\ MeaningOf(fmt, args)[p].at = "text"
        /\ MeaningOf(fmt, args)[p].next = MeaningOf(fmt, args)[p - 1].next
        /\ MeaningOf(fmt, args)[p].text = Append(MeaningOf(fmt, args)[p - 1].text, fmt[p])
    BY <2>2, Shows
  <2> QED  BY <1>3, <2>1, <2>3
<1>7. FrameInv(g) /\ SoFar(g) = MeaningOf(f.fmt, f.args)[p]
  BY <1>3, <1>5, <1>6, Advances, SMTT(40)
<1>8. SoFar(g).text = SoFar(f).text \o <<c>> /\ <<c>> \in Texts /\ out' = o \o <<c>>
  BY <1>1, <1>2, <1>3, <1>6, <1>7, OneSymbol, ZenonT(40)
<1>9. o \o <<c>> \in Texts /\ f.then = <<>> /\ g.then = <<>>
  BY <1>1, <1>2, <1>3, <1>5, <1>8, JoinTexts
<1>10. \A a \in Texts : Balance(f, o, a) => Balance(g, o \o <<c>>, a)
  BY <1>3, <1>8, <1>9, Balances
<1>11. calls' = SetTop(g)
  BY <1>1, <1>2, <1>4
<1> QED  BY <1>1, <1>2, <1>5, <1>7, <1>8, <1>9, <1>10, <1>11, InnerGoesOn


(* The innermost call past its conversion, with or without its argument.   *)
LEMMA Passes ==
  ASSUME OldInv, calls # <<>>, CharAt(Inner.pos) = "%", NEW g, g \in Framed,
         g.fmt = Inner.fmt, g.args = Inner.args, g.pos = ConvPos + 1,
         g.next = IF IsConversion(Conv) THEN Inner.next + 1 ELSE Inner.next
  PROVE  /\ FrameInv(g) /\ SoFar(g).text \in Texts
         /\ IF IsConversion(Conv)
            THEN /\ Inner.next \in DOMAIN Inner.args /\ Arg \in Passable /\ Accepts(Conv, Arg)
                 /\ SoFar(g).text = SoFar(Inner).text \o OldMeaning(Conv, Width, Arg)
                 /\ OldMeaning(Conv, Width, Arg) \in Texts /\ Width \in 0..9
            ELSE SoFar(g).text = SoFar(Inner).text
<1>1. PICK f, q, t : /\ f = Inner /\ q = ConvPos /\ t = MeaningOf(f.fmt, f.args)[q]
  OBVIOUS
<1>2. /\ FrameInv(f) /\ q \in 1..Len(f.fmt) /\ t.at = "text" /\ g.pos = q + 1 /\ g.next = t.next
      /\ IF IsConversion(Conv)
         THEN /\ f.next \in DOMAIN f.args /\ Arg \in Passable /\ Accepts(Conv, Arg)
              /\ t.text = SoFar(f).text \o OldMeaning(Conv, Width, Arg) /\ Width \in 0..9
         ELSE t.text = SoFar(f).text
  BY <1>1, InnerIs, ConversionIs
<1>3. FrameInv(g) /\ SoFar(g) = t
  BY <1>1, <1>2, Advances
<1>4. t.text \in Texts
  <2>1. f.fmt \in Texts /\ f.args \in Lists /\ q \in 0..Len(f.fmt)
    BY <1>2 DEF FrameInv, FitsArgs, Texts
  <2>2. t \in Readings(f.args)
    BY <1>1, <2>1, MeaningIs
  <2> QED  BY <2>2 DEF Readings
<1>5. IsConversion(Conv) => OldMeaning(Conv, Width, Arg) \in Texts
  BY <1>2, MeaningIsText
<1> QED  BY <1>1, <1>2, <1>3, <1>4, <1>5

LEMMA SkipStep == OldInv /\ Skip => OldInv'
<1> SUFFICES ASSUME OldInv, Skip PROVE OldInv'
  OBVIOUS
<1>1. calls # <<>> /\ Inner.then = <<>> /\ CharAt(Inner.pos) = "%" /\ ~IsConversion(Conv)
      /\ calls' = SetTop([Inner EXCEPT !.pos = ConvPos + 1]) /\ out' = out /\ msg' = msg
  BY DEF Skip, Runs, IsConversion, IsNumber
<1>2. PICK f, o, q : f = Inner /\ o = out /\ q = ConvPos
  OBVIOUS
<1>3. f \in Framed /\ SoFar(f).text \in Texts /\ o \in Texts /\ q \in Nat
  BY <1>1, <1>2, InnerIs, ConversionIs
<1>4. PICK g : g = [f EXCEPT !.pos = q + 1]
  OBVIOUS
<1>5. g \in Framed /\ g.fmt = f.fmt /\ g.args = f.args /\ g.pos = q + 1 /\ g.next = f.next
      /\ g.then = f.then
  BY <1>3, <1>4 DEF Framed
<1>6. FrameInv(g) /\ SoFar(g).text = SoFar(f).text
  BY <1>1, <1>2, <1>5, Passes
<1>7. SoFar(g).text = SoFar(f).text \o <<>> /\ o = o \o <<>> /\ <<>> \in Texts
  BY <1>3, <1>6, SignsAreTexts DEF Texts
<1>8. \A a \in Texts : Balance(f, o, a) => Balance(g, o, a)
  <2>1. f.then = <<>> /\ g.then = <<>>
    BY <1>1, <1>2, <1>5
  <2>2. \A a \in Texts : Balance(f, o, a) => Balance(g, o \o <<>>, a)
    BY <1>3, <1>7, <2>1, Balances
  <2> QED  BY <1>7, <2>2, Zenon
<1>9. calls' = SetTop(g)
  BY <1>1, <1>2, <1>4
<1> QED  BY <1>1, <1>2, <1>3, <1>5, <1>6, <1>8, <1>9, InnerGoesOn

LEMMA PrintCharStep == OldInv /\ PrintChar => OldInv'
<1> SUFFICES ASSUME OldInv, PrintChar PROVE OldInv'
  OBVIOUS
<1>1. calls # <<>> /\ Inner.then = <<>> /\ CharAt(Inner.pos) = "%" /\ Conv = "c"
      /\ IsConversion(Conv) /\ calls' = SetTop(Taken) /\ out' = Append(out, Arg) /\ msg' = msg
  BY DEF PrintChar, Runs, IsConversion
<1>2. PICK f, o, q, v : f = Inner /\ o = out /\ q = ConvPos /\ v = Arg
  OBVIOUS
<1>3. f \in Framed /\ SoFar(f).text \in Texts /\ o \in Texts /\ q \in Nat /\ f.next \in Nat
  BY <1>1, <1>2, InnerIs, ConversionIs DEF Framed
<1>4. PICK g : g = [f EXCEPT !.pos = q + 1, !.next = f.next + 1]
  OBVIOUS
<1>5. g \in Framed /\ g.fmt = f.fmt /\ g.args = f.args /\ g.pos = q + 1 /\ g.next = f.next + 1
      /\ g.then = f.then
  <2>1. PICK p, n : p = q + 1 /\ n = f.next + 1
    OBVIOUS
  <2>2. p \in Nat /\ n \in Nat /\ g = [f EXCEPT !.pos = p, !.next = n]
    BY <1>3, <1>4, <2>1
  <2>3. g \in Framed /\ g.fmt = f.fmt /\ g.args = f.args /\ g.pos = p /\ g.next = n
        /\ g.then = f.then
    BY <1>3, <2>2 DEF Framed
  <2> QED  BY <2>1, <2>3
<1>6. FrameInv(g) /\ SoFar(g).text = SoFar(f).text \o OldMeaning(Conv, Width, v) /\ v \in Passable
  BY <1>1, <1>2, <1>5, Passes
<1>7. OldMeaning(Conv, Width, v) = <<v>>
  BY <1>1 DEF OldMeaning
<1>8. <<v>> \in Texts /\ out' = o \o <<v>> /\ o \o <<v>> \in Texts
  BY <1>1, <1>2, <1>3, <1>6, ValuesAre, OneSymbol, JoinTexts
<1>9. \A a \in Texts : Balance(f, o, a) => Balance(g, o \o <<v>>, a)
  BY <1>1, <1>2, <1>3, <1>5, <1>6, <1>7, <1>8, Balances
<1>10. calls' = SetTop(g)
  BY <1>1, <1>2, <1>4 DEF Taken
<1> QED  BY <1>1, <1>2, <1>5, <1>6, <1>8, <1>9, <1>10, InnerGoesOn

LEMMA LeaveStep == OldInv /\ Leave => OldInv'
<1> SUFFICES ASSUME OldInv, Leave PROVE OldInv'
  OBVIOUS
<1>1. calls # <<>> /\ Inner.then = <<>> /\ CharAt(Inner.pos) = NUL
      /\ calls' = Front(calls) /\ out' = out /\ msg' = msg
  BY DEF Leave, Runs
<1>2. PICK c, o, m : c = calls /\ o = out /\ m = msg
  OBVIOUS
<1>3. PICK n : n = Len(c)
  OBVIOUS
<1>4. StackInv(c, o, m)
  BY <1>2 DEF OldInv
<1>5. n > 0 /\ Inner = c[n] /\ Inner.pos = Len(Inner.fmt) + 1
  BY <1>1, <1>2, <1>3, InnerIs, PlaceIs DEF Inner
<1>6. StackInv(Front(c), o, m)
  BY <1>1, <1>3, <1>4, <1>5, Leaves
<1> QED  BY <1>1, <1>2, <1>6 DEF OldInv


(* The innermost call calls.                                               *)
LEMMA CallsOn ==
  ASSUME OldInv, calls # <<>>, Len(calls) < 3, NEW f, FrameInv(f), f.fmt = Inner.fmt,
         f.args = Inner.args, f.then = <<>>, NEW fmt, NEW args, FitsArgs(fmt, args),
         Level(Frame(fmt, args), Len(calls) + 1),
         \A a \in Texts : Balance(Inner, out, a) =>
           out \o MeaningOf(fmt, args)[Len(fmt)].text = a \o SoFar(f).text,
         Enter(f, fmt, args)
  PROVE  OldInv'
<1>1. PICK c, o, m, g : c = calls /\ o = out /\ m = msg /\ g = Frame(fmt, args)
  OBVIOUS
<1>2. PICK n : n = Len(c)
  OBVIOUS
<1>3. StackInv(c, o, m)
  BY <1>1 DEF OldInv
<1>4. n > 0 /\ n < 3 /\ Inner = c[n] /\ Level(g, n + 1)
  BY <1>1, <1>2, InnerIs DEF Inner
<1>5. FrameInv(g) /\ g.then = <<>> /\ g.pos = 1 /\ g.fmt = fmt /\ g.args = args
  BY <1>1, Begins
<1>6. \A a \in Texts : Balance(c[n], o, a) => o \o Whole(g) = a \o SoFar(f).text
  BY <1>1, <1>4, <1>5 DEF Whole
<1>7. StackInv(Append([c EXCEPT ![n] = f], g), o, m)
  BY <1>2, <1>3, <1>4, <1>5, <1>6, Enters
<1>8. calls' = Append([c EXCEPT ![n] = f], g) /\ out' = o /\ msg' = m
  BY <1>1, <1>2 DEF Enter, SetTop
<1> QED  BY <1>7, <1>8 DEF OldInv

(* A call that owes nothing has printed what it has read.                  *)
LEMMA Even ==
  \A f : \A o, a \in Texts : f.then = <<>> /\ Balance(f, o, a) => o = a \o SoFar(f).text
<1> SUFFICES ASSUME NEW f, NEW o \in Texts, NEW a \in Texts, f.then = <<>>, Balance(f, o, a)
             PROVE  o = a \o SoFar(f).text
  OBVIOUS
<1>1. o \o <<>> = a \o SoFar(f).text
  BY DEF Balance, Owes
<1>2. o \o <<>> = o
  BY DEF Texts
<1> QED  BY <1>1, <1>2

LEMMA PrintStringStep == OldInv /\ PrintString => OldInv'
<1> SUFFICES ASSUME OldInv, PrintString PROVE OldInv'
  OBVIOUS
<1>1. calls # <<>> /\ Inner.then = <<>> /\ CharAt(Inner.pos) = "%" /\ Conv = "s"
      /\ IsConversion(Conv) /\ Enter(Taken, Arg, <<>>)
  BY DEF PrintString, Runs, IsConversion
<1>2. PICK f, o, q, v : f = Inner /\ o = out /\ q = ConvPos /\ v = Arg
  OBVIOUS
<1>3. f \in Framed /\ SoFar(f).text \in Texts /\ o \in Texts /\ q \in Nat /\ f.next \in Nat
  BY <1>1, <1>2, InnerIs, ConversionIs DEF Framed
<1>4. PICK g : g = [f EXCEPT !.pos = q + 1, !.next = f.next + 1]
  OBVIOUS
<1>5. g \in Framed /\ g.fmt = f.fmt /\ g.args = f.args /\ g.pos = q + 1 /\ g.next = f.next + 1
      /\ g.then = f.then
  <2>1. PICK p, n : p = q + 1 /\ n = f.next + 1
    OBVIOUS
  <2>2. p \in Nat /\ n \in Nat /\ g = [f EXCEPT !.pos = p, !.next = n]
    BY <1>3, <1>4, <2>1
  <2>3. g \in Framed /\ g.fmt = f.fmt /\ g.args = f.args /\ g.pos = p /\ g.next = n
        /\ g.then = f.then
    BY <1>3, <2>2 DEF Framed
  <2> QED  BY <2>1, <2>3
<1>6. /\ FrameInv(g) /\ SoFar(g).text = SoFar(f).text \o OldMeaning(Conv, Width, v)
      /\ v \in Passable /\ Accepts(Conv, v) /\ OldMeaning(Conv, Width, v) \in Texts
  BY <1>1, <1>2, <1>5, Passes
<1>7. OldMeaning(Conv, Width, v) = v /\ PlainText(v)
  BY <1>1, <1>6 DEF OldMeaning, Accepts
<1>8. FitsArgs(v, <<>>) /\ MeaningOf(v, <<>>)[Len(v)].text = v /\ v \in Texts
  BY <1>6, <1>7, PassedFits
<1>9. \A a \in Texts : Balance(f, o, a) =>
        o \o MeaningOf(v, <<>>)[Len(v)].text = a \o SoFar(g).text
  <2> SUFFICES ASSUME NEW a \in Texts, Balance(f, o, a)
               PROVE  o \o v = a \o (SoFar(f).text \o v)
    BY <1>6, <1>7, <1>8
  <2>1. PICK r : r = SoFar(f).text
    OBVIOUS
  <2>2. o = a \o r
    BY <1>1, <1>2, <1>3, <2>1, Even
  <2>3. (a \o r) \o v = a \o (r \o v)
    <3>1. Associate(a, r, v)
      BY <1>3, <1>8, <2>1, TextsAssociate
    <3> QED  BY <3>1 DEF Associate
  <2> QED  BY <2>1, <2>2, <2>3
<1>10. Len(calls) < 3 /\ Len(calls) + 1 \in 2..3
  <2>1. PICK k : k = Len(calls)
    OBVIOUS
  <2>2. k = 1 \/ k = 2
    BY <1>1, <2>1, LevelIs
  <2>3. k < 3 /\ k + 1 \in 2..3
    BY <2>2
  <2> QED  BY <2>1, <2>3
<1>11. Level(Frame(v, <<>>), Len(calls) + 1)
  <2>1. "%" \notin ToSet(v)
    BY <1>7 DEF PlainText
  <2>2. Frame(v, <<>>).then = <<>> /\ Frame(v, <<>>).fmt = v
    BY <1>8, Begins
  <2> QED  BY <1>10, <2>1, <2>2 DEF Level
<1>12. Enter(g, v, <<>>)
  BY <1>1, <1>2, <1>4 DEF Taken
<1>13. g.then = <<>> /\ g.fmt = Inner.fmt /\ g.args = Inner.args
  BY <1>1, <1>2, <1>5
<1>14. \A a \in Texts : Balance(Inner, out, a) =>
         out \o MeaningOf(v, <<>>)[Len(v)].text = a \o SoFar(g).text
  BY <1>2, <1>9
<1> QED  BY <1>1, <1>6, <1>8, <1>10, <1>11, <1>12, <1>13, <1>14, CallsOn

(* Only the message itself owes a number.                                  *)
LEMMA OwesAtFirst == OldInv /\ calls # <<>> /\ Inner.then # <<>> => Len(calls) = 1
  BY InnerIs DEF Level

LEMMA PrintBufferStep == OldInv /\ PrintBuffer => OldInv'
<1> SUFFICES ASSUME OldInv, PrintBuffer PROVE OldInv'
  OBVIOUS
<1>1. calls # <<>> /\ Inner.then # <<>> /\ ~(Inner.i >= 0)
      /\ IF Inner.then = <<"buf">>
         THEN Enter([Inner EXCEPT !.then = <<>>], Str(Inner.buf), <<>>)
         ELSE Enter([Inner EXCEPT !.then = <<>>], Inner.then \o <<"%", "s">>, <<Str(Inner.buf)>>)
  BY Zenon DEF PrintBuffer, Pads
<1>2. PICK f, o, d, th : f = Inner /\ o = out /\ d = Str(f.buf) /\ th = f.then
  OBVIOUS
<1>3. f \in Framed /\ FrameInv(f) /\ SoFar(f).text \in Texts /\ o \in Texts
  BY <1>1, <1>2, InnerIs
<1>4. PICK g : g = [f EXCEPT !.then = <<>>]
  OBVIOUS
<1>5. g \in Framed /\ g.fmt = f.fmt /\ g.args = f.args /\ g.pos = f.pos /\ g.next = f.next
      /\ g.then = <<>>
  BY <1>3, <1>4 DEF Framed
<1>6. SoFar(g) = SoFar(f) /\ FrameInv(g)
  BY <1>3, <1>5 DEF FrameInv, SoFar
<1>7. \A a \in Texts : Balance(f, o, a) =>
        d \in Seq(Glyphs) /\ o \o (Before(th) \o d) = a \o SoFar(f).text
  <2> SUFFICES ASSUME NEW a \in Texts, Balance(f, o, a)
               PROVE  d \in Seq(Glyphs) /\ o \o (Before(th) \o d) = a \o SoFar(f).text
    OBVIOUS
  <2>1. PICK t \in Texts : Owes(f, t) /\ o \o t = a \o SoFar(f).text
    BY SMTT(40) DEF Balance
  <2>2. PICK s \in Seq(Glyphs) : \E z \in 0..9 :
          Holds(f.buf, f.i, f.j, s, z) /\ t = Before(f.then) \o ZerosBefore(s, z)
    BY <1>1, <1>2, <2>1 DEF Owes
  <2>3. PICK z \in 0..9 :
          Holds(f.buf, f.i, f.j, s, z) /\ t = Before(f.then) \o ZerosBefore(s, z)
    BY <2>2
  <2>4. Str(f.buf) = ZerosBefore(s, z)
    BY <1>1, <1>2, <2>3, HoldsLast
  <2>5. ZerosBefore(s, z) \in Seq(Glyphs)
    BY ZerosStay
  <2> QED  BY <1>2, <2>1, <2>3, <2>4, <2>5
<1>8. d \in Seq(Glyphs)
  BY <1>1, <1>2, <1>7, InnerIs
<1>9. Len(calls) = 1
  BY <1>1, OwesAtFirst
<1>10. CASE th = <<"buf">>
  <2>1. FitsArgs(d, <<>>) /\ MeaningOf(d, <<>>)[Len(d)].text = d /\ "%" \notin ToSet(d)
        /\ d \in Texts
    BY <1>8, GlyphsPlain, PassedFits DEF PlainText
  <2>2. Before(th) \o d = d
    BY <1>10, <2>1 DEF Before, Texts
  <2>3. \A a \in Texts : Balance(Inner, out, a) =>
          out \o MeaningOf(d, <<>>)[Len(d)].text = a \o SoFar(g).text
    BY <1>2, <1>6, <1>7, <2>1, <2>2
  <2>4. Level(Frame(d, <<>>), Len(calls) + 1)
    BY <1>9, <2>1, Begins DEF Level
  <2>5. Enter(g, d, <<>>)
    BY <1>1, <1>2, <1>4, <1>10
  <2>6. Len(calls) < 3 /\ g.fmt = Inner.fmt /\ g.args = Inner.args
    BY <1>2, <1>5, <1>9
  <2> QED  BY <1>1, <1>5, <1>6, <2>1, <2>3, <2>4, <2>5, <2>6, CallsOn
<1>11. CASE th # <<"buf">>
  <2>1. th \in Signs
    BY <1>1, <1>2, <1>3, <1>11 DEF Framed
  <2>2. PICK w, l : w = Wrap(th) /\ l = <<d>>
    OBVIOUS
  <2>3. FitsArgs(w, l) /\ MeaningOf(w, l)[Len(w)].text = th \o d
    BY <1>8, <2>1, <2>2, WrapFits
  <2>4. Before(th) = th
    BY <1>11 DEF Before
  <2>5. \A a \in Texts : Balance(Inner, out, a) =>
          out \o MeaningOf(w, l)[Len(w)].text = a \o SoFar(g).text
    BY <1>2, <1>6, <1>7, <2>3, <2>4
  <2>6. Level(Frame(w, l), Len(calls) + 1)
    BY <1>9, <2>1, <2>2, <2>3, Begins DEF Level
  <2>7. Enter(g, w, l)
    BY <1>1, <1>2, <1>4, <1>11, <2>2 DEF Wrap
  <2>8. Len(calls) < 3 /\ g.fmt = Inner.fmt /\ g.args = Inner.args
    BY <1>2, <1>5, <1>9
  <2> QED  BY <1>1, <1>5, <1>6, <2>3, <2>5, <2>6, <2>7, <2>8, CallsOn
<1> QED  BY <1>10, <1>11


LEMMA PadStep == OldInv /\ Pad => OldInv'
<1> SUFFICES ASSUME OldInv, Pad PROVE OldInv'
  OBVIOUS
<1>1. calls # <<>> /\ Inner.then # <<>> /\ Inner.i >= 0 /\ out' = out /\ msg' = msg
  BY DEF Pad, Pads
<1>2. PICK f, o, b, i, j : f = Inner /\ o = out /\ b = f.buf /\ i = f.i /\ j = f.j
  OBVIOUS
<1>3. f \in Framed /\ FrameInv(f) /\ o \in Texts /\ f.then # <<>>
  BY <1>1, <1>2, InnerIs
<1>4. PICK e : e = [b EXCEPT ![i] = IF j >= 0 THEN b[j] ELSE "0"]
  OBVIOUS
<1>5. PICK g : g = [f EXCEPT !.buf = e, !.i = i - 1, !.j = j - 1]
  OBVIOUS
<1>6. calls' = SetTop(g)
  BY <1>2, <1>4, <1>5, Zenon DEF Pad
<1>7. \A a \in Texts : \A t \in Texts : Owes(f, t) /\ o \o t = a \o SoFar(f).text =>
        \E s \in Seq(Glyphs) : \E z \in 0..9 :
          Holds(e, i - 1, j - 1, s, z) /\ t = Before(f.then) \o ZerosBefore(s, z)
  <2> SUFFICES ASSUME NEW a \in Texts, NEW t \in Texts, Owes(f, t)
               PROVE  \E s \in Seq(Glyphs) : \E z \in 0..9 :
                        Holds(e, i - 1, j - 1, s, z) /\ t = Before(f.then) \o ZerosBefore(s, z)
    OBVIOUS
  <2>1. PICK s \in Seq(Glyphs) : \E z \in 0..9 :
          Holds(b, i, j, s, z) /\ t = Before(f.then) \o ZerosBefore(s, z)
    BY <1>2, <1>3 DEF Owes
  <2>2. PICK z \in 0..9 : Holds(b, i, j, s, z) /\ t = Before(f.then) \o ZerosBefore(s, z)
    BY <2>1
  <2>3. Holds(e, i - 1, j - 1, s, z)
    BY <1>1, <1>2, <1>4, <2>2, HoldsNext
  <2> QED  BY <2>2, <2>3
<1>8. PICK s \in Seq(Glyphs) : \E z \in 0..9 : Holds(e, i - 1, j - 1, s, z)
  <2>1. \E a \in Texts : Balance(f, o, a)
    BY <1>1, <1>2, InnerIs
  <2> QED  BY <1>7, <2>1 DEF Balance
<1>9. /\ e \in [0..(BufSize - 1) -> Glyphs \cup {NUL}]
      /\ i - 1 \in -1..(BufSize - 1) /\ j - 1 \in -BufSize..(BufSize - 1)
  <2>1. PICK z \in 0..9 : Holds(e, i - 1, j - 1, s, z)
    BY <1>8
  <2> QED  BY <2>1, BufferChars DEF Holds
<1>10. /\ g \in Framed /\ g.fmt = f.fmt /\ g.args = f.args /\ g.pos = f.pos /\ g.next = f.next
       /\ g.then = f.then /\ g.buf = e /\ g.i = i - 1 /\ g.j = j - 1
  <2>1. PICK k, l : k = i - 1 /\ l = j - 1
    OBVIOUS
  <2>2. g = [f EXCEPT !.buf = e, !.i = k, !.j = l]
    BY <1>5, <2>1
  <2>3. k \in -1..(BufSize - 1) /\ l \in -BufSize..(BufSize - 1)
    BY <1>9, <2>1
  <2>4. /\ g \in Framed /\ g.fmt = f.fmt /\ g.args = f.args /\ g.pos = f.pos /\ g.next = f.next
        /\ g.then = f.then /\ g.buf = e /\ g.i = k /\ g.j = l
    BY <1>3, <1>9, <2>2, <2>3 DEF Framed
  <2> QED  BY <2>1, <2>4
<1>11. FrameInv(g) /\ SoFar(g) = SoFar(f)
  BY <1>3, <1>10 DEF FrameInv, SoFar
<1>12. \A a \in Texts : Balance(f, o, a) => Balance(g, o, a)
  <2> SUFFICES ASSUME NEW a \in Texts, Balance(f, o, a) PROVE Balance(g, o, a)
    OBVIOUS
  <2>1. PICK t \in Texts : Owes(f, t) /\ o \o t = a \o SoFar(f).text
    BY SMTT(40) DEF Balance
  <2>2. Owes(g, t)
    <3>1. \E s2 \in Seq(Glyphs) : \E z \in 0..9 :
            Holds(e, i - 1, j - 1, s2, z) /\ t = Before(f.then) \o ZerosBefore(s2, z)
      BY <1>7, <2>1
    <3>2. g.then # <<>> /\ g.then = f.then
      BY <1>3, <1>10
    <3> QED  BY <1>10, <3>1, <3>2, Zenon DEF Owes
  <2> QED  BY <1>11, <2>1, <2>2 DEF Balance
<1>13. Len(calls) = 1
  BY <1>1, OwesAtFirst
<1>14. g.fmt = Inner.fmt /\ g.args = Inner.args /\ out' = o
  BY <1>1, <1>2, <1>10
<1>15. \A a \in Texts : Balance(Inner, out, a) => Balance(g, o, a)
  BY <1>2, <1>12
<1> QED  BY <1>1, <1>3, <1>6, <1>11, <1>13, <1>14, <1>15, InnerGoesOn

FiveJoin(a, r, s, g, d) == ((a \o r) \o s) \o (g \o d) = a \o (r \o ((s \o g) \o d))

LEMMA FivePieces == \A a, r, s, g, d \in Texts : FiveJoin(a, r, s, g, d)
<1> SUFFICES ASSUME NEW a \in Texts, NEW r \in Texts, NEW s \in Texts, NEW g \in Texts, NEW d \in Texts
             PROVE  FiveJoin(a, r, s, g, d)
  OBVIOUS
<1>1. PICK u, v, w, x : u = s \o g /\ v = g \o d /\ w = r \o s /\ x = s \o v
  OBVIOUS
<1>2. u \in Texts /\ v \in Texts /\ w \in Texts /\ x \in Texts
  BY <1>1, JoinTexts
<1>3. Associate(a, r, s) /\ Associate(s, g, d) /\ Associate(a, w, v) /\ Associate(r, s, v)
  BY <1>2, TextsAssociate
<1>4. (a \o r) \o s = a \o w /\ u \o d = x
  BY <1>1, <1>3 DEF Associate
<1>5. (a \o w) \o v = a \o (r \o x)
  BY <1>1, <1>3 DEF Associate
<1> QED  BY <1>1, <1>4, <1>5 DEF FiveJoin

(* The three parts of what a number shows: before its sign, its sign, and  *)
(* its digits.                                                             *)
SizeFor(c, size) == IF c = "p" THEN PointerSize ELSE size
SignFor(c, v) == CASE c = "u" -> <<"buf">>
                   [] c = "d" -> IF IsNegative(c, v) THEN <<"-">> ELSE <<"buf">>
                   [] OTHER   -> <<"0", "x">>
FirstFor(c, w) == IF c = "d" THEN Digits(w, Base(c), 0) ELSE <<>>

NumberIs(c, v, size, w, b, z, sign, pre) ==
  /\ w \in WordValues /\ b \in {10, 16} /\ z \in 0..9
  /\ sign \in {<<"buf">>} \cup Signs /\ Before(sign) \in Texts
  /\ pre \in Texts /\ Digits(w, b, z) \in Texts
  /\ OldMeaning(c, size, v) = (pre \o Before(sign)) \o Digits(w, b, z)

LEMMA NumberParts ==
  \A c : \A v \in WordValues : \A size \in 0..9 : IsNumber(c) =>
    NumberIs(c, v, size, Absolute(c, v), Base(c), SizeFor(c, size), SignFor(c, v),
             FirstFor(c, Absolute(c, v)))
<1> SUFFICES ASSUME NEW c, NEW v \in WordValues, NEW size \in 0..9, IsNumber(c)
             PROVE  NumberIs(c, v, size, Absolute(c, v), Base(c), SizeFor(c, size), SignFor(c, v),
                             FirstFor(c, Absolute(c, v)))
  OBVIOUS
<1>z. PICK z : z = SizeFor(c, size)
  OBVIOUS
<1>0. z \in 0..9 /\ (c = "p" => z = PointerSize) /\ (c # "p" => z = size)
  BY <1>z DEF PointerSize, SizeFor
<1>1. PICK w, b : w = Absolute(c, v) /\ b = Base(c)
  OBVIOUS
<1>2. w \in WordValues /\ b \in {10, 16}
  BY <1>1, AbsoluteIs DEF Base
<1>3. Digits(w, b, 0) \in Texts /\ Digits(w, b, z) \in Texts
  BY <1>0, <1>2, NumberTexts
<1>4. PICK d, e : d = Digits(w, b, z) /\ e = Digits(w, b, 0)
  OBVIOUS
<1>5. d \in Texts /\ e \in Texts /\ <<>> \in Texts /\ <<"-">> \in Texts /\ <<"0", "x">> \in Texts
  BY <1>3, <1>4, SignsAreTexts
<1>6. <<>> \o <<>> = <<>> /\ <<>> \o d = d /\ <<>> \o <<"0", "x">> = <<"0", "x">>
  BY <1>5 DEF Texts
<1>7. <<"buf">> # <<"-">> /\ <<"buf">> # <<"0", "x">>
  <2>1. <<"buf">>[1] # <<"-">>[1]
    OBVIOUS
  <2>2. <<"buf">>[1] # <<"0", "x">>[1]
    OBVIOUS
  <2> QED  BY <2>1, <2>2
<1>8. Before(<<"buf">>) = <<>> /\ Before(<<"-">>) = <<"-">> /\ Before(<<"0", "x">>) = <<"0", "x">>
  BY <1>7 DEF Before
<1> DEFINE Goal == NumberIs(c, v, size, w, b, z, SignFor(c, v), FirstFor(c, w))
<1>9. ASSUME c = "d" PROVE Goal
  <2>1. b = 10 /\ OldMeaning(c, size, v)
                  = (e \o (IF IsNegative(c, v) THEN <<"-">> ELSE <<>>)) \o d
    BY <1>0, <1>1, <1>4, <1>9 DEF OldMeaning, Base
  <2> QED  BY <1>0, <1>1, <1>2, <1>4, <1>5, <1>8, <1>9, <2>1 DEF Signs, NumberIs, SignFor, FirstFor
<1>10. ASSUME c = "u" PROVE Goal
  <2>1. b = 10 /\ w = v
    BY <1>1, <1>10 DEF Base, Absolute, IsNegative
  <2>2. OldMeaning(c, size, v) = d
    BY <1>0, <1>4, <1>10, <2>1 DEF OldMeaning
  <2> QED  BY <1>0, <1>1, <1>2, <1>4, <1>5, <1>6, <1>8, <1>10, <2>2 DEF Signs, NumberIs, SignFor, FirstFor
<1>11. ASSUME c \in {"x", "X", "p"} PROVE Goal
  <2>1. b = 16 /\ w = v
    BY <1>1, <1>11 DEF Base, Absolute, IsNegative
  <2>2. OldMeaning(c, size, v) = <<"0", "x">> \o d
    BY <1>0, <1>4, <1>11, <2>1 DEF OldMeaning
  <2>3. c # "u" /\ c # "d"
    BY <1>11
  <2> QED  BY <1>0, <1>1, <1>2, <1>4, <1>5, <1>6, <1>8, <2>2, <2>3 DEF Signs, NumberIs, SignFor, FirstFor
<1>12. Goal
  BY <1>9, <1>10, <1>11 DEF IsNumber
<1> QED  BY <1>1, <1>z, <1>12


LEMMA NumberStep == OldInv /\ Number => OldInv'
<1> SUFFICES ASSUME OldInv, Number PROVE OldInv'
  OBVIOUS
<1>1. calls # <<>> /\ Inner.then = <<>> /\ CharAt(Inner.pos) = "%" /\ IsNumber(Conv)
      /\ IsConversion(Conv) /\ msg' = msg
  BY DEF Number, Runs, IsConversion, IsNumber
<1>2. PICK f, o, q, v, c, size : /\ f = Inner /\ o = out /\ q = ConvPos /\ v = Arg /\ c = Conv
                                 /\ size = Width
  OBVIOUS
<1>3. PICK z, w, b : z = SizeFor(c, size) /\ w = Absolute(c, v) /\ b = Base(c)
  OBVIOUS
<1>4. PICK s, sign, pre, d :
        s = Digits(w, b, 0) /\ d = Digits(w, b, z) /\ pre = FirstFor(c, w) /\ sign = SignFor(c, v)
  OBVIOUS
<1>5. f \in Framed /\ FrameInv(f) /\ SoFar(f).text \in Texts /\ o \in Texts /\ f.then = <<>>
      /\ q \in Nat /\ f.next \in Nat
  BY <1>1, <1>2, InnerIs, ConversionIs DEF Framed
<1>7. v \in WordValues /\ size \in 0..9
  <2>1. Accepts(c, v) /\ size \in 0..9
    BY <1>1, <1>2, ConversionIs
  <2> QED  BY <1>1, <1>2, <2>1 DEF Accepts, WordValues
<1>8. /\ w \in WordValues /\ b \in {10, 16} /\ z \in 0..9 /\ sign \in {<<"buf">>} \cup Signs
      /\ Before(sign) \in Texts /\ pre \in Texts /\ d \in Texts
      /\ OldMeaning(c, size, v) = (pre \o Before(sign)) \o d
  <2>1. NumberIs(c, v, size, w, b, z, sign, pre)
    BY <1>1, <1>2, <1>3, <1>4, <1>7, NumberParts
  <2> QED  BY <1>4, <2>1 DEF NumberIs
<1>9. s \in Seq(Glyphs) /\ Len(s) \in 1..(BufSize - 1) /\ d = ZerosBefore(s, z)
  BY <1>3, <1>4, <1>8, DigitsAre
<1>10. PICK i, j, e : /\ i = (IF Len(s) < z THEN z ELSE -1) /\ j = (IF Len(s) < z THEN Len(s) ELSE -1)
                      /\ e = Buffer(s)
  OBVIOUS
<1>11. Holds(e, i, j, s, z)
  BY <1>8, <1>9, <1>10, HoldsFirst
<1>12. /\ e \in [0..(BufSize - 1) -> Glyphs \cup {NUL}]
       /\ i \in -1..(BufSize - 1) /\ j \in -BufSize..(BufSize - 1)
  BY <1>8, <1>9, <1>11, BufferChars DEF Holds
<1>13. PICK p, n : p = q + 1 /\ n = f.next + 1
  OBVIOUS
<1>14. PICK g : g = [f EXCEPT !.pos = p, !.next = n, !.buf = e, !.i = i, !.j = j, !.then = sign]
  OBVIOUS
<1>15. /\ g \in Framed /\ g.fmt = f.fmt /\ g.args = f.args /\ g.pos = p /\ g.next = n
       /\ g.then = sign /\ g.buf = e /\ g.i = i /\ g.j = j
  <2>1. p \in Nat /\ n \in Nat
    BY <1>5, <1>13
  <2> QED  BY <1>5, <1>8, <1>12, <1>14, <2>1 DEF Framed
<1>16. FrameInv(g) /\ SoFar(g).text = SoFar(f).text \o OldMeaning(c, size, v)
  BY <1>1, <1>2, <1>13, <1>15, Passes
<1>17. out' = o \o pre /\ o \o pre \in Texts
  <2>1. out' = IF c = "d" THEN o \o s ELSE o
    BY <1>2, <1>3, <1>4, Zenon DEF Number
  <2>0. c = "d" => pre = s
    BY <1>3, <1>4 DEF FirstFor
  <2>3. c # "d" => pre = <<>>
    BY <1>4 DEF FirstFor
  <2>2. o \o <<>> = o
    BY <1>5 DEF Texts
  <2> QED  BY <1>5, <1>8, <2>0, <2>1, <2>2, <2>3, JoinTexts
<1>18. calls' = SetTop(g)
  <2>1. DOMAIN f.buf = 0..(BufSize - 1)
    BY <1>5 DEF Framed
  <2>2. [k \in DOMAIN f.buf |-> IF k < Len(s) THEN s[k + 1] ELSE NUL] = e
    BY <1>10, <2>1 DEF Buffer
  <2>3. calls' = SetTop([[f EXCEPT !.pos = q + 1, !.next = f.next + 1] EXCEPT
             !.buf = [k \in DOMAIN f.buf |-> IF k < Len(s) THEN s[k + 1] ELSE NUL],
             !.i = i, !.j = j, !.then = sign])
    BY <1>2, <1>3, <1>4, <1>10, Zenon DEF Number, Taken, SizeFor, SignFor
  <2> QED  BY <1>13, <1>14, <2>2, <2>3, Zenon
<1>19. \A a \in Texts : Balance(f, o, a) => Balance(g, o \o pre, a)
  <2> SUFFICES ASSUME NEW a \in Texts, Balance(f, o, a) PROVE Balance(g, o \o pre, a)
    OBVIOUS
  <2>1. PICK r, t : r = SoFar(f).text /\ t = Before(sign)
    OBVIOUS
  <2>2. o = a \o r
    BY <1>5, <2>1, Even
  <2>3. ((a \o r) \o pre) \o (t \o d) = a \o (r \o ((pre \o t) \o d))
    <3>1. a \in Texts /\ r \in Texts /\ t \in Texts /\ pre \in Texts /\ d \in Texts
      BY <1>5, <1>8, <2>1
    <3>2. FiveJoin(a, r, pre, t, d)
      BY <3>1, FivePieces
    <3> QED  BY <3>2 DEF FiveJoin
  <2>4. (o \o pre) \o (t \o d) = a \o SoFar(g).text
    BY <1>8, <1>16, <2>1, <2>2, <2>3
  <2>5. Owes(g, t \o d) /\ t \o d \in Texts
    <3>1. g.then # <<>>
      <4>1. <<"buf">> # <<>> /\ <<"-">> # <<>> /\ <<"0", "x">> # <<>>
        OBVIOUS
      <4> QED  BY <1>8, <1>15, <4>1, Zenon DEF Signs
    <3> QED  BY <1>8, <1>9, <1>11, <1>15, <2>1, <3>1, JoinTexts DEF Owes
  <2> QED  BY <2>4, <2>5 DEF Balance
<1>20. Len(calls) = 1
  <2>1. Conv # "s"
    BY <1>1 DEF IsNumber
  <2> QED  BY <1>1, <2>1, LevelIs
<1>21. g.fmt = Inner.fmt /\ g.args = Inner.args
  BY <1>2, <1>15
<1>22. \A a \in Texts : Balance(Inner, out, a) => Balance(g, o \o pre, a)
  BY <1>2, <1>19
<1> QED  BY <1>1, <1>16, <1>17, <1>18, <1>20, <1>21, <1>22, InnerGoesOn

LEMMA OldStart == OldInit => OldInv
<1> SUFFICES ASSUME OldInit PROVE OldInv
  OBVIOUS
<1>1. PICK m, c, g : m = msg /\ c = calls /\ g = Frame(m.fmt, m.args)
  OBVIOUS
<1>2. m \in OldMessages /\ out = <<>> /\ c = <<g>>
  BY <1>1 DEF OldInit
<1>3. FitsArgs(m.fmt, m.args)
  <2>1. m.fmt \in Seq(ToSet(m.fmt)) /\ NUL \notin ToSet(m.fmt)
        /\ MeaningOf(m.fmt, m.args)[Len(m.fmt)].at = "text"
    BY <1>2, MessagesAssumption
  <2>2. ToSet(m.fmt) \subseteq Symbols
    BY <1>2 DEF Symbols, FormatSymbols
  <2>3. m.fmt \in Texts
    BY <2>1, <2>2 DEF Texts
  <2>4. m.args \in Lists
    BY <1>2 DEF Lists
  <2> QED  BY <2>1, <2>3, <2>4 DEF FitsArgs
<1>4. FrameInv(g) /\ g.then = <<>> /\ g.pos = 1 /\ g.fmt = m.fmt /\ g.args = m.args
      /\ SoFar(g) = First /\ g \in Framed
  BY <1>1, <1>3, Begins DEF FrameInv
<1>5. c \in Seq(Framed) /\ Len(c) = 1 /\ c[1] = g
  BY <1>2, <1>4
<1>6. \A k \in 1..1 : k = 1
  OBVIOUS
<1>7. Calls(c)
  BY <1>4, <1>5, <1>6 DEF Calls, Level
<1>8. PICK acc : acc = <<<<>>>>
  OBVIOUS
<1>9. acc \in Seq(Texts) /\ Len(acc) = 1 /\ acc[1] = <<>>
  BY <1>8, SignsAreTexts
<1>10. Balance(g, <<>>, <<>>)
  <2>1. <<>> \o <<>> = <<>> \o SoFar(g).text
    BY <1>4 DEF First
  <2> QED  BY <1>4, <2>1, SignsAreTexts DEF Balance, Owes
<1>11. Story(c, <<>>, m, acc)
  <2>1. 1..(1 - 1) = {}
    OBVIOUS
  <2> QED  BY <1>4, <1>5, <1>9, <1>10, <2>1 DEF Story
<1>12. <<>> \in Texts
  BY SignsAreTexts
<1> QED  BY <1>1, <1>2, <1>7, <1>11, <1>12 DEF OldInv, StackInv


LEMMA OldStep == OldInv /\ [OldNext]_oldVars => OldInv'
<1>1. ASSUME OldInv, UNCHANGED oldVars PROVE OldInv'
  <2>1. calls' = calls /\ out' = out /\ msg' = msg
    BY <1>1 DEF oldVars
  <2>2. PICK c, o, m : c = calls /\ o = out /\ m = msg
    OBVIOUS
  <2>3. StackInv(c, o, m)
    BY <1>1, <2>2 DEF OldInv
  <2> QED  BY <2>1, <2>2, <2>3 DEF OldInv
<1> QED  BY <1>1, PutStep, NumberStep, PadStep, PrintBufferStep, PrintStringStep, PrintCharStep,
            SkipStep, LeaveStep DEF OldNext

(* Each call stands where it has read what it should have, and owes at     *)
(* most the number it pads.                                                *)
THEOREM OldCalls == OldSpec => []OldInv
BY OldStart, OldStep, PTL DEF OldSpec

(* No call of printk.c of src leaves its format, its arguments or buf, and *)
(* it calls itself at most twice over.                                     *)
THEOREM OldTypes == OldSpec => []OldTypeOK
<1>1. OldInv => OldTypeOK
  <2> SUFFICES ASSUME OldInv PROVE OldTypeOK
    OBVIOUS
  <2>1. /\ msg \in OldMessages /\ calls \in Seq(Framed) /\ Len(calls) <= 3
        /\ \A k \in 1..Len(calls) : FrameInv(calls[k])
    BY DEF OldInv, StackInv, Calls
  <2>2. \A f : FrameInv(f) =>
          /\ f.pos \in 1..(Len(f.fmt) + 1) /\ f.next \in 1..(Len(f.args) + 1)
          /\ DOMAIN f.buf = 0..(BufSize - 1) /\ \A k \in DOMAIN f.buf : f.buf[k] \in Chars
          /\ f.i \in -1..(BufSize - 1) /\ f.j \in -BufSize..(BufSize - 1)
    <3> TAKE f
    <3> HAVE FrameInv(f)
    <3>1. /\ f \in Framed /\ f.fmt \in Texts /\ f.args \in Lists /\ f.pos \in 1..(Len(f.fmt) + 1)
          /\ SoFar(f).next = f.next
      BY DEF FrameInv, FitsArgs
    <3>2. Len(f.fmt) \in Nat
      BY <3>1 DEF Texts
    <3>3. f.pos - 1 \in 0..Len(f.fmt)
      BY <3>1, <3>2
    <3>4. SoFar(f) \in Readings(f.args)
      BY <3>1, <3>3, MeaningIs DEF SoFar
    <3>5. f.next \in 1..(Len(f.args) + 1)
      BY <3>1, <3>4 DEF Readings
    <3>6. f.buf \in [0..(BufSize - 1) -> Chars] /\ f.i \in -1..(BufSize - 1)
          /\ f.j \in -BufSize..(BufSize - 1)
      BY <3>1 DEF Framed, Chars, Glyphs
    <3> QED  BY <3>1, <3>5, <3>6
  <2>3. ToSet(calls) = {calls[k] : k \in 1..Len(calls)}
    BY <2>1 DEF ToSet
  <2>4. \A f \in ToSet(calls) : FrameInv(f)
    BY <2>1, <2>3
  <2> QED  BY <2>1, <2>2, <2>4, Zenon DEF OldTypeOK
<1> QED  BY <1>1, OldCalls, PTL

(* When the outermost call has returned, what the calls have printed       *)
(* together is what its message means: the recursion neither loses, nor    *)
(* repeats, nor reorders a character, and the padding moves a number's     *)
(* digits within buf unharmed.                                             *)
THEOREM OldPrintsItsText == OldSpec => []PrintsItsText
<1>1. OldInv => PrintsItsText
  <2> SUFFICES ASSUME OldInv, calls = <<>>
               PROVE  out = MeaningOf(msg.fmt, msg.args)[Len(msg.fmt)].text
    BY DEF PrintsItsText
  <2>1. PICK acc : Story(calls, out, msg, acc)
    BY DEF OldInv, StackInv
  <2>2. Len(calls) = 0
    OBVIOUS
  <2> QED  BY <2>1, <2>2 DEF Story, Whole
<1> QED  BY <1>1, OldCalls, PTL
=============================================================================
