--------------------------- MODULE LibraryProofs ----------------------------
(***************************************************************************)
(* itoa() and the memory and bit primitives, for every width of a word,    *)
(* every base and every size of memory: what is proved here holds after    *)
(* any number of steps, however long the loops run.  Then the routines of  *)
(* the library run together, with what PrintkProofs and OldPrintkProofs    *)
(* show of the two printk()s.                                              *)
(***************************************************************************)
EXTENDS MCLibrary, PrintkProofs, OldPrintkProofs, FiniteSetTheorems, Induction, TLAPS

(* The number that is left, the digits so far, the least significant one   *)
(* first, and what they stand for together.                                *)
Wanted == Abs(Signed(n))
Shift  == IF base = 10 /\ Signed(n) < 0 THEN 1 ELSE 0
Chain(h, D, m) ==
  /\ h \in [0..m -> Nat] /\ D \in [1..m -> 0..(base - 1)] /\ h[0] = Wanted
  /\ \A k \in 1..m : h[k - 1] = h[k] * base + D[k]
Written(m) ==
  \E h, D : Chain(h, D, m) /\ h[m] = Abs(value) /\ \A k \in 1..m : str[Shift + k] = D[k]

(* The string when j digits at either end have changed places.             *)
Swapped(m, j) ==
  /\ Len(str) = Shift + m + 1 /\ str[Shift + m + 1] = Nul
  /\ low = Shift + j + 1 /\ high = Shift + m - j /\ 2 * j <= m
  /\ \E h, D : /\ Chain(h, D, m) /\ h[m] = 0 /\ (D[m] = 0 => m = 1)
               /\ \A k \in 1..m :
                    str[Shift + k] = IF k <= j \/ k > m - j THEN D[m + 1 - k] ELSE D[k]

NumInv ==
  /\ n \in 0..(2^W - 1) /\ base \in Bases /\ value \in Int /\ str \in Seq(Int)
  /\ pc \in {"sign", "digits", "end", "invert", "done"}
  /\ pc # "sign" => (Shift = 1 => Len(str) > 0 /\ str[1] = Minus)
  /\ pc = "sign" => value = Signed(n) /\ str = <<>> /\ low = 1
  /\ pc = "digits" => /\ low = Shift + 1 /\ Len(str) >= Shift /\ Written(Len(str) - Shift)
                      /\ value = 0 => Len(str) = Shift
  /\ pc = "end" => /\ low = Shift + 1 /\ Len(str) > Shift /\ Written(Len(str) - Shift)
                   /\ value = 0 /\ (str[Len(str)] = 0 => Len(str) = Shift + 1)
  /\ pc = "invert" => \E m \in Nat \ {0}, j \in Nat : Swapped(m, j)
  /\ pc = "done" => \E m \in Nat \ {0}, j \in Nat : Swapped(m, j) /\ 2 * j >= m - 1

LEMMA Division ==
  \A a \in Nat : \A b \in 2..36 :
    /\ a \div b \in Nat /\ a = b * (a \div b) + (a % b) /\ a % b \in 0..(b - 1)
    /\ 2 * (a \div b) <= a
<1> SUFFICES ASSUME NEW a \in Nat, NEW b \in 2..36
             PROVE  /\ a \div b \in Nat /\ a = b * (a \div b) + (a % b) /\ a % b \in 0..(b - 1)
                    /\ 2 * (a \div b) <= a
  OBVIOUS
<1>1. a \div b \in Nat /\ a % b \in 0..(b - 1)
  OBVIOUS
<1>2. a = b * (a \div b) + (a % b)
  OBVIOUS
<1>3. \A q, r \in Nat : a = b * q + r => 2 * q <= a
  OBVIOUS
<1> QED  BY <1>1, <1>2, <1>3

(* The division of C loses nothing: the digit is the remainder without its *)
(* sign.                                                                   *)
LEMMA DigitSplit ==
  \A a \in Int : \A b \in 2..36 :
    /\ Quotient(a, b) \in Int /\ Digit(Remainder(a, b)) \in 0..(b - 1)
    /\ Abs(a) = Abs(Quotient(a, b)) * b + Digit(Remainder(a, b))
    /\ 2 * Abs(Quotient(a, b)) <= Abs(a)
<1> SUFFICES ASSUME NEW a \in Int, NEW b \in 2..36
             PROVE  /\ Quotient(a, b) \in Int /\ Digit(Remainder(a, b)) \in 0..(b - 1)
                    /\ Abs(a) = Abs(Quotient(a, b)) * b + Digit(Remainder(a, b))
                    /\ 2 * Abs(Quotient(a, b)) <= Abs(a)
  OBVIOUS
<1> DEFINE c == Abs(a)
           q == c \div b
           r == c % b
<1>1. c \in Nat
  BY DEF Abs
<1>2. /\ q \in Nat /\ c = b * q + r /\ r \in 0..(b - 1) /\ 2 * q <= c /\ b * q \in Nat
      /\ q * b = b * q /\ b * (-q) = -(b * q)
  <2>1. /\ q \in Nat /\ c = b * q + r /\ r \in 0..(b - 1) /\ 2 * q <= c
    BY <1>1, Division
  <2> HIDE DEF c, q, r
  <2> QED  BY <2>1
<1>3. Quotient(a, b) = IF a < 0 THEN -q ELSE q
  BY DEF Quotient, Abs
<1>4. Remainder(a, b) = IF a < 0 THEN -r ELSE r
  <2>1. c = IF a < 0 THEN -a ELSE a
    BY DEF Abs
  <2> HIDE DEF c, q, r
  <2> QED  BY <1>1, <1>2, <1>3, <2>1 DEF Remainder
<1> HIDE DEF q, r
<1>5. Abs(Quotient(a, b)) = q /\ Digit(Remainder(a, b)) = r
  BY <1>2, <1>3, <1>4 DEF Abs, Digit
<1> QED  BY <1>2, <1>3, <1>5

LEMMA SignedInt == NumInv => Signed(n) \in Int /\ Wanted \in Nat /\ base \in 2..36
<1>1. W \in Nat /\ W - 1 \in Nat /\ Bases \subseteq 2..36
  BY WordAssumption
<1>2. 2^W \in Nat /\ 2^(W - 1) \in Nat
  BY <1>1, PowerOfTwo
<1> QED  BY <1>1, <1>2 DEF NumInv, Signed, Wanted, Abs

LEMMA NumbersStart == ItoaInit => NumInv
<1> SUFFICES ASSUME ItoaInit PROVE NumInv
  OBVIOUS
<1>1. W \in Nat /\ W - 1 \in Nat /\ 2^W \in Nat /\ 2^(W - 1) \in Nat
  BY WordAssumption, PowerOfTwo
<1>2. Signed(n) \in Int
  BY <1>1 DEF ItoaInit, Signed
<1> QED  BY <1>2, EmptySeq DEF ItoaInit, NumInv

LEMMA SignStep == NumInv /\ Sign => NumInv'
<1> SUFFICES ASSUME NumInv, Sign PROVE NumInv'
  OBVIOUS
<1>1. /\ n' = n /\ base' = base /\ value' = value /\ value = Signed(n) /\ pc' = "digits"
      /\ str' = IF Shift = 1 THEN <<Minus>> ELSE <<>>
      /\ low' = Shift + 1
  BY DEF Sign, NumInv, Shift
<1>2. Shift' = Shift /\ Wanted' = Wanted /\ Shift \in 0..1
  BY <1>1 DEF Shift, Wanted, Signed
<1>3. str' \in Seq(Int) /\ Len(str') = Shift /\ (Shift = 1 => str'[1] = Minus)
  BY <1>1, <1>2 DEF Minus
<1>4. Wanted \in Nat /\ (value = 0 => Shift = 0)
  BY <1>1, SignedInt DEF Shift
<1>5. Written(0)'
  <2>1. PICK h, D : Chain(h, D, 0) /\ h[0] = Wanted
    <3> DEFINE f == [k \in 0..0 |-> Wanted]
               E == [k \in 1..0 |-> 0]
    <3>1. f \in [0..0 -> Nat] /\ f[0] = Wanted
      BY <1>4
    <3>2. E \in [1..0 -> 0..(base - 1)] /\ \A k : k \notin 1..0
      OBVIOUS
    <3> HIDE DEF f, E
    <3>3. Chain(f, E, 0)
      BY <3>1, <3>2 DEF Chain
    <3> QED  BY <3>1, <3>3
  <2>2. Chain(h, D, 0)'
    BY <1>1, <1>2, <2>1 DEF Chain
  <2>3. h[0] = Abs(value')
    BY <1>1, <2>1 DEF Wanted
  <2> QED  BY <2>2, <2>3 DEF Written
<1>6. (Len(str) - Shift)' = 0
  BY <1>2, <1>3
<1> QED  BY <1>1, <1>2, <1>3, <1>4, <1>5, <1>6 DEF NumInv

(* One more digit of the value that is left.                               *)
LEMMA ChainGrows ==
  ASSUME NEW m \in Nat, NEW h, NEW D, NEW q \in Nat, NEW d \in 0..(base - 1),
         base \in 2..36, Chain(h, D, m), h[m] = q * base + d
  PROVE  Chain([k \in 0..(m + 1) |-> IF k = m + 1 THEN q ELSE h[k]],
               [k \in 1..(m + 1) |-> IF k = m + 1 THEN d ELSE D[k]], m + 1)
<1> DEFINE f == [k \in 0..(m + 1) |-> IF k = m + 1 THEN q ELSE h[k]]
           E == [k \in 1..(m + 1) |-> IF k = m + 1 THEN d ELSE D[k]]
<1>1. /\ h \in [0..m -> Nat] /\ D \in [1..m -> 0..(base - 1)] /\ h[0] = Wanted
      /\ \A k \in 1..m : h[k - 1] = h[k] * base + D[k]
  BY DEF Chain
<1>2. /\ \A k \in 0..m : k \in 0..(m + 1) /\ k # m + 1 /\ f[k] = h[k]
      /\ \A k \in 1..m : k \in 1..(m + 1) /\ k # m + 1 /\ E[k] = D[k]
      /\ f[m + 1] = q /\ E[m + 1] = d
  OBVIOUS
<1>3. /\ \A k \in 0..(m + 1) : k = m + 1 \/ k \in 0..m
      /\ \A k \in 1..(m + 1) : k = m + 1 \/ k \in 1..m
  OBVIOUS
<1>4. f \in [0..(m + 1) -> Nat] /\ E \in [1..(m + 1) -> 0..(base - 1)]
  BY <1>1, <1>3
<1> HIDE DEF f, E
<1>5. f[0] = Wanted
  BY <1>1, <1>2
<1>6. ASSUME NEW k \in 1..(m + 1) PROVE f[k - 1] = f[k] * base + E[k]
  <2>1. CASE k = m + 1
    <3>1. k - 1 = m /\ m \in 0..m
      BY <2>1
    <3>2. f[k - 1] = h[m] /\ f[k] = q /\ E[k] = d
      BY <1>2, <2>1, <3>1
    <3> QED  BY <3>2
  <2>2. CASE k \in 1..m
    <3>1. k - 1 \in 0..m /\ k \in 0..m
      BY <2>2
    <3>2. f[k - 1] = h[k - 1] /\ f[k] = h[k] /\ E[k] = D[k]
      BY <1>2, <2>2, <3>1
    <3> QED  BY <1>1, <2>2, <3>2
  <2> QED  BY <1>3, <2>1, <2>2
<1>7. Chain(f, E, m + 1)
  BY <1>4, <1>5, <1>6 DEF Chain
<1> QED  BY <1>7 DEF f, E

LEMMA ConvertStep == NumInv /\ Convert => NumInv'
<1> SUFFICES ASSUME NumInv, Convert PROVE NumInv'
  OBVIOUS
<1>0. PICK d, q, m : /\ d = Digit(Remainder(value, base)) /\ q = Quotient(value, base)
                     /\ m = Len(str) - Shift
  OBVIOUS
<1>1. /\ n' = n /\ base' = base /\ low' = low /\ str' = Append(str, d) /\ value' = q
      /\ pc' = IF value' = 0 THEN "end" ELSE "digits"
      /\ low = Shift + 1 /\ Len(str) >= Shift /\ Written(m)
      /\ (value = 0 => Len(str) = Shift)
      /\ n \in 0..(2^W - 1) /\ base \in Bases /\ value \in Int /\ str \in Seq(Int)
      /\ (Shift = 1 => Len(str) > 0 /\ str[1] = Minus)
  BY <1>0 DEF Convert, NumInv
<1>2. Shift' = Shift /\ Wanted' = Wanted /\ Shift \in 0..1 /\ m \in Nat /\ Len(str) \in Nat
      /\ Len(str) = Shift + m
  BY <1>0, <1>1, LenProperties DEF Shift, Wanted, Signed
<1>3. base \in 2..36
  BY SignedInt
<1>4. q \in Int /\ d \in 0..(base - 1) /\ Abs(value) = Abs(q) * base + d
  BY <1>0, <1>1, <1>3, DigitSplit
<1>5. /\ str' \in Seq(Int) /\ Len(str') = Len(str) + 1 /\ str'[Len(str) + 1] = d
      /\ \A k \in 1..Len(str) : str'[k] = str[k]
  BY <1>1, <1>3, <1>4, AppendProperties
<1>6. PICK h, D : Chain(h, D, m) /\ h[m] = Abs(value) /\ \A k \in 1..m : str[Shift + k] = D[k]
  BY <1>1 DEF Written
<1>7. PICK f, E : /\ Chain(f, E, m + 1) /\ f[m + 1] = Abs(q)
                  /\ \A k \in 1..(m + 1) : E[k] = IF k = m + 1 THEN d ELSE D[k]
  <2> DEFINE r == Abs(q)
             f == [k \in 0..(m + 1) |-> IF k = m + 1 THEN r ELSE h[k]]
             E == [k \in 1..(m + 1) |-> IF k = m + 1 THEN d ELSE D[k]]
  <2>1. r \in Nat /\ h[m] = r * base + d
    BY <1>4, <1>6 DEF Abs
  <2> HIDE DEF r
  <2>2. Chain(f, E, m + 1)
    BY <1>2, <1>3, <1>4, <1>6, <2>1, ChainGrows
  <2>3. f[m + 1] = r /\ \A k \in 1..(m + 1) : E[k] = IF k = m + 1 THEN d ELSE D[k]
    BY <1>2
  <2> HIDE DEF f, E
  <2> QED  BY <2>2, <2>3 DEF r
<1>8. ASSUME NEW k \in 1..(m + 1) PROVE str'[Shift + k] = E[k]
  <2>1. CASE k = m + 1
    BY <1>2, <1>5, <1>7, <2>1
  <2>2. CASE k # m + 1
    <3>1. k \in 1..m /\ Shift + k \in 1..Len(str)
      BY <1>2, <2>2
    <3> QED  BY <1>5, <1>6, <1>7, <2>2, <3>1
  <2> QED  BY <2>1, <2>2
<1>9. Chain(f, E, m + 1)'
  BY <1>1, <1>2, <1>7 DEF Chain
<1>10. Written(m + 1)'
  <2>1. f[m + 1] = Abs(value') /\ \A k \in 1..(m + 1) : str'[Shift' + k] = E[k]
    BY <1>1, <1>2, <1>7, <1>8
  <2> QED  BY <1>9, <2>1 DEF Written
<1>11. (Len(str) - Shift)' = m + 1
  BY <1>2, <1>5
<1>12. Written(Len(str) - Shift)'
  BY <1>10, <1>11
<1>13. q = 0 /\ d = 0 => value = 0
  BY <1>1, <1>3, <1>4 DEF Abs
<1>14. Shift = 1 => Len(str') > 0 /\ str'[1] = Minus
  BY <1>1, <1>2, <1>5
<1>15. CASE value' = 0
  BY <1>1, <1>2, <1>4, <1>5, <1>12, <1>13, <1>14, <1>15 DEF NumInv
<1>16. CASE value' # 0
  BY <1>1, <1>2, <1>4, <1>5, <1>12, <1>14, <1>16 DEF NumInv
<1> QED  BY <1>15, <1>16

LEMMA TerminateStep == NumInv /\ Terminate => NumInv'
<1> SUFFICES ASSUME NumInv, Terminate PROVE NumInv'
  OBVIOUS
<1>0. PICK m : m = Len(str) - Shift
  OBVIOUS
<1>1. /\ n' = n /\ base' = base /\ value' = value /\ low' = low /\ str' = Append(str, Nul)
      /\ high' = Len(str) /\ pc' = "invert"
      /\ low = Shift + 1 /\ Len(str) > Shift /\ Written(m) /\ value = 0
      /\ (str[Len(str)] = 0 => Len(str) = Shift + 1)
      /\ n \in 0..(2^W - 1) /\ base \in Bases /\ value \in Int /\ str \in Seq(Int)
      /\ (Shift = 1 => Len(str) > 0 /\ str[1] = Minus)
  BY <1>0 DEF Terminate, NumInv
<1>2. Shift' = Shift /\ Wanted' = Wanted /\ Shift \in 0..1 /\ m \in Nat \ {0} /\ Len(str) \in Nat
      /\ Len(str) = Shift + m
  BY <1>0, <1>1, LenProperties DEF Shift, Wanted, Signed
<1>3. /\ str' \in Seq(Int) /\ Len(str') = Len(str) + 1 /\ str'[Len(str) + 1] = Nul
      /\ \A k \in 1..Len(str) : str'[k] = str[k]
  BY <1>1, AppendProperties DEF Nul
<1>4. PICK h, D : Chain(h, D, m) /\ h[m] = Abs(value) /\ \A k \in 1..m : str[Shift + k] = D[k]
  BY <1>1 DEF Written
<1>5. Chain(h, D, m)' /\ h[m] = 0
  <2>1. Chain(h, D, m)'
    BY <1>1, <1>2, <1>4 DEF Chain
  <2>2. Abs(0) = 0
    BY DEF Abs
  <2> QED  BY <1>1, <1>4, <2>1, <2>2
<1>6. D[m] = 0 => m = 1
  BY <1>1, <1>2, <1>4, SMTT(40)
<1>7. ASSUME NEW k \in 1..m
      PROVE  str'[Shift' + k] = IF k <= 0 \/ k > m - 0 THEN D[m + 1 - k] ELSE D[k]
  <2>1. Shift + k \in 1..Len(str) /\ ~ (k <= 0) /\ ~ (k > m - 0)
    BY <1>2
  <2> QED  BY <1>2, <1>3, <1>4, <2>1
<1>8. /\ Len(str') = Shift' + m + 1 /\ str'[Shift' + m + 1] = Nul
      /\ low' = Shift' + 0 + 1 /\ high' = Shift' + m - 0 /\ 2 * 0 <= m
  BY <1>1, <1>2, <1>3
<1>9. Swapped(m, 0)'
  BY <1>5, <1>6, <1>7, <1>8 DEF Swapped
<1>10. Shift = 1 => Len(str') > 0 /\ str'[1] = Minus
  BY <1>1, <1>2, <1>3
<1> QED  BY <1>1, <1>2, <1>3, <1>9, <1>10 DEF NumInv

LEMMA InvertStep == NumInv /\ Invert => NumInv'
<1> SUFFICES ASSUME NumInv, Invert PROVE NumInv'
  OBVIOUS
<1>1. /\ n' = n /\ base' = base /\ value' = value
      /\ n \in 0..(2^W - 1) /\ base \in Bases /\ value \in Int /\ str \in Seq(Int)
      /\ (Shift = 1 => Len(str) > 0 /\ str[1] = Minus)
      /\ pc = "invert"
  BY DEF Invert, NumInv
<1>2. PICK m \in Nat \ {0}, j \in Nat : Swapped(m, j)
  BY <1>1 DEF NumInv
<1>3. Shift' = Shift /\ Wanted' = Wanted /\ Shift \in 0..1
  BY <1>1 DEF Shift, Wanted, Signed
<1>4. /\ Len(str) = Shift + m + 1 /\ str[Shift + m + 1] = Nul
      /\ low = Shift + j + 1 /\ high = Shift + m - j /\ 2 * j <= m
  BY <1>2 DEF Swapped
<1>5. CASE ~ (low < high)
  <2>1. pc' = "done" /\ str' = str /\ low' = low /\ high' = high
    BY <1>5 DEF Invert
  <2>2. Swapped(m, j)'
    <3>1. \A h, D : Chain(h, D, m)' <=> Chain(h, D, m)
      BY <1>1, <1>3 DEF Chain
    <3> QED  BY <1>2, <1>3, <2>1, <3>1 DEF Swapped
  <2>3. 2 * j >= m - 1
    BY <1>3, <1>4, <1>5
  <2> QED  BY <1>1, <1>3, <2>1, <2>2, <2>3 DEF NumInv
<1>6. CASE low < high
  <2>1. /\ pc' = "invert" /\ low' = low + 1 /\ high' = high - 1
        /\ str' = [str EXCEPT ![low] = str[high], ![high] = str[low]]
    BY <1>1, <1>6 DEF Invert
  <2>2. /\ low \in 1..Len(str) /\ high \in 1..Len(str) /\ low # high
        /\ DOMAIN str = 1..Len(str) /\ Len(str) \in Nat
        /\ high < Shift + m + 1 /\ low > Shift
    BY <1>1, <1>3, <1>4, <1>6, LenProperties
  <2>3. /\ str' \in Seq(Int) /\ Len(str') = Len(str)
        /\ str'[low] = str[high] /\ str'[high] = str[low]
        /\ \A k \in 1..Len(str) : k # low /\ k # high => str'[k] = str[k]
    <3>1. str \in [1..Len(str) -> Int]
      BY <1>1, LenProperties
    <3>2. /\ str' \in [1..Len(str) -> Int] /\ str'[low] = str[high] /\ str'[high] = str[low]
          /\ \A k \in 1..Len(str) : k # low /\ k # high => str'[k] = str[k]
      BY <2>1, <2>2, <3>1
    <3>3. str' \in Seq(Int)
      BY <2>2, <3>2, SeqDef
    <3> QED  BY <2>2, <3>2, <3>3, LenProperties
  <2>4. PICK h, D : /\ Chain(h, D, m) /\ h[m] = 0 /\ (D[m] = 0 => m = 1)
                    /\ \A k \in 1..m : str[Shift + k] =
                         IF k <= j \/ k > m - j THEN D[m + 1 - k] ELSE D[k]
    BY <1>2 DEF Swapped
  <2>5. Chain(h, D, m)'
    BY <1>1, <1>3, <2>4 DEF Chain
  <2>6. j + 1 < m - j /\ j + 1 \in 1..m /\ m - j \in 1..m
    BY <1>3, <1>4, <1>6
  <2>7. str[low] = D[j + 1] /\ str[high] = D[m - j]
    <3>1. /\ low = Shift + (j + 1) /\ high = Shift + (m - j)
          /\ ~ (j + 1 <= j \/ j + 1 > m - j) /\ ~ (m - j <= j \/ m - j > m - j)
      BY <1>3, <1>4, <2>6
    <3> QED  BY <2>4, <2>6, <3>1
  <2>8. ASSUME NEW k \in 1..m
        PROVE  str'[Shift' + k] = IF k <= j + 1 \/ k > m - (j + 1) THEN D[m + 1 - k] ELSE D[k]
    <3>1. CASE k = j + 1
      <4>1. Shift + k = low /\ m + 1 - k = m - j
        BY <1>3, <1>4, <3>1
      <4> QED  BY <1>3, <2>3, <2>7, <3>1, <4>1
    <3>2. CASE k = m - j
      <4>1. Shift + k = high /\ m + 1 - k = j + 1 /\ k > m - (j + 1)
        BY <1>3, <1>4, <3>2
      <4> QED  BY <1>3, <2>3, <2>7, <3>2, <4>1
    <3>3. CASE k # j + 1 /\ k # m - j
      <4>1. Shift + k # low /\ Shift + k # high /\ Shift + k \in 1..Len(str)
        BY <1>3, <1>4, <3>3
      <4>2. (k <= j + 1 \/ k > m - (j + 1)) <=> (k <= j \/ k > m - j)
        BY <3>3
      <4> QED  BY <1>3, <2>3, <2>4, <4>1, <4>2
    <3> QED  BY <3>1, <3>2, <3>3
  <2>9. /\ Len(str') = Shift' + m + 1 /\ str'[Shift' + m + 1] = Nul
        /\ low' = Shift' + (j + 1) + 1 /\ high' = Shift' + m - (j + 1) /\ 2 * (j + 1) <= m
    <3>1. /\ low' = Shift + (j + 1) + 1 /\ high' = Shift + m - (j + 1) /\ 2 * (j + 1) <= m
      <4>1. 2 * (j + 1) <= m
        BY <2>6
      <4>2. low' = Shift + (j + 1) + 1
        BY <1>3, <1>4, <2>1
      <4>3. high' = Shift + m - (j + 1)
        BY <1>3, <1>4, <2>1
      <4> QED  BY <4>1, <4>2, <4>3
    <3>2. Shift + m + 1 \in 1..Len(str) /\ Shift + m + 1 # low /\ Shift + m + 1 # high
      BY <1>3, <1>4, <2>2, <2>6
    <3> QED  BY <1>3, <1>4, <2>3, <3>1, <3>2
  <2>10. Swapped(m, j + 1)'
    BY <2>4, <2>5, <2>8, <2>9 DEF Swapped
  <2>11. Shift = 1 => Len(str') > 0 /\ str'[1] = Minus
    <3>1. Shift = 1 => 1 \in 1..Len(str) /\ 1 # low /\ 1 # high
      BY <1>3, <1>4, <1>6, <2>2
    <3>2. Shift = 1 => Len(str') > 0 /\ str'[1] = str[1]
      BY <1>1, <2>3, <3>1
    <3> QED  BY <1>1, <3>2
  <2>12. j + 1 \in Nat
    OBVIOUS
  <2> QED  BY <1>1, <1>3, <2>1, <2>3, <2>10, <2>11, <2>12 DEF NumInv
<1> QED  BY <1>5, <1>6

(* The digits in the order of the string are those of the chain from its   *)
(* end.                                                                    *)
LEMMA AllSwapped ==
  ASSUME NumInv, pc = "done"
  PROVE  \E m \in Nat \ {0} : \E h, D :
           /\ Len(str) = Shift + m + 1 /\ str[Shift + m + 1] = Nul
           /\ Chain(h, D, m) /\ h[m] = 0 /\ (D[m] = 0 => m = 1)
           /\ \A k \in 1..m : str[Shift + k] = D[m + 1 - k]
<1>1. PICK m \in Nat \ {0}, j \in Nat : Swapped(m, j) /\ 2 * j >= m - 1
  BY DEF NumInv
<1>2. PICK h, D : /\ Chain(h, D, m) /\ h[m] = 0 /\ (D[m] = 0 => m = 1)
                  /\ \A k \in 1..m : str[Shift + k] =
                       IF k <= j \/ k > m - j THEN D[m + 1 - k] ELSE D[k]
  BY <1>1 DEF Swapped
<1>3. ASSUME NEW k \in 1..m PROVE str[Shift + k] = D[m + 1 - k]
  <2>1. CASE k <= j \/ k > m - j
    BY <1>2, <2>1
  <2>2. CASE ~ (k <= j \/ k > m - j)
    <3>1. k = m + 1 - k
      BY <1>1, <2>2
    <3> QED  BY <1>2, <2>2, <3>1
  <2> QED  BY <2>1, <2>2
<1> QED  BY <1>1, <1>2, <1>3 DEF Swapped

LEMMA MagnitudeIsWanted ==
  ASSUME NEW m \in Nat, NEW h, NEW D, Chain(h, D, m), h[m] = 0, base \in 2..36,
         Len(DigitsOf) = m, \A k \in 1..m : DigitsOf[k] = D[m + 1 - k]
  PROVE  Magnitude = Wanted
<1> DEFINE Of(F) == [k \in 0..Len(DigitsOf) |->
                       IF k = 0 THEN 0 ELSE F[k - 1] * base + DigitsOf[k]]
           K == CHOOSE F : F = Of(F)
           f == [k \in 0..m |-> h[m - k]]
<1>1. /\ h \in [0..m -> Nat] /\ h[0] = Wanted
      /\ \A k \in 1..m : h[k - 1] = h[k] * base + D[k]
  BY DEF Chain
<1>2. ASSUME NEW k \in 1..m PROVE f[k] = f[k - 1] * base + DigitsOf[k]
  <2>1. /\ m + 1 - k \in 1..m /\ (m + 1 - k) - 1 = m - k /\ m - (k - 1) = m + 1 - k
        /\ k \in 0..m /\ k - 1 \in 0..m
    OBVIOUS
  <2>2. h[m - k] = h[m + 1 - k] * base + D[m + 1 - k]
    BY <1>1, <2>1
  <2>3. f[k] = h[m - k] /\ f[k - 1] = h[m + 1 - k]
    BY <2>1
  <2> QED  BY <2>2, <2>3
<1>3. f[0] = 0 /\ f[m] = Wanted /\ f = [k \in 0..m |-> f[k]]
  BY <1>1
<1> HIDE DEF f
<1>4. f = Of(f)
  <2>1. \A k \in 0..m : f[k] = IF k = 0 THEN 0 ELSE f[k - 1] * base + DigitsOf[k]
    <3>1. \A k \in 0..m : k = 0 \/ (k \in 1..m /\ k # 0)
      OBVIOUS
    <3> QED  BY <1>2, <1>3, <3>1, Zenon
  <2>2. f = [k \in 0..m |-> f[k]]
    BY <1>3
  <2> QED  BY <2>1, <2>2, ZenonT(40)
<1>5. K = Of(K)
  <2>1. \E F : F = Of(F)
    BY <1>4
  <2> HIDE DEF Of
  <2> QED  BY <2>1
<1>6. Magnitude = K[m]
  BY DEF Magnitude
<1> HIDE DEF K
<1>7. \A k \in 0..m : K[k] = IF k = 0 THEN 0 ELSE K[k - 1] * base + DigitsOf[k]
  BY <1>5, Zenon
<1>8. K[0] = 0 /\ \A k \in 1..m : K[k] = K[k - 1] * base + DigitsOf[k]
  BY <1>7
<1> DEFINE N == {k \in Nat : k <= m => K[k] = f[k]}
<1>9. 0 \in N
  BY <1>3, <1>8
<1>10. ASSUME NEW k \in Nat, k \in N PROVE k + 1 \in N
  <2> SUFFICES ASSUME k + 1 <= m PROVE K[k + 1] = f[k + 1]
    OBVIOUS
  <2>1. K[k] = f[k]
    BY <1>10
  <2>2. k + 1 \in 1..m /\ (k + 1) - 1 = k
    OBVIOUS
  <2> QED  BY <1>2, <1>8, <2>1, <2>2
<1> HIDE DEF N
<1>11. Nat \subseteq N
  BY <1>9, <1>10, SetInduction
<1>12. K[m] = f[m]
  BY <1>11 DEF N
<1> QED  BY <1>3, <1>6, <1>12

LEMMA ReadsWhatIsMeant == NumInv => ReadsBack
<1> SUFFICES ASSUME NumInv, pc = "done"
             PROVE  /\ Reading = IF base = 10 THEN Signed(n) ELSE Abs(Signed(n))
                    /\ str[Len(str)] = Nul
                    /\ \A k \in DOMAIN DigitsOf : DigitsOf[k] \in 0..(base - 1)
                    /\ DigitsOf[1] = 0 => Len(DigitsOf) = 1
  BY DEF ReadsBack
<1>1. PICK m, h, D :
        /\ m \in Nat \ {0} /\ Len(str) = Shift + m + 1 /\ str[Shift + m + 1] = Nul
        /\ Chain(h, D, m) /\ h[m] = 0 /\ (D[m] = 0 => m = 1)
        /\ \A k \in 1..m : str[Shift + k] = D[m + 1 - k]
  BY AllSwapped
<1>2. Signed(n) \in Int /\ Wanted \in Nat /\ base \in 2..36 /\ str \in Seq(Int) /\ Shift \in 0..1
  BY SignedInt DEF NumInv, Shift
<1>3. D \in [1..m -> 0..(base - 1)]
  BY <1>1 DEF Chain
<1>4. Negative <=> Shift = 1
  <2>1. CASE Shift = 1
    BY <2>1 DEF NumInv, Negative
  <2>2. CASE Shift = 0
    <3>1. 1 \in 1..m /\ m + 1 - 1 = m /\ 0 + 1 = 1
      BY <1>1
    <3>2. str[1] = D[m] /\ D[m] \in 0..(base - 1)
      BY <1>1, <1>3, <2>2, <3>1
    <3> QED  BY <1>2, <2>2, <3>2 DEF Negative, Minus
  <2> QED  BY <1>2, <2>1, <2>2
<1>5. DigitsOf = SubSeq(str, Shift + 1, Shift + m)
  BY <1>1, <1>2, <1>4 DEF DigitsOf
<1>6. /\ Len(DigitsOf) = m /\ DOMAIN DigitsOf = 1..m
      /\ \A k \in 1..m : DigitsOf[k] = D[m + 1 - k]
  <2>1. \A k \in (Shift + 1)..(Shift + m) : str[k] \in Int
    BY <1>1, <1>2, ElementOfSeq
  <2>2. /\ DigitsOf = [k \in 1..m |-> str[k + Shift]] /\ DigitsOf \in Seq(Int)
    BY <1>1, <1>2, <1>5, SMTT(40)
  <2>3. Len(DigitsOf) = m /\ DOMAIN DigitsOf = 1..m
    BY <1>1, <2>2, LenProperties
  <2>4. \A k \in 1..m : DigitsOf[k] = str[Shift + k]
    BY <1>2, <2>2
  <2> QED  BY <1>1, <2>3, <2>4
<1>7. Magnitude = Wanted
  BY <1>1, <1>2, <1>6, MagnitudeIsWanted
<1>8. Reading = IF base = 10 THEN Signed(n) ELSE Abs(Signed(n))
  BY <1>2, <1>4, <1>7 DEF Reading, Wanted, Shift, Abs
<1>9. \A k \in DOMAIN DigitsOf : DigitsOf[k] \in 0..(base - 1)
  <2>1. \A k \in 1..m : m + 1 - k \in 1..m
    BY <1>1
  <2> QED  BY <1>3, <1>6, <2>1
<1>10. DigitsOf[1] = 0 => Len(DigitsOf) = 1
  <2>1. 1 \in 1..m /\ m + 1 - 1 = m
    BY <1>1
  <2> QED  BY <1>1, <1>6, <2>1
<1> QED  BY <1>1, <1>8, <1>9, <1>10

LEMMA NumbersAlways == ItoaSpec => []NumInv
<1>1. NumInv /\ [ItoaNext]_itoaVars => NumInv'
  <2>1. NumInv /\ UNCHANGED itoaVars => NumInv'
    <3> SUFFICES ASSUME NumInv, UNCHANGED itoaVars PROVE NumInv'
      OBVIOUS
    <3>1. /\ n' = n /\ base' = base /\ value' = value /\ str' = str /\ low' = low
          /\ high' = high /\ pc' = pc /\ Shift' = Shift /\ Wanted' = Wanted
          /\ Signed(n)' = Signed(n)
      BY DEF itoaVars, Shift, Wanted, Signed
    <3>2. \A h, D, m : Chain(h, D, m)' <=> Chain(h, D, m)
      BY <3>1 DEF Chain
    <3>3. \A m : Written(m)' <=> Written(m)
      BY <3>1, <3>2 DEF Written
    <3>4. \A m, j : Swapped(m, j)' <=> Swapped(m, j)
      BY <3>1, <3>2 DEF Swapped
    <3>5. Written(Len(str) - Shift)' <=> Written(Len(str) - Shift)
      BY <3>1, <3>3
    <3> QED  BY <3>1, <3>4, <3>5 DEF NumInv
  <2> QED  BY <2>1, SignStep, ConvertStep, TerminateStep, InvertStep DEF ItoaNext
<1> QED  BY <1>1, NumbersStart, PTL DEF ItoaSpec


(* For words of every width and every base up to 36, itoa() writes the     *)
(* number it is given: no digit is lost, none is out of its range, none is *)
(* out of place, and there is no leading zero.                             *)
THEOREM NumbersReadBack == ItoaSpec => []ReadsBack
  BY NumbersAlways, ReadsWhatIsMeant, PTL

(* What is left to convert leaves room for its bits.                       *)
Room(v, length) == length <= W - 1 /\ Abs(v) <= 2^(W - 1 - length)

BufferInv ==
  /\ pc = "sign" => Abs(value) <= 2^(W - 1) /\ Len(str) = 0
  /\ pc = "digits" =>
       \/ base = 10 /\ Len(str) = 1 /\ value # 0 /\ Abs(value) <= 2^(W - 1)
       \/ value = 0 /\ Len(str) = 0
       \/ value # 0 /\ Room(value, Len(str))
  /\ pc = "end" => Len(str) <= W
  /\ Len(str) <= W + 1

LEMMA WordIs == W \in Nat /\ W - 1 \in Nat /\ W - 1 > 0 /\ 2^W = 2 * 2^(W - 1) /\ 2^(W - 1) \in Nat
<1>1. W \in Nat /\ W - 1 \in Nat /\ W - 1 > 0 /\ (W - 1) + 1 = W
  BY WordAssumption
<1> QED  BY <1>1, PowerOfTwo

LEMMA BufferStart == ItoaInit => BufferInv
<1> SUFFICES ASSUME ItoaInit PROVE BufferInv
  OBVIOUS
<1>1. n \in 0..(2^W - 1) /\ value = Signed(n) /\ pc = "sign" /\ str = <<>>
  BY DEF ItoaInit
<1>2. Abs(value) <= 2^(W - 1)
  BY <1>1, WordIs DEF Signed, Abs
<1> QED  BY <1>1, <1>2, WordIs DEF BufferInv

LEMMA HalfTheRoom ==
  ASSUME NEW v \in Int, NEW q \in Int, NEW length \in Nat, q # 0,
         Room(v, length), 2 * Abs(q) <= Abs(v)
  PROVE  Room(q, length + 1)
<1>0. PICK a : a = W - 1 - length
  OBVIOUS
<1>1. a \in Nat /\ Abs(v) <= 2^a /\ Abs(q) \in Nat /\ Abs(q) > 0 /\ Abs(v) \in Nat
  BY <1>0, WordIs DEF Room, Abs
<1>2. a # 0
  <2> SUFFICES ASSUME a = 0 PROVE FALSE
    OBVIOUS
  <2>1. 2^a = 1
    BY PowerOfTwo
  <2> QED  BY <1>1, <2>1
<1>3. PICK c \in Nat : c + 1 = a
  <2>1. a - 1 \in Nat /\ (a - 1) + 1 = a
    BY <1>1, <1>2
  <2> QED  BY <2>1
<1>4. W - 1 - (length + 1) = c
  BY <1>0, <1>3, WordIs
<1>5. 2^a = 2 * 2^c /\ 2^c \in Nat
  BY <1>3, PowerOfTwo
<1>6. Abs(q) <= 2^c
  BY <1>1, <1>5
<1>7. length + 1 <= W - 1
  BY <1>3, <1>4, WordIs
<1> QED  BY <1>4, <1>6, <1>7 DEF Room

(* A sign takes the place of no digit: dividing by 10 takes three bits.    *)
LEMMA RoomForSign ==
  ASSUME NEW v \in Int, NEW q \in Int, q # 0, Abs(v) <= 2^(W - 1), 10 * Abs(q) <= Abs(v)
  PROVE  Room(q, 2)
<1>0. Abs(q) \in Nat /\ Abs(q) > 0 /\ Abs(v) \in Nat
  BY DEF Abs
<1>1. /\ 2^0 = 1 /\ 2^1 = 2 /\ 2^2 = 4 /\ 2^3 = 8
  OBVIOUS
<1>2. W - 1 \notin {0, 1, 2, 3}
  <2>1. PICK w : w = W - 1
    OBVIOUS
  <2>2. 2^w >= 10 /\ 2^w # 1 /\ 2^w # 2 /\ 2^w # 4 /\ 2^w # 8
    BY <1>0, <2>1, WordIs
  <2>3. w # 0 /\ w # 1 /\ w # 2 /\ w # 3
    BY <1>1, <2>2
  <2> QED  BY <2>1, <2>3
<1>3. PICK c \in Nat : W - 1 = ((c + 1) + 1) + 1
  <2>1. W - 4 \in Nat /\ W - 1 = (((W - 4) + 1) + 1) + 1
    BY <1>2, WordIs
  <2> QED  BY <2>1
<1>4. 2^(W - 1) = 2 * (2 * (2 * 2^c)) /\ 2^c \in Nat /\ 2^(c + 1) = 2 * 2^c
  <2>1. c + 1 \in Nat /\ (c + 1) + 1 \in Nat
    OBVIOUS
  <2>2. 2^(((c + 1) + 1) + 1) = 2 * 2^((c + 1) + 1) /\ 2^((c + 1) + 1) = 2 * 2^(c + 1)
        /\ 2^(c + 1) = 2 * 2^c /\ 2^c \in Nat
    BY <2>1, PowerOfTwo
  <2> QED  BY <1>3, <2>2
<1>5. Abs(q) <= 2^(c + 1)
  BY <1>0, <1>4
<1>6. W - 1 - 2 = c + 1 /\ 2 <= W - 1
  BY <1>3, WordIs
<1> QED  BY <1>5, <1>6 DEF Room

LEMMA BufferStep == NumInv /\ BufferInv /\ ItoaNext => BufferInv'
<1> SUFFICES ASSUME NumInv, BufferInv, ItoaNext PROVE BufferInv'
  OBVIOUS
<1>0. /\ value \in Int /\ base \in 2..36 /\ str \in Seq(Int) /\ Len(str) \in Nat
      /\ Len(str) <= W + 1
  BY SignedInt, LenProperties DEF NumInv, BufferInv
<1>1. CASE Sign
  <2>1. /\ Abs(value) <= 2^(W - 1) /\ Len(str) = 0 /\ value' = value /\ base' = base
        /\ pc' = "digits" /\ str = <<>>
        /\ str' = IF value < 0 /\ base = 10 THEN <<Minus>> ELSE <<>>
    BY <1>1 DEF Sign, NumInv, BufferInv
  <2>2. CASE value < 0 /\ base = 10
    <3>1. Len(str') = 1
      BY <2>1, <2>2
    <3> QED  BY <2>1, <2>2, <3>1, WordIs DEF BufferInv
  <2>3. CASE ~ (value < 0 /\ base = 10)
    <3>1. Len(str') = 0
      BY <2>1, <2>3
    <3>2. Room(value, 0)
      <4>1. W - 1 - 0 = W - 1
        BY WordIs
      <4> QED  BY <2>1, <4>1, WordIs DEF Room
    <3> QED  BY <2>1, <3>1, <3>2, WordIs DEF BufferInv
  <2> QED  BY <2>2, <2>3
<1>2. CASE Convert
  <2> DEFINE q == Quotient(value, base)
             d == Digit(Remainder(value, base))
  <2>1. /\ pc = "digits" /\ str' = Append(str, d) /\ value' = q /\ base' = base
        /\ pc' = IF q = 0 THEN "end" ELSE "digits"
    BY <1>2 DEF Convert
  <2>2. /\ q \in Int /\ d \in 0..(base - 1) /\ Abs(value) = Abs(q) * base + d
        /\ 2 * Abs(q) <= Abs(value) /\ Abs(q) \in Nat
    <3>1. /\ q \in Int /\ d \in 0..(base - 1) /\ Abs(value) = Abs(q) * base + d
          /\ 2 * Abs(q) <= Abs(value)
      BY <1>0, DigitSplit
    <3> HIDE DEF q
    <3> QED  BY <3>1 DEF Abs
  <2> HIDE DEF q, d
  <2>3. Len(str') = Len(str) + 1
    BY <1>0, <2>1, <2>2, AppendProperties
  <2>4. CASE q = 0
    <3>1. Len(str) <= W - 1
      BY <2>1, WordIs DEF BufferInv, Room
    <3> QED  BY <1>0, <2>1, <2>3, <2>4, <3>1, WordIs DEF BufferInv
  <2>5. CASE q # 0
    <3>1. value # 0
      BY <1>0, <2>2, <2>5 DEF Abs
    <3>2. Room(q, Len(str) + 1)
      <4>1. CASE base = 10 /\ Len(str) = 1 /\ Abs(value) <= 2^(W - 1)
        <5>1. 10 * Abs(q) <= Abs(value)
          BY <2>2, <4>1
        <5>2. Room(q, 2)
          BY <1>0, <2>2, <2>5, <4>1, <5>1, RoomForSign
        <5> QED  BY <4>1, <5>2
      <4>2. CASE Room(value, Len(str))
        BY <1>0, <2>2, <2>5, <4>2, HalfTheRoom
      <4> QED  BY <2>1, <3>1, <4>1, <4>2 DEF BufferInv
    <3>3. Len(str) + 1 <= W - 1
      BY <3>2 DEF Room
    <3> QED  BY <1>0, <2>1, <2>3, <2>5, <3>2, <3>3, WordIs DEF BufferInv
  <2> QED  BY <2>4, <2>5
<1>3. CASE Terminate
  <2>1. Len(str) <= W /\ str' = Append(str, Nul) /\ pc' = "invert"
    BY <1>3 DEF Terminate, BufferInv
  <2>2. Len(str') = Len(str) + 1
    BY <1>0, <2>1, AppendProperties DEF Nul
  <2> QED  BY <1>0, <2>1, <2>2, WordIs DEF BufferInv
<1>4. CASE Invert
  <2>1. Len(str') = Len(str) /\ pc' \in {"invert", "done"}
    <3>1. DOMAIN str' = DOMAIN str
      BY <1>4 DEF Invert
    <3>2. str' \in Seq(Int)
      BY InvertStep, <1>4 DEF NumInv
    <3>3. pc' \in {"invert", "done"}
      BY <1>4 DEF Invert
    <3>4. DOMAIN str = 1..Len(str) /\ DOMAIN str' = 1..Len(str') /\ Len(str') \in Nat
      BY <1>0, <3>2, LenProperties
    <3> QED  BY <1>0, <3>1, <3>3, <3>4
  <2> QED  BY <1>0, <2>1 DEF BufferInv
<1> QED  BY <1>1, <1>2, <1>3, <1>4 DEF ItoaNext

(* For words of every width: a digit for every bit and the mark of the end *)
(* are the most that itoa() writes, the sign of base 10 included.          *)
THEOREM DigitsFit == ItoaSpec => []FitsBuffer
<1>1. NumInv /\ BufferInv /\ [ItoaNext]_itoaVars => BufferInv'
  <2>1. BufferInv /\ UNCHANGED itoaVars => BufferInv'
    BY DEF BufferInv, itoaVars, Room, Abs
  <2> QED  BY <2>1, BufferStep
<1>2. BufferInv => FitsBuffer
  BY DEF BufferInv, FitsBuffer
<1> QED  BY <1>1, <1>2, NumbersAlways, BufferStart, PTL DEF ItoaSpec

LEMMA DivMod ==
  \A a \in Int : \A b \in Nat \ {0} :
    a \div b \in Int /\ a = b * (a \div b) + (a % b) /\ a % b \in 0..(b - 1)
  OBVIOUS

(* Quotient and remainder are determined.                                  *)
LEMMA DivModUnique ==
  \A a \in Int : \A b \in Nat \ {0} : \A q \in Int : \A r \in 0..(b - 1) :
    a = b * q + r => q = a \div b /\ r = a % b
<1> SUFFICES ASSUME NEW a \in Int, NEW b \in Nat \ {0}, NEW q \in Int, NEW r \in 0..(b - 1),
                    a = b * q + r
             PROVE  q = a \div b /\ r = a % b
  OBVIOUS
<1>1. PICK u \in Int, s \in 0..(b - 1) : u = a \div b /\ s = a % b /\ a = b * u + s
  BY DivMod
<1>2. \A x, y \in Int : x > y => b * x >= b * y + b
  <2> TAKE x, y \in Int
  <2> HAVE x > y
  <2>1. PICK t \in Nat : x = y + 1 + t
    <3>1. x - y - 1 \in Nat /\ x = y + 1 + (x - y - 1)
      OBVIOUS
    <3> QED  BY <3>1
  <2>2. b * (y + 1 + t) = b * y + b + b * t /\ b * t \in Nat /\ b * y \in Int
    OBVIOUS
  <2> QED  BY <2>1, <2>2
<1>3. b * u \in Int /\ b * q \in Int
  OBVIOUS
<1>4. q = u
  <2>1. ~ (q > u) /\ ~ (u > q)
    BY <1>1, <1>2, <1>3
  <2> QED  BY <1>1, <2>1
<1>5. r = s
  BY <1>1, <1>3, <1>4
<1> QED  BY <1>1, <1>4, <1>5

(* Addresses, and the distance between two of them, go around.             *)
LEMMA Around ==
  \A x \in Int : /\ x \in 0..(Size - 1) => x % Size = x
                 /\ x \in Size..(2 * Size - 1) => x % Size = x - Size
                 /\ x \in (-Size)..(-1) => x % Size = x + Size
<1> TAKE x \in Int
<1>0. Size \in Nat \ {0}
  BY MemoryAssumption
<1>1. ASSUME x \in 0..(Size - 1) PROVE x % Size = x
  <2>1. x = Size * 0 + x
    BY <1>0
  <2> QED  BY <1>0, <1>1, <2>1, DivModUnique
<1>2. ASSUME x \in Size..(2 * Size - 1) PROVE x % Size = x - Size
  <2>1. x = Size * 1 + (x - Size) /\ x - Size \in 0..(Size - 1)
    BY <1>0, <1>2
  <2> QED  BY <1>0, <2>1, DivModUnique
<1>3. ASSUME x \in (-Size)..(-1) PROVE x % Size = x + Size
  <2>1. x = Size * (-1) + (x + Size) /\ x + Size \in 0..(Size - 1)
    BY <1>0, <1>3
  <2> QED  BY <1>0, <2>1, DivModUnique
<1> QED  BY <1>1, <1>2, <1>3

(* The address that a number stands for.                                   *)
Cell(x) == x % Size

LEMMA CellIs ==
  /\ \A x \in Int : Cell(x) \in 0..(Size - 1)
  /\ \A x \in 0..(Size - 1) : Cell(x) = x
  /\ \A x \in 0..(2 * Size - 1) : Cell(x) = x \/ Cell(x) = x - Size
  /\ \A x \in (-Size)..(Size - 1) : Cell(x) = x \/ Cell(x) = x + Size
<1>0. Size \in Nat \ {0}
  BY MemoryAssumption
<1>1. \A x \in Int : Cell(x) \in 0..(Size - 1)
  BY <1>0, DivMod DEF Cell
<1>2. \A x \in Int : /\ x \in 0..(Size - 1) => Cell(x) = x
                     /\ x \in Size..(2 * Size - 1) => Cell(x) = x - Size
                     /\ x \in (-Size)..(-1) => Cell(x) = x + Size
  BY Around DEF Cell
<1>3. /\ \A x \in 0..(2 * Size - 1) :
           x \in Int /\ (x \in 0..(Size - 1) \/ x \in Size..(2 * Size - 1))
      /\ \A x \in (-Size)..(Size - 1) : x \in Int /\ (x \in 0..(Size - 1) \/ x \in (-Size)..(-1))
      /\ \A x \in 0..(Size - 1) : x \in Int
  BY <1>0
<1> QED  BY <1>1, <1>2, <1>3

LEMMA NextPlace ==
  ASSUME NEW d \in 0..(Size - 1), NEW i \in Nat, i < Size
  PROVE  /\ Cell(Cell(d + i) + 1) = Cell(d + (i + 1))
         /\ \A a \in 0..(Size - 1) : Cell(a - d) = i <=> a = Cell(d + i)
<1>0. Size \in Nat \ {0}
  BY MemoryAssumption
<1>1. PICK x : x \in 0..(Size - 1) /\ x = Cell(d + i) /\ (x = d + i \/ x = (d + i) - Size)
  <2>1. PICK e \in 0..(2 * Size - 1) : e = d + i /\ e \in Int
    <3>1. d + i \in 0..(2 * Size - 1) /\ d + i \in Int
      BY <1>0
    <3> QED  BY <3>1
  <2>2. Cell(e) \in 0..(Size - 1) /\ (Cell(e) = e \/ Cell(e) = e - Size)
    BY CellIs, <2>1
  <2>3. Cell(d + i) \in 0..(Size - 1)
    BY <2>1, <2>2
  <2>4. Cell(d + i) = d + i \/ Cell(d + i) = (d + i) - Size
    BY <2>1, <2>2
  <2> QED  BY <2>3, <2>4
<1>2. ASSUME NEW a \in 0..(Size - 1) PROVE Cell(a - d) = i <=> a = x
  <2>1. PICK c : c \in 0..(Size - 1) /\ c = Cell(a - d) /\ (c = a - d \/ c = a - d + Size)
    <3>1. PICK e \in (-Size)..(Size - 1) : e = a - d /\ e \in Int
      <4>1. a - d \in (-Size)..(Size - 1) /\ a - d \in Int
        BY <1>0
      <4> QED  BY <4>1
    <3>2. Cell(e) \in 0..(Size - 1) /\ (Cell(e) = e \/ Cell(e) = e + Size)
      BY CellIs, <3>1
    <3>3. Cell(a - d) \in 0..(Size - 1)
      BY <3>1, <3>2
    <3>4. Cell(a - d) = a - d \/ Cell(a - d) = a - d + Size
      BY <3>1, <3>2
    <3> QED  BY <3>3, <3>4
  <2>2. c = i <=> a = x
    BY <1>0, <1>1, <2>1
  <2> QED  BY <2>1, <2>2
<1>3. Cell(x + 1) = Cell(d + (i + 1))
  <2>1. PICK y : y \in 0..(Size - 1) /\ y = Cell(x + 1) /\ (y = x + 1 \/ y = (x + 1) - Size)
    <3>1. PICK e \in 0..(2 * Size - 1) : e = x + 1 /\ e \in Int
      <4>1. x + 1 \in 0..(2 * Size - 1) /\ x + 1 \in Int
        BY <1>0, <1>1
      <4> QED  BY <4>1
    <3>2. Cell(e) \in 0..(Size - 1) /\ (Cell(e) = e \/ Cell(e) = e - Size)
      BY CellIs, <3>1
    <3>3. Cell(x + 1) \in 0..(Size - 1)
      BY <3>1, <3>2
    <3>4. Cell(x + 1) = x + 1 \/ Cell(x + 1) = (x + 1) - Size
      BY <3>1, <3>2
    <3> QED  BY <3>3, <3>4
  <2>2. PICK z : /\ z \in 0..(Size - 1) /\ z = Cell(d + (i + 1))
                 /\ z = d + (i + 1) \/ z = (d + (i + 1)) - Size
    <3>1. PICK e \in 0..(2 * Size - 1) : e = d + (i + 1) /\ e \in Int
      <4>1. d + (i + 1) \in 0..(2 * Size - 1) /\ d + (i + 1) \in Int
        BY <1>0
      <4> QED  BY <4>1
    <3>2. Cell(e) \in 0..(Size - 1) /\ (Cell(e) = e \/ Cell(e) = e - Size)
      BY CellIs, <3>1
    <3>3. Cell(d + (i + 1)) \in 0..(Size - 1)
      BY <3>1, <3>2
    <3>4. Cell(d + (i + 1)) = d + (i + 1) \/ Cell(d + (i + 1)) = (d + (i + 1)) - Size
      BY <3>1, <3>2
    <3> QED  BY <3>3, <3>4
  <2>3. y = z
    BY <1>0, <1>1, <2>1, <2>2
  <2> QED  BY <2>1, <2>2, <2>3
<1> QED  BY <1>1, <1>2, <1>3

Filled(count) ==
  \A a \in Addresses : mem[a] = IF Cell(a - dest) < count THEN Byte(val) ELSE old[a]

MemInv ==
  /\ dest \in Addresses /\ arg \in Addresses /\ p \in Addresses /\ left \in Addresses /\ val \in Int
  /\ mem \in [Addresses -> Int] /\ DOMAIN old = Addresses
  /\ mpc \in {"idle", "memset", "done", "msb", "lsb"}
  /\ mpc = "memset" => left <= arg /\ p = Cell(dest + (arg - left)) /\ Filled(arg - left)
  /\ mpc = "done" => ret = dest /\ Filled(arg)

LEMMA MemStart == PrimInit => MemInv
<1>1. Size \in Nat \ {0} /\ 0 \in Addresses
  BY MemoryAssumption DEF Addresses
<1> QED  BY <1>1 DEF PrimInit, MemInv, Untouched

LEMMA CallStep == MemInv /\ CallMemset => MemInv'
<1> SUFFICES ASSUME MemInv, CallMemset PROVE MemInv'
  OBVIOUS
<1>0. Size \in Nat \ {0} /\ Addresses = 0..(Size - 1) /\ Values \subseteq Int
  BY MemoryAssumption, ValueAssumption DEF Addresses
<1>1. PICK d \in Addresses, c \in Addresses :
        /\ dest' = d /\ p' = d /\ arg' = c /\ left' = c /\ val' \in Values
        /\ old' = mem /\ mem' = mem /\ mpc' = "memset"
  BY DEF CallMemset
<1>2. /\ c - c = 0 /\ Cell(d + (c - c)) = d /\ c <= c
      /\ \A a \in Addresses : ~ (Cell(a - d) < 0)
  <2>1. c \in Int /\ d \in Int /\ d \in 0..(Size - 1) /\ c - c = 0 /\ d + (c - c) = d
    BY <1>0
  <2>2. Cell(d + (c - c)) = d
    BY <2>1, CellIs
  <2>3. ASSUME NEW a \in Addresses PROVE Cell(a - d) \in 0..(Size - 1)
    <3>1. a - d \in Int
      BY <1>0
    <3> QED  BY <3>1, CellIs
  <2> QED  BY <2>1, <2>2, <2>3
<1>3. ASSUME NEW a \in Addresses PROVE ~ (Cell(a - dest') < arg' - left')
  BY <1>1, <1>2
<1>4. Filled(arg - left)'
  BY <1>1, <1>3 DEF Filled
<1>5. p' = Cell(dest' + (arg' - left')) /\ left' <= arg'
  BY <1>1, <1>2
<1> QED  BY <1>0, <1>1, <1>4, <1>5 DEF MemInv

LEMMA SetStep == MemInv /\ SetByte => MemInv'
<1> SUFFICES ASSUME MemInv, SetByte PROVE MemInv'
  OBVIOUS
<1>0. Size \in Nat \ {0} /\ Addresses = 0..(Size - 1)
  BY MemoryAssumption DEF Addresses
<1>1. PICK d \in Addresses, c \in Addresses, l \in Addresses, q \in Addresses :
        /\ d = dest /\ c = arg /\ l = left /\ q = p
        /\ l <= c /\ q = Cell(d + (c - l)) /\ Filled(c - l)
  BY DEF MemInv, SetByte
<1>2. /\ val \in Int /\ mem \in [Addresses -> Int] /\ mpc = "memset"
      /\ dest' = d /\ val' = val /\ arg' = c /\ old' = old /\ left' = Cell(l - 1)
      /\ DOMAIN old = Addresses /\ Byte(val) \in Int
  BY <1>1 DEF MemInv, SetByte, Byte, Cell
<1>3. CASE l = 0
  <2>1. mpc' = "done" /\ ret' = d /\ mem' = mem /\ p' = q
    BY <1>1, <1>3 DEF SetByte
  <2>2. Cell(l - 1) \in Addresses /\ c - l = c
    BY <1>0, <1>3, CellIs
  <2>3. Filled(arg)'
    BY <1>1, <1>2, <2>1, <2>2 DEF Filled
  <2> QED  BY <1>2, <2>1, <2>2, <2>3 DEF MemInv
<1>4. CASE l # 0
  <2>1. mem' = [mem EXCEPT ![q] = Byte(val)] /\ p' = Cell(q + 1) /\ mpc' = mpc
    BY <1>1, <1>4 DEF SetByte, Cell
  <2>2. Cell(l - 1) = l - 1 /\ l - 1 \in Addresses /\ l - 1 <= c
    <3>1. l - 1 \in 0..(Size - 1) /\ l - 1 <= c
      BY <1>0, <1>1, <1>4
    <3> QED  BY <1>0, <3>1, CellIs
  <2>3. PICK i \in Nat : i = c - l /\ c - (l - 1) = i + 1 /\ i < Size
    BY <1>0, <1>1, <1>4
  <2>4. /\ Cell(q + 1) = Cell(d + (i + 1)) /\ Cell(q + 1) \in Addresses
        /\ \A a \in Addresses : Cell(a - d) \in Nat /\ (Cell(a - d) = i <=> a = q)
    <3>1. q = Cell(d + i) /\ d \in 0..(Size - 1) /\ i < Size
      BY <1>0, <1>1, <2>3
    <3>2. /\ Cell(Cell(d + i) + 1) = Cell(d + (i + 1))
          /\ \A a \in 0..(Size - 1) : Cell(a - d) = i <=> a = Cell(d + i)
      BY <3>1, NextPlace
    <3>3. /\ Cell(q + 1) = Cell(d + (i + 1))
          /\ \A a \in Addresses : Cell(a - d) = i <=> a = q
      BY <1>0, <3>1, <3>2
    <3>4. ASSUME NEW a \in Addresses PROVE Cell(a - d) \in Nat
      <4>1. a - d \in Int
        BY <1>0
      <4>2. Cell(a - d) \in 0..(Size - 1)
        BY <4>1, CellIs
      <4> QED  BY <1>0, <4>2
    <3>5. Cell(q + 1) \in Addresses
      <4>1. q + 1 \in Int
        BY <1>0
      <4> QED  BY <1>0, <4>1, CellIs
    <3> QED  BY <3>3, <3>4, <3>5
  <2>5. ASSUME NEW a \in Addresses
        PROVE  mem'[a] = IF Cell(a - d) < i + 1 THEN Byte(val) ELSE old[a]
    <3>1. PICK e \in Nat : e = Cell(a - d) /\ (e = i <=> a = q)
      BY <2>4
    <3>2. mem[a] = IF e < i THEN Byte(val) ELSE old[a]
      BY <1>1, <2>3, <3>1 DEF Filled
    <3>3. mem'[a] = IF a = q THEN Byte(val) ELSE mem[a]
      BY <1>2, <2>1
    <3>4. e < i + 1 <=> e < i \/ e = i
      BY <3>1
    <3> QED  BY <3>1, <3>2, <3>3, <3>4
  <2>6. Filled(arg - left)'
    BY <1>2, <2>2, <2>3, <2>5 DEF Filled
  <2>7. p' = Cell(dest' + (arg' - left')) /\ left' <= arg'
    BY <1>2, <2>1, <2>2, <2>3, <2>4
  <2>8. mem' \in [Addresses -> Int] /\ p' \in Addresses /\ left' \in Addresses
    BY <1>2, <2>1, <2>2, <2>4
  <2> QED  BY <1>2, <2>1, <2>6, <2>7, <2>8 DEF MemInv
<1> QED  BY <1>3, <1>4

LEMMA ScanKeepsMemory == MemInv /\ (Msb \/ Lsb) => MemInv'
  BY DEF MemInv, Msb, Lsb, BitScan, Filled

LEMMA FilledIsExact == MemInv => SetsExactly
<1> SUFFICES ASSUME MemInv, mpc \in {"memset", "done"}, NEW a \in Addresses
             PROVE  IF (a - dest) % Size >= arg THEN mem[a] = old[a]
                    ELSE mpc = "done" => ret = dest /\ mem[a] = val % 256
  BY DEF SetsExactly
<1>0. Size \in Nat \ {0} /\ Addresses = 0..(Size - 1)
  BY MemoryAssumption DEF Addresses
<1>1. PICK d \in Nat : d = (a - dest) % Size
  <2>1. PICK b \in Addresses : b = dest
    BY DEF MemInv
  <2>2. a - b \in Int
    BY <1>0
  <2>3. Cell(a - b) \in Nat
    BY <2>2, CellIs
  <2> QED  BY <2>1, <2>3 DEF Cell
<1>2. arg \in Nat /\ left \in Nat /\ arg - left <= arg
  BY <1>0 DEF MemInv
<1>3. CASE mpc = "memset"
  <2>1. mem[a] = IF d < arg - left THEN Byte(val) ELSE old[a]
    BY <1>1, <1>3 DEF MemInv, Filled, Cell
  <2> QED  BY <1>1, <1>2, <1>3, <2>1
<1>4. CASE mpc = "done"
  <2>1. (mem[a] = IF d < arg THEN Byte(val) ELSE old[a]) /\ ret = dest
    BY <1>1, <1>4 DEF MemInv, Filled, Cell
  <2> QED  BY <1>1, <1>2, <1>4, <2>1 DEF Byte
<1> QED  BY <1>3, <1>4

LEMMA Divided ==
  ASSUME NEW a \in Int, NEW b \in Nat \ {0}
  PROVE  \E u \in Int, s \in 0..(b - 1) : u = a \div b /\ s = a % b /\ a = b * u + s
  BY DivMod

LEMMA PowersGrow == \A k \in Nat : \A b \in Nat : 2^k <= 2^(k + b)
<1> TAKE k \in Nat
<1> DEFINE N == {b \in Nat : 2^k <= 2^(k + b)}
<1>1. 0 \in N
  <2>1. 2^k \in Nat /\ k + 0 = k
    BY PowerOfTwo
  <2> QED  BY <2>1
<1>2. ASSUME NEW b \in Nat, b \in N PROVE b + 1 \in N
  <2>1. k + b \in Nat /\ k + (b + 1) = (k + b) + 1 /\ 2^k <= 2^(k + b)
    BY <1>2
  <2>2. 2^k \in Nat /\ 2^(k + b) \in Nat /\ 2^((k + b) + 1) = 2 * 2^(k + b)
    BY <2>1, PowerOfTwo
  <2>3. 2^k <= 2^((k + b) + 1)
    BY <2>1, <2>2
  <2> QED  BY <2>1, <2>3
<1> HIDE DEF N
<1>3. Nat \subseteq N
  BY <1>1, <1>2, SetInduction
<1> QED  BY <1>3 DEF N

LEMMA PowersDivide == \A k \in Nat : \A b \in Nat : \E t \in Nat : 2^(k + b) = 2^k * t
<1> TAKE k \in Nat
<1> DEFINE N == {b \in Nat : \E t \in Nat : 2^(k + b) = 2^k * t}
<1>1. 0 \in N
  <2>1. 2^k \in Nat /\ k + 0 = k /\ 2^k * 1 = 2^k
    BY PowerOfTwo
  <2> QED  BY <2>1
<1>2. ASSUME NEW b \in Nat, b \in N PROVE b + 1 \in N
  <2>1. k + b \in Nat /\ k + (b + 1) = (k + b) + 1
    OBVIOUS
  <2>2. PICK t \in Nat : 2^(k + b) = 2^k * t
    BY <1>2
  <2>3. 2^k \in Nat /\ 2^((k + b) + 1) = 2 * 2^(k + b)
    BY <2>1, PowerOfTwo
  <2>4. 2 * (2^k * t) = 2^k * (2 * t) /\ 2 * t \in Nat
    BY <2>3
  <2>5. 2^(k + (b + 1)) = 2^k * (2 * t)
    BY <2>1, <2>2, <2>3, <2>4
  <2>6. \E u \in Nat : 2^(k + (b + 1)) = 2^k * u
    <3>1. PICK u \in Nat : u = 2 * t
      BY <2>4
    <3> QED  BY <2>5, <3>1
  <2> QED  BY <2>1, <2>6
<1> HIDE DEF N
<1>3. Nat \subseteq N
  BY <1>1, <1>2, SetInduction
<1> QED  BY <1>3 DEF N

LEMMA Larger == \A j, k \in Nat : j <= k => 2^j <= 2^k
<1> TAKE j, k \in Nat
<1> HAVE j <= k
<1>1. PICK b \in Nat : k = j + b
  <2>1. k - j \in Nat /\ k = j + (k - j)
    OBVIOUS
  <2> QED  BY <2>1
<1> QED  BY <1>1, PowersGrow

(* A word lies between two powers.                                         *)
LEMMA Between ==
  ASSUME NEW i \in Addresses, i # 0
  PROVE  \E m \in 0..(Bits - 1) : 2^m <= i /\ i < 2^(m + 1)
<1>0. Bits \in Nat /\ i \in Nat /\ i < 2^Bits
  BY MemoryAssumption DEF Addresses
<1> DEFINE N == {k \in Nat : k <= Bits => 2^k <= i}
<1>1. 0 \in N
  BY <1>0, PowerOfTwo
<1>2. Bits \notin N
  <2>1. 2^Bits \in Nat
    BY <1>0, PowerOfTwo
  <2>2. ~ (2^Bits <= i)
    BY <1>0, <2>1
  <2> QED  BY <1>0, <2>2
<1> HIDE DEF N
<1>3. PICK m \in Nat : m \in N /\ m + 1 \notin N
  BY <1>0, <1>1, <1>2, SetInduction
<1>4. m + 1 <= Bits /\ ~ (2^(m + 1) <= i)
  BY <1>3 DEF N
<1>5. m <= Bits /\ m \in 0..(Bits - 1)
  BY <1>0, <1>4
<1>6. 2^m <= i
  BY <1>3, <1>5 DEF N
<1>7. 2^(m + 1) \in Nat
  BY PowerOfTwo
<1> QED  BY <1>0, <1>4, <1>5, <1>6, <1>7

LEMMA HighestBit ==
  ASSUME NEW i \in Addresses, i # 0
  PROVE  Max(Ones(i)) \in 0..(Bits - 1) /\ 2^Max(Ones(i)) <= i /\ i < 2^(Max(Ones(i)) + 1)
<1>0. i \in Nat /\ Bits \in Nat
  BY MemoryAssumption DEF Addresses
<1>1. PICK m \in 0..(Bits - 1) : 2^m <= i /\ i < 2^(m + 1)
  BY Between
<1>2. m \in Ones(i)
  <2>1. PICK q : q = 2^m /\ q \in Nat \ {0} /\ q <= i /\ i < 2 * q
    BY <1>1, PowerOfTwo
  <2>2. i = q * 1 + (i - q) /\ i - q \in 0..(q - 1)
    BY <1>0, <2>1
  <2>3. i \div q = 1
    BY <1>0, <2>1, <2>2, DivModUnique
  <2>4. 1 % 2 = 1
    OBVIOUS
  <2> QED  BY <2>1, <2>3, <2>4 DEF Ones
<1>3. ASSUME NEW b \in Ones(i) PROVE b <= m
  <2> SUFFICES ASSUME b > m PROVE FALSE
    BY <1>0 DEF Ones
  <2>1. b \in 0..(Bits - 1) /\ (i \div 2^b) % 2 = 1
    BY DEF Ones
  <2>2. m + 1 \in Nat /\ b \in Nat /\ m + 1 <= b
    BY <1>0, <2>1
  <2>3. PICK q : q = 2^b /\ q \in Nat \ {0} /\ 2^(m + 1) <= q /\ 2^(m + 1) \in Nat
    BY <2>2, Larger, PowerOfTwo
  <2>4. i = q * 0 + i /\ i \in 0..(q - 1)
    BY <1>0, <1>1, <2>3
  <2>5. i \div q = 0
    BY <1>0, <2>3, <2>4, DivModUnique
  <2>6. 0 % 2 = 0
    OBVIOUS
  <2> QED  BY <2>1, <2>3, <2>5, <2>6
<1>4. Ones(i) \subseteq Int
  BY <1>0 DEF Ones
<1>5. Max(Ones(i)) = m
  <2>1. PICK S : S = Ones(i)
    OBVIOUS
  <2>2. m \in S /\ (\A b \in S : m >= b) /\ S \subseteq Int
    BY <1>0, <1>2, <1>3, <1>4, <2>1
  <2>3. Max(S) \in S /\ \A b \in S : Max(S) >= b
    BY <2>2 DEF Max
  <2>4. PICK x : x = Max(S)
    OBVIOUS
  <2>5. x \in Int /\ m \in Int /\ m >= x /\ x >= m
    BY <2>2, <2>3, <2>4
  <2>6. Max(S) = m
    BY <2>4, <2>5
  <2> QED  BY <2>1, <2>6
<1> QED  BY <1>1, <1>5

(* The first power that does not divide a word.                            *)
LEMMA FirstRemainder ==
  ASSUME NEW i \in Addresses, i # 0
  PROVE  \E m \in 0..(Bits - 1) : i % 2^m = 0 /\ i % 2^(m + 1) # 0
<1>0. Bits \in Nat /\ i \in Nat /\ i < 2^Bits
  BY MemoryAssumption DEF Addresses
<1> DEFINE N == {k \in Nat : k <= Bits => i % 2^k = 0}
<1>1. 0 \in N
  <2>1. i = 1 * i + 0 /\ 0 \in 0..(1 - 1)
    BY <1>0
  <2>2. i % 1 = 0
    BY <1>0, <2>1, DivModUnique
  <2> QED  BY <2>2, PowerOfTwo
<1>2. Bits \notin N
  <2>1. PICK q : q = 2^Bits /\ q \in Nat \ {0}
    BY <1>0, PowerOfTwo
  <2>2. i = q * 0 + i /\ i \in 0..(q - 1)
    BY <1>0, <2>1
  <2>3. i % q = i
    BY <1>0, <2>1, <2>2, DivModUnique
  <2> QED  BY <1>0, <2>1, <2>3
<1> HIDE DEF N
<1>3. PICK m \in Nat : m \in N /\ m + 1 \notin N
  BY <1>0, <1>1, <1>2, SetInduction
<1>4. m + 1 <= Bits /\ i % 2^(m + 1) # 0
  BY <1>3 DEF N
<1>5. m <= Bits /\ m \in 0..(Bits - 1)
  BY <1>0, <1>4
<1>6. i % 2^m = 0
  BY <1>3, <1>5 DEF N
<1> QED  BY <1>4, <1>5, <1>6

LEMMA LowestBit ==
  ASSUME NEW i \in Addresses, i # 0
  PROVE  /\ Min(Ones(i)) \in 0..(Bits - 1)
         /\ i % 2^Min(Ones(i)) = 0 /\ i % 2^(Min(Ones(i)) + 1) # 0
<1>0. i \in Nat /\ Bits \in Nat
  BY MemoryAssumption DEF Addresses
<1>1. PICK m \in 0..(Bits - 1) : i % 2^m = 0 /\ i % 2^(m + 1) # 0
  BY FirstRemainder
<1>2. PICK q : q = 2^m /\ q \in Nat \ {0} /\ 2^(m + 1) = 2 * q
  BY PowerOfTwo
<1>3. PICK w \in Int : i = q * w /\ w = i \div q
  <2>1. i % q = 0
    BY <1>1, <1>2
  <2>2. PICK w \in Int, r \in 0..(q - 1) : w = i \div q /\ r = i % q /\ i = q * w + r
    <3>1. i \in Int /\ q \in Nat \ {0}
      BY <1>0, <1>2
    <3> QED  BY <3>1, Divided
  <2>3. q * w \in Int /\ q * w + 0 = q * w
    BY <1>2, <2>2
  <2>4. i = q * w
    BY <2>1, <2>2, <2>3
  <2> QED  BY <2>2, <2>4
<1>4. m \in Ones(i)
  <2>1. PICK v \in Int, r \in {0, 1} : w = 2 * v + r /\ r = w % 2
    <3>1. PICK v \in Int, r \in 0..(2 - 1) : r = w % 2 /\ w = 2 * v + r
      <4>1. w \in Int /\ 2 \in Nat \ {0}
        BY <1>3
      <4>2. \E u \in Int, s \in 0..(2 - 1) : u = w \div 2 /\ s = w % 2 /\ w = 2 * u + s
        BY <4>1, Divided
      <4> QED  BY <4>2
    <3> QED  BY <3>1
  <2>2. r # 0
    <3> SUFFICES ASSUME r = 0 PROVE FALSE
      OBVIOUS
    <3>1. i = (2 * q) * v + 0 /\ 0 \in 0..((2 * q) - 1) /\ 2 * q \in Nat \ {0}
      <4>1. w = 2 * v
        BY <2>1
      <4>2. q * (2 * v) = (2 * q) * v /\ (2 * q) * v + 0 = (2 * q) * v
        BY <1>2, <2>1
      <4>3. i = (2 * q) * v
        BY <1>3, <4>1, <4>2
      <4>4. 2 * q \in Nat \ {0} /\ 0 \in 0..((2 * q) - 1)
        BY <1>2
      <4> QED  BY <4>2, <4>3, <4>4
    <3>2. i % (2 * q) = 0
      BY <1>0, <3>1, DivModUnique
    <3> QED  BY <1>1, <1>2, <3>2
  <2>3. r = 1
    BY <2>1, <2>2
  <2> QED  BY <1>2, <1>3, <2>1, <2>3 DEF Ones
<1>5. ASSUME NEW b \in Ones(i) PROVE m <= b
  <2> SUFFICES ASSUME b < m PROVE FALSE
    BY <1>0 DEF Ones
  <2>1. b \in 0..(Bits - 1) /\ (i \div 2^b) % 2 = 1
    BY DEF Ones
  <2>2. PICK j \in Nat : m = (b + 1) + j
    <3>1. m - b - 1 \in Nat /\ m = (b + 1) + (m - b - 1)
      BY <1>0, <2>1
    <3> QED  BY <3>1
  <2>3. PICK s : s = 2^b /\ s \in Nat \ {0} /\ 2^(b + 1) = 2 * s
    BY <2>1, PowerOfTwo
  <2>4. PICK t \in Nat : q = (2 * s) * t
    <3>1. b + 1 \in Nat
      BY <2>1
    <3>2. PICK t \in Nat : 2^((b + 1) + j) = 2^(b + 1) * t
      BY <3>1, PowersDivide
    <3>3. 2^((b + 1) + j) = q
      BY <1>2, <2>2
    <3> QED  BY <2>3, <3>2, <3>3
  <2>5. i = s * (2 * (t * w)) + 0 /\ 2 * (t * w) \in Int /\ t * w \in Int /\ 0 \in 0..(s - 1)
    BY <1>3, <2>3, <2>4
  <2>6. i \div s = 2 * (t * w)
    BY <1>0, <2>3, <2>5, DivModUnique
  <2>7. (2 * (t * w)) % 2 = 0
    <3>1. 2 * (t * w) = 2 * (t * w) + 0 /\ 0 \in 0..(2 - 1)
      BY <2>5
    <3> QED  BY <2>5, <3>1, DivModUnique
  <2> QED  BY <2>1, <2>3, <2>6, <2>7
<1>6. Ones(i) \subseteq Int
  BY <1>0 DEF Ones
<1>7. Min(Ones(i)) = m
  <2>1. PICK S : S = Ones(i)
    OBVIOUS
  <2>2. m \in S /\ (\A b \in S : m <= b) /\ S \subseteq Int
    BY <1>4, <1>5, <1>6, <2>1
  <2>3. Min(S) \in S /\ \A b \in S : Min(S) <= b
    BY <2>2 DEF Min
  <2>4. PICK x : x = Min(S)
    OBVIOUS
  <2>5. x \in Int /\ m \in Int /\ m <= x /\ x <= m
    BY <2>2, <2>3, <2>4
  <2>6. Min(S) = m
    BY <2>4, <2>5
  <2> QED  BY <2>1, <2>6
<1> QED  BY <1>1, <1>7

LEMMA ScanFinds == PrimNext /\ MemInv /\ FindsBit => FindsBit'
<1> SUFFICES ASSUME PrimNext, MemInv PROVE FindsBit'
  OBVIOUS
<1>1. CASE CallMemset \/ SetByte
  <2>1. mpc' \in {"memset", "done"}
    BY <1>1 DEF CallMemset, SetByte
  <2> QED  BY <2>1 DEF FindsBit
<1>2. CASE Msb
  <2>1. PICK i \in Addresses : /\ mpc' = "msb" /\ arg' = i
                               /\ IF i = 0 THEN ret' = Bits ELSE ret' \in Bsr[i]
    BY <1>2 DEF Msb, BitScan
  <2>2. CASE i = 0
    BY <2>1, <2>2, MemoryAssumption DEF FindsBit
  <2>3. CASE i # 0
    <3>1. ret' = Max(Ones(i))
      BY <2>1, <2>3 DEF Bsr
    <3> QED  BY <2>1, <2>3, <3>1, HighestBit DEF FindsBit
  <2> QED  BY <2>2, <2>3
<1>3. CASE Lsb
  <2>1. PICK i \in Addresses : /\ mpc' = "lsb" /\ arg' = i
                               /\ IF i = 0 THEN ret' = Bits ELSE ret' \in Bsf[i]
    BY <1>3 DEF Lsb, BitScan
  <2>2. CASE i = 0
    BY <2>1, <2>2, MemoryAssumption DEF FindsBit
  <2>3. CASE i # 0
    <3>1. ret' = Min(Ones(i))
      BY <2>1, <2>3 DEF Bsf
    <3> QED  BY <2>1, <2>3, <3>1, LowestBit DEF FindsBit
  <2> QED  BY <2>2, <2>3
<1> QED  BY <1>1, <1>2, <1>3 DEF PrimNext

(* The number of a bit is an address as well.                              *)
LEMMA BitsAreAddresses == 0..Bits \subseteq Addresses
<1> DEFINE N == {b \in Nat : b < 2^b}
<1>1. 0 \in N
  BY PowerOfTwo
<1>2. ASSUME NEW b \in Nat, b \in N PROVE b + 1 \in N
  <2>1. PICK q \in Nat : q = 2^b /\ 2^(b + 1) = 2 * q /\ b < q
    BY <1>2, PowerOfTwo
  <2>2. b + 1 < 2 * q
    BY <2>1
  <2> QED  BY <2>1, <2>2
<1> HIDE DEF N
<1>3. Nat \subseteq N
  BY <1>1, <1>2, SetInduction
<1>4. Bits \in Nat /\ Size \in Nat /\ Bits < Size
  BY <1>3, MemoryAssumption DEF N
<1> QED  BY <1>4 DEF Addresses

(* What memset() writes are bytes, and nothing leaves the address space.   *)
THEOREM PrimitivesTypes == PrimSpec => []PrimTypeOK
<1>1. PrimInit => PrimTypeOK
  <2>1. 0 \in Addresses /\ Untouched \in 0..Untouched
    BY MemoryAssumption DEF Addresses, Untouched
  <2> QED  BY <2>1 DEF PrimInit, PrimTypeOK
<1>2. PrimTypeOK /\ MemInv /\ MemInv' /\ [PrimNext]_memVars => PrimTypeOK'
  <2> SUFFICES ASSUME PrimTypeOK, MemInv, MemInv', [PrimNext]_memVars PROVE PrimTypeOK'
    OBVIOUS
  <2>1. /\ {dest, arg, p, left, ret} \subseteq Addresses /\ mem \in [Addresses -> 0..Untouched]
        /\ {dest', arg', p', left'} \subseteq Addresses
        /\ mpc' \in {"idle", "memset", "done", "msb", "lsb"}
    BY DEF PrimTypeOK, MemInv
  <2>2. CASE CallMemset
    BY <2>1, <2>2 DEF CallMemset, PrimTypeOK
  <2>3. CASE SetByte
    <3>1. ret' \in Addresses
      BY <2>1, <2>3 DEF SetByte
    <3>2. PICK b : b = Byte(val) /\ b \in 0..Untouched
      <4>1. val \in Int
        BY DEF MemInv
      <4>2. val % 256 \in 0..255
        BY <4>1
      <4>3. val % 256 \in 0..256
        BY <4>2
      <4> QED  BY <4>3 DEF Byte, Untouched
    <3>3. mem' = mem \/ mem' = [mem EXCEPT ![p] = b]
      BY <2>3, <3>2 DEF SetByte
    <3>4. mem' \in [Addresses -> 0..Untouched]
      BY <2>1, <3>2, <3>3
    <3> QED  BY <2>1, <3>1, <3>4 DEF PrimTypeOK
  <2>4. CASE Msb \/ Lsb
    <3>1. PICK i \in Addresses :
            /\ mem' = mem
            /\ ret' = Bits \/ (i # 0 /\ (ret' = Max(Ones(i)) \/ ret' = Min(Ones(i))))
      BY <2>4 DEF Msb, Lsb, BitScan, Bsr, Bsf
    <3>2. ret' \in Addresses
      <4>1. CASE ret' = Bits
        BY <4>1, BitsAreAddresses, MemoryAssumption
      <4>2. CASE i # 0 /\ (ret' = Max(Ones(i)) \/ ret' = Min(Ones(i)))
        <5>1. ret' \in 0..(Bits - 1)
          BY <4>2, HighestBit, LowestBit
        <5>2. 0..(Bits - 1) \subseteq 0..Bits
          BY MemoryAssumption
        <5> QED  BY <5>1, <5>2, BitsAreAddresses
      <4> QED  BY <3>1, <4>1, <4>2
    <3> QED  BY <2>1, <3>1, <3>2 DEF PrimTypeOK
  <2>5. CASE UNCHANGED memVars
    BY <2>5 DEF memVars, PrimTypeOK
  <2> QED  BY <2>2, <2>3, <2>4, <2>5 DEF PrimNext
<1>3. MemInv /\ [PrimNext]_memVars => MemInv'
  <2>1. MemInv /\ UNCHANGED memVars => MemInv'
    BY DEF memVars, MemInv, Filled, Cell
  <2> QED  BY <2>1, CallStep, SetStep, ScanKeepsMemory DEF PrimNext
<1> QED  BY <1>1, <1>2, <1>3, MemStart, PTL DEF PrimSpec

(* memset() sets the bytes it is asked to and no other, for every size of  *)
(* memory and every n, those that go around the end included; msb() and    *)
(* lsb() find the highest and the lowest bit of every word.                *)
THEOREM PrimitivesDo == PrimSpec => []Postconditions
<1>1. PrimInit => FindsBit
  BY DEF PrimInit, FindsBit
<1>2. MemInv /\ FindsBit /\ [PrimNext]_memVars => MemInv' /\ FindsBit'
  <2>1. MemInv /\ FindsBit /\ UNCHANGED memVars => MemInv' /\ FindsBit'
    BY DEF memVars, MemInv, FindsBit, Filled, Cell
  <2> QED  BY <2>1, CallStep, SetStep, ScanKeepsMemory, ScanFinds DEF PrimNext
<1>3. MemInv /\ FindsBit => Postconditions
  BY FilledIsExact DEF Postconditions
<1> QED  BY <1>1, <1>2, <1>3, MemStart, PTL DEF PrimSpec

(* The run takes each routine by itself: whichever takes the steps, each    *)
(* behaves as its own module says.                                         *)
THEOREM EachByItself == Spec => PrintkSpec /\ ItoaSpec /\ OldSpec /\ PrimSpec
<1>1. Init => PrintkInit /\ ItoaInit /\ OldInit /\ PrimInit
  BY DEF Init
<1>2. ASSUME [Next]_allVars
      PROVE  /\ [PrintkNext]_printkVars /\ [ItoaNext]_itoaVars
             /\ [OldNext]_oldVars /\ [PrimNext]_memVars
  <2>1. CASE UNCHANGED allVars
    BY <2>1 DEF allVars
  <2>2. CASE Next
    BY <2>2, Zenon DEF Next
  <2> QED  BY <1>2, <2>1, <2>2
<1> QED  BY <1>1, <1>2, PTL DEF Spec, PrintkSpec, ItoaSpec, OldSpec, PrimSpec

(* No routine leaves its format, its buffer or the frames it has.          *)
THEOREM LibraryInBounds == Spec => []InBounds
<1>1. PrintkTypeOK /\ (PrintsItsMeaning /\ StaysInFormat) /\ FitsBuffer /\ OldTypeOK /\ PrimTypeOK
      => InBounds
  BY Zenon DEF InBounds
<1> QED  BY <1>1, EachByItself, PrintkTypes, FormatsAreObeyed, DigitsFit, OldTypes, PrimitivesTypes,
            PTL
=============================================================================
