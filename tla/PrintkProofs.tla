---------------------------- MODULE PrintkProofs ----------------------------
(***************************************************************************)
(* printk() prints what its format means, for every set of messages, and the *)
(* messages of the kernel fit their arguments.                             *)
(***************************************************************************)
EXTENDS Printk, Induction, TLAPS

Word   == [arg : Nat, half : Halvings]
Kinds  == {"text", "dec", "hex", "bin", "char", "string", "page", "KB"}
Clean  == [as : Kinds] \cup [as : Kinds, of : Word]
Piece  == Clean \cup {[as |-> "bad specifier"]}
Parsed == [esc : BOOLEAN, bad : BOOLEAN, k : Nat, out : Seq(Piece)]

LEMMA OnePiece ==
  ASSUME NEW a \in Kinds, NEW word \in Word
  PROVE  [as |-> a, of |-> word] \in Clean /\ [as |-> a] \in Clean
<1>1. [as |-> a, of |-> word] \in [as : Kinds, of : Word]
  OBVIOUS
<1>2. [as |-> a] \in [as : Kinds]
  OBVIOUS
<1> QED  BY <1>1, <1>2 DEF Clean

LEMMA PiecesAreClean ==
  \A op \in Known : \A word \in Word : Pieces(op, word) \in Seq(Clean)
<1> SUFFICES ASSUME NEW op \in Known, NEW word \in Word PROVE Pieces(op, word) \in Seq(Clean)
  OBVIOUS
<1>1. \A a \in Kinds : [as |-> a, of |-> word] \in Clean
  BY OnePiece
<1>2. ASSUME NEW a \in Kinds PROVE <<[as |-> a, of |-> word]>> \in Seq(Clean)
  <2>1. PICK x \in Clean : x = [as |-> a, of |-> word]
    BY <1>1
  <2> QED  BY <2>1
<1>3. CASE op \in {"d", "i", "u"}
  <2>1. Pieces(op, word) = <<[as |-> "dec", of |-> word]>>
    BY <1>3 DEF Pieces
  <2> QED  BY <1>2, <2>1 DEF Kinds
<1>4. CASE op \in {"x", "X"}
  <2>1. Pieces(op, word) = <<[as |-> "hex", of |-> word]>>
    BY <1>4 DEF Pieces
  <2> QED  BY <1>2, <2>1 DEF Kinds
<1>5. CASE op \in {"b", "B"}
  <2>1. Pieces(op, word) = <<[as |-> "bin", of |-> word]>>
    BY <1>5 DEF Pieces
  <2> QED  BY <1>2, <2>1 DEF Kinds
<1>6. CASE op = "c"
  <2>1. Pieces(op, word) = <<[as |-> "char", of |-> word]>>
    BY <1>6 DEF Pieces
  <2> QED  BY <1>2, <2>1 DEF Kinds
<1>7. CASE op = "s"
  <2>1. Pieces(op, word) = <<[as |-> "string", of |-> word]>>
    BY <1>7 DEF Pieces
  <2> QED  BY <1>2, <2>1 DEF Kinds
<1>8. CASE op = "p"
  <2>1. PICK x, y, z : x = [as |-> "hex", of |-> word] /\ y = [as |-> "page", of |-> word]
                       /\ z = [as |-> "KB", of |-> word]
    OBVIOUS
  <2>2. Pieces(op, word) = <<x, y, z>>
    BY <1>8, <2>1 DEF Pieces
  <2>3. x \in Clean /\ y \in Clean /\ z \in Clean
    BY <1>1, <2>1 DEF Kinds
  <2> QED  BY <2>2, <2>3
<1> QED  BY <1>3, <1>4, <1>5, <1>6, <1>7, <1>8 DEF Known

LEMMA CleanSeq == \A s \in Seq(Clean) : s \in Seq(Piece)
<1> SUFFICES ASSUME NEW s \in Seq(Clean) PROVE s \in Seq(Piece)
  OBVIOUS
<1>1. PICK len \in Nat : len = Len(s) /\ s = [i \in 1..len |-> s[i]]
  BY LenProperties
<1>2. \A i \in 1..len : s[i] \in Piece
  BY <1>1, ElementOfSeq DEF Piece
<1>3. s \in [1..len -> Piece]
  BY <1>1, <1>2
<1> QED  BY <1>3, SeqDef

LEMMA PiecesAreSome ==
  \A op \in Known : \A word \in Word : Pieces(op, word) \in Seq(Piece)
  BY PiecesAreClean, CleanSeq

LEMMA TextIs ==
  /\ Text \in Seq(Clean) /\ Text \in Seq(Piece) /\ Bad \in Seq(Piece)
  /\ Bad[1] \notin Clean
<1>1. PICK x, y : x = [as |-> "text"] /\ y = [as |-> "bad specifier"]
  OBVIOUS
<1>2. x \in [as : Kinds]
  BY <1>1 DEF Kinds
<1>3. x \in Clean /\ y \in Piece
  BY <1>1, <1>2 DEF Clean, Piece
<1>4. Text = <<x>> /\ Bad = <<y>>
  BY <1>1 DEF Text, Bad
<1>5. y \notin Clean
  <2>1. y.as \notin Kinds
    BY <1>1 DEF Kinds
  <2> QED  BY <2>1 DEF Clean
<1>6. Text \in Seq(Clean) /\ Bad \in Seq(Piece)
  BY <1>3, <1>4
<1> QED  BY <1>4, <1>5, <1>6, CleanSeq

LEMMA ScanCases ==
  \A st \in Parsed : \A ch \in Characters :
    /\ st.bad => Scan(st, ch) = st
    /\ ~st.bad /\ ~st.esc /\ ch = "%" => Scan(st, ch) = [st EXCEPT !.esc = TRUE]
    /\ ~st.bad /\ ~st.esc /\ ch # "%" => Scan(st, ch) = [st EXCEPT !.out = st.out \o Text]
    /\ ~st.bad /\ st.esc /\ ch \notin Known =>
         Scan(st, ch) = [st EXCEPT !.out = st.out \o Bad, !.bad = TRUE]
    /\ ~st.bad /\ st.esc /\ ch \in Known =>
         Scan(st, ch) = [st EXCEPT !.esc = FALSE, !.k = st.k + 1,
                           !.out = st.out \o Pieces(ch, [arg |-> st.k + 1, half |-> "low"])]
<1> TAKE st \in Parsed
<1> TAKE ch \in Characters
<1>1. CASE st.bad
  BY <1>1 DEF Scan
<1>2. CASE ~st.bad /\ ~st.esc /\ ch = "%"
  BY <1>2 DEF Scan
<1>3. CASE ~st.bad /\ ~st.esc /\ ch # "%"
  BY <1>3 DEF Scan
<1>4. CASE ~st.bad /\ st.esc /\ ch \notin Known
  BY <1>4 DEF Scan
<1>5. CASE ~st.bad /\ st.esc /\ ch \in Known
  BY <1>5 DEF Scan
<1> QED  BY <1>1, <1>2, <1>3, <1>4, <1>5, SMTT(40)

LEMMA ScanStays == \A st \in Parsed : \A ch \in Characters : Scan(st, ch) \in Parsed
<1> SUFFICES ASSUME NEW st \in Parsed, NEW ch \in Characters PROVE Scan(st, ch) \in Parsed
  BY SMTT(40)
<1>1. CASE st.bad
  BY <1>1, ScanCases, ZenonT(40)
<1>2. CASE ~st.bad /\ ~st.esc /\ ch = "%"
  <2>1. Scan(st, ch) = [st EXCEPT !.esc = TRUE]
    BY <1>2, ScanCases, ZenonT(40)
  <2> QED  BY <2>1 DEF Parsed
<1>3. CASE ~st.bad /\ ~st.esc /\ ch # "%"
  <2>1. Scan(st, ch) = [st EXCEPT !.out = st.out \o Text]
    BY <1>3, ScanCases, ZenonT(40)
  <2>2. st.out \o Text \in Seq(Piece)
    BY TextIs, ConcatProperties DEF Parsed
  <2> QED  BY <2>1, <2>2, ZenonT(40) DEF Parsed
<1>4. CASE ~st.bad /\ st.esc /\ ch \notin Known
  <2>1. Scan(st, ch) = [st EXCEPT !.out = st.out \o Bad, !.bad = TRUE]
    BY <1>4, ScanCases, ZenonT(40)
  <2>2. st.out \o Bad \in Seq(Piece)
    BY TextIs, ConcatProperties DEF Parsed
  <2> QED  BY <2>1, <2>2, ZenonT(40) DEF Parsed
<1>5. CASE ~st.bad /\ st.esc /\ ch \in Known
  <2> DEFINE w == [arg |-> st.k + 1, half |-> "low"]
             more == st.out \o Pieces(ch, w)
  <2>1. Scan(st, ch) = [st EXCEPT !.esc = FALSE, !.k = st.k + 1, !.out = more]
    BY <1>5, ScanCases, ZenonT(40)
  <2>2. w \in Word
    BY DEF Parsed, Word, Halvings
  <2>3. more \in Seq(Piece)
    BY <1>5, <2>2, PiecesAreSome, ConcatProperties DEF Parsed
  <2>4. st.k + 1 \in Nat /\ st.bad \in BOOLEAN
    BY DEF Parsed
  <2> HIDE DEF more, w
  <2> QED  BY <2>1, <2>3, <2>4, ZenonT(40) DEF Parsed
<1> QED  BY <1>1, <1>2, <1>3, <1>4, <1>5 DEF Parsed

Blank == [esc |-> FALSE, bad |-> FALSE, k |-> 0, out |-> <<>>]

LEMMA ScannedIs ==
  \A fmt \in Seq(Characters) :
    /\ Scanned(fmt)[0] = Blank
    /\ \A j \in 1..Len(fmt) : Scanned(fmt)[j] = Scan(Scanned(fmt)[j - 1], fmt[j])
    /\ \A j \in 0..Len(fmt) : Scanned(fmt)[j] \in Parsed
<1>a. PICK X : X = Parsed
  OBVIOUS
<1>b. \A a \in X : \A m \in Nat : \A h \in [1..m -> [X -> X]] :
        \E f \in [0..m -> X] : f[0] = a /\ \A i \in 1..m : f[i] = h[i][f[i - 1]]
  BY Recursion
<1> TAKE fmt \in Seq(Characters)
<1> DEFINE n == Len(fmt)
           Of(F) == [j \in 0..n |-> IF j = 0 THEN Blank ELSE Scan(F[j - 1], fmt[j])]
           K == CHOOSE F : F = Of(F)
<1>0. n \in Nat /\ (\A j \in 1..n : fmt[j] \in Characters) /\ Blank \in Parsed
  BY LenProperties, ElementOfSeq, EmptySeq DEF Blank, Parsed
<1>1. \E F : F = Of(F)
  <2> DEFINE g == [j \in 1..n |-> [x \in X |-> Scan(x, fmt[j])]]
  <2>1. \A j \in 1..n, x \in X : Scan(x, fmt[j]) \in X
    BY <1>0, <1>a, ScanStays
  <2>2. g \in [1..n -> [X -> X]]
    BY <2>1
  <2>3. \A j \in 1..n, x \in X : g[j][x] = Scan(x, fmt[j])
    OBVIOUS
  <2> HIDE DEF g, n
  <2>5. PICK f \in [0..n -> X] : f[0] = Blank /\ \A i \in 1..n : f[i] = g[i][f[i - 1]]
    <3>1. Blank \in X /\ n \in Nat
      BY <1>0, <1>a DEF n
    <3> QED  BY <1>b, <2>2, <3>1
  <2>6. \A i \in 1..n : f[i - 1] \in X
    BY <1>0, <2>5
  <2>7. \A i \in 0..n : f[i] = IF i = 0 THEN Blank ELSE Scan(f[i - 1], fmt[i])
    <3>1. \A i \in 0..n : i = 0 \/ (i \in 1..n /\ i # 0)
      BY <1>0
    <3>2. \A i \in 1..n : f[i] = Scan(f[i - 1], fmt[i])
      BY <2>3, <2>5, <2>6
    <3> QED  BY <2>5, <3>1, <3>2, Zenon
  <2>8. f = [i \in 0..n |-> f[i]]
    BY <2>5
  <2>9. f = Of(f)
    BY <2>7, <2>8, Zenon
  <2> QED  BY <2>9
<1>2. K = Of(K)
  <2> HIDE DEF Of
  <2> QED  BY <1>1
<1>3. Scanned(fmt) = K
  BY DEF Scanned, Blank
<1> HIDE DEF K, n
<1>4. \A j \in 0..n : K[j] = IF j = 0 THEN Blank ELSE Scan(K[j - 1], fmt[j])
  BY <1>2, Zenon
<1>5. 0 \in 0..n /\ \A j \in 1..n : j \in 0..n /\ j # 0
  BY <1>0
<1>6. K[0] = Blank /\ \A j \in 1..n : K[j] = Scan(K[j - 1], fmt[j])
  BY <1>4, <1>5, Zenon
<1>7. \A j \in 0..n : K[j] \in X
  <2>1. \A j \in 1..n : K[j - 1] \in X => K[j] \in X
    BY <1>0, <1>6, <1>a, ScanStays
  <2>2. K[0] \in X
    BY <1>0, <1>6, <1>a
  <2> QED  BY <1>0, <2>1, <2>2, RecursionStays
<1> QED  BY <1>3, <1>6, <1>7, <1>a DEF n

(* A conversion that is not known ends everything.                         *)
LEMMA BadStays ==
  ASSUME NEW fmt \in Seq(Characters), NEW j \in 0..Len(fmt), Scanned(fmt)[j].bad
  PROVE  Scanned(fmt)[Len(fmt)] = Scanned(fmt)[j]
<1>1. PICK n \in Nat : n = Len(fmt)
  BY LenProperties
<1>2. PICK s : s = Scanned(fmt)
  OBVIOUS
<1>3. /\ \A i \in 1..n : s[i] = Scan(s[i - 1], fmt[i])
      /\ \A i \in 0..n : s[i] \in Parsed
      /\ \A i \in 1..n : fmt[i] \in Characters
  BY <1>1, <1>2, ScannedIs, ElementOfSeq, SMTT(40)
<1> DEFINE N == {i \in Nat : j + i <= n => s[j + i] = s[j]}
<1>4. 0 \in N
  OBVIOUS
<1>5. ASSUME NEW i \in Nat, i \in N PROVE i + 1 \in N
  <2> SUFFICES ASSUME j + (i + 1) <= n PROVE s[j + (i + 1)] = s[j]
    OBVIOUS
  <2>1. s[j + i] = s[j]
    BY <1>5
  <2>2. j + (i + 1) \in 1..n /\ (j + (i + 1)) - 1 = j + i /\ j \in 0..n
    BY <1>1
  <2>3. /\ s[j + (i + 1)] = Scan(s[j], fmt[j + (i + 1)]) /\ s[j] \in Parsed
        /\ fmt[j + (i + 1)] \in Characters
    BY <1>3, <2>1, <2>2
  <2>4. s[j].bad
    BY <1>2
  <2> QED  BY <2>3, <2>4, ScanCases, ZenonT(40)
<1> HIDE DEF N
<1>6. Nat \subseteq N
  BY <1>4, <1>5, SetInduction
<1>7. n - j \in Nat /\ j + (n - j) = n
  BY <1>1
<1>8. s[j + (n - j)] = s[j]
  <2>1. n - j \in N /\ j + (n - j) <= n
    BY <1>6, <1>7
  <2> QED  BY <2>1 DEF N
<1> QED  BY <1>1, <1>2, <1>7, <1>8

Takings == Known \X Word
PrintkFrame ==
  [msg : Messages \cup IrqMessages, pos : Nat, next : Nat, out : Seq(Piece), took : SUBSET Takings]

Plain(k, o)   == [esc |-> FALSE, bad |-> FALSE, k |-> k, out |-> o]
Escaped(k, o) == [esc |-> TRUE, bad |-> FALSE, k |-> k, out |-> o]
Broken(k, o)  == [esc |-> TRUE, bad |-> TRUE, k |-> k, out |-> o]

LEMMA ScanOne ==
  \A k, o, ch :
    /\ ch = "%" => Scan(Plain(k, o), ch) = Escaped(k, o)
    /\ ch # "%" => Scan(Plain(k, o), ch) = Plain(k, o \o Text)
    /\ ch \notin Known => Scan(Escaped(k, o), ch) = Broken(k, o \o Bad)
    /\ ch \in Known => Scan(Escaped(k, o), ch) =
                         Plain(k + 1, o \o Pieces(ch, [arg |-> k + 1, half |-> "low"]))
<1> TAKE k, o, ch
<1>1. ASSUME ch = "%" PROVE Scan(Plain(k, o), ch) = Escaped(k, o)
  BY <1>1 DEF Scan, Plain, Escaped, Broken
<1>2. ASSUME ch # "%" PROVE Scan(Plain(k, o), ch) = Plain(k, o \o Text)
  BY <1>2 DEF Scan, Plain, Escaped, Broken
<1>3. ASSUME ch \notin Known PROVE Scan(Escaped(k, o), ch) = Broken(k, o \o Bad)
  BY <1>3 DEF Scan, Plain, Escaped, Broken
<1>4. ASSUME ch \in Known
      PROVE  Scan(Escaped(k, o), ch) =
               Plain(k + 1, o \o Pieces(ch, [arg |-> k + 1, half |-> "low"]))
  BY <1>4 DEF Scan, Plain, Escaped, Broken
<1> QED  BY <1>1, <1>2, <1>3, <1>4

LEMMA ParseIs ==
  \A k, o : /\ ~ Plain(k, o).esc /\ ~ Plain(k, o).bad /\ Plain(k, o).k = k /\ Plain(k, o).out = o
            /\ Escaped(k, o).esc /\ ~ Escaped(k, o).bad /\ Escaped(k, o).k = k
            /\ Escaped(k, o).out = o /\ Broken(k, o).bad /\ Broken(k, o).out = o
  BY DEF Plain, Escaped, Broken

(* What a call has printed is what its format means so far.                *)
Reads(f) ==
  /\ f.pos - 1 \in 0..Len(f.msg.fmt)
  /\ Scanned(f.msg.fmt)[f.pos - 1] = Plain(f.next - 1, f.out)

LEMMA FormatIs ==
  ASSUME NEW m \in Messages \cup IrqMessages
  PROVE  /\ m.fmt \in Seq(Characters) /\ Len(m.fmt) \in Nat
         /\ \A j \in 1..Len(m.fmt) : m.fmt[j] \in Characters /\ m.fmt[j] # "NUL"
         /\ \A j \in 0..Len(m.fmt) : \A i \in 1..Scanned(m.fmt)[j].k :
              i <= Len(Stack(m.args)) /\ Stack(m.args)[i] = [arg |-> i, half |-> "low"]
<1>1. /\ m.fmt \in Seq(Characters)
      /\ \A j \in 0..Len(m.fmt) : \A i \in 1..Scanned(m.fmt)[j].k :
           i <= Len(Stack(m.args)) /\ Stack(m.args)[i] = [arg |-> i, half |-> "low"]
  BY MessageAssumption
<1>2. \A j \in 1..Len(m.fmt) : m.fmt[j] \in Characters
  BY <1>1, ElementOfSeq
<1>3. "NUL" \notin Characters
  BY DEF Characters, Known
<1> QED  BY <1>1, <1>2, <1>3, LenProperties

LEMMA ReadOrdinary ==
  ASSUME NEW f \in PrintkFrame, Reads(f), Char(f, f.pos) \notin {"%", "NUL"}
  PROVE  LET g == [f EXCEPT !.pos = @ + 1, !.out = @ \o Text] IN g \in PrintkFrame /\ Reads(g)
<1> DEFINE g == [f EXCEPT !.pos = @ + 1, !.out = @ \o Text]
<1>1. PICK m, fmt, s, n : m = f.msg /\ fmt = m.fmt /\ s = Scanned(fmt) /\ n = Len(fmt)
  OBVIOUS
<1>2. PICK q \in Nat, k \in Nat : q = f.pos /\ k = f.next
  BY DEF PrintkFrame
<1>3. /\ m \in Messages \cup IrqMessages /\ f.out \in Seq(Piece) /\ f.took \in SUBSET Takings
      /\ n \in Nat
  BY <1>1, FormatIs DEF PrintkFrame
<1>4. q - 1 \in 0..n /\ s[q - 1] = Plain(k - 1, f.out)
  BY <1>1, <1>2 DEF Reads
<1>5. q \in 1..n /\ fmt[q] # "%" /\ fmt[q] \in Characters
  <2>1. q <= n
    BY <1>1, <1>2 DEF Char
  <2>2. q \in 1..n
    BY <1>3, <1>4, <2>1
  <2>3. Char(f, q) = fmt[q]
    BY <1>1, <2>1 DEF Char
  <2> QED  BY <1>1, <1>2, <1>3, <2>2, <2>3, FormatIs
<1>6. s[q] = Scan(s[q - 1], fmt[q]) /\ s[q - 1] \in Parsed
  BY <1>1, <1>3, <1>4, <1>5, FormatIs, ScannedIs
<1>8. s[q] = Plain(k - 1, f.out \o Text)
  <2>1. PICK c : c = k - 1
    OBVIOUS
  <2>2. Scan(Plain(c, f.out), fmt[q]) = Plain(c, f.out \o Text)
    BY <1>5, ScanOne
  <2> QED  BY <1>4, <1>6, <2>1, <2>2
<1>9. f.out \o Text \in Seq(Piece)
  BY <1>3, TextIs, ConcatProperties
<1>10. PICK printed : printed = f.out \o Text
  OBVIOUS
<1>a. g \in PrintkFrame /\ g.msg = m /\ g.pos = q + 1 /\ g.next = k /\ g.out = f.out \o Text
  <2>1. g = [f EXCEPT !.pos = q + 1, !.out = printed]
    BY <1>2, <1>10
  <2>2. printed \in Seq(Piece) /\ q + 1 \in Nat
    BY <1>9, <1>10
  <2> HIDE DEF g
  <2> QED  BY <1>1, <1>2, <1>10, <2>1, <2>2 DEF PrintkFrame
<1>11. g \in PrintkFrame
  BY <1>a
<1> HIDE DEF g
<1>12. Reads(g)
  <2>1. g.msg = m /\ g.pos = q + 1 /\ g.next = k /\ g.out = f.out \o Text
    BY <1>a
  <2>2. g.pos - 1 = q /\ q \in 0..n
    <3>1. (q + 1) - 1 = q
      OBVIOUS
    <3> QED  BY <1>5, <2>1, <3>1
  <2> QED  BY <1>1, <1>8, <2>1, <2>2 DEF Reads
<1> QED  BY <1>11, <1>12 DEF g

(* Before a "%" the format has been read as far as the call has got.       *)
LEMMA AtMark ==
  ASSUME NEW f \in PrintkFrame, Reads(f), Char(f, f.pos) = "%",
         NEW q, NEW fmt, q = f.pos, fmt = f.msg.fmt
  PROVE  /\ q \in 1..Len(fmt) /\ Len(fmt) \in Nat
         /\ Scanned(fmt)[q] = Escaped(f.next - 1, f.out)
<1>1. PICK s, len : s = Scanned(fmt) /\ len = Len(fmt)
  OBVIOUS
<1>2. q \in Nat /\ len \in Nat /\ fmt \in Seq(Characters)
  BY <1>1, FormatIs DEF PrintkFrame
<1>3. q - 1 \in 0..len /\ s[q - 1] = Plain(f.next - 1, f.out)
  BY <1>1 DEF Reads
<1>4. q \in 1..len /\ fmt[q] = "%" /\ fmt[q] \in Characters
  <2>1. q <= len
    BY <1>1 DEF Char
  <2>2. q \in 1..len
    BY <1>2, <1>3, <2>1
  <2>3. Char(f, q) = fmt[q]
    BY <1>1, <2>1 DEF Char
  <2> QED  BY <1>1, <1>2, <2>2, <2>3, ElementOfSeq
<1>5. s[q] = Scan(s[q - 1], fmt[q])
  BY <1>1, <1>2, <1>4, ScannedIs
<1>6. PICK c : c = f.next - 1
  OBVIOUS
<1>7. Scan(Plain(c, f.out), fmt[q]) = Escaped(c, f.out)
  BY <1>4, ScanOne
<1> QED  BY <1>1, <1>2, <1>3, <1>4, <1>5, <1>6, <1>7

LEMMA ReadConversion ==
  ASSUME NEW f \in PrintkFrame, Reads(f), NEW op, op = Char(f, f.pos + 1),
         Char(f, f.pos) = "%", op \in Known
  PROVE  /\ f.next <= Len(Stack(f.msg.args))
         /\ Stack(f.msg.args)[f.next] = [arg |-> f.next, half |-> "low"]
         /\ LET g == [f EXCEPT !.pos = @ + 2, !.next = @ + Words(op),
                        !.out = @ \o Pieces(op, Stack(f.msg.args)[f.next]),
                        !.took = @ \cup {<<op, Stack(f.msg.args)[f.next]>>}]
            IN g \in PrintkFrame /\ Reads(g)
<1>1. PICK m, fmt, s, n : m = f.msg /\ fmt = m.fmt /\ s = Scanned(fmt) /\ n = Len(fmt)
  OBVIOUS
<1>2. PICK q \in Nat, k \in Nat : q = f.pos /\ k = f.next
  BY DEF PrintkFrame
<1>3. /\ m \in Messages \cup IrqMessages /\ f.out \in Seq(Piece) /\ f.took \in SUBSET Takings
      /\ n \in Nat
  BY <1>1, FormatIs DEF PrintkFrame
<1>4. q \in 1..n /\ s[q] = Escaped(k - 1, f.out)
  BY <1>1, <1>2, AtMark
<1>5. /\ q + 1 \in 1..n /\ (q + 1) - 1 = q /\ q \in 0..n /\ q + 1 \in 0..n
      /\ fmt[q + 1] = op
  <2>1. "NUL" \notin Known
    BY DEF Known
  <2>2. q + 1 <= n
    BY <1>1, <1>2, <2>1 DEF Char
  <2> QED  BY <1>1, <1>2, <1>4, <2>2 DEF Char
<1>6. s[q + 1] = Scan(s[q], op) /\ s[q] \in Parsed
  BY <1>1, <1>3, <1>5, FormatIs, ScannedIs
<1>9. k - 1 \in Nat /\ (k - 1) + 1 = k
  <2>1. s[q].k = k - 1
    BY <1>4, ParseIs
  <2> QED  BY <1>2, <1>6, <2>1 DEF Parsed
<1>10. PICK w : w = [arg |-> k, half |-> "low"]
  OBVIOUS
<1>13. PICK more : more = f.out \o Pieces(op, w)
  OBVIOUS
<1>14. s[q + 1] = Plain(k, more)
  <2>1. Scan(s[q], op) =
          Plain((k - 1) + 1, f.out \o Pieces(op, [arg |-> (k - 1) + 1, half |-> "low"]))
    BY <1>4, ScanOne, ZenonT(40)
  <2> QED  BY <1>6, <1>9, <1>10, <1>13, <2>1
<1>15. k <= Len(Stack(m.args)) /\ Stack(m.args)[k] = w
  <2>1. k \in 1..s[q + 1].k /\ q + 1 \in 0..n
    BY <1>5, <1>9, <1>14, ParseIs
  <2> QED  BY <1>1, <1>3, <1>10, <2>1, FormatIs
<1>16. w \in Word
  BY <1>10 DEF Word, Halvings
<1>17. more \in Seq(Piece)
  BY <1>3, <1>13, <1>16, PiecesAreSome, ConcatProperties
<1> DEFINE g == [f EXCEPT !.pos = @ + 2, !.next = @ + Words(op),
                        !.out = @ \o Pieces(op, Stack(f.msg.args)[f.next]),
                        !.took = @ \cup {<<op, Stack(f.msg.args)[f.next]>>}]
<1>18. PICK taken : taken = f.took \cup {<<op, w>>} /\ taken \in SUBSET Takings
  <2>1. <<op, w>> \in Takings
    BY <1>16 DEF Takings
  <2>2. f.took \cup {<<op, w>>} \subseteq Takings
    BY <1>3, <2>1
  <2> QED  BY <2>2
<1>19. g \in PrintkFrame /\ g.msg = m /\ g.pos = q + 2 /\ g.next = k + 1 /\ g.out = more
  <2>1. g = [f EXCEPT !.pos = q + 2, !.next = k + 1, !.out = more, !.took = taken]
    <3>1. Stack(f.msg.args)[f.next] = w
      BY <1>1, <1>2, <1>15
    <3> QED  BY <1>2, <1>13, <1>18, <3>1 DEF Words
  <2>2. q + 2 \in Nat /\ k + 1 \in Nat
    OBVIOUS
  <2> HIDE DEF g
  <2> QED  BY <1>1, <1>17, <1>18, <2>1, <2>2 DEF PrintkFrame
<1> HIDE DEF g
<1>20. g \in PrintkFrame
  BY <1>19
<1>21. Reads(g)
  <2>1. g.msg = m /\ g.pos = q + 2 /\ g.next = k + 1 /\ g.out = more
    BY <1>19
  <2>2. g.pos - 1 = q + 1 /\ q + 1 \in 0..n /\ g.next - 1 = k
    BY <1>5, <2>1
  <2> QED  BY <1>1, <1>14, <2>1, <2>2 DEF Reads
<1> QED  BY <1>1, <1>2, <1>10, <1>15, <1>20, <1>21 DEF g

LEMMA ReadEnd ==
  ASSUME NEW f \in PrintkFrame, Reads(f), Char(f, f.pos) = "NUL"
  PROVE  f.out = Meaning(f.msg)
<1>1. PICK m, fmt, s, n : m = f.msg /\ fmt = m.fmt /\ s = Scanned(fmt) /\ n = Len(fmt)
  OBVIOUS
<1>2. PICK q \in Nat : q = f.pos
  BY DEF PrintkFrame
<1>3. m \in Messages \cup IrqMessages /\ n \in Nat
  BY <1>1, FormatIs DEF PrintkFrame
<1>4. q - 1 \in 0..n /\ s[q - 1] = Plain(f.next - 1, f.out)
  BY <1>1, <1>2 DEF Reads
<1>5. q - 1 = n
  <2>1. q <= n => q \in 1..n /\ Char(f, q) = fmt[q]
    BY <1>1, <1>3, <1>4 DEF Char
  <2>2. ~ (q <= n)
    BY <1>1, <1>2, <1>3, <2>1, FormatIs
  <2> QED  BY <1>3, <1>4, <2>2
<1>6. ~ s[n].esc /\ s[n].out = f.out
  BY <1>4, <1>5, ParseIs
<1> QED  BY <1>1, <1>6 DEF Meaning

LEMMA ReadUnknown ==
  ASSUME NEW f \in PrintkFrame, Reads(f), Char(f, f.pos) = "%", Char(f, f.pos + 1) \notin Known
  PROVE  f.out \o Bad = Meaning(f.msg)
<1>1. PICK m, fmt, s, n : m = f.msg /\ fmt = m.fmt /\ s = Scanned(fmt) /\ n = Len(fmt)
  OBVIOUS
<1>2. PICK q \in Nat : q = f.pos
  BY DEF PrintkFrame
<1>3. m \in Messages \cup IrqMessages /\ n \in Nat /\ fmt \in Seq(Characters)
  BY <1>1, FormatIs DEF PrintkFrame
<1>4. PICK c : c = f.next - 1
  OBVIOUS
<1>5. q \in 1..n /\ s[q] = Escaped(c, f.out)
  BY <1>1, <1>2, <1>4, AtMark
<1>8. s[q].esc /\ ~ s[q].bad /\ s[q].out = f.out
  BY <1>5, ParseIs, SMTT(40)
<1>9. CASE q = n
  BY <1>1, <1>8, <1>9 DEF Meaning
<1>10. CASE q # n
  <2>1. q + 1 \in 1..n /\ (q + 1) - 1 = q /\ q + 1 \in 0..n /\ q + 1 <= n
    BY <1>3, <1>5, <1>10
  <2>2. PICK op : op = fmt[q + 1] /\ op \in Characters /\ op \notin Known
    <3>1. Char(f, q + 1) = fmt[q + 1]
      BY <1>1, <2>1 DEF Char
    <3> QED  BY <1>1, <1>2, <1>3, <2>1, <3>1, FormatIs
  <2>3. s[q + 1] = Scan(s[q], op) /\ s[q + 1] \in Parsed
    BY <1>1, <1>3, <2>1, <2>2, ScannedIs
  <2>4. s[q + 1] = Broken(c, f.out \o Bad)
    <3>1. Scan(Escaped(c, f.out), op) = Broken(c, f.out \o Bad)
      BY <2>2, ScanOne
    <3> QED  BY <1>5, <2>3, <3>1
  <2>5. s[q + 1].bad /\ s[q + 1].out = f.out \o Bad
    <3>1. PICK o : o = f.out \o Bad
      OBVIOUS
    <3>2. s[q + 1] = Broken(c, o)
      BY <2>4, <3>1
    <3>3. Broken(c, o).bad /\ Broken(c, o).out = o
      BY DEF Broken
    <3> QED  BY <3>1, <3>2, <3>3
  <2>6. s[n] = s[q + 1]
    BY <1>1, <1>3, <2>1, <2>5, BadStays
  <2>7. s[n].bad /\ s[n].out = f.out \o Bad
    BY <2>5, <2>6
  <2> QED  BY <1>1, <2>7 DEF Meaning
<1> QED  BY <1>9, <1>10

(* Reading a format as far as it goes takes the first k of the arguments,  *)
(* each with a conversion that fits it.                                    *)
Asks(fmt, args, j) ==
  Scanned(fmt)[j - 1].esc =>
    /\ fmt[j] \in Known /\ Scanned(fmt)[j - 1].k + 1 \in DOMAIN args
    /\ Fits(fmt[j], args[Scanned(fmt)[j - 1].k + 1])
Takes(fmt, args, k) ==
  /\ fmt \in Seq(Characters) /\ \A j \in 1..Len(fmt) : Asks(fmt, args, j)
  /\ \E o : Scanned(fmt)[Len(fmt)] = Plain(k, o)

LEMMA ScannedMore ==
  ASSUME NEW fmt \in Seq(Characters), NEW ch \in Characters
  PROVE  /\ Append(fmt, ch) \in Seq(Characters) /\ Len(Append(fmt, ch)) = Len(fmt) + 1
         /\ \A j \in 1..Len(fmt) : Append(fmt, ch)[j] = fmt[j]
         /\ Append(fmt, ch)[Len(fmt) + 1] = ch
         /\ \A j \in 0..Len(fmt) : Scanned(Append(fmt, ch))[j] = Scanned(fmt)[j]
         /\ Scanned(Append(fmt, ch))[Len(fmt) + 1] = Scan(Scanned(fmt)[Len(fmt)], ch)
<1>1. PICK n, more : n \in Nat /\ n = Len(fmt) /\ more = Append(fmt, ch)
  BY LenProperties
<1>2. /\ more \in Seq(Characters) /\ Len(more) = n + 1 /\ more[n + 1] = ch
      /\ \A j \in 1..n : more[j] = fmt[j]
  BY <1>1, AppendProperties
<1>3. PICK s, r : s = Scanned(fmt) /\ r = Scanned(more)
  OBVIOUS
<1>4. /\ s[0] = Blank /\ \A j \in 1..n : s[j] = Scan(s[j - 1], fmt[j])
      /\ r[0] = Blank /\ \A j \in 1..(n + 1) : r[j] = Scan(r[j - 1], more[j])
  BY <1>1, <1>2, <1>3, ScannedIs
<1> DEFINE N == {j \in Nat : j <= n => r[j] = s[j]}
<1>5. 0 \in N
  BY <1>4
<1>6. ASSUME NEW j \in Nat, j \in N PROVE j + 1 \in N
  <2> SUFFICES ASSUME j + 1 <= n PROVE r[j + 1] = s[j + 1]
    OBVIOUS
  <2>1. r[j] = s[j]
    BY <1>1, <1>6
  <2>2. j + 1 \in 1..n /\ j + 1 \in 1..(n + 1) /\ (j + 1) - 1 = j
    BY <1>1
  <2>3. more[j + 1] = fmt[j + 1]
    BY <1>2, <2>2
  <2>4. r[j + 1] = Scan(r[j], more[j + 1]) /\ s[j + 1] = Scan(s[j], fmt[j + 1])
    BY <1>4, <2>2
  <2> QED  BY <2>1, <2>3, <2>4
<1> HIDE DEF N
<1>7. Nat \subseteq N
  BY <1>5, <1>6, SetInduction
<1>8. \A j \in 0..n : r[j] = s[j]
  BY <1>7 DEF N
<1>9. r[n + 1] = Scan(s[n], ch)
  <2>1. n + 1 \in 1..(n + 1) /\ (n + 1) - 1 = n /\ n \in 0..n
    BY <1>1
  <2>2. r[n + 1] = Scan(r[n], more[n + 1]) /\ r[n] = s[n]
    BY <1>4, <1>8, <2>1
  <2> QED  BY <1>2, <2>2
<1> QED  BY <1>1, <1>2, <1>3, <1>8, <1>9

(* One more character.                                                     *)
LEMMA AsksMore ==
  ASSUME NEW fmt \in Seq(Characters), NEW ch \in Characters, NEW args,
         \A j \in 1..Len(fmt) : Asks(fmt, args, j),
         Scanned(fmt)[Len(fmt)].esc =>
           /\ ch \in Known /\ Scanned(fmt)[Len(fmt)].k + 1 \in DOMAIN args
           /\ Fits(ch, args[Scanned(fmt)[Len(fmt)].k + 1])
  PROVE  \A j \in 1..Len(Append(fmt, ch)) : Asks(Append(fmt, ch), args, j)
<1>1. PICK n, more : n \in Nat /\ n = Len(fmt) /\ more = Append(fmt, ch)
  BY LenProperties
<1>2. /\ more \in Seq(Characters) /\ Len(more) = n + 1 /\ more[n + 1] = ch
      /\ (\A j \in 1..n : more[j] = fmt[j])
      /\ \A j \in 0..n : Scanned(more)[j] = Scanned(fmt)[j]
  BY <1>1, ScannedMore
<1>3. ASSUME NEW j \in 1..(n + 1) PROVE Asks(more, args, j)
  <2>1. CASE j = n + 1
    <3>1. j - 1 = n /\ n \in 0..n
      BY <1>1, <2>1
    <3>2. Scanned(more)[j - 1] = Scanned(fmt)[n] /\ more[j] = ch
      BY <1>2, <2>1, <3>1
    <3> QED  BY <1>1, <3>2 DEF Asks
  <2>2. CASE j \in 1..n
    <3>1. j - 1 \in 0..n
      BY <1>1, <2>2
    <3>2. Scanned(more)[j - 1] = Scanned(fmt)[j - 1] /\ more[j] = fmt[j]
      BY <1>2, <2>2, <3>1
    <3>3. Asks(fmt, args, j)
      BY <1>1, <2>2
    <3> QED  BY <3>2, <3>3 DEF Asks
  <2> QED  BY <1>1, <2>1, <2>2
<1> QED  BY <1>1, <1>2, <1>3

LEMMA AppendTwo ==
  ASSUME NEW S, NEW s \in Seq(S), NEW x \in S, NEW y \in S
  PROVE  s \o <<x, y>> = Append(Append(s, x), y)
<1>1. /\ s \o <<x>> = Append(s, x) /\ Append(s, x) \in Seq(S)
      /\ Append(s, x) \o <<y>> = Append(Append(s, x), y)
  BY AppendIsConcat, AppendProperties
<1>2. <<x, y>> = <<x>> \o <<y>> /\ <<x>> \in Seq(S) /\ <<y>> \in Seq(S)
  <2>1. <<x>> \in Seq(S) /\ <<y>> \in Seq(S)
    OBVIOUS
  <2>2. <<x>> \o <<y>> = Append(<<x>>, y)
    BY <2>1, AppendIsConcat
  <2>3. Append(<<x>>, y) = <<x, y>>
    <3>1. PICK a, b : a = Append(<<x>>, y) /\ b = <<x, y>>
      OBVIOUS
    <3>2. b \in Seq(S) /\ Len(b) = 2 /\ b[1] = x /\ b[2] = y
      BY <3>1
    <3>3. a \in Seq(S) /\ Len(a) = 2 /\ a[1] = x /\ a[2] = y
      BY <2>1, <3>1, AppendProperties
    <3>4. \A i \in 1..2 : i = 1 \/ i = 2
      OBVIOUS
    <3>5. a = b
      BY <3>2, <3>3, <3>4, SeqEqual
    <3> QED  BY <3>1, <3>5
  <2> QED  BY <2>1, <2>2, <2>3
<1>3. s \o (<<x>> \o <<y>>) = (s \o <<x>>) \o <<y>>
  BY <1>2, ConcatAssociative
<1> QED  BY <1>1, <1>2, <1>3

LEMMA TakesText ==
  ASSUME NEW fmt, NEW args, NEW k, Takes(fmt, args, k)
  PROVE  Takes(fmt \o T, args, k)
<1>1. fmt \in Seq(Characters) /\ "t" \in Characters
  BY DEF Takes, Characters
<1>2. PICK more : more = Append(fmt, "t") /\ fmt \o T = more
  <2>1. fmt \o <<"t">> = Append(fmt, "t")
    BY <1>1, AppendIsConcat
  <2> QED  BY <2>1 DEF T
<1>3. PICK o : Scanned(fmt)[Len(fmt)] = Plain(k, o)
  BY DEF Takes
<1>4. ~ Scanned(fmt)[Len(fmt)].esc
  BY <1>3, ParseIs
<1>5. \A j \in 1..Len(more) : Asks(more, args, j)
  BY <1>1, <1>2, <1>4, AsksMore DEF Takes
<1>6. Scanned(more)[Len(more)] = Plain(k, o \o Text) /\ more \in Seq(Characters)
  <2>1. Scan(Plain(k, o), "t") = Plain(k, o \o Text)
    <3>1. "t" # "%"
      OBVIOUS
    <3> QED  BY <3>1, ScanOne
  <2>2. /\ more \in Seq(Characters) /\ Len(more) = Len(fmt) + 1
        /\ Scanned(more)[Len(fmt) + 1] = Scan(Scanned(fmt)[Len(fmt)], "t")
    BY <1>1, <1>2, ScannedMore
  <2> QED  BY <1>3, <2>1, <2>2
<1> QED  BY <1>2, <1>5, <1>6 DEF Takes

LEMMA TakesConversion ==
  ASSUME NEW fmt, NEW args, NEW k \in Nat, NEW c \in Known, Takes(fmt, args, k),
         k + 1 \in DOMAIN args, Fits(c, args[k + 1])
  PROVE  Takes(fmt \o C(c), args, k + 1)
<1>1. fmt \in Seq(Characters) /\ "%" \in Characters /\ c \in Characters
  BY DEF Takes, Characters
<1>2. PICK half, more : half = Append(fmt, "%") /\ more = Append(half, c) /\ fmt \o C(c) = more
  <2>1. PICK p : p = "%" /\ p \in Characters
    BY <1>1
  <2>2. fmt \o <<p, c>> = Append(Append(fmt, p), c)
    BY <1>1, <2>1, AppendTwo
  <2> QED  BY <2>1, <2>2 DEF C
<1>3. PICK o : Scanned(fmt)[Len(fmt)] = Plain(k, o)
  BY DEF Takes
<1>4. ~ Scanned(fmt)[Len(fmt)].esc
  BY <1>3, ParseIs
<1>5. \A j \in 1..Len(half) : Asks(half, args, j)
  BY <1>1, <1>2, <1>4, AsksMore DEF Takes
<1>6. Scanned(half)[Len(half)] = Escaped(k, o) /\ half \in Seq(Characters)
  <2>1. Scan(Plain(k, o), "%") = Escaped(k, o)
    BY ScanOne
  <2>2. /\ half \in Seq(Characters) /\ Len(half) = Len(fmt) + 1
        /\ Scanned(half)[Len(fmt) + 1] = Scan(Scanned(fmt)[Len(fmt)], "%")
    BY <1>1, <1>2, ScannedMore
  <2> QED  BY <1>3, <2>1, <2>2
<1>7. \A j \in 1..Len(more) : Asks(more, args, j)
  <2>1. Scanned(half)[Len(half)].k = k
    BY <1>6, ParseIs
  <2> QED  BY <1>1, <1>2, <1>5, <1>6, <2>1, AsksMore
<1>8. PICK p : p = o \o Pieces(c, [arg |-> k + 1, half |-> "low"])
  OBVIOUS
<1>9. Scanned(more)[Len(more)] = Plain(k + 1, p) /\ more \in Seq(Characters)
  <2>1. Scan(Escaped(k, o), c) = Plain(k + 1, p)
    BY <1>8, ScanOne
  <2>2. /\ more \in Seq(Characters) /\ Len(more) = Len(half) + 1
        /\ Scanned(more)[Len(half) + 1] = Scan(Scanned(half)[Len(half)], c)
    <3>1. /\ Append(half, c) \in Seq(Characters) /\ Len(Append(half, c)) = Len(half) + 1
          /\ Scanned(Append(half, c))[Len(half) + 1] = Scan(Scanned(half)[Len(half)], c)
      BY <1>1, <1>6, ScannedMore
    <3> QED  BY <1>2, <3>1
  <2> QED  BY <1>6, <2>1, <2>2
<1> QED  BY <1>2, <1>7, <1>9 DEF Takes

Carries(q, args, k, l) ==
  q \in Seq(Characters) /\ \A p : Takes(p, args, k) => Takes(p \o q, args, l)
Suits(c, args, i) == c \in Known /\ i \in DOMAIN args /\ Fits(c, args[i])

LEMMA TextAndMark == T \in Seq(Characters) /\ \A c \in Known : C(c) \in Seq(Characters)
<1>1. "t" \in Characters /\ "%" \in Characters
  BY DEF Characters
<1>2. T \in Seq(Characters)
  <2>1. PICK x \in Characters : x = "t"
    BY <1>1
  <2>2. <<x>> \in Seq(Characters)
    OBVIOUS
  <2> QED  BY <2>1, <2>2 DEF T
<1>3. ASSUME NEW c \in Known PROVE C(c) \in Seq(Characters)
  <2>1. PICK x \in Characters, y \in Characters : x = "%" /\ y = c
    BY <1>1 DEF Characters
  <2>2. <<x, y>> \in Seq(Characters)
    OBVIOUS
  <2> QED  BY <2>1, <2>2 DEF C
<1> QED  BY <1>2, <1>3

LEMMA CarriesText == \A args, k : Carries(T, args, k, k)
  BY TakesText, TextAndMark DEF Carries

LEMMA CarriesOne ==
  \A args, c : \A k \in Nat : Suits(c, args, k + 1) => Carries(C(c), args, k, k + 1)
  BY TakesConversion, TextAndMark DEF Carries, Suits

LEMMA CarriesBoth ==
  ASSUME NEW q, NEW r, NEW args, NEW k, NEW l, NEW m,
         Carries(q, args, k, l), Carries(r, args, l, m)
  PROVE  Carries(q \o r, args, k, m)
<1>1. q \in Seq(Characters) /\ r \in Seq(Characters) /\ q \o r \in Seq(Characters)
  BY ConcatProperties DEF Carries
<1>2. ASSUME NEW p, Takes(p, args, k) PROVE Takes(p \o (q \o r), args, m)
  <2>1. p \in Seq(Characters) /\ Takes(p \o q, args, l)
    BY <1>2 DEF Takes, Carries
  <2>2. Takes((p \o q) \o r, args, m)
    BY <2>1 DEF Carries
  <2>3. p \o (q \o r) = (p \o q) \o r
    BY <1>1, <2>1, ConcatAssociative, SMTT(40)
  <2> QED  BY <2>2, <2>3
<1> QED  BY <1>1, <1>2 DEF Carries

LEMMA ThenText == \A q, args, k, l : Carries(q, args, k, l) => Carries(q \o T, args, k, l)
  BY CarriesText, CarriesBoth

LEMMA ThenOne ==
  \A q, args, k, c : \A l \in Nat :
    Carries(q, args, k, l) /\ Suits(c, args, l + 1) => Carries(q \o C(c), args, k, l + 1)
  BY CarriesOne, CarriesBoth

LEMMA DebugToo == \A q, args, k, l : Carries(q, args, k, l) => Carries(Debug(q), args, k, l)
  BY CarriesText, CarriesBoth, ThenText DEF Debug

LEMMA ThenTakes == \A q, args, l : Carries(q, args, 0, l) => Takes(q, args, l)
<1> TAKE q, args, l
<1> HAVE Carries(q, args, 0, l)
<1>1. Takes(<<>>, args, 0)
  <2>1. <<>> \in Seq(Characters) /\ Len(<<>>) = 0
    BY EmptySeq
  <2>2. Scanned(<<>>)[0] = Plain(0, <<>>)
    BY <2>1, ScannedIs DEF Plain, Blank
  <2> QED  BY <2>1, <2>2 DEF Takes
<1>2. Takes(<<>> \o q, args, l) /\ q \in Seq(Characters)
  BY <1>1 DEF Carries
<1> QED  BY <1>2, ConcatEmptySeq

LEMMA OneAsked ==
  ASSUME NEW a, NEW c,
         Suits(c, a, 1)
  PROVE  Takes(T \o C(c) \o T, a, 1)
<1>i. 0 + 1 = 1 /\ 0 \in Nat
  OBVIOUS
<1>1. Carries(T, a, 0, 0)
  BY CarriesText
<1>2. Carries(T \o C(c), a, 0, 1)
  BY <1>i, <1>1, ThenOne
<1>3. Carries(T \o C(c) \o T, a, 0, 1)
  BY <1>2, ThenText
<1> QED  BY <1>3, ThenTakes

LEMMA TwoAsked ==
  ASSUME NEW a, NEW c, NEW d,
         Suits(c, a, 1), Suits(d, a, 2)
  PROVE  Takes(T \o C(c) \o T \o C(d) \o T, a, 2)
<1>i. 0 + 1 = 1 /\ 0 \in Nat /\ 1 + 1 = 2 /\ 1 \in Nat
  OBVIOUS
<1>1. Carries(T, a, 0, 0)
  BY CarriesText
<1>2. Carries(T \o C(c), a, 0, 1)
  BY <1>i, <1>1, ThenOne
<1>3. Carries(T \o C(c) \o T, a, 0, 1)
  BY <1>2, ThenText
<1>4. Carries(T \o C(c) \o T \o C(d), a, 0, 2)
  BY <1>i, <1>3, ThenOne
<1>5. Carries(T \o C(c) \o T \o C(d) \o T, a, 0, 2)
  BY <1>4, ThenText
<1> QED  BY <1>5, ThenTakes

LEMMA ThreeAsked ==
  ASSUME NEW a, NEW c, NEW d, NEW e,
         Suits(c, a, 1), Suits(d, a, 2), Suits(e, a, 3)
  PROVE  Takes(T \o C(c) \o T \o C(d) \o T \o C(e) \o T, a, 3)
<1>i. 0 + 1 = 1 /\ 0 \in Nat /\ 1 + 1 = 2 /\ 1 \in Nat /\ 2 + 1 = 3 /\ 2 \in Nat
  OBVIOUS
<1>1. Carries(T, a, 0, 0)
  BY CarriesText
<1>2. Carries(T \o C(c), a, 0, 1)
  BY <1>i, <1>1, ThenOne
<1>3. Carries(T \o C(c) \o T, a, 0, 1)
  BY <1>2, ThenText
<1>4. Carries(T \o C(c) \o T \o C(d), a, 0, 2)
  BY <1>i, <1>3, ThenOne
<1>5. Carries(T \o C(c) \o T \o C(d) \o T, a, 0, 2)
  BY <1>4, ThenText
<1>6. Carries(T \o C(c) \o T \o C(d) \o T \o C(e), a, 0, 3)
  BY <1>i, <1>5, ThenOne
<1>7. Carries(T \o C(c) \o T \o C(d) \o T \o C(e) \o T, a, 0, 3)
  BY <1>6, ThenText
<1> QED  BY <1>7, ThenTakes

LEMMA KeyAsked ==
  ASSUME NEW a, NEW c,
         Suits(c, a, 1)
  PROVE  Takes(C(c), a, 1)
<1>i. 0 + 1 = 1 /\ 0 \in Nat
  OBVIOUS
<1>1. Carries(C(c), a, 0, 1)
  BY <1>i, CarriesOne
<1> QED  BY <1>1, ThenTakes

LEMMA OneInDebug ==
  ASSUME NEW a, NEW c,
         Suits(c, a, 1)
  PROVE  Takes(Debug(C(c) \o T), a, 1)
<1>i. 0 + 1 = 1 /\ 0 \in Nat
  OBVIOUS
<1>1. Carries(C(c), a, 0, 1)
  BY <1>i, CarriesOne
<1>2. Carries(C(c) \o T, a, 0, 1)
  BY <1>1, ThenText
<1>3. Carries(Debug(C(c) \o T), a, 0, 1)
  BY <1>2, DebugToo
<1> QED  BY <1>3, ThenTakes

LEMMA TwoInDebug ==
  ASSUME NEW a, NEW c, NEW d,
         Suits(c, a, 1), Suits(d, a, 2)
  PROVE  Takes(Debug(C(c) \o T \o C(d) \o T), a, 2)
<1>i. 0 + 1 = 1 /\ 0 \in Nat /\ 1 + 1 = 2 /\ 1 \in Nat
  OBVIOUS
<1>1. Carries(C(c), a, 0, 1)
  BY <1>i, CarriesOne
<1>2. Carries(C(c) \o T, a, 0, 1)
  BY <1>1, ThenText
<1>3. Carries(C(c) \o T \o C(d), a, 0, 2)
  BY <1>i, <1>2, ThenOne
<1>4. Carries(C(c) \o T \o C(d) \o T, a, 0, 2)
  BY <1>3, ThenText
<1>5. Carries(Debug(C(c) \o T \o C(d) \o T), a, 0, 2)
  BY <1>4, DebugToo
<1> QED  BY <1>5, ThenTakes

LEMMA ThreeInDebug ==
  ASSUME NEW a, NEW c, NEW d, NEW e,
         Suits(c, a, 1), Suits(d, a, 2), Suits(e, a, 3)
  PROVE  Takes(Debug(C(c) \o T \o C(d) \o T \o C(e) \o T), a, 3)
<1>i. 0 + 1 = 1 /\ 0 \in Nat /\ 1 + 1 = 2 /\ 1 \in Nat /\ 2 + 1 = 3 /\ 2 \in Nat
  OBVIOUS
<1>1. Carries(C(c), a, 0, 1)
  BY <1>i, CarriesOne
<1>2. Carries(C(c) \o T, a, 0, 1)
  BY <1>1, ThenText
<1>3. Carries(C(c) \o T \o C(d), a, 0, 2)
  BY <1>i, <1>2, ThenOne
<1>4. Carries(C(c) \o T \o C(d) \o T, a, 0, 2)
  BY <1>3, ThenText
<1>5. Carries(C(c) \o T \o C(d) \o T \o C(e), a, 0, 3)
  BY <1>i, <1>4, ThenOne
<1>6. Carries(C(c) \o T \o C(d) \o T \o C(e) \o T, a, 0, 3)
  BY <1>5, ThenText
<1>7. Carries(Debug(C(c) \o T \o C(d) \o T \o C(e) \o T), a, 0, 3)
  BY <1>6, DebugToo
<1> QED  BY <1>7, ThenTakes

LEMMA FiveInDebug ==
  ASSUME NEW a, NEW c, NEW d, NEW e, NEW f, NEW g,
         Suits(c, a, 1), Suits(d, a, 2), Suits(e, a, 3), Suits(f, a, 4), Suits(g, a, 5)
  PROVE  Takes(Debug(C(c) \o T \o C(d) \o T \o C(e) \o T \o C(f) \o T \o C(g)), a, 5)
<1>i. /\ 0 + 1 = 1 /\ 1 + 1 = 2 /\ 2 + 1 = 3 /\ 3 + 1 = 4 /\ 4 + 1 = 5
      /\ 0 \in Nat /\ 1 \in Nat /\ 2 \in Nat /\ 3 \in Nat /\ 4 \in Nat
  OBVIOUS
<1>1. Carries(C(c), a, 0, 1)
  BY <1>i, CarriesOne
<1>2. Carries(C(c) \o T, a, 0, 1)
  BY <1>1, ThenText
<1>3. Carries(C(c) \o T \o C(d), a, 0, 2)
  BY <1>i, <1>2, ThenOne
<1>4. Carries(C(c) \o T \o C(d) \o T, a, 0, 2)
  BY <1>3, ThenText
<1>5. Carries(C(c) \o T \o C(d) \o T \o C(e), a, 0, 3)
  BY <1>i, <1>4, ThenOne
<1>6. Carries(C(c) \o T \o C(d) \o T \o C(e) \o T, a, 0, 3)
  BY <1>5, ThenText
<1>7. Carries(C(c) \o T \o C(d) \o T \o C(e) \o T \o C(f), a, 0, 4)
  BY <1>i, <1>6, ThenOne
<1>8. Carries(C(c) \o T \o C(d) \o T \o C(e) \o T \o C(f) \o T, a, 0, 4)
  BY <1>7, ThenText
<1>9. Carries(C(c) \o T \o C(d) \o T \o C(e) \o T \o C(f) \o T \o C(g), a, 0, 5)
  BY <1>i, <1>8, ThenOne
<1>10. Carries(Debug(C(c) \o T \o C(d) \o T \o C(e) \o T \o C(f) \o T \o C(g)), a, 0, 5)
  BY <1>9, DebugToo
<1> QED  BY <1>10, ThenTakes

LEMMA SixInDebug ==
  ASSUME NEW a, NEW c, NEW d, NEW e, NEW f, NEW g, NEW h,
         Suits(c, a, 1), Suits(d, a, 2), Suits(e, a, 3),
         Suits(f, a, 4), Suits(g, a, 5), Suits(h, a, 6)
  PROVE  Takes(Debug(C(c) \o T \o C(d) \o T \o C(e) \o T \o C(f) \o T \o C(g) \o T \o C(h)), a, 6)
<1>i. /\ 0 + 1 = 1 /\ 1 + 1 = 2 /\ 2 + 1 = 3 /\ 3 + 1 = 4 /\ 4 + 1 = 5 /\ 5 + 1 = 6
      /\ 0 \in Nat /\ 1 \in Nat /\ 2 \in Nat /\ 3 \in Nat /\ 4 \in Nat /\ 5 \in Nat
  OBVIOUS
<1>1. Carries(C(c), a, 0, 1)
  BY <1>i, CarriesOne
<1>2. Carries(C(c) \o T, a, 0, 1)
  BY <1>1, ThenText
<1>3. Carries(C(c) \o T \o C(d), a, 0, 2)
  BY <1>i, <1>2, ThenOne
<1>4. Carries(C(c) \o T \o C(d) \o T, a, 0, 2)
  BY <1>3, ThenText
<1>5. Carries(C(c) \o T \o C(d) \o T \o C(e), a, 0, 3)
  BY <1>i, <1>4, ThenOne
<1>6. Carries(C(c) \o T \o C(d) \o T \o C(e) \o T, a, 0, 3)
  BY <1>5, ThenText
<1>7. Carries(C(c) \o T \o C(d) \o T \o C(e) \o T \o C(f), a, 0, 4)
  BY <1>i, <1>6, ThenOne
<1>8. Carries(C(c) \o T \o C(d) \o T \o C(e) \o T \o C(f) \o T, a, 0, 4)
  BY <1>7, ThenText
<1>9. Carries(C(c) \o T \o C(d) \o T \o C(e) \o T \o C(f) \o T \o C(g), a, 0, 5)
  BY <1>i, <1>8, ThenOne
<1>10. Carries(C(c) \o T \o C(d) \o T \o C(e) \o T \o C(f) \o T \o C(g) \o T, a, 0, 5)
  BY <1>9, ThenText
<1>11. Carries(C(c) \o T \o C(d) \o T \o C(e) \o T \o C(f) \o T \o C(g) \o T \o C(h), a, 0, 6)
  BY <1>i, <1>10, ThenOne
<1>12. Carries(Debug(C(c) \o T \o C(d) \o T \o C(e) \o T \o C(f) \o T \o C(g) \o T \o C(h)),
               a, 0, 6)
  BY <1>11, DebugToo
<1> QED  BY <1>12, ThenTakes

Kept(m) == Takes(m.fmt, m.args, Len(m.args)) /\ DOMAIN m.args = 1..Len(m.args)

LEMMA FitsIts ==
  /\ "s" \in Known /\ Fits("s", "str") /\ "c" \in Known /\ Fits("c", "char")
  /\ \A op \in {"d", "u", "x", "b"} : op \in Known /\ Fits(op, "num") /\ Fits(op, "long")
  BY DEF Fits, Known

LEMMA PanicNoargsKept == Kept(PanicNoargs)
<1>1. PICK a : a = <<"str", "num">>
  OBVIOUS
<1>2. DOMAIN a = 1..2 /\ Len(a) = 2 /\ a[1] = "str" /\ a[2] = "num"
  BY <1>1
<1>3. Suits("s", a, 1) /\ Suits("d", a, 2)
  BY <1>2, FitsIts DEF Suits
<1>4. Takes(T \o C("s") \o T \o C("d") \o T, a, 2)
  BY <1>3, TwoAsked
<1> QED  BY <1>1, <1>2, <1>4 DEF Kept, Message, PanicNoargs

LEMMA BuildInfoKept == Kept(BuildInfo)
<1>1. PICK a : a = <<"num", "num">>
  OBVIOUS
<1>2. DOMAIN a = 1..2 /\ Len(a) = 2 /\ a[1] = "num" /\ a[2] = "num"
  BY <1>1
<1>3. Suits("u", a, 1) /\ Suits("u", a, 2)
  BY <1>2, FitsIts DEF Suits
<1>4. Takes(T \o C("u") \o T \o C("u") \o T, a, 2)
  BY <1>3, TwoAsked
<1> QED  BY <1>1, <1>2, <1>4 DEF Kept, Message, BuildInfo

LEMMA SizeInfoKept == Kept(SizeInfo)
<1>1. PICK a : a = <<"num", "num">>
  OBVIOUS
<1>2. DOMAIN a = 1..2 /\ Len(a) = 2 /\ a[1] = "num" /\ a[2] = "num"
  BY <1>1
<1>3. Suits("d", a, 1) /\ Suits("x", a, 2)
  BY <1>2, FitsIts DEF Suits
<1>4. Takes(T \o C("d") \o T \o C("x") \o T, a, 2)
  BY <1>3, TwoAsked
<1> QED  BY <1>1, <1>2, <1>4 DEF Kept, Message, SizeInfo

LEMMA BssInfoKept == Kept(BssInfo)
<1>1. PICK a : a = <<"num", "num", "num">>
  OBVIOUS
<1>2. DOMAIN a = 1..3 /\ Len(a) = 3 /\ a[1] = "num" /\ a[2] = "num" /\ a[3] = "num"
  BY <1>1
<1>3. Suits("x", a, 1) /\ Suits("x", a, 2) /\ Suits("d", a, 3)
  BY <1>2, FitsIts DEF Suits
<1>4. Takes(T \o C("x") \o T \o C("x") \o T \o C("d") \o T, a, 3)
  BY <1>3, ThreeAsked
<1> QED  BY <1>1, <1>2, <1>4 DEF Kept, Message, BssInfo

LEMMA TicksInfoKept == Kept(TicksInfo)
<1>1. PICK a : a = <<"long">>
  OBVIOUS
<1>2. DOMAIN a = 1..1 /\ Len(a) = 1 /\ a[1] = "long"
  BY <1>1
<1>3. Suits("u", a, 1)
  BY <1>2, FitsIts DEF Suits
<1>4. Takes(Debug(C("u")), a, 1)
  BY <1>3, OneAsked DEF Debug
<1> QED  BY <1>1, <1>2, <1>4 DEF Kept, Message, TicksInfo

LEMMA IrqRegisterKept == Kept(IrqRegister)
<1>1. PICK a : a = <<"num", "num", "num">>
  OBVIOUS
<1>2. DOMAIN a = 1..3 /\ Len(a) = 3 /\ a[1] = "num" /\ a[2] = "num" /\ a[3] = "num"
  BY <1>1
<1>3. Suits("d", a, 1) /\ Suits("d", a, 2) /\ Suits("x", a, 3)
  BY <1>2, FitsIts DEF Suits
<1>4. Takes(Debug(C("d") \o T \o C("d") \o T \o C("x") \o T), a, 3)
  BY <1>3, ThreeInDebug
<1> QED  BY <1>1, <1>2, <1>4 DEF Kept, Message, IrqRegister

LEMMA IrqCallKept == Kept(IrqCall)
<1>1. PICK a : a = <<"num">>
  OBVIOUS
<1>2. DOMAIN a = 1..1 /\ Len(a) = 1 /\ a[1] = "num"
  BY <1>1
<1>3. Suits("d", a, 1)
  BY <1>2, FitsIts DEF Suits
<1>4. Takes(Debug(C("d") \o T), a, 1)
  BY <1>3, OneInDebug
<1> QED  BY <1>1, <1>2, <1>4 DEF Kept, Message, IrqCall

LEMMA IsrRegisterKept == Kept(IsrRegister)
<1>1. PICK a : a = <<"num", "num">>
  OBVIOUS
<1>2. DOMAIN a = 1..2 /\ Len(a) = 2 /\ a[1] = "num" /\ a[2] = "num"
  BY <1>1
<1>3. Suits("d", a, 1) /\ Suits("x", a, 2)
  BY <1>2, FitsIts DEF Suits
<1>4. Takes(Debug(C("d") \o T \o C("x") \o T), a, 2)
  BY <1>3, TwoInDebug
<1> QED  BY <1>1, <1>2, <1>4 DEF Kept, Message, IsrRegister

LEMMA IsrUnknownKept == Kept(IsrUnknown)
<1>1. PICK a : a = <<"num", "num">>
  OBVIOUS
<1>2. DOMAIN a = 1..2 /\ Len(a) = 2 /\ a[1] = "num" /\ a[2] = "num"
  BY <1>1
<1>3. Suits("d", a, 1) /\ Suits("d", a, 2)
  BY <1>2, FitsIts DEF Suits
<1>4. Takes(T \o C("d") \o T \o C("d") \o T, a, 2)
  BY <1>3, TwoAsked
<1> QED  BY <1>1, <1>2, <1>4 DEF Kept, Message, IsrUnknown

LEMMA KeyKept == Kept(Key)
<1>1. PICK a : a = <<"char">>
  OBVIOUS
<1>2. DOMAIN a = 1..1 /\ Len(a) = 1 /\ a[1] = "char"
  BY <1>1
<1>3. Suits("c", a, 1)
  BY <1>2, FitsIts DEF Suits
<1>4. Takes(C("c"), a, 1)
  BY <1>3, KeyAsked
<1> QED  BY <1>1, <1>2, <1>4 DEF Kept, Message, Key

LEMMA LoaderNameKept == Kept(Message(T \o C("s") \o T, <<"str">>))
<1>1. PICK a : a = <<"str">>
  OBVIOUS
<1>2. DOMAIN a = 1..1 /\ Len(a) = 1 /\ a[1] = "str"
  BY <1>1
<1>3. Suits("s", a, 1)
  BY <1>2, FitsIts DEF Suits
<1>4. Takes(T \o C("s") \o T, a, 1)
  BY <1>3, OneAsked
<1> QED  BY <1>1, <1>2, <1>4 DEF Kept, Message

LEMMA LoaderWordsKept == Kept(Message(T \o C("x") \o T \o C("x") \o T, <<"num", "num">>))
<1>1. PICK a : a = <<"num", "num">>
  OBVIOUS
<1>2. DOMAIN a = 1..2 /\ Len(a) = 2 /\ a[1] = "num" /\ a[2] = "num"
  BY <1>1
<1>3. Suits("x", a, 1) /\ Suits("x", a, 2)
  BY <1>2, FitsIts DEF Suits
<1>4. Takes(T \o C("x") \o T \o C("x") \o T, a, 2)
  BY <1>3, TwoAsked
<1> QED  BY <1>1, <1>2, <1>4 DEF Kept, Message

LEMMA FaultRegistersKept ==
  Kept(Message(Debug(C("x") \o T \o C("s") \o T \o C("s") \o T \o C("s") \o T \o C("s") \o T \o C("s")),
               <<"num", "str", "str", "str", "str", "str">>))
<1>1. PICK a : a = <<"num", "str", "str", "str", "str", "str">>
  OBVIOUS
<1>2. /\ DOMAIN a = 1..6 /\ Len(a) = 6 /\ a[1] = "num" /\ a[2] = "str" /\ a[3] = "str"
      /\ a[4] = "str" /\ a[5] = "str" /\ a[6] = "str"
  BY <1>1
<1>3. /\ Suits("x", a, 1) /\ Suits("s", a, 2) /\ Suits("s", a, 3) /\ Suits("s", a, 4)
      /\ Suits("s", a, 5) /\ Suits("s", a, 6)
  BY <1>2, FitsIts DEF Suits
<1>4. Takes(Debug(C("x") \o T \o C("s") \o T \o C("s") \o T \o C("s") \o T \o C("s") \o T \o C("s")),
            a, 6)
  BY <1>3, SixInDebug
<1> QED  BY <1>1, <1>2, <1>4 DEF Kept, Message

LEMMA FaultWordsKept ==
  Kept(Message(Debug(C("d") \o T \o C("x") \o T \o C("x") \o T \o C("x") \o T \o C("b")),
               <<"num", "num", "num", "num", "num">>))
<1>1. PICK a : a = <<"num", "num", "num", "num", "num">>
  OBVIOUS
<1>2. /\ DOMAIN a = 1..5 /\ Len(a) = 5 /\ a[1] = "num" /\ a[2] = "num" /\ a[3] = "num"
      /\ a[4] = "num" /\ a[5] = "num"
  BY <1>1
<1>3. /\ Suits("d", a, 1) /\ Suits("x", a, 2) /\ Suits("x", a, 3) /\ Suits("x", a, 4)
      /\ Suits("b", a, 5)
  BY <1>2, FitsIts DEF Suits
<1>4. Takes(Debug(C("d") \o T \o C("x") \o T \o C("x") \o T \o C("x") \o T \o C("b")), a, 5)
  BY <1>3, FiveInDebug
<1> QED  BY <1>1, <1>2, <1>4 DEF Kept, Message

LEMMA PagingNumberKept == Kept(Message(T \o C("d") \o T, <<"num">>))
<1>1. PICK a : a = <<"num">>
  OBVIOUS
<1>2. DOMAIN a = 1..1 /\ Len(a) = 1 /\ a[1] = "num"
  BY <1>1
<1>3. Suits("d", a, 1)
  BY <1>2, FitsIts DEF Suits
<1>4. Takes(T \o C("d") \o T, a, 1)
  BY <1>3, OneAsked
<1> QED  BY <1>1, <1>2, <1>4 DEF Kept, Message

LEMMA PagingWordKept == Kept(Message(T \o C("x") \o T, <<"num">>))
<1>1. PICK a : a = <<"num">>
  OBVIOUS
<1>2. DOMAIN a = 1..1 /\ Len(a) = 1 /\ a[1] = "num"
  BY <1>1
<1>3. Suits("x", a, 1)
  BY <1>2, FitsIts DEF Suits
<1>4. Takes(T \o C("x") \o T, a, 1)
  BY <1>3, OneAsked
<1> QED  BY <1>1, <1>2, <1>4 DEF Kept, Message

LEMMA SitesKept == \A m \in Sites : Kept(m)
<1>1. Kept(Message(T, <<>>))
  <2>1. Takes(T, <<>>, 0)
    BY CarriesText, ThenTakes
  <2>2. Len(<<>>) = 0 /\ DOMAIN <<>> = 1..0
    OBVIOUS
  <2> QED  BY <2>1, <2>2 DEF Kept, Message
<1> QED
  BY <1>1, PanicNoargsKept, BuildInfoKept, SizeInfoKept, BssInfoKept,
     TicksInfoKept, IrqRegisterKept, IrqCallKept, IsrRegisterKept,
     IsrUnknownKept, KeyKept, LoaderNameKept, LoaderWordsKept,
     FaultRegistersKept, FaultWordsKept, PagingNumberKept, PagingWordKept
     DEF Sites, LoaderInfo, FaultInfo, PagingInfo

(* What a call has taken, it printed, and it fits: the first words of the  *)
(* arguments, each once.                                                   *)
Matched(f) ==
  f.msg \in Sites =>
    /\ \A t \in f.took : /\ t[2].half = "low" /\ t[2].arg # 0
                         /\ Fits(t[1], f.msg.args[t[2].arg])
    /\ \A x : x \in {t[2].arg : t \in f.took} <=> x \in 1..(f.next - 1)
    /\ f.out \in Seq(Clean)
Complete(f) == f.msg \in Sites => {t[2].arg : t \in f.took} = DOMAIN f.msg.args

LEMMA MatchNew == \A m : Matched([msg |-> m, pos |-> 1, next |-> 1, out |-> <<>>, took |-> {}])
<1>1. <<>> \in Seq(Clean) /\ \A x : x \notin 1..(1 - 1)
  BY EmptySeq
<1> QED  BY <1>1 DEF Matched

LEMMA MatchOrdinary ==
  ASSUME NEW f \in PrintkFrame, Matched(f)
  PROVE  Matched([f EXCEPT !.pos = @ + 1, !.out = @ \o Text])
<1>1. PICK out, q : out = f.out \o Text /\ q = f.pos + 1
  OBVIOUS
<1>2. PICK g : g = [f EXCEPT !.pos = q, !.out = out]
  OBVIOUS
<1>3. g.msg = f.msg /\ g.took = f.took /\ g.next = f.next /\ g.out = out
  BY <1>2 DEF PrintkFrame
<1>4. f.out \in Seq(Clean) => out \in Seq(Clean)
  BY <1>1, TextIs, ConcatProperties
<1>5. Matched(g)
  BY <1>3, <1>4 DEF Matched
<1> QED  BY <1>1, <1>2, <1>5

LEMMA MatchConversion ==
  ASSUME NEW f \in PrintkFrame, Reads(f), Matched(f), NEW op, op = Char(f, f.pos + 1),
         Char(f, f.pos) = "%", op \in Known, f.next <= Len(Stack(f.msg.args)),
         Stack(f.msg.args)[f.next] = [arg |-> f.next, half |-> "low"]
  PROVE  Matched([f EXCEPT !.pos = @ + 2, !.next = @ + Words(op),
                        !.out = @ \o Pieces(op, Stack(f.msg.args)[f.next]),
                        !.took = @ \cup {<<op, Stack(f.msg.args)[f.next]>>}])
<1>1. PICK m, fmt, q, k, w :
        /\ m = f.msg /\ fmt = m.fmt /\ q = f.pos /\ k = f.next
        /\ w = [arg |-> k, half |-> "low"] /\ q \in Nat /\ k \in Nat
  BY DEF PrintkFrame
<1>2. PICK out, taken : out = f.out \o Pieces(op, w) /\ taken = f.took \cup {<<op, w>>}
  OBVIOUS
<1>3. PICK g : g = [f EXCEPT !.pos = q + 2, !.next = k + 1, !.out = out, !.took = taken]
  OBVIOUS
<1>4. g.msg = m /\ g.took = taken /\ g.next = k + 1 /\ g.out = out
  BY <1>1, <1>3 DEF PrintkFrame
<1>5. ASSUME m \in Sites
      PROVE  /\ \A t \in taken : /\ t[2].half = "low" /\ t[2].arg # 0
                                 /\ Fits(t[1], m.args[t[2].arg])
             /\ \A x : x \in {t[2].arg : t \in taken} <=> x \in 1..((k + 1) - 1)
             /\ out \in Seq(Clean)
  <2>1. /\ q \in 1..Len(fmt) /\ Len(fmt) \in Nat
        /\ Scanned(fmt)[q] = Escaped(k - 1, f.out)
    BY <1>1, AtMark
  <2>2. q + 1 \in 1..Len(fmt) /\ fmt[q + 1] = op /\ (q + 1) - 1 = q
    <3>1. "NUL" \notin Known
      BY DEF Known
    <3>2. q + 1 <= Len(fmt) /\ fmt[q + 1] = op
      BY <1>1, <3>1 DEF Char
    <3> QED  BY <2>1, <3>2
  <2>3. Asks(fmt, m.args, q + 1)
    BY <1>1, <1>5, <2>2, SitesKept DEF Kept, Takes
  <2>4. PICK c : c = k - 1
    OBVIOUS
  <2>5. Scanned(fmt)[q].esc /\ Scanned(fmt)[q].k = c
    BY <2>1, <2>4, ParseIs
  <2>6. c + 1 = k
    BY <1>1, <2>4
  <2>7. k \in DOMAIN m.args /\ Fits(op, m.args[k])
    BY <2>2, <2>3, <2>5, <2>6 DEF Asks
  <2>8. k \in 1..k
    <3>1. DOMAIN m.args = 1..Len(m.args)
      BY <1>5, SitesKept DEF Kept
    <3> QED  BY <2>7, <3>1
  <2>9. w.half = "low" /\ w.arg = k /\ k # 0 /\ w \in Word
    BY <1>1, <2>8 DEF Word, Halvings
  <2>10. \A t \in taken : t \in f.took \/ (t[1] = op /\ t[2] = w)
    BY <1>2
  <2>11. /\ \A t \in f.took : /\ t[2].half = "low" /\ t[2].arg # 0
                              /\ Fits(t[1], m.args[t[2].arg])
         /\ \A x : x \in {t[2].arg : t \in f.took} <=> x \in 1..(k - 1)
         /\ f.out \in Seq(Clean)
    BY <1>1, <1>5 DEF Matched
  <2>12. \A t \in taken : t[2].half = "low" /\ t[2].arg # 0 /\ Fits(t[1], m.args[t[2].arg])
    BY <2>7, <2>9, <2>10, <2>11
  <2>13. ASSUME NEW x PROVE x \in {t[2].arg : t \in taken} <=> x \in 1..((k + 1) - 1)
    <3>1. x \in {t[2].arg : t \in taken} <=> x \in {t[2].arg : t \in f.took} \/ x = k
      <4>1. <<op, w>> \in taken /\ <<op, w>>[2] = w /\ f.took \subseteq taken
        BY <1>2
      <4> QED  BY <2>9, <2>10, <4>1
    <3>2. x \in 1..((k + 1) - 1) <=> x \in 1..(k - 1) \/ x = k
      BY <2>8
    <3> QED  BY <2>11, <3>1, <3>2
  <2>14. out \in Seq(Clean)
    BY <1>2, <2>9, <2>11, PiecesAreClean, ConcatProperties
  <2> QED  BY <2>12, <2>13, <2>14
<1>6. Matched(g)
  BY <1>4, <1>5 DEF Matched
<1> QED  BY <1>1, <1>2, <1>3, <1>6 DEF Words

LEMMA MatchEnd ==
  ASSUME NEW f \in PrintkFrame, Reads(f), Matched(f), Char(f, f.pos) = "NUL"
  PROVE  Complete(f)
<1>1. PICK m, fmt, q, k, len :
        /\ m = f.msg /\ fmt = m.fmt /\ q = f.pos /\ k = f.next /\ len = Len(fmt)
        /\ q \in Nat /\ k \in Nat
  BY DEF PrintkFrame
<1> SUFFICES ASSUME m \in Sites PROVE {t[2].arg : t \in f.took} = DOMAIN m.args
  BY <1>1 DEF Complete
<1>2. len \in Nat /\ q - 1 \in 0..len /\ Scanned(fmt)[q - 1] = Plain(k - 1, f.out)
  BY <1>1, FormatIs DEF Reads, PrintkFrame
<1>3. q - 1 = len
  <2>1. q <= len => q \in 1..len /\ Char(f, q) = fmt[q]
    BY <1>1, <1>2 DEF Char
  <2>2. ~ (q <= len)
    BY <1>1, <2>1, FormatIs DEF PrintkFrame
  <2> QED  BY <1>1, <1>2, <2>2
<1>4. /\ DOMAIN m.args = 1..Len(m.args)
      /\ \E o : Scanned(fmt)[len] = Plain(Len(m.args), o)
  BY <1>1, SitesKept DEF Kept, Takes
<1>5. k - 1 = Len(m.args)
  <2>1. PICK c, n : c = k - 1 /\ n = Len(m.args)
    OBVIOUS
  <2>2. PICK o : Plain(c, f.out) = Plain(n, o)
    BY <1>2, <1>3, <1>4, <2>1
  <2>3. c = n
    BY <2>2, ParseIs
  <2> QED  BY <2>1, <2>3
<1> QED  BY <1>1, <1>4, <1>5 DEF Matched

(* No message of the kernel has a conversion that printk() does not know.  *)
LEMMA MatchUnknown ==
  ASSUME NEW f \in PrintkFrame, Reads(f), Char(f, f.pos) = "%", Char(f, f.pos + 1) \notin Known
  PROVE  f.msg \notin Sites
<1>1. PICK m, fmt, q, len :
        m = f.msg /\ fmt = m.fmt /\ q = f.pos /\ len = Len(fmt) /\ q \in Nat
  BY DEF PrintkFrame
<1> SUFFICES ASSUME m \in Sites PROVE FALSE
  BY <1>1
<1>2. q \in 1..len /\ len \in Nat /\ Scanned(fmt)[q] = Escaped(f.next - 1, f.out)
  BY <1>1, AtMark
<1>3. Scanned(fmt)[q].esc
  <2>1. PICK c : c = f.next - 1
    OBVIOUS
  <2> QED  BY <1>2, <2>1, ParseIs
<1>4. /\ \A j \in 1..len : Asks(fmt, m.args, j)
      /\ ~ Scanned(fmt)[len].esc
  <2>1. /\ \A j \in 1..len : Asks(fmt, m.args, j)
        /\ \E o : Scanned(fmt)[len] = Plain(Len(m.args), o)
    BY <1>1, SitesKept DEF Kept, Takes
  <2> QED  BY <2>1, ParseIs
<1>5. q + 1 \in 1..len /\ (q + 1) - 1 = q
  BY <1>2, <1>3, <1>4
<1>6. fmt[q + 1] \in Known
  BY <1>3, <1>4, <1>5 DEF Asks
<1>7. Char(f, q + 1) = fmt[q + 1]
  BY <1>1, <1>5 DEF Char
<1> QED  BY <1>1, <1>6, <1>7

(* A call under way, and one that has returned.                            *)
Obeys(f) == Reads(f) /\ Matched(f)
Ends(f)  == f.out = Meaning(f.msg) /\ Matched(f) /\ Complete(f)

FramesInv ==
  /\ frames \in Seq(PrintkFrame) /\ Len(frames) <= 2
  /\ \A i \in 1..Len(frames) : Obeys(frames[i])
  /\ last = <<>> \/ \E f \in PrintkFrame : last = <<f>> /\ Ends(f)

NewFrame(m) == [msg |-> m, pos |-> 1, next |-> 1, out |-> <<>>, took |-> {}]

LEMMA NewReads ==
  ASSUME NEW m \in Messages \cup IrqMessages
  PROVE  NewFrame(m) \in PrintkFrame /\ Obeys(NewFrame(m))
<1>1. NewFrame(m) \in PrintkFrame
  <2>1. <<>> \in Seq(Piece) /\ {} \in SUBSET Takings
    BY EmptySeq
  <2> QED  BY <2>1 DEF NewFrame, PrintkFrame
<1>2. m.fmt \in Seq(Characters) /\ Len(m.fmt) \in Nat
  BY FormatIs
<1>3. Scanned(m.fmt)[0] = Plain(0, <<>>)
  BY <1>2, ScannedIs DEF Plain, Blank
<1>4. /\ NewFrame(m).msg = m /\ NewFrame(m).pos - 1 = 0 /\ NewFrame(m).next - 1 = 0
      /\ NewFrame(m).out = <<>>
  BY DEF NewFrame
<1>5. Matched(NewFrame(m))
  BY MatchNew DEF NewFrame
<1> QED  BY <1>1, <1>2, <1>3, <1>4, <1>5 DEF Obeys, Reads

LEMMA CallReads ==
  ASSUME FramesInv, Len(frames) <= 1, last' = <<>>,
         NEW M, M \subseteq Messages \cup IrqMessages, Call(M)
  PROVE  FramesInv'
<1>1. PICK m \in M : frames' = Append(frames, NewFrame(m))
  BY DEF Call, NewFrame
<1>2. NewFrame(m) \in PrintkFrame /\ Obeys(NewFrame(m))
  BY NewReads
<1>3. PICK g, n : g = NewFrame(m) /\ n = Len(frames)
  OBVIOUS
<1>4. /\ frames \in Seq(PrintkFrame) /\ n \in Nat /\ n <= 1 /\ \A i \in 1..n : Obeys(frames[i])
  BY <1>3, LenProperties DEF FramesInv
<1>5. /\ frames' \in Seq(PrintkFrame) /\ Len(frames') = n + 1 /\ frames'[n + 1] = g
      /\ \A i \in 1..n : frames'[i] = frames[i]
  BY <1>1, <1>2, <1>3, <1>4, AppendProperties
<1>6. ASSUME NEW i \in 1..(n + 1) PROVE Obeys(frames'[i])
  <2>1. CASE i = n + 1
    BY <1>2, <1>3, <1>5, <2>1
  <2>2. CASE i \in 1..n
    BY <1>4, <1>5, <2>2
  <2> QED  BY <1>4, <2>1, <2>2
<1>7. n + 1 <= 2
  BY <1>4
<1> QED  BY <1>5, <1>6, <1>7 DEF FramesInv

LEMMA TopReads ==
  ASSUME FramesInv, frames # <<>>
  PROVE  Top \in PrintkFrame /\ Obeys(Top) /\ Len(frames) \in 1..2
<1>1. frames \in Seq(PrintkFrame) /\ Len(frames) \in Nat /\ Len(frames) # 0 /\ Len(frames) <= 2
  BY LenProperties, EmptySeq DEF FramesInv
<1>2. Len(frames) \in 1..Len(frames) /\ Len(frames) \in 1..2
  <2>1. PICK n \in Nat : n = Len(frames) /\ n # 0 /\ n <= 2
    BY <1>1
  <2>2. n \in 1..n /\ n \in 1..2
    BY <2>1
  <2> QED  BY <2>1, <2>2
<1> QED  BY <1>1, <1>2, ElementOfSeq DEF Top, FramesInv

(* A step within the innermost call.                                       *)
LEMMA GoesOn ==
  ASSUME FramesInv, frames # <<>>, NEW g \in PrintkFrame, Obeys(g),
         frames' = [frames EXCEPT ![Len(frames)] = g], last' = <<>>
  PROVE  FramesInv'
<1>1. PICK n : n = Len(frames)
  OBVIOUS
<1>2. n \in 1..2 /\ frames \in Seq(PrintkFrame) /\ \A i \in 1..n : Obeys(frames[i])
  BY <1>1, TopReads DEF FramesInv
<1>3. /\ frames' \in Seq(PrintkFrame) /\ Len(frames') = n /\ frames'[n] = g
      /\ \A i \in 1..n : i # n => frames'[i] = frames[i]
  BY <1>1, <1>2, ExceptSeq
<1>4. ASSUME NEW i \in 1..n PROVE Obeys(frames'[i])
  BY <1>2, <1>3
<1> QED  BY <1>2, <1>3, <1>4 DEF FramesInv

LEMMA Returns ==
  ASSUME FramesInv, frames # <<>>, NEW g \in PrintkFrame, Ends(g), Return(g)
  PROVE  FramesInv'
<1>1. PICK n : n = Len(frames)
  OBVIOUS
<1>2. n \in 1..2 /\ frames \in Seq(PrintkFrame) /\ \A i \in 1..n : Obeys(frames[i])
  BY <1>1, TopReads DEF FramesInv
<1>3. frames' = Front(frames) /\ last' = <<g>>
  BY DEF Return
<1>4. /\ frames' \in Seq(PrintkFrame) /\ Len(frames') = n - 1
      /\ \A i \in 1..(n - 1) : frames'[i] = frames[i]
  <2>1. frames' = SubSeq(frames, 1, n - 1) /\ n - 1 \in 0..n /\ Len(frames) = n
    BY <1>1, <1>2, <1>3 DEF Front
  <2>2. \A i \in 1..(n - 1) : frames[i] \in PrintkFrame
    BY <1>1, <1>2, ElementOfSeq
  <2> QED  BY <1>2, <2>1, <2>2
<1>5. n - 1 <= 2 /\ \A i \in 1..(n - 1) : i \in 1..n
  BY <1>2
<1> QED  BY <1>2, <1>3, <1>4, <1>5 DEF FramesInv

LEMMA OrdinaryStep == FramesInv /\ Ordinary => FramesInv'
<1> SUFFICES ASSUME FramesInv, Ordinary PROVE FramesInv'
  OBVIOUS
<1>1. /\ Top \in PrintkFrame /\ Reads(Top) /\ Matched(Top) /\ Len(frames) \in 1..2
      /\ frames # <<>> /\ last' = <<>>
      /\ Char(Top, Top.pos) \notin {"%", "NUL"}
  BY TopReads DEF Obeys, Ordinary
<1> DEFINE g == [Top EXCEPT !.pos = @ + 1, !.out = @ \o Text]
<1>2. g \in PrintkFrame /\ Obeys(g)
  BY <1>1, ReadOrdinary, MatchOrdinary DEF Obeys
<1>3. frames' = [frames EXCEPT ![Len(frames)] = g]
  <2>1. frames' = [frames EXCEPT ![Len(frames)].pos = @ + 1, ![Len(frames)].out = @ \o Text]
    BY DEF Ordinary
  <2>2. frames \in Seq(PrintkFrame) /\ Len(frames) \in DOMAIN frames
    BY <1>1, LenProperties DEF FramesInv
  <2> QED  BY <2>1, <2>2 DEF Top
<1> HIDE DEF g
<1> QED  BY <1>1, <1>2, <1>3, GoesOn

LEMMA ConversionStep == FramesInv /\ Conversion => FramesInv'
<1> SUFFICES ASSUME FramesInv, Conversion PROVE FramesInv'
  OBVIOUS
<1>1. PICK op : op = Char(Top, Top.pos + 1)
  OBVIOUS
<1>2. /\ Top \in PrintkFrame /\ Reads(Top) /\ Matched(Top) /\ frames # <<>> /\ last' = <<>>
      /\ Char(Top, Top.pos) = "%" /\ op \in Known
  BY <1>1, TopReads DEF Obeys, Conversion
<1> DEFINE st == Stack(Top.msg.args)
           g == [Top EXCEPT !.pos = @ + 2, !.next = @ + Words(op),
                            !.out = @ \o Pieces(op, st[Top.next]),
                            !.took = @ \cup {<<op, st[Top.next]>>}]
<1>3. /\ Top.next <= Len(st) /\ st[Top.next] = [arg |-> Top.next, half |-> "low"]
      /\ g \in PrintkFrame /\ Reads(g)
  BY <1>1, <1>2, ReadConversion, ZenonT(40)
<1>m. Obeys(g)
  BY <1>1, <1>2, <1>3, MatchConversion DEF Obeys
<1>4. frames' = [frames EXCEPT ![Len(frames)] = g]
  BY <1>1, <1>3 DEF Conversion
<1> HIDE DEF g
<1> QED  BY <1>2, <1>3, <1>m, <1>4, GoesOn

LEMMA UnknownStep == FramesInv /\ Unknown => FramesInv'
<1> SUFFICES ASSUME FramesInv, Unknown PROVE FramesInv'
  OBVIOUS
<1>1. /\ Top \in PrintkFrame /\ Reads(Top) /\ Matched(Top) /\ frames # <<>>
      /\ Char(Top, Top.pos) = "%" /\ Char(Top, Top.pos + 1) \notin Known
      /\ Return([Top EXCEPT !.out = @ \o Bad])
  BY TopReads DEF Obeys, Unknown
<1> DEFINE g == [Top EXCEPT !.out = @ \o Bad]
<1>2. Top.out \o Bad = Meaning(Top.msg)
  BY <1>1, ReadUnknown
<1>3. g \in PrintkFrame /\ g.out = Top.out \o Bad /\ g.msg = Top.msg
  <2>1. PICK more : more = Top.out \o Bad /\ more \in Seq(Piece)
    BY <1>1, TextIs, ConcatProperties DEF PrintkFrame
  <2>2. g = [Top EXCEPT !.out = more]
    BY <2>1
  <2>3. [Top EXCEPT !.out = more] \in PrintkFrame
    BY <1>1, <2>1 DEF PrintkFrame
  <2>4. [Top EXCEPT !.out = more].out = more /\ [Top EXCEPT !.out = more].msg = Top.msg
    BY <1>1 DEF PrintkFrame
  <2> QED  BY <2>1, <2>2, <2>3, <2>4
<1> HIDE DEF g
<1>4. Return(g)
  BY <1>1 DEF g
<1>5. Ends(g)
  <2>1. g.msg \notin Sites
    BY <1>1, <1>3, MatchUnknown
  <2> QED  BY <1>2, <1>3, <2>1 DEF Ends, Matched, Complete
<1> QED  BY <1>1, <1>3, <1>4, <1>5, Returns

LEMMA EndStep == FramesInv /\ End => FramesInv'
<1> SUFFICES ASSUME FramesInv, End PROVE FramesInv'
  OBVIOUS
<1>1. /\ Top \in PrintkFrame /\ Reads(Top) /\ Matched(Top) /\ frames # <<>>
      /\ Char(Top, Top.pos) = "NUL" /\ Return(Top)
  BY TopReads DEF Obeys, End
<1>2. Ends(Top)
  BY <1>1, ReadEnd, MatchEnd DEF Ends
<1> QED  BY <1>1, <1>2, Returns

LEMMA FramesAlways == PrintkSpec => []FramesInv
<1>1. PrintkInit => FramesInv
  BY EmptySeq DEF PrintkInit, FramesInv
<1>2. FramesInv /\ [PrintkNext]_printkVars => FramesInv'
  <2> SUFFICES ASSUME FramesInv, [PrintkNext]_printkVars PROVE FramesInv'
    OBVIOUS
  <2>1. CASE KmainCalls
    <3>1. Len(frames) <= 1 /\ last' = <<>> /\ Call(Messages)
      BY <2>1, EmptySeq DEF KmainCalls
    <3> QED  BY <3>1, CallReads
  <2>2. CASE HandlerCalls
    <3>1. Len(frames) <= 1 /\ last' = <<>> /\ Call(IrqMessages)
      BY <2>2 DEF HandlerCalls
    <3> QED  BY <3>1, CallReads
  <2>3. CASE UNCHANGED printkVars
    BY <2>3 DEF printkVars, FramesInv
  <2> QED
    BY <2>1, <2>2, <2>3, OrdinaryStep, ConversionStep, UnknownStep, EndStep DEF PrintkNext, Step
<1> QED  BY <1>1, <1>2, PTL DEF PrintkSpec

(* For every set of messages whose formats find their arguments: what a    *)
(* call of printk() has printed when it returns is what its format means,  *)
(* a format that is cut short by an unknown conversion or by its end       *)
(* included, and whatever the handlers print between two characters.       *)
THEOREM FormatsAreObeyed == PrintkSpec => [](PrintsItsMeaning /\ StaysInFormat)
<1>1. FramesInv => PrintsItsMeaning
  <2> SUFFICES ASSUME FramesInv, NEW f \in ToSet(last) PROVE f.out = Meaning(f.msg)
    BY DEF PrintsItsMeaning
  <2>1. PICK i \in DOMAIN last : f = last[i]
    BY DEF ToSet
  <2>2. last # <<>>
    BY <2>1
  <2>3. PICK g \in PrintkFrame : last = <<g>> /\ g.out = Meaning(g.msg)
    BY <2>2 DEF FramesInv, Ends
  <2>4. f = g
    BY <2>1, <2>3
  <2> QED  BY <2>3, <2>4
<1>2. FramesInv => StaysInFormat
  <2> SUFFICES ASSUME FramesInv, NEW f \in ToSet(frames) PROVE f.pos <= Len(f.msg.fmt) + 1
    BY DEF StaysInFormat
  <2>1. PICK i \in DOMAIN frames : f = frames[i]
    BY DEF ToSet
  <2>2. i \in 1..Len(frames) /\ f \in PrintkFrame
    BY <2>1, LenProperties, ElementOfSeq DEF FramesInv
  <2>3. Reads(f)
    BY <2>1, <2>2 DEF FramesInv, Obeys
  <2>4. PICK q \in Nat, n \in Nat : q = f.pos /\ n = Len(f.msg.fmt) /\ q - 1 \in 0..n
    BY <2>2, <2>3, FormatIs DEF PrintkFrame, Reads
  <2>5. q <= n + 1
    BY <2>4
  <2> QED  BY <2>4, <2>5
<1> QED  BY <1>1, <1>2, FramesAlways, PTL

(* printk() is entered twice at most, once by kmain and once by a handler, *)
(* and takes words only with conversions it knows.                         *)
THEOREM PrintkTypes == PrintkSpec => []PrintkTypeOK
<1>1. ASSUME NEW f \in PrintkFrame
      PROVE  /\ f.msg \in Messages \cup IrqMessages /\ f.pos \in Nat /\ f.next \in Nat
             /\ \A t \in f.took : t[1] \in Known /\ t[2].half \in Halvings
  <2>1. \A t \in Takings : t[1] \in Known /\ t[2].half \in Halvings
    BY DEF Takings, Word
  <2> QED  BY <2>1 DEF PrintkFrame
<1>2. FramesInv => PrintkTypeOK
  <2> SUFFICES ASSUME FramesInv PROVE PrintkTypeOK
    OBVIOUS
  <2>1. ToSet(frames) \subseteq PrintkFrame
    BY ElementOfSeq, LenProperties DEF FramesInv, ToSet
  <2>2. Len(last) <= 1 /\ ToSet(last) \subseteq PrintkFrame
    <3>1. CASE last = <<>>
      BY <3>1 DEF ToSet
    <3>2. CASE last # <<>>
      <4>1. PICK g \in PrintkFrame : last = <<g>>
        BY <3>2 DEF FramesInv
      <4> QED  BY <4>1 DEF ToSet
    <3> QED  BY <3>1, <3>2
  <2>3. Len(frames) <= 2
    BY DEF FramesInv
  <2> QED  BY <1>1, <2>1, <2>2, <2>3 DEF PrintkTypeOK
<1> QED  BY <1>2, FramesAlways, PTL

(* In the messages of the kernel each conversion takes an argument of its  *)
(* own kind, the lower half where there are two, and all that is passed is *)
(* printed: whatever handlers print meanwhile.                             *)
THEOREM KernelArgumentsMatch == PrintkSpec => []ArgumentsMatch
<1>1. FramesInv => ArgumentsMatch
  <2> SUFFICES ASSUME FramesInv PROVE ArgumentsMatch
    OBVIOUS
  <2>1. ASSUME NEW f \in ToSet(frames) PROVE Matched(f)
    <3>1. PICK i \in DOMAIN frames : f = frames[i]
      BY DEF ToSet
    <3>2. i \in 1..Len(frames)
      BY LenProperties DEF FramesInv
    <3> QED  BY <3>1, <3>2 DEF FramesInv, Obeys
  <2>2. ASSUME NEW f \in ToSet(last) PROVE Matched(f) /\ Complete(f)
    <3>1. PICK i \in DOMAIN last : f = last[i]
      BY DEF ToSet
    <3>2. PICK g \in PrintkFrame : last = <<g>> /\ Ends(g)
      BY <3>1 DEF FramesInv
    <3>3. f = g
      BY <3>1, <3>2
    <3> QED  BY <3>2, <3>3 DEF Ends
  <2>3. FindsItsArgument
    BY <2>1, <2>2 DEF FindsItsArgument, Matched
  <2>4. NoneCutShort
    <3>1. \A out \in Seq(Clean) : Bad[1] \notin ToSet(out)
      <4>1. \A out \in Seq(Clean) : \A i \in DOMAIN out : out[i] \in Clean
        BY ElementOfSeq, LenProperties
      <4> QED  BY <4>1, TextIs DEF ToSet
    <3> QED  BY <2>2, <3>1 DEF NoneCutShort, Matched, Complete
  <2> QED  BY <2>3, <2>4 DEF ArgumentsMatch
<1> QED  BY <1>1, FramesAlways, PTL
=============================================================================
