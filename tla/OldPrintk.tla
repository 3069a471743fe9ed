----------------------------- MODULE OldPrintk ------------------------------
(***************************************************************************)
(* The printk() of src/printk.c, which the build leaves out: it pads a     *)
(* number inside its buffer and prints the buffer, or a string, by calling *)
(* itself with it for a format.  panic() and panic_assert() are messages.  *)
(* halt() of asm.h prints as well.                                         *)
(***************************************************************************)
EXTENDS Integers, Sequences, SequencesExt

CONSTANTS
  WordBits,          \* bits of a word (32)
  BufSize,    \* of buf (16)
  OldMessages    \* [fmt, args]: what it is called with

(* What is left of value after each division by base.                      *)
Left(value, base) ==
  LET left[k \in 0..WordBits] == IF k = 0 THEN value ELSE left[k - 1] \div base
  IN left

(* A size has one digit, and the decimal digits of a word fit the buffer.  *)
ASSUME BufferAssumption ==
  /\ WordBits \in Nat \ {0} /\ BufSize \in Nat /\ BufSize > 9
  /\ BufSize <= WordBits => Left(2^WordBits - 1, 10)[BufSize - 1] = 0

VARIABLES
  calls,     \* the calls on the stack, the innermost last
  out,        \* what the monitor shows
  msg         \* the outermost call

oldVars == <<calls, out, msg>>

DigitChars == <<"0", "1", "2", "3", "4", "5", "6", "7", "8", "9",
                "a", "b", "c", "d", "e", "f">>
NUL == "NUL"
Base(c) == IF c \in {"d", "u"} THEN 10 ELSE 16

(* The digits of value, as many as there are or n with zeros in front.     *)
Digits(value, base, n) ==
  LET left  == Left(value, base)
      len   == CHOOSE k \in 1..WordBits : left[k] = 0 /\ (k = 1 \/ left[k - 1] # 0)
      total == IF len < n THEN n ELSE len
  IN [k \in 1..total |-> IF total - k < len THEN DigitChars[(left[total - k] % base) + 1] ELSE "0"]

(* A frame: the format and arguments, how far they are taken; buf, with    *)
(* the two indices of the loop that pads it, and what is printed then.     *)
Frame(fmt, args) ==
  [fmt |-> fmt, args |-> args, pos |-> 1, next |-> 1,
   buf |-> [k \in 0..(BufSize - 1) |-> NUL], i |-> -1, j |-> -1, then |-> <<>>]

(* panic() and panic_assert(), and the halt() that follows them.           *)
PanicFmt == <<"t", "%", "s", ":", "%", "d", "t", "%", "s", "LF">>
HaltFmt  == <<"t", "LF">>

OldInit ==
  /\ msg \in OldMessages /\ out = <<>>
  /\ calls = <<Frame(msg.fmt, msg.args)>>
-----------------------------------------------------------------------------
Inner     == calls[Len(calls)]
SetTop(f) == [calls EXCEPT ![Len(calls)] = f]
CharAt(k) == IF k <= Len(Inner.fmt) THEN Inner.fmt[k] ELSE NUL
Str(buf) == LET n == CHOOSE k \in DOMAIN buf : buf[k] = NUL /\ \A l \in 0..(k - 1) : buf[l] # NUL
            IN [k \in 1..n |-> buf[k - 1]]

Runs == calls # <<>> /\ Inner.then = <<>>

(* A digit after "%" is a size; then comes the conversion.                 *)
IsSize(c) == c \in {DigitChars[d] : d \in 1..10}
SizeOf(c) == CHOOSE d \in 0..9 : DigitChars[d + 1] = c
HasSize  == IsSize(CharAt(Inner.pos + 1))
Width    == IF HasSize THEN SizeOf(CharAt(Inner.pos + 1)) ELSE 0
ConvPos == Inner.pos + (IF HasSize THEN 2 ELSE 1)
Conv    == CharAt(ConvPos)
Arg     == Inner.args[Inner.next]
Taken   == [Inner EXCEPT !.pos = ConvPos + 1, !.next = @ + 1]

Put ==
  /\ Runs /\ CharAt(Inner.pos) \notin {"%", NUL}
  /\ out' = Append(out, CharAt(Inner.pos))
  /\ calls' = SetTop([Inner EXCEPT !.pos = @ + 1])
  /\ UNCHANGED msg

IsNegative(c, v)  == c = "d" /\ v >= 2^(WordBits - 1)
Absolute(c, v) == IF IsNegative(c, v) THEN (0 - v) % 2^WordBits ELSE v

PointerSize == 8

(* itoa(); "%d" shows the digits a first time; then the padding, with the  *)
(* terminator, from the end.                                               *)
Number ==
  /\ Runs /\ CharAt(Inner.pos) = "%" /\ Conv \in {"d", "u", "x", "X", "p"}
  /\ LET str  == Digits(Absolute(Conv, Arg), Base(Conv), 0)
         size == IF Conv = "p" THEN PointerSize ELSE Width
         pads == Len(str) < size
     IN /\ out' = IF Conv = "d" THEN out \o str ELSE out
        /\ calls' = SetTop([Taken EXCEPT
             !.buf = [k \in DOMAIN @ |-> IF k < Len(str) THEN str[k + 1] ELSE NUL],
             !.i = IF pads THEN size ELSE -1, !.j = IF pads THEN Len(str) ELSE -1,
             !.then = CASE Conv = "u" -> <<"buf">>
                        [] Conv = "d" -> IF IsNegative(Conv, Arg) THEN <<"-">> ELSE <<"buf">>
                        [] OTHER      -> <<"0", "x">>])
  /\ UNCHANGED msg

(* Definitions marked "seeded" are deliberate faults, as in Interrupts.    *)
(* Seeded: the loop stops before it has moved the first digit.             *)
PadsUntilOne(i) == i >= 1

Pads(i) == i >= 0

Pad ==
  /\ calls # <<>> /\ Inner.then # <<>> /\ Pads(Inner.i)
  /\ calls' = SetTop([Inner EXCEPT
       !.buf = [@ EXCEPT ![Inner.i] = IF Inner.j >= 0 THEN Inner.buf[Inner.j] ELSE "0"],
       !.i = @ - 1, !.j = @ - 1])
  /\ UNCHANGED <<out, msg>>

Enter(f, fmt, args) == calls' = Append(SetTop(f), Frame(fmt, args)) /\ UNCHANGED <<out, msg>>

(* printk(buf), or printk("-%s", buf) or printk("0x%s", buf).              *)
PrintBuffer ==
  /\ calls # <<>> /\ Inner.then # <<>> /\ ~Pads(Inner.i)
  /\ LET rest == [Inner EXCEPT !.then = <<>>]
     IN IF Inner.then = <<"buf">> THEN Enter(rest, Str(Inner.buf), <<>>)
        ELSE Enter(rest, Inner.then \o <<"%", "s">>, <<Str(Inner.buf)>>)

(* The string is the format of the call that prints it.                    *)
PrintString == Runs /\ CharAt(Inner.pos) = "%" /\ Conv = "s" /\ Enter(Taken, Arg, <<>>)

PrintChar ==
  /\ Runs /\ CharAt(Inner.pos) = "%" /\ Conv = "c"
  /\ out' = Append(out, Arg) /\ calls' = SetTop(Taken) /\ UNCHANGED msg

(* Any other conversion is left out.                                       *)
Skip ==
  /\ Runs /\ CharAt(Inner.pos) = "%" /\ Conv \notin {"d", "u", "x", "X", "p", "s", "c"}
  /\ calls' = SetTop([Inner EXCEPT !.pos = ConvPos + 1]) /\ UNCHANGED <<out, msg>>

Leave == Runs /\ CharAt(Inner.pos) = NUL /\ calls' = Front(calls) /\ UNCHANGED <<out, msg>>

OldNext == Put \/ Number \/ Pad \/ PrintBuffer \/ PrintString \/ PrintChar \/ Skip \/ Leave

OldSpec == OldInit /\ [][OldNext]_oldVars
-----------------------------------------------------------------------------
(* What a message means: its format read from left to right, with the size *)
(* and the argument of each conversion; "wrong" if the argument is missing *)
(* or is not a word, or if a string has a "%", for it is itself a format.  *)
PlainText(s) == s \in Seq(ToSet(s)) /\ {"%", NUL} \cap ToSet(s) = {}

IsNumber(c) == c \in {"d", "u", "x", "X", "p"}
IsConversion(c) == IsNumber(c) \/ c \in {"s", "c"}
Accepts(c, v) == (IsNumber(c) => v \in 0..(2^WordBits - 1)) /\ (c = "s" => PlainText(v))

OldMeaning(c, size, v) ==
  CASE c = "d"          -> Digits(Absolute(c, v), 10, 0)
                           \o (IF IsNegative(c, v) THEN <<"-">> ELSE <<>>)
                           \o Digits(Absolute(c, v), 10, size)
    [] c = "u"          -> Digits(v, 10, size)
    [] c \in {"x", "X"} -> <<"0", "x">> \o Digits(v, 16, size)
    [] c = "p"          -> <<"0", "x">> \o Digits(v, 16, PointerSize)
    [] c = "s"          -> v
    [] c = "c"          -> <<v>>

Read(r, c, args) ==
  CASE r.at = "wrong"             -> r
    [] r.at = "text" /\ c # "%"   -> [r EXCEPT !.text = Append(@, c)]
    [] r.at = "text" /\ c = "%"   -> [r EXCEPT !.at = "mark", !.size = 0]
    [] r.at = "mark" /\ IsSize(c) -> [r EXCEPT !.at = "size", !.size = SizeOf(c)]
    [] OTHER                      ->
         IF ~IsConversion(c) THEN [r EXCEPT !.at = "text"]
         ELSE IF r.next \notin DOMAIN args \/ ~Accepts(c, args[r.next]) THEN [r EXCEPT !.at = "wrong"]
         ELSE [r EXCEPT !.at = "text", !.next = @ + 1,
                        !.text = @ \o OldMeaning(c, r.size, args[r.next])]

MeaningOf(fmt, args) ==
  LET read[k \in 0..Len(fmt)] ==
        IF k = 0 THEN [at |-> "text", size |-> 0, next |-> 1, text |-> <<>>]
        ELSE Read(read[k - 1], fmt[k], args)
  IN read

(* A message is a string without a conversion cut short or gone wrong.     *)
ASSUME MessagesAssumption ==
  \A m \in OldMessages :
    /\ DOMAIN m = {"fmt", "args"} /\ Len(m.args) \in Nat
    /\ DOMAIN m.args = 1..Len(m.args)
    /\ m.fmt \in Seq(ToSet(m.fmt)) /\ NUL \notin ToSet(m.fmt)
    /\ MeaningOf(m.fmt, m.args)[Len(m.fmt)].at = "text"

Chars == ToSet(DigitChars) \cup {NUL}
OldTypeOK ==
  /\ msg \in OldMessages /\ Len(calls) <= 3
  /\ \A f \in ToSet(calls) :
       /\ f.pos \in 1..(Len(f.fmt) + 1) /\ f.next \in 1..(Len(f.args) + 1)
       /\ DOMAIN f.buf = 0..(BufSize - 1) /\ \A k \in DOMAIN f.buf : f.buf[k] \in Chars
       /\ f.i \in -1..(BufSize - 1) /\ f.j \in -BufSize..(BufSize - 1)

(* What is printed is what the message means: a number keeps its value and *)
(* has zeros in front up to its size, moved within the buffer they are in. *)
PrintsItsText == calls = <<>> => out = MeaningOf(msg.fmt, msg.args)[Len(msg.fmt)].text
=============================================================================
