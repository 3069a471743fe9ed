------------------------------- MODULE Printk -------------------------------
(***************************************************************************)
(* printk() (libkern/stdio.c) and everything the kernel prints with it.    *)
(* The compiler does not check a format against its arguments: printk()    *)
(* takes them from the stack, word after word, as the format tells it.  An *)
(* interrupt may stop a printk() between two characters and print its own. *)
(* A run of ordinary characters is one "t"; how digits come about is the   *)
(* subject of Numbers, and where characters go of Console.                 *)
(***************************************************************************)
EXTENDS Integers, Sequences, SequencesExt

CONSTANTS
  Messages,     \* that kmain prints: formats and arguments
  IrqMessages   \* that handlers print meanwhile

VARIABLES
  frames,       \* the calls of printk() on the stack, the innermost last
  last          \* history: the call that has just returned

printkVars == <<frames, last>>

(* A message is a format and the kinds of its arguments.  A 64-bit integer *)
(* ("long") is pushed as two words; a char is promoted to one.             *)
Message(fmt, args) == [fmt |-> fmt, args |-> args]
Halves(kind) == IF kind = "long" THEN <<"low", "high">> ELSE <<"low">>
Stack(args) ==
  FlattenSeq([k \in DOMAIN args |->
                [h \in DOMAIN Halves(args[k]) |-> [arg |-> k, half |-> Halves(args[k])[h]]]])

(* What printk() is called with.                                           *)
T    == <<"t">>
C(c) == <<"%", c>>
Debug(fmt) == T \o fmt \o T
PanicNoargs == Message(T \o C("s") \o T \o C("d") \o T, <<"str", "num">>)
BuildInfo   == Message(T \o C("u") \o T \o C("u") \o T, <<"num", "num">>)
SizeInfo    == Message(T \o C("d") \o T \o C("x") \o T, <<"num", "num">>)
BssInfo     == Message(T \o C("x") \o T \o C("x") \o T \o C("d") \o T, <<"num", "num", "num">>)
LoaderInfo  == {Message(T \o C("s") \o T, <<"str">>), BuildInfo,
                Message(T \o C("x") \o T \o C("x") \o T, <<"num", "num">>)}
TicksInfo   == Message(Debug(C("u")), <<"long">>)
IrqRegister == Message(Debug(C("d") \o T \o C("d") \o T \o C("x") \o T), <<"num", "num", "num">>)
IrqCall     == Message(Debug(C("d") \o T), <<"num">>)
IsrRegister == Message(Debug(C("d") \o T \o C("x") \o T), <<"num", "num">>)
IsrUnknown  == Message(T \o C("d") \o T \o C("d") \o T, <<"num", "num">>)
FaultInfo   ==
  {Message(Debug(C("x") \o T \o C("s") \o T \o C("s") \o T \o C("s") \o T \o C("s") \o T \o C("s")),
           <<"num", "str", "str", "str", "str", "str">>),
   Message(Debug(C("d") \o T \o C("x") \o T \o C("x") \o T \o C("x") \o T \o C("b")),
           <<"num", "num", "num", "num", "num">>)}
PagingInfo  == {Message(T \o C("d") \o T, <<"num">>), Message(T \o C("x") \o T, <<"num">>)}
Key         == Message(C("c"), <<"char">>)

Sites == {PanicNoargs, BuildInfo, SizeInfo, BssInfo, TicksInfo, IrqRegister, IrqCall,
          IsrRegister, IsrUnknown, Key, Message(T, <<>>)}
         \cup LoaderInfo \cup FaultInfo \cup PagingInfo

PrintkInit == frames = <<>> /\ last = <<>>
-----------------------------------------------------------------------------
Top == frames[Len(frames)]
Char(f, k) == IF k <= Len(f.msg.fmt) THEN f.msg.fmt[k] ELSE "NUL"

(* Definitions marked "seeded" are deliberate faults, as in Interrupts.    *)
(* Seeded: params is static, a handler's va_start() moves that of kmain.   *)
CallStatic(messages) ==
  \E m \in messages :
    frames' = Append([k \in DOMAIN frames |-> [frames[k] EXCEPT !.next = 1]],
                     [msg |-> m, pos |-> 1, next |-> 1, out |-> <<>>, took |-> {}])

(* The call: va_start() points at the first word after the format.         *)
Call(messages) ==
  \E m \in messages :
    frames' = Append(frames, [msg |-> m, pos |-> 1, next |-> 1, out |-> <<>>, took |-> {}])

KmainCalls   == frames = <<>> /\ Call(Messages) /\ last' = <<>>
HandlerCalls == Len(frames) = 1 /\ Call(IrqMessages) /\ last' = <<>>

Return(f) == frames' = Front(frames) /\ last' = <<f>>

(* Seeded: "%u" prints 64 bits, which only one of its callers passes.      *)
WordsOfLong(op) == IF op = "u" THEN 2 ELSE 1

(* va_arg(): every conversion takes one word.                              *)
Words(op) == 1

Known == {"c", "d", "i", "u", "x", "X", "p", "b", "B", "s"}

(* What a conversion prints of the word it takes: "%p" an address, its     *)
(* page and its kilobyte.                                                  *)
Pieces(op, word) ==
  CASE op \in {"d", "i", "u"} -> <<[as |-> "dec", of |-> word]>>
    [] op \in {"x", "X"}      -> <<[as |-> "hex", of |-> word]>>
    [] op \in {"b", "B"}      -> <<[as |-> "bin", of |-> word]>>
    [] op = "c"               -> <<[as |-> "char", of |-> word]>>
    [] op = "s"               -> <<[as |-> "string", of |-> word]>>
    [] op = "p"               -> <<[as |-> "hex", of |-> word], [as |-> "page", of |-> word],
                                   [as |-> "KB", of |-> word]>>
Text == <<[as |-> "text"]>>
Bad  == <<[as |-> "bad specifier"]>>

(* *fmt is an ordinary character.                                          *)
Ordinary ==
  /\ frames # <<>> /\ Char(Top, Top.pos) \notin {"%", "NUL"}
  /\ frames' = [frames EXCEPT ![Len(frames)].pos = @ + 1, ![Len(frames)].out = @ \o Text]
  /\ last' = <<>>

Conversion ==
  /\ frames # <<>> /\ Char(Top, Top.pos) = "%"
  /\ LET op    == Char(Top, Top.pos + 1)
         stack == Stack(Top.msg.args)
         word  == IF Top.next <= Len(stack) THEN stack[Top.next] ELSE [arg |-> 0, half |-> "low"]
     IN /\ op \in Known
        /\ frames' = [frames EXCEPT ![Len(frames)] =
             [Top EXCEPT !.pos = @ + 2, !.next = @ + Words(op),
                         !.out = @ \o Pieces(op, word), !.took = @ \cup {<<op, word>>}]]
  /\ last' = <<>>

(* A conversion it does not know, the end of the format included, ends it. *)
Unknown ==
  /\ frames # <<>> /\ Char(Top, Top.pos) = "%" /\ Char(Top, Top.pos + 1) \notin Known
  /\ Return([Top EXCEPT !.out = @ \o Bad])

End == frames # <<>> /\ Char(Top, Top.pos) = "NUL" /\ Return(Top)

Step == Ordinary \/ Conversion \/ Unknown \/ End
PrintkNext == KmainCalls \/ HandlerCalls \/ Step

PrintkSpec == PrintkInit /\ [][PrintkNext]_printkVars
-----------------------------------------------------------------------------
(* What a format means: conversion k prints the k-th argument, up to the   *)
(* first that is not known.                                                *)
Scan(st, ch) ==
  CASE st.bad                    -> st
    [] ~st.bad /\ ~st.esc /\ ch = "%" -> [st EXCEPT !.esc = TRUE]
    [] ~st.bad /\ ~st.esc /\ ch # "%" -> [st EXCEPT !.out = @ \o Text]
    [] ~st.bad /\ st.esc /\ ch \notin Known -> [st EXCEPT !.out = @ \o Bad, !.bad = TRUE]
    [] OTHER -> [st EXCEPT !.esc = FALSE, !.k = @ + 1,
                           !.out = @ \o Pieces(ch, [arg |-> st.k + 1, half |-> "low"])]
Scanned(fmt) ==
  LET scan[k \in 0..Len(fmt)] ==
        IF k = 0 THEN [esc |-> FALSE, bad |-> FALSE, k |-> 0, out |-> <<>>]
        ELSE Scan(scan[k - 1], fmt[k])
  IN scan
Meaning(msg) ==
  LET st == Scanned(msg.fmt)[Len(msg.fmt)]
  IN IF st.esc /\ ~st.bad THEN st.out \o Bad ELSE st.out

(* "z" stands for every character that is not a conversion.                *)
Characters == Known \cup {"t", "%", "z"}

(* Formats are strings of C, and what is passed for them is enough: no     *)
(* conversion takes the upper half of a number or a word that nobody       *)
(* pushed.                                                                 *)
ASSUME MessageAssumption ==
  \A m \in Messages \cup IrqMessages :
    /\ m.fmt \in Seq(Characters)
    /\ \A j \in 0..Len(m.fmt) : \A i \in 1..Scanned(m.fmt)[j].k :
         i <= Len(Stack(m.args)) /\ Stack(m.args)[i] = [arg |-> i, half |-> "low"]

Halvings == {"low", "high"}
PrintkTypeOK ==
  /\ Len(frames) <= 2 /\ Len(last) <= 1
  /\ \A f \in ToSet(frames) \cup ToSet(last) :
       /\ f.msg \in Messages \cup IrqMessages
       /\ f.pos \in Nat /\ f.next \in Nat
       /\ \A t \in f.took : t[1] \in Known /\ t[2].half \in Halvings

(* printk() prints what its format means, whatever handlers print between  *)
(* two of its characters: they are on the same stack.                      *)
PrintsItsMeaning == \A f \in ToSet(last) : f.out = Meaning(f.msg)

(* Nothing is read past the end of a format, even one that ends in "%".    *)
StaysInFormat == \A f \in ToSet(frames) : f.pos <= Len(f.msg.fmt) + 1

(* Every conversion in the kernel finds an argument of its own kind, never *)
(* the upper half of a number or a word that nobody pushed.                *)
Fits(op, kind) ==
  CASE op = "s" -> kind = "str" [] op = "c" -> kind = "char" [] OTHER -> kind \in {"num", "long"}
FindsItsArgument ==
  \A f \in ToSet(frames) \cup ToSet(last) : \A t \in f.took :
    f.msg \in Sites => /\ t[2].arg # 0 /\ t[2].half = "low"
                       /\ Fits(t[1], f.msg.args[t[2].arg])

(* None of the kernel's messages is cut short: whatever is passed to one   *)
(* of them is printed.                                                     *)
NoneCutShort ==
  \A f \in ToSet(last) :
    f.msg \in Sites => /\ Bad[1] \notin ToSet(f.out)
                       /\ {t[2].arg : t \in f.took} = DOMAIN f.msg.args

(* In every message of the kernel the conversions and the arguments fit    *)
(* one another.                                                            *)
ArgumentsMatch == FindsItsArgument /\ NoneCutShort
=============================================================================
