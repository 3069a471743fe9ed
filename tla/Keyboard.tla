------------------------------ MODULE Keyboard ------------------------------
(***************************************************************************)
(* The translation of keys (kernel/keyboard.c): a keyboard turns presses,  *)
(* repetitions and releases into bytes of scancode set 1, one or two for   *)
(* each; kbd_callback() reads one byte at a time, remembers nothing of the *)
(* one before, and prints what its table says.  How a byte is delivered,   *)
(* and lost, is the subject of Interrupts.                                 *)
(***************************************************************************)
EXTENDS Integers, Sequences, SequencesExt

CONSTANTS
  Keys,       \* of the keyboard: [code, extended, legend] each
  Buffer,     \* bytes the keyboard holds back
  MaxEvents   \* bound on presses, repetitions and releases

None == ""     \* the character 0, which the console shows as nothing

(* The keys of "a standard US keyboard" (line 11), by the code of scancode *)
(* set 1 and what is printed on them, first without the shift key.  Some   *)
(* were added after the first keyboards and share a code with an older key.*)
Key(code, legend)      == [code |-> code, extended |-> FALSE, legend |-> legend]
Extended(code, legend) == [code |-> code, extended |-> TRUE, legend |-> legend]
Row(first, legends)    == {Key(first + i - 1, legends[i]) : i \in DOMAIN legends}
Keypad ==
  Row(71, <<"7", "8", "9">>) \cup Row(75, <<"4", "5", "6">>)
    \cup Row(79, <<"1", "2", "3", "0", ".">>)
PrtSc == Extended(55, None)
USKeys ==
  Row(1, <<"ESC", "1", "2", "3", "4", "5", "6", "7", "8", "9", "0", "-", "=", "BS">>)
    \cup Row(15, <<"TAB", "q", "w", "e", "r", "t", "y", "u", "i", "o", "p", "[", "]", "LF">>)
    \cup Row(30, <<"a", "s", "d", "f", "g", "h", "j", "k", "l", "SEMICOLON", "QUOTE", "GRAVE">>)
    \cup Row(43, <<"BACKSLASH", "z", "x", "c", "v", "b", "n", "m", "COMMA", ".", "/">>)
    \cup {Key(55, "*"), Key(57, "SPACE"), Key(74, "-"), Key(78, "+")} \cup Keypad
    \cup {Key(code, None) : code \in {29, 42, 54, 56, 87, 88} \cup 58..70}
    \cup {Extended(28, "LF"), Extended(53, "/"), PrtSc}
    \cup {Extended(code, None) : code \in {29, 56, 75, 77, 91, 92, 93} \cup 71..73 \cup 79..83}

ASSUME KeyAssumption   == Keys \subseteq USKeys
ASSUME BoundAssumption == Buffer \in Nat /\ MaxEvents \in Nat

VARIABLES
  down,       \* the keys held down
  bytes,      \* on their way to the port
  echoed,     \* what it has printed, as far as it shows
  typed,      \* history: the keys pressed and repeated
  events      \* counted up to MaxEvents

keyboardVars == <<down, bytes, echoed, typed, events>>

(* The table of kbd_callback(): 58 characters up to the space bar, and 0   *)
(* for all that follow but two.                                            *)
UpToSpace ==
  <<None, "ESC", "1", "2", "3", "4", "5", "6", "7", "8", "9", "0", "-", "=", "BS",
    "TAB", "q", "w", "e", "r", "t", "y", "u", "i", "o", "p", "[", "]", "LF", None,
    "a", "s", "d", "f", "g", "h", "j", "k", "l", "SEMICOLON", "QUOTE", "GRAVE", None,
    "BACKSLASH", "z", "x", "c", "v", "b", "n", "m", "COMMA", ".", "/", None, "*", None, "SPACE">>
Character(code) ==
  IF code <= 57 THEN UpToSpace[code + 1]
  ELSE IF code = 74 THEN "-" ELSE IF code = 78 THEN "+" ELSE None

(* Definitions marked "seeded" are deliberate faults, as in Interrupts.    *)
(* Seeded: nobody left room for the left shift.                            *)
ShiftForgotten == [code \in 0..127 |-> Character(IF code < 42 THEN code ELSE code + 1)]

kbd_US == [code \in 0..127 |-> Character(code)]

KeyboardInit ==
  /\ down = {} /\ bytes = <<>> /\ echoed = <<>> /\ typed = <<>> /\ events = 0
-----------------------------------------------------------------------------
(* The keyboard: 224 announces a key that the first keyboards did not have *)
(* and the top bit a release.  A key held down sends its press again.  The *)
(* shift that some of the later keys pretend to hold is left out: the      *)
(* table has nothing for its code.                                         *)
Prefix == 224
Send(k, top) ==
  /\ events < MaxEvents /\ Len(bytes) < Buffer
  /\ events' = events + 1
  /\ bytes' = bytes \o (IF k.extended THEN <<Prefix>> ELSE <<>>) \o <<k.code + top>>
  /\ UNCHANGED echoed

(* What the console shows of a character: vga_putc() has nothing for       *)
(* escape and 0.                                                           *)
Shown(c) == IF c \in {None, "ESC"} THEN <<>> ELSE <<c>>

Press(k) ==
  /\ k \notin down /\ down' = down \cup {k}
  /\ Send(k, 0) /\ typed' = Append(typed, k)

Repeat(k) ==
  /\ k \in down /\ UNCHANGED down
  /\ Send(k, 0) /\ typed' = Append(typed, k)

Release(k) ==
  /\ k \in down /\ down' = down \ {k}
  /\ Send(k, 128) /\ UNCHANGED typed

(* scancode & 0x80                                                         *)
IsRelease(byte) == byte >= 128

Translated(byte) == IF IsRelease(byte) THEN <<>> ELSE Shown(kbd_US[byte % 128])

(* kbd_callback().                                                         *)
KbdCallback ==
  /\ bytes # <<>>
  /\ bytes' = Tail(bytes)
  /\ echoed' = echoed \o Translated(Head(bytes))
  /\ UNCHANGED <<down, typed, events>>

KeyboardNext == (\E k \in Keys : Press(k) \/ Repeat(k) \/ Release(k)) \/ KbdCallback

KeyboardSpec == KeyboardInit /\ [][KeyboardNext]_keyboardVars
-----------------------------------------------------------------------------
(* What the table makes of the bytes on their way, after what is printed.  *)
OnItsWay == FlattenSeq([i \in DOMAIN bytes |-> Translated(bytes[i])])

(* Every press and repetition of a key shows what is printed on it, once   *)
(* and in order, and a release or a prefix shows nothing, except that the  *)
(* digits and the period of the keypad show nothing and PrtSc an asterisk. *)
Answer(k) == IF k = PrtSc THEN <<"*">> ELSE IF k \in Keypad THEN <<>> ELSE Shown(k.legend)
LegendsInOrder ==
  echoed \o OnItsWay = FlattenSeq([i \in DOMAIN typed |-> Answer(typed[i])])

(* Two comments of keyboard.c (lines 10 and 73): "a scancode table used to *)
(* layout a standard US keyboard", and "we simply translate the keyboard   *)
(* scancode into an ASCII value, and then display it to the screen".  What *)
(* is displayed is what was typed, with no exception.                      *)
PrintsWhatIsTyped ==
  echoed \o OnItsWay = FlattenSeq([i \in DOMAIN typed |-> Shown(typed[i].legend)])
=============================================================================
