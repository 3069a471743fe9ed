------------------------------ MODULE Console -------------------------------
(***************************************************************************)
(* The text console (arch/x86/kernel/vga.c) and the two parties that print *)
(* on it: kmain, which an interrupt may stop between any two accesses to   *)
(* the console's variables, video memory or the registers of the display;  *)
(* and an interrupt handler, which runs to its end before kmain goes on    *)
(* (handlers do not nest: module Interrupts).  The compiler neither keeps  *)
(* cursor_x and cursor_y in registers nor updates them in one instruction  *)
(* (-O0), so cursor_x++ is a load and a store.                             *)
(***************************************************************************)
EXTENDS Integers, Sequences

CONSTANTS
  COLS, ROWS,    \* the size of the screen (80 by 25)
  TAB,           \* distance of the tab stops (8)
  RADIX,         \* values of a byte (256)
  KmainChars,    \* the characters kmain prints
  IrqChars,      \* the characters interrupt handlers print, {} when disabled
  MaxPrints,     \* bounds on the characters each prints
  MaxIrqs

Controls == {"BS", "TAB", "CR", "LF", "NUL"}
Printable(c) == c \notin Controls

ASSUME SizeAssumption ==
  /\ COLS \in Nat \ {0} /\ ROWS \in Nat \ {0} /\ TAB \in Nat \ {0}
  /\ RADIX \in Nat \ {0}
(* cursor_x and cursor_y are bytes, cursorLocation has two.                *)
ASSUME WidthAssumption ==
  COLS + TAB < 256 /\ ROWS + 1 < 256 /\ (ROWS + 1) * COLS <= RADIX * RADIX
(* After sti kmain prints literals and numbers only; the loader's strings, *)
(* which may hold anything, come before it.                                *)
ASSUME CharAssumption ==
  IrqChars # {} => \A c \in KmainChars : Printable(c) \/ c = "LF"
ASSUME PrintAssumption == MaxPrints \in Nat /\ MaxIrqs \in Nat

VARIABLES
  x, y,      \* cursor_x, cursor_y
  fg,        \* foreColour
  video,     \* video memory: the screen and the row below it
  index,     \* the register of the display that port 0x3D5 reaches
  crt,       \* its cursor location registers
  kpc,       \* where kmain is in vga_putc(), "idle" when it is not in it
  word,      \* character and attribute on their way to video memory
  reg,       \* a coordinate of the cursor in a register
  loc,       \* location, or cursorLocation
  i,         \* the loop variable of scroll()
  msg,       \* kmain is inside a debug message
  irq,       \* the handler that runs: "none", or "debug"
  spot,      \* history: where the last character was written, -1 at first
  cut,       \* history: an interrupt printed while kmain was in move_cursor()
  text,      \* history: what kmain has printed
  shown,     \* history: screen and display cursor when kmain last was idle
  irqs       \* characters printed by handlers, bounded by MaxIrqs

cursor  == <<x, y>>
display == <<index, crt>>
locals  == <<word, reg, loc, i>>
history == <<spot, cut, text, shown, irqs>>
vars == <<cursor, fg, video, display, kpc, locals, msg, irq, history>>
-----------------------------------------------------------------------------
Blank  == [ch |-> " ", fg |-> "white"]
Junk   == [ch |-> "?", fg |-> "white"]
Size   == ROWS * COLS
Cells  == 0..(Size + COLS - 1)
Screen(v) == [n \in 0..(Size - 1) |-> v[n]]
Location(registers) == registers.high * RADIX + registers.low

NoWord == Blank
Init ==
  /\ x = 0 /\ y = 0 /\ fg = "white"
  /\ video = [n \in Cells |-> Junk]
  /\ index = "low" /\ crt = [high |-> 0, low |-> 0]
  /\ kpc = "clear" /\ word = NoWord /\ reg = 0 /\ loc = 0 /\ i = 0
  /\ msg = FALSE /\ irq = "none"
  /\ spot = -1 /\ cut = FALSE /\ text = <<>> /\ irqs = 0
  /\ shown = [screen |-> [n \in 0..(Size - 1) |-> Blank], at |-> 0]

(* kmain goes on when no handler runs.                                     *)
Kmain(from, to) == irq = "none" /\ kpc = from /\ kpc' = to

(* vga_clear(), which runs before interrupts are enabled.                  *)
VgaClear ==
  /\ Kmain("clear", "idle")
  /\ x' = 0 /\ y' = 0
  /\ video' = [n \in Cells |-> IF n < Size THEN Blank ELSE video[n]]
  /\ index' = "low" /\ crt' = [high |-> 0, low |-> 0]
  /\ shown' = [screen |-> Screen(video'), at |-> Location(crt')]
  /\ UNCHANGED <<fg, locals, msg, irq, spot, cut, text, irqs>>

(* debug() turns the text grey and, at its end, white again.               *)
DebugBegin ==
  /\ Kmain("idle", "idle") /\ ~msg
  /\ msg' = TRUE /\ fg' = "grey"
  /\ UNCHANGED <<cursor, video, display, locals, irq, history>>

DebugEnd ==
  /\ Kmain("idle", "idle") /\ msg
  /\ msg' = FALSE /\ fg' = "white"
  /\ UNCHANGED <<cursor, video, display, locals, irq, history>>

(* Definitions marked "seeded" are deliberate faults, as in Interrupts.    *)

(* vga_putc(c): the attribute is taken from foreColour once, at the start. *)
Call ==
  /\ Len(text) < MaxPrints
  /\ \E c \in KmainChars :
       /\ Kmain("idle", IF Printable(c) THEN "cell" ELSE IF c = "LF" THEN "lf" ELSE "ctl")
       /\ word' = [ch |-> c, fg |-> fg]
       /\ text' = Append(text, word')
  /\ UNCHANGED <<cursor, fg, video, display, reg, loc, i, msg, irq, spot, cut, shown, irqs>>

(* Backspace, tab, carriage return and what is ignored: only while         *)
(* interrupts are disabled.                                                *)
Column(c, column) ==
  CASE c = "BS" /\ column > 0 -> column - 1
    [] c = "TAB"              -> ((column + TAB) \div TAB) * TAB
    [] c = "CR"               -> 0
    [] OTHER                  -> column

Control ==
  /\ Kmain("ctl", "wrap")
  /\ x' = Column(word.ch, x)
  /\ UNCHANGED <<y, fg, video, display, locals, msg, irq, history>>

(* location = video_memory + (cursor_y*80 + cursor_x); *location = ...     *)
LoadRow(from, to) ==
  /\ Kmain(from, to)
  /\ reg' = y
  /\ UNCHANGED <<cursor, fg, video, display, word, loc, i, msg, irq, history>>

AddColumn(from, to) ==
  /\ Kmain(from, to)
  /\ loc' = reg * COLS + x
  /\ UNCHANGED <<cursor, fg, video, display, word, reg, i, msg, irq, history>>

WriteCell ==
  /\ Kmain("write", "xload")
  /\ video' = [video EXCEPT ![loc] = word]
  /\ spot' = loc
  /\ UNCHANGED <<cursor, fg, display, locals, msg, irq, cut, text, shown, irqs>>

(* cursor_x++                                                              *)
LoadColumn ==
  /\ Kmain("xload", "xstore")
  /\ reg' = x
  /\ UNCHANGED <<cursor, fg, video, display, word, loc, i, msg, irq, history>>

StoreColumn ==
  /\ Kmain("xstore", "wrap")
  /\ x' = reg + 1
  /\ UNCHANGED <<y, fg, video, display, locals, msg, irq, history>>

(* cursor_x = 0; cursor_y++, of the line feed and at the end of a line.    *)
ColumnZero(from, to) ==
  /\ Kmain(from, to)
  /\ x' = 0
  /\ UNCHANGED <<y, fg, video, display, locals, msg, irq, history>>

StoreRow(from, to) ==
  /\ Kmain(from, to)
  /\ y' = reg + 1
  /\ UNCHANGED <<x, fg, video, display, locals, msg, irq, history>>

(* Seeded: the end of the line is noticed one cell late.                   *)
TestColumnLate ==
  /\ Kmain("wrap", IF x > COLS THEN "crx" ELSE "scroll")
  /\ UNCHANGED <<cursor, fg, video, display, locals, msg, irq, history>>

TestColumn ==
  /\ Kmain("wrap", IF x >= COLS THEN "crx" ELSE "scroll")
  /\ UNCHANGED <<cursor, fg, video, display, locals, msg, irq, history>>

(* scroll(), one cell at a time.                                           *)
TestRow ==
  /\ Kmain("scroll", IF y >= ROWS THEN "load" ELSE "row")
  /\ i' = 0
  /\ UNCHANGED <<cursor, fg, video, display, word, reg, loc, msg, irq, history>>

LoadCell ==
  /\ Kmain("load", IF i < Size - COLS THEN "store" ELSE "blank")
  /\ word' = IF i < Size - COLS THEN video[i + COLS] ELSE word
  /\ UNCHANGED <<cursor, fg, video, display, reg, loc, i, msg, irq, history>>

StoreCell ==
  /\ Kmain("store", "load")
  /\ video' = [video EXCEPT ![i] = word]
  /\ i' = i + 1
  /\ UNCHANGED <<cursor, fg, display, word, reg, loc, msg, irq, history>>

BlankCell ==
  /\ i < Size
  /\ Kmain("blank", "blank")
  /\ video' = [video EXCEPT ![i] = Blank]
  /\ i' = i + 1
  /\ UNCHANGED <<cursor, fg, display, word, reg, loc, msg, irq, history>>

(* Seeded: the row is not set back.                                        *)
EndScrollKeepsRow ==
  /\ i >= Size
  /\ Kmain("blank", "row")
  /\ UNCHANGED <<cursor, fg, video, display, locals, msg, irq, history>>

EndScroll ==
  /\ i >= Size
  /\ Kmain("blank", "row")
  /\ y' = ROWS - 1
  /\ UNCHANGED <<x, fg, video, display, locals, msg, irq, history>>
-----------------------------------------------------------------------------
(* move_cursor(): both coordinates into a local, then four port writes.    *)
CursorRow ==
  /\ Kmain("row", "column")
  /\ reg' = y
  /\ cut' = FALSE
  /\ UNCHANGED <<cursor, fg, video, display, word, loc, i, msg, irq, spot, text, shown, irqs>>

CursorColumn == AddColumn("column", "selhigh")

Select(from, to, half) ==
  /\ Kmain(from, to)
  /\ index' = half
  /\ UNCHANGED <<cursor, fg, video, crt, locals, msg, irq, history>>

(* Seeded: the high byte is not shifted down.                              *)
HighUnshifted(location) == location % RADIX

High(location) == (location \div RADIX) % RADIX
Low(location)  == location % RADIX

WriteHigh ==
  /\ Kmain("high", "sellow")
  /\ crt' = [crt EXCEPT ![index] = High(loc)]
  /\ UNCHANGED <<cursor, fg, video, index, locals, msg, irq, history>>

(* The last write; vga_putc() returns and its locals are gone.             *)
WriteLow ==
  /\ Kmain("low", "idle")
  /\ crt' = [crt EXCEPT ![index] = Low(loc)]
  /\ word' = NoWord /\ reg' = 0 /\ loc' = 0 /\ i' = 0
  /\ shown' = [screen |-> Screen(video), at |-> Location(crt')]
  /\ UNCHANGED <<cursor, fg, video, index, msg, irq, spot, cut, text, irqs>>
-----------------------------------------------------------------------------
(* vga_putc() called by an interrupt handler, which kmain sees as one step *)
(* whatever state kmain has left the console in.                           *)
NextX(c) == IF Printable(c) THEN x + 1 ELSE IF c = "LF" THEN 0 ELSE Column(c, x)
NextY(c) == IF c = "LF" THEN y + 1 ELSE y

Wrapped(column)   == IF column >= COLS THEN 0 ELSE column
Below(row, column) == IF column >= COLS THEN row + 1 ELSE row
Scrolled(v) ==
  [n \in Cells |-> IF n < Size - COLS THEN v[n + COLS]
                   ELSE IF n < Size THEN Blank ELSE v[n]]

InMoveCursor == {"column", "selhigh", "high", "sellow", "low"}

(* Seeded: the handler does not scroll.                                    *)
HandlerPutcNoScroll(c) ==
  LET at   == y * COLS + x
      page == IF Printable(c) THEN [video EXCEPT ![at] = [ch |-> c, fg |-> fg]] ELSE video
      down == Below(NextY(c), NextX(c))
  IN /\ spot' = IF Printable(c) THEN at ELSE spot
     /\ x' = Wrapped(NextX(c))
     /\ y' = down
     /\ video' = page
     /\ index' = "low"
     /\ crt' = [high |-> High(y' * COLS + x'), low |-> Low(y' * COLS + x')]
     /\ cut' = (kpc \in InMoveCursor)

HandlerPutc(c) ==
  LET at   == y * COLS + x
      page == IF Printable(c) THEN [video EXCEPT ![at] = [ch |-> c, fg |-> fg]] ELSE video
      down == Below(NextY(c), NextX(c))
  IN /\ spot' = IF Printable(c) THEN at ELSE spot
     /\ x' = Wrapped(NextX(c))
     /\ y' = IF down >= ROWS THEN ROWS - 1 ELSE down
     /\ video' = IF down >= ROWS THEN Scrolled(page) ELSE page
     /\ index' = "low"
     /\ crt' = [high |-> High(y' * COLS + x'), low |-> Low(y' * COLS + x')]
     /\ cut' = (kpc \in InMoveCursor)

Interrupt ==
  /\ kpc # "clear" /\ irqs < MaxIrqs
  /\ irqs' = irqs + 1
  /\ \E c \in IrqChars : HandlerPutc(c)
  /\ UNCHANGED <<fg, kpc, locals, msg, text, shown>>

(* kbd_callback() prints the key in the colour it finds.                   *)
KeyIrq == irq = "none" /\ Interrupt /\ UNCHANGED irq

(* irq_handler() announces every other line with a debug message.          *)
IrqDebugBegin ==
  /\ kpc # "clear" /\ irq = "none" /\ irqs < MaxIrqs /\ IrqChars # {}
  /\ irq' = "debug" /\ fg' = "grey"
  /\ UNCHANGED <<cursor, video, display, kpc, locals, msg, history>>

IrqDebugPutc == irq = "debug" /\ Interrupt /\ UNCHANGED irq

(* Seeded: the colour is not set back.                                     *)
IrqDebugEndGrey ==
  /\ irq = "debug"
  /\ irq' = "none"
  /\ UNCHANGED <<cursor, fg, video, display, kpc, locals, msg, history>>

IrqDebugEnd ==
  /\ irq = "debug"
  /\ irq' = "none" /\ fg' = "white"
  /\ UNCHANGED <<cursor, video, display, kpc, locals, msg, history>>
-----------------------------------------------------------------------------
KmainStep ==
  \/ VgaClear \/ DebugBegin \/ DebugEnd \/ Call \/ Control
  \/ LoadRow("cell", "add") \/ AddColumn("add", "write") \/ WriteCell
  \/ LoadColumn \/ StoreColumn
  \/ ColumnZero("lf", "lfload") \/ LoadRow("lfload", "lfstore") \/ StoreRow("lfstore", "wrap")
  \/ TestColumn
  \/ ColumnZero("crx", "crload") \/ LoadRow("crload", "crstore") \/ StoreRow("crstore", "scroll")
  \/ TestRow \/ LoadCell \/ StoreCell \/ BlankCell \/ EndScroll
  \/ CursorRow \/ CursorColumn
  \/ Select("selhigh", "high", "high") \/ WriteHigh
  \/ Select("sellow", "low", "low") \/ WriteLow

HandlerStep == KeyIrq \/ IrqDebugBegin \/ IrqDebugPutc \/ IrqDebugEnd

Next == KmainStep \/ HandlerStep

Spec == Init /\ [][Next]_vars
-----------------------------------------------------------------------------
Points == {"clear", "idle", "cell", "add", "write", "xload", "xstore", "lf",
           "lfload", "lfstore", "ctl", "wrap", "crx", "crload", "crstore", "scroll",
           "load", "store", "blank", "row", "column", "selhigh", "high", "sellow", "low"}
Words  == [ch : KmainChars \cup IrqChars \cup {" ", "?"}, fg : {"white", "grey"}]

TypeOK ==
  /\ x \in Nat /\ y \in Nat /\ fg \in {"white", "grey"}
  /\ video \in [Cells -> Words]
  /\ index \in {"high", "low"} /\ crt \in [high : Nat, low : Nat]
  /\ kpc \in Points /\ word \in Words /\ reg \in Nat /\ loc \in Nat /\ i \in 0..Size
  /\ msg \in BOOLEAN /\ irq \in {"none", "debug"}
  /\ spot \in Int /\ cut \in BOOLEAN /\ text \in Seq(Words) /\ irqs \in 0..MaxIrqs

(* However interrupts fall, cursor_x and cursor_y stay small enough for    *)
(* their bytes, and on the screen whenever kmain is outside vga_putc().    *)
(* When handlers print, cursor_x is at most one past the end of the line.  *)
CursorBounds ==
  /\ x <= (IF IrqChars = {} THEN COLS + TAB ELSE COLS) /\ y <= ROWS
  /\ kpc = "idle" => x < COLS /\ y < ROWS

(* vga_putc() never writes further than the row below the screen, even     *)
(* when a handler prints while kmain has moved the cursor past the end of  *)
(* a line or of the page.                                                  *)
WritesNearScreen == spot < Size + COLS

(* When kmain is idle the hardware cursor is where the next character will *)
(* go, unless the last interrupt to print did so inside move_cursor():     *)
(* one elsewhere, or any later vga_putc(), puts it right.                  *)
CursorAgrees == kpc = "idle" /\ ~cut => Location(crt) = y * COLS + x

(* The debug message of a handler inside one of kmain never leaves the     *)
(* console grey: outside messages the colour is white.                     *)
ColourRestored == ~msg /\ irq = "none" => fg = "white"

(* What vga.c says of itself (lines 37 and 133): move_cursor() "updates    *)
(* the hardware cursor", to where the software cursor is.                  *)
CursorUpdated == kpc = "idle" => Location(crt) = y * COLS + x

(* And of vga_putc (line 78): it "writes a single character out to the     *)
(* screen".                                                                *)
WritesOnScreen == spot < Size
-----------------------------------------------------------------------------
(* Line n of the screen kmain last left, and the cursor the display showed.*)
Line(n) == [c \in 0..(COLS - 1) |-> shown.screen[(n - 1) * COLS + c]]

Promise == INSTANCE Terminal WITH
  lines <- [n \in 1..ROWS |-> Line(n)],
  row   <- shown.at \div COLS + 1,
  col   <- shown.at % COLS,
  text  <- IF kpc \in {"clear", "idle"} THEN text ELSE SubSeq(text, 1, Len(text) - 1)

(* With no handler printing, the accesses of vga_putc() to memory and      *)
(* ports add up to the terminal of module Terminal.                        *)
IsTerminal == Promise!Spec
=============================================================================
