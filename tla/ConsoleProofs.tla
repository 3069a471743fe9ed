---------------------------- MODULE ConsoleProofs ---------------------------
(***************************************************************************)
(* The console for every size of the screen, every set of characters and   *)
(* any number of interrupts.  What kmain has read and not yet used (reg,   *)
(* loc) may be stale when it uses it; the invariant says how stale.  And,  *)
(* when no handler prints, the console is the terminal of module Terminal. *)
(***************************************************************************)
EXTENDS Console, TLAPS

LEMMA Constants ==
  /\ COLS \in Nat /\ COLS > 0 /\ ROWS \in Nat /\ ROWS > 0 /\ TAB \in Nat /\ TAB > 0
  /\ RADIX \in Nat /\ RADIX > 0
  /\ Size \in Nat /\ Size + COLS = (ROWS + 1) * COLS
  /\ (ROWS + 1) * COLS <= RADIX * RADIX
  BY SizeAssumption, WidthAssumption DEF Size

(* A cell of the line a coordinate names, at most the one past its end.    *)
LEMMA CellOfRow ==
  ASSUME NEW r \in Nat, NEW c \in Nat, r < ROWS, c <= COLS
  PROVE  r * COLS + c \in Nat /\ r * COLS + c <= Size
  BY SizeAssumption, SMTT(30) DEF Size

LEMMA CellOnScreen ==
  ASSUME NEW r \in Nat, NEW c \in Nat, r < ROWS, c < COLS
  PROVE  r * COLS + c \in Nat /\ r * COLS + c < Size
  BY SizeAssumption, SMTT(30) DEF Size

(* The bytes of a location in range make up the location.                  *)
LEMMA BytesOfLocation ==
  ASSUME NEW n \in Nat, n < RADIX * RADIX
  PROVE  High(n) \in Nat /\ Low(n) \in Nat /\ High(n) * RADIX + Low(n) = n
<1>1. n \div RADIX \in Nat /\ n \div RADIX < RADIX
  BY SizeAssumption, SMTT(30)
<1>2. (n \div RADIX) % RADIX = n \div RADIX
  BY <1>1, SizeAssumption
<1>3. n % RADIX \in Nat /\ (n \div RADIX) * RADIX + (n % RADIX) = n
  BY SizeAssumption, SMTT(30)
<1>4. QED
  BY <1>1, <1>2, <1>3 DEF High, Low

LEMMA ByteIsNat == ASSUME NEW n \in Nat PROVE High(n) \in Nat /\ Low(n) \in Nat
<1>1. n \div RADIX \in Nat /\ n % RADIX \in Nat
  BY SizeAssumption, SMTT(30)
<1>2. (n \div RADIX) % RADIX \in Nat
  BY <1>1, SizeAssumption, SMTT(30)
<1>3. QED
  BY <1>1, <1>2 DEF High, Low

LEMMA TabStops ==
  ASSUME NEW n \in Nat, NEW c
  PROVE  Column(c, n) \in Nat /\ Column(c, n) <= n + TAB
<1>1. ((n + TAB) \div TAB) * TAB \in Nat /\ ((n + TAB) \div TAB) * TAB <= n + TAB
  BY SizeAssumption, SMTT(30)
<1>2. QED
  BY <1>1, SizeAssumption DEF Column
-----------------------------------------------------------------------------
(* Where kmain may have left the cursor below the screen, and past the end *)
(* of the line.                                                            *)
MayBeBelow == {"wrap", "scroll", "load", "store", "blank"}
MayBeRight == {"wrap", "crx"}

Bounds ==
  /\ x <= COLS + TAB /\ y <= ROWS
  /\ kpc \notin MayBeRight => x < COLS
  /\ kpc \in MayBeRight /\ IrqChars # {} => x <= COLS
  /\ kpc \notin MayBeBelow => y < ROWS
  /\ kpc = "wrap" => x < COLS \/ y < ROWS
  /\ kpc = "ctl" => IrqChars = {}

Registers ==
  /\ kpc = "xstore" => reg < COLS
  /\ kpc \in {"add", "lfstore", "crstore", "column"} => reg < ROWS
  /\ kpc = "write" => loc < Size
  /\ kpc = "store" => i < Size - COLS

(* What move_cursor() has computed and sent, if no handler printed since.  *)
Sent ==
  /\ kpc = "column" => reg = y
  /\ kpc \in {"selhigh", "high", "sellow", "low"} => loc = y * COLS + x
  /\ kpc = "high" => index = "high"
  /\ kpc \in {"sellow", "low"} => crt.high = High(loc)
  /\ kpc = "low" => index = "low"
  /\ kpc = "idle" => Location(crt) = y * COLS + x

ConsoleInv ==
  /\ TypeOK /\ Bounds /\ Registers /\ WritesNearScreen /\ (~cut => Sent)
-----------------------------------------------------------------------------
LEMMA GlyphsAreWords == Blank \in Words /\ Junk \in Words
  BY DEF Blank, Junk, Words

LEMMA InitConsole == Init => ConsoleInv
<1>1. ASSUME Init PROVE TypeOK
  <2>1. video \in [Cells -> Words] /\ word \in Words
    BY <1>1, GlyphsAreWords DEF Init, NoWord
  <2>2. crt \in [high : Nat, low : Nat] /\ text \in Seq(Words)
    BY <1>1 DEF Init
  <2>3. kpc \in Points /\ i \in 0..Size /\ irqs \in 0..MaxIrqs
    BY <1>1, Constants, PrintAssumption DEF Init, Points
  <2>4. x \in Nat /\ y \in Nat /\ reg \in Nat /\ loc \in Nat /\ spot \in Int
    BY <1>1 DEF Init
  <2>5. msg \in BOOLEAN /\ cut \in BOOLEAN /\ irq \in {"none", "debug"}
        /\ fg \in {"white", "grey"} /\ index \in {"high", "low"}
    BY <1>1 DEF Init
  <2>6. QED
    BY <2>1, <2>2, <2>3, <2>4, <2>5, Zenon DEF TypeOK
<1>2. ASSUME Init PROVE Bounds /\ Registers /\ WritesNearScreen /\ Sent
  BY <1>2, Constants
  DEF Init, Bounds, Registers, WritesNearScreen, Sent, MayBeBelow, MayBeRight
<1>3. QED
  BY <1>1, <1>2 DEF ConsoleInv

LEMMA VgaClearStep == ConsoleInv /\ VgaClear => ConsoleInv'
<1> SUFFICES ASSUME ConsoleInv, VgaClear PROVE ConsoleInv'
  OBVIOUS
<1>1. TypeOK'
  BY Constants, GlyphsAreWords
  DEF ConsoleInv, TypeOK, Points, Kmain, VgaClear, cursor, display, locals,
      history, Cells, Location
<1>2. Bounds' /\ Registers' /\ WritesNearScreen'
  BY Constants
  DEF ConsoleInv, TypeOK, Bounds, Registers, WritesNearScreen, MayBeBelow,
      MayBeRight,
      Kmain, VgaClear, cursor, display, locals, history, Cells, Location
<1>3. ~cut' => Sent'
  BY Constants
  DEF ConsoleInv, TypeOK, Bounds, Sent, MayBeBelow, MayBeRight, Kmain, VgaClear,
      cursor, display, locals, history, Cells, Location
<1>4. QED
  BY <1>1, <1>2, <1>3 DEF ConsoleInv

LEMMA DebugBeginStep == ConsoleInv /\ DebugBegin => ConsoleInv'
  BY Constants, SMTT(60)
  DEF ConsoleInv, TypeOK, Bounds, Registers, Sent, WritesNearScreen, Points,
      MayBeBelow, MayBeRight, Kmain, DebugBegin, cursor, display, locals, history

LEMMA DebugEndStep == ConsoleInv /\ DebugEnd => ConsoleInv'
<1> SUFFICES ASSUME ConsoleInv, DebugEnd PROVE ConsoleInv'
  OBVIOUS
<1>1. TypeOK'
  BY Constants
  DEF ConsoleInv, TypeOK, Points, Kmain, DebugEnd, cursor, display, locals,
      history
<1>2. Bounds' /\ Registers' /\ WritesNearScreen'
  BY Constants
  DEF ConsoleInv, TypeOK, Bounds, Registers, WritesNearScreen, MayBeBelow,
      MayBeRight,
      Kmain, DebugEnd, cursor, display, locals, history
<1>3. ~cut' => Sent'
  BY Constants
  DEF ConsoleInv, TypeOK, Bounds, Sent, MayBeBelow, MayBeRight, Kmain, DebugEnd,
      cursor, display, locals, history
<1>4. QED
  BY <1>1, <1>2, <1>3 DEF ConsoleInv

LEMMA CallStep == ConsoleInv /\ Call => ConsoleInv'
<1> SUFFICES ASSUME ConsoleInv, Call PROVE ConsoleInv'
  OBVIOUS
<1>1. PICK c \in KmainChars :
        /\ Kmain("idle", IF Printable(c) THEN "cell" ELSE IF c = "LF" THEN "lf" ELSE "ctl")
        /\ word' = [ch |-> c, fg |-> fg]
        /\ text' = Append(text, word')
  BY DEF Call
<1>2. word' \in Words
  BY <1>1 DEF ConsoleInv, TypeOK, Words
<1>3. text' \in Seq(Words)
  BY <1>1, <1>2 DEF ConsoleInv, TypeOK
<1>4. kpc = "idle" /\ kpc' \in {"cell", "lf", "ctl"} /\ (kpc' = "ctl" => IrqChars = {})
  BY <1>1, CharAssumption DEF Kmain
<1>5. UNCHANGED <<x, y, fg, video, index, crt, reg, loc, i, msg, irq, spot, cut, irqs>>
  BY DEF Call, cursor, display
<1>6. TypeOK'
  BY <1>2, <1>3, <1>4, <1>5 DEF ConsoleInv, TypeOK, Points
<1>7. Bounds' /\ Registers' /\ WritesNearScreen' /\ (~cut' => Sent')
  BY <1>4, <1>5
  DEF ConsoleInv, Bounds, Registers, WritesNearScreen, Sent, MayBeBelow, MayBeRight
<1>8. QED
  BY <1>6, <1>7 DEF ConsoleInv

LEMMA ControlStep == ConsoleInv /\ Control => ConsoleInv'
  BY Constants, TabStops, CharAssumption, SMTT(60)
  DEF ConsoleInv, TypeOK, Bounds, Registers, Sent, WritesNearScreen, Points,
      MayBeBelow, MayBeRight, Kmain, Control, cursor, display, locals, history

LEMMA LoadRowCellStep == ConsoleInv /\ LoadRow("cell", "add") => ConsoleInv'
  BY Constants, SMTT(60)
  DEF ConsoleInv, TypeOK, Bounds, Registers, Sent, WritesNearScreen, Points,
      MayBeBelow, MayBeRight, Kmain, LoadRow, cursor, display, locals, history

LEMMA AddColumnCellStep == ConsoleInv /\ AddColumn("add", "write") => ConsoleInv'
  BY Constants, CellOnScreen, SMTT(60)
  DEF ConsoleInv, TypeOK, Bounds, Registers, Sent, WritesNearScreen, Points,
      MayBeBelow, MayBeRight, Kmain, AddColumn, cursor, display, locals, history

LEMMA WriteCellStep == ConsoleInv /\ WriteCell => ConsoleInv'
  BY Constants, SMTT(60)
  DEF ConsoleInv, TypeOK, Bounds, Registers, Sent, WritesNearScreen, Points,
      MayBeBelow, MayBeRight, Kmain, WriteCell, cursor, display, locals, history,
      Cells

LEMMA LoadColumnStep == ConsoleInv /\ LoadColumn => ConsoleInv'
  BY Constants, SMTT(60)
  DEF ConsoleInv, TypeOK, Bounds, Registers, Sent, WritesNearScreen, Points,
      MayBeBelow, MayBeRight, Kmain, LoadColumn, cursor, display, locals, history

LEMMA StoreColumnStep == ConsoleInv /\ StoreColumn => ConsoleInv'
  BY Constants, SMTT(60)
  DEF ConsoleInv, TypeOK, Bounds, Registers, Sent, WritesNearScreen, Points,
      MayBeBelow, MayBeRight, Kmain, StoreColumn, cursor, display, locals, history

LEMMA LfZeroStep == ConsoleInv /\ ColumnZero("lf", "lfload") => ConsoleInv'
  BY Constants, SMTT(60)
  DEF ConsoleInv, TypeOK, Bounds, Registers, Sent, WritesNearScreen, Points,
      MayBeBelow, MayBeRight, Kmain, ColumnZero, cursor, display, locals, history

LEMMA LfLoadStep == ConsoleInv /\ LoadRow("lfload", "lfstore") => ConsoleInv'
  BY Constants, SMTT(60)
  DEF ConsoleInv, TypeOK, Bounds, Registers, Sent, WritesNearScreen, Points,
      MayBeBelow, MayBeRight, Kmain, LoadRow, cursor, display, locals, history

LEMMA LfStoreStep == ConsoleInv /\ StoreRow("lfstore", "wrap") => ConsoleInv'
  BY Constants, SMTT(60)
  DEF ConsoleInv, TypeOK, Bounds, Registers, Sent, WritesNearScreen, Points,
      MayBeBelow, MayBeRight, Kmain, StoreRow, cursor, display, locals, history

LEMMA TestColumnStep == ConsoleInv /\ TestColumn => ConsoleInv'
  BY Constants, SMTT(60)
  DEF ConsoleInv, TypeOK, Bounds, Registers, Sent, WritesNearScreen, Points,
      MayBeBelow, MayBeRight, Kmain, TestColumn, cursor, display, locals, history

LEMMA CrZeroStep == ConsoleInv /\ ColumnZero("crx", "crload") => ConsoleInv'
  BY Constants, SMTT(60)
  DEF ConsoleInv, TypeOK, Bounds, Registers, Sent, WritesNearScreen, Points,
      MayBeBelow, MayBeRight, Kmain, ColumnZero, cursor, display, locals, history

LEMMA CrLoadStep == ConsoleInv /\ LoadRow("crload", "crstore") => ConsoleInv'
  BY Constants, SMTT(60)
  DEF ConsoleInv, TypeOK, Bounds, Registers, Sent, WritesNearScreen, Points,
      MayBeBelow, MayBeRight, Kmain, LoadRow, cursor, display, locals, history

LEMMA CrStoreStep == ConsoleInv /\ StoreRow("crstore", "scroll") => ConsoleInv'
  BY Constants, SMTT(60)
  DEF ConsoleInv, TypeOK, Bounds, Registers, Sent, WritesNearScreen, Points,
      MayBeBelow, MayBeRight, Kmain, StoreRow, cursor, display, locals, history

LEMMA TestRowStep == ConsoleInv /\ TestRow => ConsoleInv'
  BY Constants, SMTT(60)
  DEF ConsoleInv, TypeOK, Bounds, Registers, Sent, WritesNearScreen, Points,
      MayBeBelow, MayBeRight, Kmain, TestRow, cursor, display, locals, history

LEMMA LoadCellStep == ConsoleInv /\ LoadCell => ConsoleInv'
  BY Constants, SMTT(60)
  DEF ConsoleInv, TypeOK, Bounds, Registers, Sent, WritesNearScreen, Points,
      MayBeBelow, MayBeRight, Kmain, LoadCell, cursor, display, locals, history,
      Cells

LEMMA StoreCellStep == ConsoleInv /\ StoreCell => ConsoleInv'
  BY Constants, SMTT(60)
  DEF ConsoleInv, TypeOK, Bounds, Registers, Sent, WritesNearScreen, Points,
      MayBeBelow, MayBeRight, Kmain, StoreCell, cursor, display, locals, history,
      Cells

LEMMA BlankCellStep == ConsoleInv /\ BlankCell => ConsoleInv'
<1> SUFFICES ASSUME ConsoleInv, BlankCell PROVE ConsoleInv'
  OBVIOUS
<1>1. TypeOK'
  <2>1. video' \in [Cells -> Words]
    BY GlyphsAreWords DEF ConsoleInv, TypeOK, BlankCell
  <2>2. i' \in 0..Size
    BY Constants DEF ConsoleInv, TypeOK, BlankCell
  <2>3. kpc' \in Points
    BY DEF BlankCell, Kmain, Points
  <2>4. QED
    BY <2>1, <2>2, <2>3
    DEF ConsoleInv, TypeOK, BlankCell, cursor, display, locals, history
<1>2. Bounds' /\ Registers' /\ WritesNearScreen'
  BY Constants
  DEF ConsoleInv, TypeOK, Bounds, Registers, WritesNearScreen, MayBeBelow,
      MayBeRight,
      Kmain, BlankCell, cursor, display, locals, history
<1>3. ~cut' => Sent'
  BY Constants
  DEF ConsoleInv, TypeOK, Bounds, Sent, MayBeBelow, MayBeRight, Kmain, BlankCell,
      cursor, display, locals, history
<1>4. QED
  BY <1>1, <1>2, <1>3 DEF ConsoleInv

LEMMA EndScrollStep == ConsoleInv /\ EndScroll => ConsoleInv'
  BY Constants, SMTT(60)
  DEF ConsoleInv, TypeOK, Bounds, Registers, Sent, WritesNearScreen, Points,
      MayBeBelow, MayBeRight, Kmain, EndScroll, cursor, display, locals, history

LEMMA CursorRowStep == ConsoleInv /\ CursorRow => ConsoleInv'
<1> SUFFICES ASSUME ConsoleInv, CursorRow PROVE ConsoleInv'
  OBVIOUS
<1>1. TypeOK'
  BY Constants
  DEF ConsoleInv, TypeOK, Points, Kmain, CursorRow, cursor, display, locals,
      history
<1>2. Bounds' /\ Registers' /\ WritesNearScreen'
  BY Constants
  DEF ConsoleInv, TypeOK, Bounds, Registers, WritesNearScreen, MayBeBelow,
      MayBeRight,
      Kmain, CursorRow, cursor, display, locals, history
<1>3. ~cut' => Sent'
  BY Constants
  DEF ConsoleInv, TypeOK, Bounds, Sent, MayBeBelow, MayBeRight, Kmain, CursorRow,
      cursor, display, locals, history
<1>4. QED
  BY <1>1, <1>2, <1>3 DEF ConsoleInv

LEMMA CursorColumnStep == ConsoleInv /\ CursorColumn => ConsoleInv'
  BY Constants, CellOnScreen, SMTT(60)
  DEF ConsoleInv, TypeOK, Bounds, Registers, Sent, WritesNearScreen, Points,
      MayBeBelow, MayBeRight, Kmain, CursorColumn, AddColumn, cursor, display,
      locals, history

LEMMA SelectHighStep == ConsoleInv /\ Select("selhigh", "high", "high") => ConsoleInv'
  BY Constants, SMTT(60)
  DEF ConsoleInv, TypeOK, Bounds, Registers, Sent, WritesNearScreen, Points,
      MayBeBelow, MayBeRight, Kmain, Select, cursor, display, locals, history

LEMMA WriteHighStep == ConsoleInv /\ WriteHigh => ConsoleInv'
<1> SUFFICES ASSUME ConsoleInv, WriteHigh PROVE ConsoleInv'
  OBVIOUS
<1>1. TypeOK'
  BY Constants, ByteIsNat
  DEF ConsoleInv, TypeOK, Points, Kmain, WriteHigh, cursor, display, locals,
      history
<1>2. Bounds' /\ Registers' /\ WritesNearScreen'
  BY Constants
  DEF ConsoleInv, TypeOK, Bounds, Registers, WritesNearScreen, MayBeBelow,
      MayBeRight,
      Kmain, WriteHigh, cursor, display, locals, history
<1>3. ~cut' => Sent'
  BY Constants
  DEF ConsoleInv, TypeOK, Bounds, Sent, MayBeBelow, MayBeRight, Kmain, WriteHigh,
      cursor, display, locals, history
<1>4. QED
  BY <1>1, <1>2, <1>3 DEF ConsoleInv

LEMMA SelectLowStep == ConsoleInv /\ Select("sellow", "low", "low") => ConsoleInv'
  BY Constants, SMTT(60)
  DEF ConsoleInv, TypeOK, Bounds, Registers, Sent, WritesNearScreen, Points,
      MayBeBelow, MayBeRight, Kmain, Select, cursor, display, locals, history

LEMMA WriteLowStep == ConsoleInv /\ WriteLow => ConsoleInv'
<1> SUFFICES ASSUME ConsoleInv, WriteLow PROVE ConsoleInv'
  OBVIOUS
<1>1. TypeOK'
  <2>1. crt' \in [high : Nat, low : Nat]
    BY ByteIsNat DEF ConsoleInv, TypeOK, WriteLow
  <2>2. i' \in 0..Size /\ word' \in Words /\ reg' \in Nat /\ loc' \in Nat
    BY Constants, GlyphsAreWords DEF ConsoleInv, TypeOK, WriteLow, NoWord
  <2>3. kpc' \in Points
    BY DEF WriteLow, Kmain, Points
  <2>4. QED
    BY <2>1, <2>2, <2>3
    DEF ConsoleInv, TypeOK, WriteLow, cursor, display, locals, history
<1>2. Bounds' /\ Registers' /\ WritesNearScreen'
  BY Constants
  DEF ConsoleInv, TypeOK, Bounds, Registers, WritesNearScreen, MayBeBelow,
      MayBeRight,
      Kmain, WriteLow, NoWord, cursor, display, locals, history
<1>3. ~cut' => Sent'
  <2> SUFFICES ASSUME ~cut PROVE Sent'
    BY DEF WriteLow
  <2>1. kpc = "low" /\ kpc' = "idle" /\ crt' = [crt EXCEPT ![index] = Low(loc)]
        /\ UNCHANGED <<x, y>>
    BY DEF WriteLow, Kmain, cursor
  <2>2. x < COLS /\ y < ROWS /\ x \in Nat /\ y \in Nat /\ loc = y * COLS + x
        /\ crt.high = High(loc) /\ index = "low" /\ crt \in [high : Nat, low : Nat]
    BY <2>1 DEF ConsoleInv, TypeOK, Bounds, Sent, MayBeBelow, MayBeRight
  <2>3. loc \in Nat /\ loc < RADIX * RADIX
    BY <2>2, CellOnScreen, Constants, SMTT(30)
  <2>4. Location(crt') = High(loc) * RADIX + Low(loc)
    BY <2>1, <2>2 DEF Location
  <2>5. Location(crt') = y' * COLS + x'
    BY <2>1, <2>2, <2>3, <2>4, BytesOfLocation
  <2>6. QED
    BY <2>1, <2>5 DEF Sent
<1>4. QED
  BY <1>1, <1>2, <1>3 DEF ConsoleInv

-----------------------------------------------------------------------------
(* Handlers.  A handler finds the cursor wherever kmain left it, and leaves *)
(* it on the screen.                                                       *)
LEMMA HandlerPrints ==
  ASSUME ConsoleInv, NEW c \in IrqChars, HandlerPutc(c), kpc # "clear",
         UNCHANGED <<fg, kpc, word, reg, loc, i, msg>>
  PROVE  /\ Bounds' /\ Registers' /\ WritesNearScreen' /\ (~cut' => Sent')
         /\ x' \in Nat /\ y' \in Nat /\ spot' \in Int /\ cut' \in BOOLEAN
         /\ video' \in [Cells -> Words]
         /\ index' \in {"high", "low"} /\ crt' \in [high : Nat, low : Nat]
<1> USE Constants
<1> DEFINE at   == y * COLS + x
           page == IF Printable(c) THEN [video EXCEPT ![at] = [ch |-> c, fg |-> fg]] ELSE video
           down == Below(NextY(c), NextX(c))
<1>1. x \in Nat /\ y \in Nat /\ x <= COLS /\ y <= ROWS /\ (y < ROWS \/ x < COLS)
  BY DEF ConsoleInv, TypeOK, Bounds, MayBeBelow, MayBeRight
<1>2. at \in Nat /\ at < Size + COLS
  <2>1. CASE y < ROWS
    BY <1>1, <2>1, CellOfRow
  <2>2. CASE y = ROWS /\ x < COLS
    BY <1>1, <2>2 DEF Size
  <2>3. QED
    BY <1>1, <2>1, <2>2
<1>3. NextX(c) \in Nat /\ NextY(c) \in Nat
  BY <1>1, TabStops DEF NextX, NextY
<1>4. x' \in Nat /\ x' < COLS
  BY <1>3 DEF HandlerPutc, Wrapped
<1>5. down \in Nat
  BY <1>3 DEF Below
<1>6. y' \in Nat /\ y' < ROWS
  BY <1>5 DEF HandlerPutc
<1>7. spot' \in Int /\ spot' < Size + COLS
  BY <1>2 DEF HandlerPutc, ConsoleInv, TypeOK, WritesNearScreen
<1>8. page \in [Cells -> Words]
  <2>1. [ch |-> c, fg |-> fg] \in Words
    BY DEF ConsoleInv, TypeOK, Words
  <2>2. QED
    BY <2>1 DEF ConsoleInv, TypeOK
<1>9. Scrolled(page) \in [Cells -> Words]
  <2> HIDE DEF page
  <2>1. ASSUME NEW n \in Cells
        PROVE  (IF n < Size - COLS THEN page[n + COLS]
                ELSE IF n < Size THEN Blank ELSE page[n]) \in Words
    BY <1>8, GlyphsAreWords DEF Cells
  <2>2. QED
    BY <2>1 DEF Scrolled
<1>10. video' \in [Cells -> Words]
  BY <1>8, <1>9 DEF HandlerPutc
<1>11. y' * COLS + x' \in Nat /\ y' * COLS + x' < RADIX * RADIX
  <2>1. y' * COLS + x' \in Nat /\ y' * COLS + x' < Size
    BY <1>4, <1>6, CellOnScreen
  <2>2. Size < RADIX * RADIX /\ Size \in Nat /\ RADIX * RADIX \in Nat
    <3>1. RADIX * RADIX \in Nat
      BY SizeAssumption
    <3>2. QED
      BY <3>1
  <2>3. QED
    BY <2>1, <2>2
<1>12. /\ index' = "low" /\ crt' = [high |-> High(y' * COLS + x'), low |-> Low(y' * COLS + x')]
       /\ cut' = (kpc \in InMoveCursor)
  BY DEF HandlerPutc
<1>13. crt' \in [high : Nat, low : Nat] /\ Location(crt') = y' * COLS + x'
  BY <1>11, <1>12, BytesOfLocation DEF Location
<1>14. Bounds'
  BY <1>4, <1>6 DEF ConsoleInv, Bounds, MayBeBelow, MayBeRight
<1>15. Registers'
  BY DEF ConsoleInv, Registers
<1>16. ~cut' => Sent'
  BY <1>12, <1>13 DEF Sent, InMoveCursor
<1>17. QED
  BY <1>4, <1>6, <1>7, <1>10, <1>12, <1>13, <1>14, <1>15, <1>16 DEF WritesNearScreen

LEMMA InterruptStep == ConsoleInv /\ Interrupt /\ UNCHANGED irq => ConsoleInv'
<1> SUFFICES ASSUME ConsoleInv, Interrupt, UNCHANGED irq PROVE ConsoleInv'
  OBVIOUS
<1>1. PICK c \in IrqChars : HandlerPutc(c)
  BY DEF Interrupt
<1>2. kpc # "clear" /\ UNCHANGED <<fg, kpc, word, reg, loc, i, msg, text>>
  BY DEF Interrupt, locals
<1>3. irqs' \in 0..MaxIrqs
  BY PrintAssumption DEF Interrupt, ConsoleInv, TypeOK
<1>4. QED
  BY <1>1, <1>2, <1>3, HandlerPrints DEF ConsoleInv, TypeOK

LEMMA DebugMessageStep == ConsoleInv /\ (IrqDebugBegin \/ IrqDebugEnd) => ConsoleInv'
  BY SMTT(40) DEF ConsoleInv, TypeOK, Bounds, Registers, Sent, WritesNearScreen,
         IrqDebugBegin, IrqDebugEnd, cursor, display, locals, history

LEMMA ConsoleStep == ConsoleInv /\ [Next]_vars => ConsoleInv'
<1>1. ConsoleInv /\ UNCHANGED vars => ConsoleInv'
  BY DEF ConsoleInv, TypeOK, Bounds, Registers, Sent, WritesNearScreen,
         vars, cursor, display, locals, history
<1>2. ConsoleInv /\ KmainStep => ConsoleInv'
  BY VgaClearStep, DebugBeginStep, DebugEndStep, CallStep, ControlStep,
     LoadRowCellStep, AddColumnCellStep, WriteCellStep, LoadColumnStep, StoreColumnStep,
     LfZeroStep, LfLoadStep, LfStoreStep, TestColumnStep, CrZeroStep, CrLoadStep,
     CrStoreStep, TestRowStep, LoadCellStep, StoreCellStep, BlankCellStep, EndScrollStep,
     CursorRowStep, CursorColumnStep, SelectHighStep, WriteHighStep, SelectLowStep,
     WriteLowStep, Zenon
  DEF KmainStep
<1>3. ConsoleInv /\ HandlerStep => ConsoleInv'
  BY InterruptStep, DebugMessageStep DEF HandlerStep, KeyIrq, IrqDebugPutc
<1>4. QED
  BY <1>1, <1>2, <1>3 DEF Next

THEOREM ConsoleInvariant == Spec => []ConsoleInv
  BY InitConsole, ConsoleStep, PTL DEF Spec
-----------------------------------------------------------------------------
(* Every variable of the console keeps its type.                           *)
THEOREM ConsoleTypes == Spec => []TypeOK
<1>1. ConsoleInv => TypeOK
  BY DEF ConsoleInv
<1>2. QED
  BY <1>1, ConsoleInvariant, PTL

(* cursor_x and cursor_y never wrap and are on the screen between calls.   *)
THEOREM CursorStaysInBounds == Spec => []CursorBounds
<1>1. ConsoleInv => CursorBounds
  BY Constants DEF ConsoleInv, TypeOK, Bounds, CursorBounds, MayBeBelow, MayBeRight
<1>2. QED
  BY <1>1, ConsoleInvariant, PTL

(* vga_putc() writes at most one row below the screen.                     *)
THEOREM MemoryIsSafe == Spec => []WritesNearScreen
<1>1. ConsoleInv => WritesNearScreen
  BY DEF ConsoleInv
<1>2. QED
  BY <1>1, ConsoleInvariant, PTL

(* The hardware cursor is right at rest unless a handler printed inside    *)
(* move_cursor().                                                          *)
THEOREM CursorHeals == Spec => []CursorAgrees
<1>1. ConsoleInv => CursorAgrees
  BY DEF ConsoleInv, Sent, CursorAgrees
<1>2. QED
  BY <1>1, ConsoleInvariant, PTL

(* Outside the messages of debug() the console prints in white.            *)
THEOREM ColourIsRestored == Spec => []ColourRestored
<1>1. Init => ColourRestored
  BY DEF Init, ColourRestored
<1>2. ColourRestored /\ UNCHANGED vars => ColourRestored'
  BY DEF ColourRestored, vars
<1>3. ColourRestored /\ KmainStep => ColourRestored'
  BY
  DEF ColourRestored, KmainStep, Kmain, VgaClear, DebugBegin, DebugEnd, Call,
      Control,
     LoadRow, AddColumn, WriteCell, LoadColumn, StoreColumn, ColumnZero, StoreRow,
     TestColumn, TestRow, LoadCell, StoreCell, BlankCell, EndScroll, CursorRow,
     CursorColumn, Select, WriteHigh, WriteLow
<1>4. ColourRestored /\ HandlerStep => ColourRestored'
  BY
  DEF ColourRestored, HandlerStep, KeyIrq, IrqDebugPutc, Interrupt, IrqDebugBegin,
     IrqDebugEnd
<1>5. QED
  BY <1>1, <1>2, <1>3, <1>4, PTL DEF Spec, Next
-----------------------------------------------------------------------------
(* The terminal.  With no handler printing, the call of vga_putc() that is *)
(* under way has a word w to put, and began on a screen s with the cursor  *)
(* at row r and column c.                                                  *)
Places == 0..(Size - 1)
Page(w, s, r, c) == IF Printable(w.ch) THEN [s EXCEPT ![r * COLS + c] = w] ELSE s
ToColumn(w, c) ==
  IF Printable(w.ch) THEN c + 1 ELSE IF w.ch = "LF" THEN 0 ELSE Column(w.ch, c)
ToRow(w, r)    == IF w.ch = "LF" THEN r + 1 ELSE r
Down(w, r, c)  == Below(ToRow(w, r), ToColumn(w, c))
Lifted(p)      == [n \in Places |-> IF n < Size - COLS THEN p[n + COLS] ELSE Blank]

(* What the call leaves behind.                                            *)
EndColumn(w, c)    == Wrapped(ToColumn(w, c))
EndRow(w, r, c)    == IF Down(w, r, c) >= ROWS THEN ROWS - 1 ELSE Down(w, r, c)
EndPage(w, s, r, c) ==
  IF Down(w, r, c) >= ROWS THEN Lifted(Page(w, s, r, c)) ELSE Page(w, s, r, c)

(* How far it has come, for every point kmain may be at.                   *)
Finding   == {"cell", "add", "write"}
Advancing == {"xload", "xstore"}
Feeding   == {"lfload", "lfstore"}
Returning == {"crload", "crstore"}
Scrolling == {"load", "store", "blank"}
Showing   == {"row"} \cup InMoveCursor

Letters(w) ==
  /\ kpc \in Finding \cup Advancing => Printable(w.ch)
  /\ kpc \in {"lf"} \cup Feeding => w.ch = "LF"
  /\ kpc = "ctl" => ~Printable(w.ch) /\ w.ch # "LF"
  /\ kpc \in Finding \cup {"ctl"} => word = w

Columns(w, c) ==
  /\ kpc \in Finding \cup Advancing \cup {"ctl", "lf"} => x = c
  /\ kpc = "xstore" => reg = c
  /\ kpc \in Feeding => x = 0
  /\ kpc \in {"wrap", "crx"} => x = ToColumn(w, c)
  /\ kpc \in {"crx"} \cup Returning => ToColumn(w, c) >= COLS
  /\ kpc \in Returning => x = 0
  /\ kpc \in {"scroll"} \cup Scrolling \cup Showing => x = EndColumn(w, c)

Lines(w, r, c) ==
  /\ kpc \in Finding \cup Advancing \cup Feeding \cup {"ctl", "lf"} => y = r
  /\ kpc \in {"add", "lfstore"} => reg = r
  /\ kpc \in {"wrap", "crx"} \cup Returning => y = ToRow(w, r)
  /\ kpc = "crstore" => reg = ToRow(w, r)
  /\ kpc \in {"scroll"} \cup Scrolling => y = Down(w, r, c)
  /\ kpc \in Scrolling => y >= ROWS
  /\ kpc \in Showing => y = EndRow(w, r, c)

Picture(w, s, r, c) ==
  /\ kpc = "write" => loc = r * COLS + c
  /\ kpc \in Finding \cup Feeding \cup {"ctl", "lf"} => Screen(video) = s
  /\ kpc \in Advancing \cup Returning \cup {"wrap", "crx", "scroll"} =>
       Screen(video) = Page(w, s, r, c)
  /\ kpc \in Scrolling =>
       Screen(video) = [n \in Places |-> IF n < i THEN Lifted(Page(w, s, r, c))[n]
                                         ELSE Page(w, s, r, c)[n]]
  /\ kpc = "load" => i <= Size - COLS
  /\ kpc = "store" => i < Size - COLS /\ word = Page(w, s, r, c)[i + COLS]
  /\ kpc = "blank" => i >= Size - COLS
  /\ kpc \in Showing => Screen(video) = EndPage(w, s, r, c)

Progress(w, s, r, c) ==
  Letters(w) /\ Columns(w, c) /\ Lines(w, r, c) /\ Picture(w, s, r, c)

(* What a call is given.                                                   *)
Given(w, s, r, c) ==
  /\ w \in Words /\ s \in [Places -> Words]
  /\ r \in Nat /\ r < ROWS /\ c \in Nat /\ c < COLS

(* A call under way, and the console between calls.                        *)
Putting(w, s, r, c) ==
  /\ Given(w, s, r, c) /\ Progress(w, s, r, c)
  /\ text # <<>> /\ w = text[Len(text)]
  /\ s = shown.screen /\ shown.at = r * COLS + c

Busy == kpc \notin {"clear", "idle"}
TerminalInv ==
  /\ ~cut /\ irq = "none"
  /\ kpc = "clear" => /\ shown = [screen |-> [n \in Places |-> Blank], at |-> 0]
                      /\ text = <<>>
  /\ kpc = "idle" => Screen(video) = shown.screen /\ shown.at = y * COLS + x
  /\ Busy => \E w, s, r, c : Putting(w, s, r, c)
-----------------------------------------------------------------------------
LEMMA ScreenSize == Size \in Nat \ {0} /\ COLS <= Size /\ Places \subseteq Cells
<1>1. Size >= COLS
  BY SizeAssumption, SMTT(30) DEF Size
<1>2. QED
  BY <1>1, Constants DEF Places, Cells

LEMMA ScreenChanges ==
  ASSUME NEW v \in [Cells -> Words], NEW n \in Places, NEW w
  PROVE  Screen([v EXCEPT ![n] = w]) = [Screen(v) EXCEPT ![n] = w]
  BY ScreenSize DEF Screen, Places

LEMMA ScreenType ==
  ASSUME NEW v \in [Cells -> Words]
  PROVE  Screen(v) \in [Places -> Words] /\ \A n \in Places : Screen(v)[n] = v[n]
  BY ScreenSize DEF Screen, Places

LEMMA Ends ==
  ASSUME NEW w, NEW s, NEW r, NEW c, Given(w, s, r, c)
  PROVE  /\ ToColumn(w, c) \in Nat /\ ToRow(w, r) \in Nat
         /\ Down(w, r, c) \in Nat /\ Down(w, r, c) <= ROWS
         /\ EndColumn(w, c) \in Nat /\ EndColumn(w, c) < COLS
         /\ EndRow(w, r, c) \in Nat /\ EndRow(w, r, c) < ROWS
<1> USE Constants DEF Given
<1>1. ToColumn(w, c) \in Nat
  BY TabStops DEF ToColumn
<1>2. ToRow(w, r) \in Nat /\ ToRow(w, r) <= r + 1
  BY DEF ToRow
<1>3. w.ch = "LF" => ToColumn(w, c) = 0
  BY DEF ToColumn, Printable, Controls
<1>4. Down(w, r, c) \in Nat /\ Down(w, r, c) <= ROWS
  <2>1. CASE w.ch = "LF"
    BY <1>1, <1>2, <1>3, <2>1 DEF Down, Below
  <2>2. CASE w.ch # "LF"
    <3>1. ToRow(w, r) = r
      BY <2>2 DEF ToRow
    <3>2. QED
      BY <1>1, <3>1 DEF Down, Below
  <2>3. QED
    BY <2>1, <2>2
<1>5. EndColumn(w, c) \in Nat /\ EndColumn(w, c) < COLS
  BY <1>1 DEF EndColumn, Wrapped
<1>6. EndRow(w, r, c) \in Nat /\ EndRow(w, r, c) < ROWS
  BY <1>4 DEF EndRow
<1>7. QED
  BY <1>1, <1>2, <1>4, <1>5, <1>6

LEMMA Pages ==
  ASSUME NEW w, NEW s, NEW r, NEW c, Given(w, s, r, c)
  PROVE  /\ r * COLS + c \in Places
         /\ Page(w, s, r, c) \in [Places -> Words]
         /\ Lifted(Page(w, s, r, c)) \in [Places -> Words]
         /\ EndPage(w, s, r, c) \in [Places -> Words]
<1>1. r * COLS + c \in Places
  BY CellOnScreen, ScreenSize DEF Given, Places
<1>2. Page(w, s, r, c) \in [Places -> Words]
  BY <1>1 DEF Page, Given
<1>3. ASSUME NEW p \in [Places -> Words] PROVE Lifted(p) \in [Places -> Words]
  <2>1. \A n \in Places : n < Size - COLS => n + COLS \in Places
    BY Constants DEF Places
  <2>2. QED
    BY <1>3, <2>1, GlyphsAreWords DEF Lifted
<1>4. QED
  BY <1>1, <1>2, <1>3 DEF EndPage
-----------------------------------------------------------------------------
(* Each step of vga_putc() takes the call from one point to the next.      *)
LEMMA ControlProgress ==
  ASSUME NEW w, NEW s, NEW r, NEW c, Given(w, s, r, c), TypeOK, Progress(w, s, r, c),
         Control
  PROVE  Progress(w, s, r, c)'
<1> USE DEF Finding, Advancing, Feeding, Returning, Scrolling, Showing, InMoveCursor
<1>1. Letters(w)'
  BY DEF Progress, Letters, Kmain, Control, locals
<1>2. Columns(w, c)'
  BY Ends, Constants DEF Progress, Columns, Letters, Kmain, Control, cursor, locals,
         ToColumn, ToRow, Printable, Controls
<1>3. Lines(w, r, c)'
  BY Ends, Constants DEF Progress, Lines, Columns, Letters, Kmain, Control, cursor,
         locals, ToColumn, ToRow, Printable, Controls
<1>4. Picture(w, s, r, c)'
  BY Ends DEF Progress, Picture, Letters, Columns, Lines, Kmain, Control, cursor,
         locals, ToColumn, ToRow, Printable, Controls, Page
<1>5. QED
  BY <1>1, <1>2, <1>3, <1>4 DEF Progress

LEMMA LoadRowCellProgress ==
  ASSUME NEW w, NEW s, NEW r, NEW c, Given(w, s, r, c), TypeOK, Progress(w, s, r, c),
         LoadRow("cell", "add")
  PROVE  Progress(w, s, r, c)'
<1> USE DEF Finding, Advancing, Feeding, Returning, Scrolling, Showing, InMoveCursor
<1>1. Letters(w)'
  BY DEF Progress, Letters, Kmain, LoadRow, locals
<1>2. Columns(w, c)'
  BY Ends, Constants DEF Progress, Columns, Letters, Kmain, LoadRow, cursor, locals
<1>3. Lines(w, r, c)'
  BY Ends, Constants DEF Progress, Lines, Columns, Letters, Kmain, LoadRow, cursor,
         locals
<1>4. Picture(w, s, r, c)'
  BY Ends DEF Progress, Picture, Letters, Columns, Lines, Kmain, LoadRow, cursor, locals
<1>5. QED
  BY <1>1, <1>2, <1>3, <1>4 DEF Progress

LEMMA AddColumnCellProgress ==
  ASSUME NEW w, NEW s, NEW r, NEW c, Given(w, s, r, c), TypeOK, Progress(w, s, r, c),
         AddColumn("add", "write")
  PROVE  Progress(w, s, r, c)'
<1> USE DEF Finding, Advancing, Feeding, Returning, Scrolling, Showing, InMoveCursor
<1>1. Letters(w)'
  BY DEF Progress, Letters, Kmain, AddColumn, locals
<1>2. Columns(w, c)'
  BY Ends, Constants DEF Progress, Columns, Letters, Kmain, AddColumn, cursor, locals
<1>3. Lines(w, r, c)'
  BY Ends, Constants DEF Progress, Lines, Columns, Letters, Kmain, AddColumn, cursor,
         locals
<1>4. Picture(w, s, r, c)'
  BY Ends DEF Progress, Picture, Letters, Columns, Lines, Kmain, AddColumn, cursor,
         locals
<1>5. QED
  BY <1>1, <1>2, <1>3, <1>4 DEF Progress

LEMMA WriteCellProgress ==
  ASSUME NEW w, NEW s, NEW r, NEW c, Given(w, s, r, c), TypeOK, Progress(w, s, r, c),
         WriteCell
  PROVE  Progress(w, s, r, c)'
<1> USE DEF Finding, Advancing, Feeding, Returning, Scrolling, Showing, InMoveCursor
<1>1. Letters(w)'
  BY DEF Progress, Letters, Kmain, WriteCell, locals
<1>2. Columns(w, c)'
  BY Ends, Constants DEF Progress, Columns, Letters, Kmain, WriteCell, cursor, locals
<1>3. Lines(w, r, c)'
  BY Ends, Constants DEF Progress, Lines, Columns, Letters, Kmain, WriteCell, cursor,
         locals
<1>4. Picture(w, s, r, c)'
  <2>1. kpc = "write" /\ kpc' = "xload" /\ video' = [video EXCEPT ![loc] = word]
    BY DEF WriteCell, Kmain
  <2>2. loc = r * COLS + c /\ word = w /\ Screen(video) = s /\ Printable(w.ch)
    BY <2>1 DEF Progress, Picture, Letters
  <2>3. loc \in Places
    BY <2>2, Pages
  <2>4. Screen(video') = Page(w, s, r, c)
    BY <2>1, <2>2, <2>3, ScreenChanges DEF TypeOK, Page
  <2>5. QED
    BY <2>1, <2>4 DEF Picture
<1>5. QED
  BY <1>1, <1>2, <1>3, <1>4 DEF Progress

LEMMA LoadColumnProgress ==
  ASSUME NEW w, NEW s, NEW r, NEW c, Given(w, s, r, c), TypeOK, Progress(w, s, r, c),
         LoadColumn
  PROVE  Progress(w, s, r, c)'
<1> USE DEF Finding, Advancing, Feeding, Returning, Scrolling, Showing, InMoveCursor
<1>1. Letters(w)'
  BY DEF Progress, Letters, Kmain, LoadColumn, locals
<1>2. Columns(w, c)'
  BY Ends, Constants DEF Progress, Columns, Letters, Kmain, LoadColumn, cursor, locals
<1>3. Lines(w, r, c)'
  BY Ends, Constants DEF Progress, Lines, Columns, Letters, Kmain, LoadColumn,
         cursor, locals
<1>4. Picture(w, s, r, c)'
  BY Ends DEF Progress, Picture, Letters, Columns, Lines, Kmain, LoadColumn, cursor,
         locals
<1>5. QED
  BY <1>1, <1>2, <1>3, <1>4 DEF Progress

LEMMA StoreColumnProgress ==
  ASSUME NEW w, NEW s, NEW r, NEW c, Given(w, s, r, c), TypeOK, Progress(w, s, r, c),
         StoreColumn
  PROVE  Progress(w, s, r, c)'
<1> USE DEF Finding, Advancing, Feeding, Returning, Scrolling, Showing, InMoveCursor
<1>1. Letters(w)'
  BY DEF Progress, Letters, Kmain, StoreColumn, locals
<1>2. Columns(w, c)'
  BY Ends, Constants DEF Progress, Columns, Letters, Kmain, StoreColumn, cursor,
         locals, ToColumn, ToRow, Printable, Controls
<1>3. Lines(w, r, c)'
  BY Ends, Constants DEF Progress, Lines, Columns, Letters, Kmain, StoreColumn,
         cursor, locals, ToColumn, ToRow, Printable, Controls
<1>4. Picture(w, s, r, c)'
  BY Ends DEF Progress, Picture, Letters, Columns, Lines, Kmain, StoreColumn, cursor,
         locals
<1>5. QED
  BY <1>1, <1>2, <1>3, <1>4 DEF Progress

LEMMA LfZeroProgress ==
  ASSUME NEW w, NEW s, NEW r, NEW c, Given(w, s, r, c), TypeOK, Progress(w, s, r, c),
         ColumnZero("lf", "lfload")
  PROVE  Progress(w, s, r, c)'
<1> USE DEF Finding, Advancing, Feeding, Returning, Scrolling, Showing, InMoveCursor
<1>1. Letters(w)'
  BY DEF Progress, Letters, Kmain, ColumnZero, locals
<1>2. Columns(w, c)'
  BY Ends, Constants DEF Progress, Columns, Letters, Kmain, ColumnZero, cursor, locals
<1>3. Lines(w, r, c)'
  BY Ends, Constants DEF Progress, Lines, Columns, Letters, Kmain, ColumnZero,
         cursor, locals
<1>4. Picture(w, s, r, c)'
  BY Ends DEF Progress, Picture, Letters, Columns, Lines, Kmain, ColumnZero, cursor,
         locals
<1>5. QED
  BY <1>1, <1>2, <1>3, <1>4 DEF Progress

LEMMA LfLoadProgress ==
  ASSUME NEW w, NEW s, NEW r, NEW c, Given(w, s, r, c), TypeOK, Progress(w, s, r, c),
         LoadRow("lfload", "lfstore")
  PROVE  Progress(w, s, r, c)'
<1> USE DEF Finding, Advancing, Feeding, Returning, Scrolling, Showing, InMoveCursor
<1>1. Letters(w)'
  BY DEF Progress, Letters, Kmain, LoadRow, locals
<1>2. Columns(w, c)'
  BY Ends, Constants DEF Progress, Columns, Letters, Kmain, LoadRow, cursor, locals
<1>3. Lines(w, r, c)'
  BY Ends, Constants DEF Progress, Lines, Columns, Letters, Kmain, LoadRow, cursor,
         locals
<1>4. Picture(w, s, r, c)'
  BY Ends DEF Progress, Picture, Letters, Columns, Lines, Kmain, LoadRow, cursor, locals
<1>5. QED
  BY <1>1, <1>2, <1>3, <1>4 DEF Progress

LEMMA LfStoreProgress ==
  ASSUME NEW w, NEW s, NEW r, NEW c, Given(w, s, r, c), TypeOK, Progress(w, s, r, c),
         StoreRow("lfstore", "wrap")
  PROVE  Progress(w, s, r, c)'
<1> USE DEF Finding, Advancing, Feeding, Returning, Scrolling, Showing, InMoveCursor
<1>1. Letters(w)'
  BY DEF Progress, Letters, Kmain, StoreRow, locals
<1>2. Columns(w, c)'
  BY Ends, Constants DEF Progress, Columns, Letters, Kmain, StoreRow, cursor, locals,
         ToColumn, ToRow, Printable, Controls
<1>3. Lines(w, r, c)'
  BY Ends, Constants DEF Progress, Lines, Columns, Letters, Kmain, StoreRow, cursor,
         locals, ToColumn, ToRow, Printable, Controls
<1>4. Picture(w, s, r, c)'
  BY Ends DEF Progress, Picture, Letters, Columns, Lines, Kmain, StoreRow, cursor,
         locals, ToColumn, ToRow, Printable, Controls, Page
<1>5. QED
  BY <1>1, <1>2, <1>3, <1>4 DEF Progress

LEMMA TestColumnProgress ==
  ASSUME NEW w, NEW s, NEW r, NEW c, Given(w, s, r, c), TypeOK, Progress(w, s, r, c),
         TestColumn
  PROVE  Progress(w, s, r, c)'
<1> USE DEF Finding, Advancing, Feeding, Returning, Scrolling, Showing, InMoveCursor
<1>1. Letters(w)'
  BY DEF Progress, Letters, Kmain, TestColumn, locals
<1>2. Columns(w, c)'
  BY Ends, Constants DEF Progress, Columns, Letters, Kmain, TestColumn, cursor,
         locals, EndColumn, Wrapped
<1>3. Lines(w, r, c)'
  BY Ends, Constants DEF Progress, Lines, Columns, Letters, Kmain, TestColumn,
         cursor, locals, Down, Below
<1>4. Picture(w, s, r, c)'
  BY Ends DEF Progress, Picture, Letters, Columns, Lines, Kmain, TestColumn, cursor,
         locals
<1>5. QED
  BY <1>1, <1>2, <1>3, <1>4 DEF Progress

LEMMA CrZeroProgress ==
  ASSUME NEW w, NEW s, NEW r, NEW c, Given(w, s, r, c), TypeOK, Progress(w, s, r, c),
         ColumnZero("crx", "crload")
  PROVE  Progress(w, s, r, c)'
<1> USE DEF Finding, Advancing, Feeding, Returning, Scrolling, Showing, InMoveCursor
<1>1. Letters(w)'
  BY DEF Progress, Letters, Kmain, ColumnZero, locals
<1>2. Columns(w, c)'
  BY Ends, Constants DEF Progress, Columns, Letters, Kmain, ColumnZero, cursor, locals
<1>3. Lines(w, r, c)'
  BY Ends, Constants DEF Progress, Lines, Columns, Letters, Kmain, ColumnZero,
         cursor, locals
<1>4. Picture(w, s, r, c)'
  BY Ends DEF Progress, Picture, Letters, Columns, Lines, Kmain, ColumnZero, cursor,
         locals
<1>5. QED
  BY <1>1, <1>2, <1>3, <1>4 DEF Progress

LEMMA CrLoadProgress ==
  ASSUME NEW w, NEW s, NEW r, NEW c, Given(w, s, r, c), TypeOK, Progress(w, s, r, c),
         LoadRow("crload", "crstore")
  PROVE  Progress(w, s, r, c)'
<1> USE DEF Finding, Advancing, Feeding, Returning, Scrolling, Showing, InMoveCursor
<1>1. Letters(w)'
  BY DEF Progress, Letters, Kmain, LoadRow, locals
<1>2. Columns(w, c)'
  BY Ends, Constants DEF Progress, Columns, Letters, Kmain, LoadRow, cursor, locals
<1>3. Lines(w, r, c)'
  BY Ends, Constants DEF Progress, Lines, Columns, Letters, Kmain, LoadRow, cursor,
         locals
<1>4. Picture(w, s, r, c)'
  BY Ends DEF Progress, Picture, Letters, Columns, Lines, Kmain, LoadRow, cursor, locals
<1>5. QED
  BY <1>1, <1>2, <1>3, <1>4 DEF Progress

LEMMA CrStoreProgress ==
  ASSUME NEW w, NEW s, NEW r, NEW c, Given(w, s, r, c), TypeOK, Progress(w, s, r, c),
         StoreRow("crstore", "scroll")
  PROVE  Progress(w, s, r, c)'
<1> USE DEF Finding, Advancing, Feeding, Returning, Scrolling, Showing, InMoveCursor
<1>1. Letters(w)'
  BY DEF Progress, Letters, Kmain, StoreRow, locals
<1>2. Columns(w, c)'
  BY Ends, Constants DEF Progress, Columns, Letters, Kmain, StoreRow, cursor, locals,
         EndColumn, Wrapped
<1>3. Lines(w, r, c)'
  BY Ends, Constants DEF Progress, Lines, Columns, Letters, Kmain, StoreRow, cursor,
         locals, Down, Below
<1>4. Picture(w, s, r, c)'
  BY Ends DEF Progress, Picture, Letters, Columns, Lines, Kmain, StoreRow, cursor,
         locals
<1>5. QED
  BY <1>1, <1>2, <1>3, <1>4 DEF Progress

LEMMA TestRowProgress ==
  ASSUME NEW w, NEW s, NEW r, NEW c, Given(w, s, r, c), TypeOK, Progress(w, s, r, c),
         TestRow
  PROVE  Progress(w, s, r, c)'
<1> USE DEF Finding, Advancing, Feeding, Returning, Scrolling, Showing, InMoveCursor
<1>1. Letters(w)'
  BY DEF Progress, Letters, Kmain, TestRow, locals
<1>2. Columns(w, c)'
  BY Ends, Constants DEF Progress, Columns, Letters, Kmain, TestRow, cursor, locals
<1>3. Lines(w, r, c)'
  BY Ends, Constants DEF Progress, Lines, Columns, Letters, Kmain, TestRow, cursor,
         locals, EndRow
<1>4. Picture(w, s, r, c)'
  <2>1. CASE y >= ROWS
    <3>1. kpc' = "load" /\ i' = 0 /\ video' = video /\ Screen(video) = Page(w, s, r, c)
      BY <2>1 DEF TestRow, Kmain, Progress, Picture
    <3>2. Page(w, s, r, c) = [n \in Places |-> Page(w, s, r, c)[n]]
      BY Pages
    <3>3. \A n \in Places : ~(n < 0)
      BY DEF Places
    <3>4. Page(w, s, r, c) =
            [n \in Places |-> IF n < 0 THEN Lifted(Page(w, s, r, c))[n]
                             ELSE Page(w, s, r, c)[n]]
      BY <3>2, <3>3, Zenon
    <3>5. 0 <= Size - COLS
      BY ScreenSize, Constants
    <3>6. QED
      BY <3>1, <3>4, <3>5 DEF Picture
  <2>2. CASE ~(y >= ROWS)
    <3>1. kpc' = "row" /\ video' = video /\ Screen(video) = Page(w, s, r, c)
          /\ y = Down(w, r, c)
      BY <2>2 DEF TestRow, Kmain, Progress, Picture, Lines
    <3>2. EndPage(w, s, r, c) = Page(w, s, r, c)
      BY <2>2, <3>1 DEF EndPage
    <3>3. QED
      BY <3>1, <3>2 DEF Picture
  <2>3. QED
    BY <2>1, <2>2
<1>5. QED
  BY <1>1, <1>2, <1>3, <1>4 DEF Progress

LEMMA LoadCellProgress ==
  ASSUME NEW w, NEW s, NEW r, NEW c, Given(w, s, r, c), TypeOK, Progress(w, s, r, c),
         LoadCell
  PROVE  Progress(w, s, r, c)'
<1> USE DEF Finding, Advancing, Feeding, Returning, Scrolling, Showing, InMoveCursor
<1>1. Letters(w)'
  BY DEF Progress, Letters, Kmain, LoadCell, locals
<1>2. Columns(w, c)'
  BY Ends, Constants DEF Progress, Columns, Letters, Kmain, LoadCell, cursor, locals
<1>3. Lines(w, r, c)'
  BY Ends, Constants DEF Progress, Lines, Columns, Letters, Kmain, LoadCell, cursor,
         locals
<1>4. Picture(w, s, r, c)'
  <2> DEFINE p == Page(w, s, r, c)
  <2>1. kpc = "load" /\ i \in 0..Size /\ i <= Size - COLS /\ UNCHANGED <<video, i>>
    BY DEF LoadCell, Kmain, Progress, Picture, TypeOK
  <2>2. Screen(video) = [n \in Places |-> IF n < i THEN Lifted(p)[n] ELSE p[n]]
    BY <2>1 DEF Progress, Picture
  <2>3. CASE i < Size - COLS
    <3>1. kpc' = "store" /\ word' = video[i + COLS]
      BY <2>3 DEF LoadCell, Kmain
    <3>2. i + COLS \in Places /\ ~(i + COLS < i)
      BY <2>1, <2>3, Constants DEF Places
    <3>3. video[i + COLS] = p[i + COLS]
      BY <2>2, <3>2, ScreenType DEF TypeOK
    <3>4. QED
      BY <2>1, <2>2, <2>3, <3>1, <3>3 DEF Picture
  <2>4. CASE ~(i < Size - COLS)
    <3>1. kpc' = "blank" /\ i >= Size - COLS
      BY <2>1, <2>4, Constants DEF LoadCell, Kmain
    <3>2. QED
      BY <2>1, <2>2, <3>1 DEF Picture
  <2>5. QED
    BY <2>3, <2>4
<1>5. QED
  BY <1>1, <1>2, <1>3, <1>4 DEF Progress

LEMMA StoreCellProgress ==
  ASSUME NEW w, NEW s, NEW r, NEW c, Given(w, s, r, c), TypeOK, Progress(w, s, r, c),
         StoreCell
  PROVE  Progress(w, s, r, c)'
<1> USE DEF Finding, Advancing, Feeding, Returning, Scrolling, Showing, InMoveCursor
<1>1. Letters(w)'
  BY DEF Progress, Letters, Kmain, StoreCell, locals
<1>2. Columns(w, c)'
  BY Ends, Constants DEF Progress, Columns, Letters, Kmain, StoreCell, cursor, locals
<1>3. Lines(w, r, c)'
  BY Ends, Constants DEF Progress, Lines, Columns, Letters, Kmain, StoreCell, cursor,
         locals
<1>4. Picture(w, s, r, c)'
  <2> DEFINE p == Page(w, s, r, c)
             f(j) == [n \in Places |-> IF n < j THEN Lifted(p)[n] ELSE p[n]]
  <2>1. kpc = "store" /\ i \in Places /\ i < Size - COLS /\ word = p[i + COLS]
        /\ i' = i + 1 /\ video' = [video EXCEPT ![i] = word]
    BY ScreenSize, Constants DEF StoreCell, Kmain, Progress, Picture, TypeOK, Places
  <2>2. Screen(video) = f(i)
    BY <2>1 DEF Progress, Picture
  <2>3. Screen(video') = [f(i) EXCEPT ![i] = word]
    <3> HIDE DEF f, p
    <3>1. video \in [Cells -> Words]
      BY DEF TypeOK
    <3>2. Screen([video EXCEPT ![i] = word]) = [Screen(video) EXCEPT ![i] = word]
      BY <2>1, <3>1, ScreenChanges
    <3>3. QED
      BY <2>1, <2>2, <3>2, Zenon
  <2>4. Lifted(p)[i] = word
    BY <2>1, ScreenSize, Constants DEF Lifted, Places
  <2>5. [f(i) EXCEPT ![i] = Lifted(p)[i]] = f(i + 1)
    <3>1. \A n \in Places : n < i + 1 <=> n < i \/ n = i
      BY <2>1 DEF Places
    <3> HIDE DEF p
    <3>2. QED
      BY <2>1, <3>1
  <2>6. Screen(video') = f(i')
    BY <2>1, <2>3, <2>4, <2>5
  <2>7. kpc' = "load" /\ i' <= Size - COLS
    BY <2>1, Constants DEF StoreCell, Kmain, Places
  <2>8. QED
    BY <2>6, <2>7 DEF Picture
<1>5. QED
  BY <1>1, <1>2, <1>3, <1>4 DEF Progress

LEMMA BlankCellProgress ==
  ASSUME NEW w, NEW s, NEW r, NEW c, Given(w, s, r, c), TypeOK, Progress(w, s, r, c),
         BlankCell
  PROVE  Progress(w, s, r, c)'
<1> USE DEF Finding, Advancing, Feeding, Returning, Scrolling, Showing, InMoveCursor
<1>1. Letters(w)'
  BY DEF Progress, Letters, Kmain, BlankCell, locals
<1>2. Columns(w, c)'
  BY Ends, Constants DEF Progress, Columns, Letters, Kmain, BlankCell, cursor, locals
<1>3. Lines(w, r, c)'
  BY Ends, Constants DEF Progress, Lines, Columns, Letters, Kmain, BlankCell, cursor,
         locals
<1>4. Picture(w, s, r, c)'
  <2> DEFINE p == Page(w, s, r, c)
             f(j) == [n \in Places |-> IF n < j THEN Lifted(p)[n] ELSE p[n]]
  <2>1. kpc = "blank" /\ i \in Places /\ i >= Size - COLS
        /\ i' = i + 1 /\ video' = [video EXCEPT ![i] = Blank]
    BY ScreenSize, Constants DEF BlankCell, Kmain, Progress, Picture, TypeOK, Places
  <2>2. Screen(video) = f(i)
    BY <2>1 DEF Progress, Picture
  <2>3. Screen(video') = [f(i) EXCEPT ![i] = Blank]
    <3> HIDE DEF f, p
    <3>1. video \in [Cells -> Words]
      BY DEF TypeOK
    <3>2. Screen([video EXCEPT ![i] = Blank]) = [Screen(video) EXCEPT ![i] = Blank]
      BY <2>1, <3>1, ScreenChanges
    <3>3. QED
      BY <2>1, <2>2, <3>2, Zenon
  <2>4. Lifted(p)[i] = Blank
    BY <2>1, ScreenSize, Constants DEF Lifted, Places
  <2>5. [f(i) EXCEPT ![i] = Lifted(p)[i]] = f(i + 1)
    <3>1. \A n \in Places : n < i + 1 <=> n < i \/ n = i
      BY <2>1 DEF Places
    <3> HIDE DEF p
    <3>2. QED
      BY <2>1, <3>1
  <2>6. Screen(video') = f(i')
    BY <2>1, <2>3, <2>4, <2>5
  <2>7. kpc' = "blank" /\ i' >= Size - COLS
    BY <2>1, Constants DEF BlankCell, Kmain, Places
  <2>8. QED
    BY <2>6, <2>7 DEF Picture
<1>5. QED
  BY <1>1, <1>2, <1>3, <1>4 DEF Progress

LEMMA EndScrollProgress ==
  ASSUME NEW w, NEW s, NEW r, NEW c, Given(w, s, r, c), TypeOK, Progress(w, s, r, c),
         EndScroll
  PROVE  Progress(w, s, r, c)'
<1> USE DEF Finding, Advancing, Feeding, Returning, Scrolling, Showing, InMoveCursor
<1>1. Letters(w)'
  BY DEF Progress, Letters, Kmain, EndScroll, locals
<1>2. Columns(w, c)'
  BY Ends, Constants DEF Progress, Columns, Letters, Kmain, EndScroll, cursor, locals
<1>3. Lines(w, r, c)'
  BY Ends, Constants DEF Progress, Lines, Columns, Letters, Kmain, EndScroll, cursor,
         locals, EndRow
<1>4. Picture(w, s, r, c)'
  <2> DEFINE p == Page(w, s, r, c)
  <2>1. kpc = "blank" /\ kpc' = "row" /\ i \in 0..Size /\ i >= Size /\ video' = video
    BY DEF EndScroll, Kmain, TypeOK
  <2>2. Screen(video) = [n \in Places |-> IF n < i THEN Lifted(p)[n] ELSE p[n]]
    BY <2>1 DEF Progress, Picture
  <2>3. \A n \in Places : n < i
    BY <2>1, ScreenSize DEF Places
  <2>4. Lifted(p) = [n \in Places |-> Lifted(p)[n]]
    BY Pages
  <2>5. Screen(video) = Lifted(p)
    BY <2>2, <2>3, <2>4, Zenon
  <2>6. Down(w, r, c) >= ROWS
    BY <2>1 DEF Progress, Lines
  <2>7. QED
    BY <2>1, <2>5, <2>6 DEF Picture, EndPage
<1>5. QED
  BY <1>1, <1>2, <1>3, <1>4 DEF Progress

LEMMA CursorRowProgress ==
  ASSUME NEW w, NEW s, NEW r, NEW c, Given(w, s, r, c), TypeOK, Progress(w, s, r, c),
         CursorRow
  PROVE  Progress(w, s, r, c)'
<1> USE DEF Finding, Advancing, Feeding, Returning, Scrolling, Showing, InMoveCursor
<1>1. Letters(w)'
  BY DEF Progress, Letters, Kmain, CursorRow, locals
<1>2. Columns(w, c)'
  BY Ends, Constants DEF Progress, Columns, Letters, Kmain, CursorRow, cursor, locals
<1>3. Lines(w, r, c)'
  BY Ends, Constants DEF Progress, Lines, Columns, Letters, Kmain, CursorRow, cursor,
         locals
<1>4. Picture(w, s, r, c)'
  BY Ends DEF Progress, Picture, Letters, Columns, Lines, Kmain, CursorRow, cursor,
         locals
<1>5. QED
  BY <1>1, <1>2, <1>3, <1>4 DEF Progress

LEMMA CursorColumnProgress ==
  ASSUME NEW w, NEW s, NEW r, NEW c, Given(w, s, r, c), TypeOK, Progress(w, s, r, c),
         CursorColumn
  PROVE  Progress(w, s, r, c)'
<1> USE DEF Finding, Advancing, Feeding, Returning, Scrolling, Showing, InMoveCursor
<1>1. Letters(w)'
  BY DEF Progress, Letters, Kmain, CursorColumn, AddColumn, locals
<1>2. Columns(w, c)'
  BY Ends, Constants DEF Progress, Columns, Letters, Kmain, CursorColumn, AddColumn,
         cursor, locals
<1>3. Lines(w, r, c)'
  BY Ends, Constants DEF Progress, Lines, Columns, Letters, Kmain, CursorColumn,
         AddColumn, cursor, locals
<1>4. Picture(w, s, r, c)'
  BY Ends DEF Progress, Picture, Letters, Columns, Lines, Kmain, CursorColumn,
         AddColumn, cursor, locals
<1>5. QED
  BY <1>1, <1>2, <1>3, <1>4 DEF Progress

LEMMA SelectHighProgress ==
  ASSUME NEW w, NEW s, NEW r, NEW c, Given(w, s, r, c), TypeOK, Progress(w, s, r, c),
         Select("selhigh", "high", "high")
  PROVE  Progress(w, s, r, c)'
<1> USE DEF Finding, Advancing, Feeding, Returning, Scrolling, Showing, InMoveCursor
<1>1. Letters(w)'
  BY DEF Progress, Letters, Kmain, Select, locals
<1>2. Columns(w, c)'
  BY Ends, Constants DEF Progress, Columns, Letters, Kmain, Select, cursor, locals
<1>3. Lines(w, r, c)'
  BY Ends, Constants DEF Progress, Lines, Columns, Letters, Kmain, Select, cursor,
         locals
<1>4. Picture(w, s, r, c)'
  BY Ends DEF Progress, Picture, Letters, Columns, Lines, Kmain, Select, cursor, locals
<1>5. QED
  BY <1>1, <1>2, <1>3, <1>4 DEF Progress

LEMMA WriteHighProgress ==
  ASSUME NEW w, NEW s, NEW r, NEW c, Given(w, s, r, c), TypeOK, Progress(w, s, r, c),
         WriteHigh
  PROVE  Progress(w, s, r, c)'
<1> USE DEF Finding, Advancing, Feeding, Returning, Scrolling, Showing, InMoveCursor
<1>1. Letters(w)'
  BY DEF Progress, Letters, Kmain, WriteHigh, locals
<1>2. Columns(w, c)'
  BY Ends, Constants DEF Progress, Columns, Letters, Kmain, WriteHigh, cursor, locals
<1>3. Lines(w, r, c)'
  BY Ends, Constants DEF Progress, Lines, Columns, Letters, Kmain, WriteHigh, cursor,
         locals
<1>4. Picture(w, s, r, c)'
  BY Ends DEF Progress, Picture, Letters, Columns, Lines, Kmain, WriteHigh, cursor,
         locals
<1>5. QED
  BY <1>1, <1>2, <1>3, <1>4 DEF Progress

LEMMA SelectLowProgress ==
  ASSUME NEW w, NEW s, NEW r, NEW c, Given(w, s, r, c), TypeOK, Progress(w, s, r, c),
         Select("sellow", "low", "low")
  PROVE  Progress(w, s, r, c)'
<1> USE DEF Finding, Advancing, Feeding, Returning, Scrolling, Showing, InMoveCursor
<1>1. Letters(w)'
  BY DEF Progress, Letters, Kmain, Select, locals
<1>2. Columns(w, c)'
  BY Ends, Constants DEF Progress, Columns, Letters, Kmain, Select, cursor, locals
<1>3. Lines(w, r, c)'
  BY Ends, Constants DEF Progress, Lines, Columns, Letters, Kmain, Select, cursor,
         locals
<1>4. Picture(w, s, r, c)'
  BY Ends DEF Progress, Picture, Letters, Columns, Lines, Kmain, Select, cursor, locals
<1>5. QED
  BY <1>1, <1>2, <1>3, <1>4 DEF Progress
-----------------------------------------------------------------------------
(* The lines of a screen, and the place of a cell among them.              *)
Rows(s) == [n \in 1..ROWS |-> [k \in 0..(COLS - 1) |-> s[(n - 1) * COLS + k]]]

LEMMA CellsApart ==
  ASSUME NEW a \in Nat, NEW b \in Nat, NEW size \in Nat \ {0},
         NEW j \in 0..(size - 1), NEW k \in 0..(size - 1), a * size + j = b * size + k
  PROVE  a = b /\ j = k
<1>1. a * size \in Nat /\ b * size \in Nat
  OBVIOUS
<1>2. ASSUME NEW p \in Nat, NEW q \in Nat, p < q PROVE p * size + size <= q * size
  <2>1. PICK d \in Nat : q = p + 1 + d
    BY <1>2, q - p - 1 \in Nat
  <2>2. q * size = p * size + size + d * size /\ p * size \in Nat /\ d * size \in Nat
    BY <2>1, SMTT(30)
  <2>3. QED
    BY <2>2
<1>3. ~(a < b)
  BY <1>1, <1>2
<1>4. ~(b < a)
  BY <1>1, <1>2
<1>5. a = b
  BY <1>3, <1>4
<1>6. QED
  BY <1>1, <1>5

LEMMA CellOfLine ==
  ASSUME NEW n \in 1..ROWS, NEW k \in 0..(COLS - 1)
  PROVE  (n - 1) * COLS + k \in Places
<1>1. n - 1 \in Nat /\ n - 1 < ROWS /\ k \in Nat /\ k < COLS
  BY Constants
<1>2. QED
  BY <1>1, CellOnScreen, ScreenSize DEF Places

LEMMA Quotient ==
  ASSUME NEW a \in Nat, NEW b \in Nat \ {0}
  PROVE  a \div b \in Nat /\ a = (a \div b) * b + (a % b) /\ a % b \in 0..(b - 1)
<1>1. a \div b \in Nat /\ a % b \in 0..(b - 1)
  BY SMTT(30)
<1>2. a = b * (a \div b) + (a % b)
  BY SMTT(30)
<1>3. QED
  BY <1>1, <1>2

LEMMA PlaceOfCell ==
  ASSUME NEW r \in Nat, NEW c \in Nat, c < COLS
  PROVE  (r * COLS + c) \div COLS = r /\ (r * COLS + c) % COLS = c
<1>1. r * COLS + c \in Nat /\ COLS \in Nat \ {0} /\ c \in 0..(COLS - 1)
  BY Constants
<1>2. PICK q \in Nat, m \in 0..(COLS - 1) :
        /\ q = (r * COLS + c) \div COLS /\ m = (r * COLS + c) % COLS
        /\ r * COLS + c = q * COLS + m
  BY <1>1, Quotient, Zenon
<1>3. r * COLS + c = q * COLS + m
  BY <1>2
<1>4. r = q /\ c = m
  BY <1>1, <1>3, CellsApart
<1>5. QED
  BY <1>2, <1>4, Zenon

(* Writing a cell of the screen writes it in its line.                     *)
Rewritten(lines, r, c, w) == [lines EXCEPT ![r + 1][c] = w]

LEMMA RowsOfGlyph ==
  ASSUME NEW w, NEW s, NEW r, NEW c, Given(w, s, r, c), Printable(w.ch)
  PROVE  Rows(Page(w, s, r, c)) = Rewritten(Rows(s), r, c, w)
<1>0. s \in [Places -> Words] /\ r \in Nat /\ c \in Nat /\ r < ROWS /\ c < COLS
  BY DEF Given
<1> DEFINE t == [s EXCEPT ![r * COLS + c] = w]
           u == [Rows(s) EXCEPT ![r + 1][c] = w]
           Across == 0..(COLS - 1)
<1>1. r + 1 \in 1..ROWS /\ c \in Across
  BY <1>0, Constants
<1>2. ASSUME NEW n \in 1..ROWS PROVE Rows(t)[n] = u[n]
  <2>1. Rows(t)[n] = [k \in Across |-> t[(n - 1) * COLS + k]]
        /\ Rows(s)[n] = [k \in Across |-> s[(n - 1) * COLS + k]]
    BY DEF Rows
  <2>2. u[n] = IF n = r + 1 THEN [Rows(s)[n] EXCEPT ![c] = w] ELSE Rows(s)[n]
    BY <1>1 DEF Rows
  <2>3. ASSUME NEW k \in Across
        PROVE  t[(n - 1) * COLS + k] = IF n = r + 1 /\ k = c THEN w
                                       ELSE s[(n - 1) * COLS + k]
    <3>1. (n - 1) * COLS + k \in Places
      BY CellOfLine
    <3>2. (n - 1) * COLS + k = r * COLS + c <=> n = r + 1 /\ k = c
      <4>1. n - 1 \in Nat /\ (n = r + 1 => n - 1 = r) /\ (n - 1 = r => n = r + 1)
        BY <1>0
      <4>2. QED
        BY <1>0, <1>1, <4>1, CellsApart, Constants
    <3>3. QED
      BY <1>0, <3>1, <3>2
  <2>4. CASE n = r + 1
    <3>1. [k \in Across |-> t[(n - 1) * COLS + k]]
            = [[k \in Across |-> s[(n - 1) * COLS + k]] EXCEPT ![c] = w]
      <4> HIDE DEF t
      <4>1. QED
        BY <1>1, <2>3, <2>4
    <3> HIDE DEF t, u
    <3>2. QED
      BY <2>1, <2>2, <2>4, <3>1
  <2>5. CASE n # r + 1
    <3>1. [k \in Across |-> t[(n - 1) * COLS + k]]
            = [k \in Across |-> s[(n - 1) * COLS + k]]
      <4> HIDE DEF t
      <4>1. QED
        BY <2>3, <2>5
    <3> HIDE DEF t, u
    <3>2. QED
      BY <2>1, <2>2, <2>5, <3>1
  <2>6. QED
    BY <2>4, <2>5
<1>3. DOMAIN Rows(t) = 1..ROWS /\ DOMAIN u = 1..ROWS
  BY DEF Rows
<1>4. Rows(t) = [n \in 1..ROWS |-> Rows(t)[n]] /\ u = [n \in 1..ROWS |-> u[n]]
  BY DEF Rows
<1> HIDE DEF t, u
<1>5. Rows(t) = u
  BY <1>2, <1>4
<1>6. t = Page(w, s, r, c)
  BY Zenon DEF t, Page
<1>7. QED
  BY <1>5, <1>6, Zenon DEF u, Rewritten

LEMMA RowsType ==
  ASSUME NEW p \in [Places -> Words]
  PROVE  /\ Rows(p) \in Seq([0..(COLS - 1) -> Words]) /\ Len(Rows(p)) = ROWS
         /\ \A n \in 1..ROWS : Rows(p)[n] = [k \in 0..(COLS - 1) |-> p[(n - 1) * COLS + k]]
<1>1. ASSUME NEW n \in 1..ROWS
      PROVE  [k \in 0..(COLS - 1) |-> p[(n - 1) * COLS + k]] \in [0..(COLS - 1) -> Words]
  <2>1. \A k \in 0..(COLS - 1) : p[(n - 1) * COLS + k] \in Words
    BY CellOfLine
  <2>2. QED
    BY <2>1
<1>2. \A n \in 1..ROWS : Rows(p)[n] = [k \in 0..(COLS - 1) |-> p[(n - 1) * COLS + k]]
  BY Zenon DEF Rows
<1>3. Rows(p) \in [1..ROWS -> [0..(COLS - 1) -> Words]]
  BY <1>1, Zenon DEF Rows
<1>4. Rows(p) \in Seq([0..(COLS - 1) -> Words]) /\ Len(Rows(p)) = ROWS
  <2> DEFINE S == [0..(COLS - 1) -> Words]
  <2> HIDE DEF S
  <2>1. Rows(p) \in [1..ROWS -> S]
    BY <1>3 DEF S
  <2>2. Rows(p) \in Seq(S) /\ Len(Rows(p)) = ROWS
    BY <2>1, Constants
  <2>3. QED
    BY <2>2 DEF S
<1>5. QED
  BY <1>2, <1>4

(* Scrolling moves every line up, and the last one becomes blank.          *)
LEMMA RowsLifted ==
  ASSUME NEW p \in [Places -> Words]
  PROVE  Rows(Lifted(p)) = Append(Tail(Rows(p)), Promise!BlankLine)
<1> DEFINE S == [0..(COLS - 1) -> Words]
           L == Rows(p)
           M == Rows(Lifted(p))
           B == [k \in 0..(COLS - 1) |-> Blank]
<1>0. ROWS \in Nat /\ ROWS > 0 /\ B = Promise!BlankLine /\ B \in S
  BY Constants, GlyphsAreWords DEF Promise!BlankLine
<1>1. Lifted(p) \in [Places -> Words]
  <2>1. \A n \in Places : n < Size - COLS => n + COLS \in Places
    BY Constants DEF Places
  <2>2. QED
    BY <2>1, GlyphsAreWords DEF Lifted
<1>2. L \in Seq(S) /\ M \in Seq(S) /\ Len(L) = ROWS /\ Len(M) = ROWS
  BY <1>1, RowsType
<1>3. ASSUME NEW n \in 1..ROWS, n < ROWS PROVE M[n] = L[n + 1]
  <2>1. n + 1 \in 1..ROWS
    BY <1>0, <1>3
  <2>2. ASSUME NEW k \in 0..(COLS - 1)
        PROVE  Lifted(p)[(n - 1) * COLS + k] = p[((n + 1) - 1) * COLS + k]
    <3>1. (n - 1) * COLS + k \in Places
      BY CellOfLine
    <3>2. (n - 1) * COLS + k + COLS = ((n + 1) - 1) * COLS + k /\ ((n + 1) - 1) * COLS \in Nat
          /\ (n - 1) * COLS \in Nat
      BY Constants, SMTT(30)
    <3>3. ((n + 1) - 1) * COLS + k < Size
      <4>1. ((n + 1) - 1) * COLS + k \in Places
        BY <2>1, CellOfLine, Zenon
      <4>2. QED
        BY <4>1, ScreenSize DEF Places
    <3>4. (n - 1) * COLS + k < Size - COLS
      BY <3>2, <3>3, Constants
    <3>5. QED
      BY <3>1, <3>2, <3>4 DEF Lifted
  <2>3. M[n] = [k \in 0..(COLS - 1) |-> Lifted(p)[(n - 1) * COLS + k]]
        /\ L[n + 1] = [k \in 0..(COLS - 1) |-> p[((n + 1) - 1) * COLS + k]]
    BY <1>1, <2>1, RowsType, Zenon
  <2> HIDE DEF M, L
  <2>4. QED
    BY <2>2, <2>3, ZenonT(40)
<1>4. M[ROWS] = B
  <2>1. ROWS \in 1..ROWS
    BY <1>0
  <2>2. ASSUME NEW k \in 0..(COLS - 1) PROVE Lifted(p)[(ROWS - 1) * COLS + k] = Blank
    <3>1. (ROWS - 1) * COLS + k \in Places
      BY <2>1, CellOfLine
    <3>2. (ROWS - 1) * COLS + COLS = Size /\ (ROWS - 1) * COLS \in Nat
      BY Constants, SMTT(30) DEF Size
    <3>3. ~((ROWS - 1) * COLS + k < Size - COLS)
      BY <3>2, Constants
    <3>4. QED
      BY <3>1, <3>3 DEF Lifted
  <2>3. M[ROWS] = [k \in 0..(COLS - 1) |-> Lifted(p)[(ROWS - 1) * COLS + k]]
    BY <1>1, <2>1, RowsType
  <2>4. QED
    BY <2>2, <2>3
<1> HIDE DEF S, L, M, B
<1> DEFINE A == Append(Tail(L), B)
<1>5. A \in Seq(S) /\ Len(A) = ROWS /\ A[ROWS] = B
      /\ \A n \in 1..ROWS : n < ROWS => A[n] = L[n + 1]
  BY <1>0, <1>2
<1> HIDE DEF A
<1>6. \A n \in 1..ROWS : M[n] = A[n]
  BY <1>0, <1>3, <1>4, <1>5
<1>7. M = A
  BY <1>2, <1>5, <1>6
<1>8. QED
  BY <1>0, <1>7 DEF A, L, M
-----------------------------------------------------------------------------
(* What a call leaves behind, by whether the cursor leaves the line.       *)
Over(w, c) == w.ch = "LF" \/ ToColumn(w, c) >= COLS

LEMMA Outcome ==
  ASSUME NEW w, NEW s, NEW r, NEW c, Given(w, s, r, c)
  PROVE  /\ ~Over(w, c) => /\ EndColumn(w, c) = ToColumn(w, c)
                           /\ ToColumn(w, c) < COLS
                           /\ EndRow(w, r, c) = r
                           /\ EndPage(w, s, r, c) = Page(w, s, r, c)
         /\ Over(w, c) => EndColumn(w, c) = 0
         /\ Over(w, c) /\ r + 1 < ROWS => /\ EndRow(w, r, c) = r + 1
                                          /\ EndPage(w, s, r, c) = Page(w, s, r, c)
         /\ Over(w, c) /\ ~(r + 1 < ROWS) =>
              /\ EndRow(w, r, c) = r
              /\ EndPage(w, s, r, c) = Lifted(Page(w, s, r, c))
<1> USE Constants DEF Given
<1>1. ToColumn(w, c) \in Nat /\ (w.ch = "LF" => ToColumn(w, c) = 0)
  BY Ends DEF ToColumn, Printable, Controls
<1>2. CASE ~Over(w, c)
  <2>1. Down(w, r, c) = r /\ ToColumn(w, c) < COLS
    BY <1>1, <1>2 DEF Over, Down, Below, ToRow
  <2>2. QED
    BY <1>1, <1>2, <2>1 DEF EndColumn, Wrapped, EndRow, EndPage
<1>3. CASE Over(w, c)
  <2>1. Down(w, r, c) = r + 1 /\ EndColumn(w, c) = 0
    BY <1>1, <1>3 DEF Over, Down, Below, ToRow, EndColumn, Wrapped
  <2>2. QED
    BY <1>3, <2>1 DEF EndRow, EndPage
<1>4. QED
  BY <1>2, <1>3

(* The stops of the tabs are TAB columns apart.                            *)
LEMMA NextTab ==
  ASSUME NEW c \in Nat
  PROVE  (c + TAB) \div TAB = c \div TAB + 1 /\ c \div TAB \in Nat
<1> USE Constants
<1>1. TAB \in Nat \ {0}
  OBVIOUS
<1>2. PICK q \in Nat, m \in 0..(TAB - 1) : q = c \div TAB /\ c = q * TAB + m
  BY <1>1, Quotient
<1>3. PICK p \in Nat, n \in 0..(TAB - 1) : p = (c + TAB) \div TAB /\ c + TAB = p * TAB + n
  BY <1>1, Quotient
<1>4. (q + 1) * TAB + m = p * TAB + n
  BY <1>1, <1>2, <1>3
<1>5. q + 1 = p
  BY <1>1, <1>4, CellsApart
<1>6. QED
  BY <1>2, <1>3, <1>5

(* When the screen and the display show what the call leaves behind, the   *)
(* terminal has put the word.                                              *)
LEMMA PutStep ==
  ASSUME NEW w, NEW s, NEW r, NEW c, Given(w, s, r, c),
         shown.screen = s, shown.at = r * COLS + c,
         shown'.screen = EndPage(w, s, r, c),
         shown'.at = EndRow(w, r, c) * COLS + EndColumn(w, c),
         text # <<>>, text \in Seq(Words), w = text[Len(text)], UNCHANGED text,
         kpc \notin {"clear", "idle"}, kpc' = "idle"
  PROVE  Promise!Put(w)
<1> USE Constants
<1> DEFINE lines0 == [n \in 1..ROWS |-> Line(n)]
           row0   == shown.at \div COLS + 1
           col0   == shown.at % COLS
           text0  == IF kpc \in {"clear", "idle"} THEN text ELSE SubSeq(text, 1, Len(text) - 1)
           P      == Page(w, s, r, c)
           to     == ToColumn(w, c)
<1>1. lines0 = Rows(s) /\ lines0' = Rows(EndPage(w, s, r, c))
  BY Zenon DEF Line, Rows
<1>2. row0 = r + 1 /\ col0 = c
  <2>1. (r * COLS + c) \div COLS = r /\ (r * COLS + c) % COLS = c
    BY PlaceOfCell DEF Given
  <2>2. QED
    BY <2>1, Zenon
<1>3. row0' = EndRow(w, r, c) + 1 /\ col0' = EndColumn(w, c)
  <2> DEFINE R == EndRow(w, r, c)
             C == EndColumn(w, c)
  <2>1. R \in Nat /\ C \in Nat /\ C < COLS
    BY Ends
  <2>2. shown'.at = R * COLS + C
    OBVIOUS
  <2> HIDE DEF R, C
  <2>3. (R * COLS + C) \div COLS = R /\ (R * COLS + C) % COLS = C
    BY <2>1, PlaceOfCell, Zenon
  <2>4. row0' = R + 1 /\ col0' = C
    BY <2>2, <2>3, Zenon
  <2>5. QED
    BY <2>4, Zenon DEF R, C
<1>4. text0' = Append(text0, w)
  BY SMTT(30)
<1>5. ~Over(w, c) => /\ lines0' = Rows(P) /\ row0' = row0 /\ col0' = to
                     /\ Promise!MoveTo(to, Rows(P))
  <2> SUFFICES ASSUME ~Over(w, c)
               PROVE  /\ lines0' = Rows(P) /\ row0' = row0 /\ col0' = to
                      /\ Promise!MoveTo(to, Rows(P))
    OBVIOUS
  <2>1. EndPage(w, s, r, c) = P /\ EndRow(w, r, c) = r /\ EndColumn(w, c) = to /\ to < COLS
    BY Outcome
  <2>2. lines0' = Rows(P) /\ row0' = row0 /\ col0' = to
    BY <1>1, <1>2, <1>3, <2>1, Zenon
  <2>3. Promise!MoveTo(to, Rows(P))
    BY <2>1, <2>2, Zenon DEF Promise!MoveTo
  <2>4. QED
    BY <2>2, <2>3
<1>6. Over(w, c) => Promise!NewLine(Rows(P))
  <2> SUFFICES ASSUME Over(w, c) PROVE Promise!NewLine(Rows(P))
    OBVIOUS
  <2>1. CASE r + 1 < ROWS
    <3>1. EndPage(w, s, r, c) = P /\ EndRow(w, r, c) = r + 1 /\ EndColumn(w, c) = 0
      BY <2>1, Outcome
    <3>2. lines0' = Rows(P) /\ row0' = row0 + 1 /\ col0' = 0 /\ row0 < ROWS
      BY <1>1, <1>2, <1>3, <2>1, <3>1, Zenon
    <3>3. QED
      BY <3>2, Zenon DEF Promise!NewLine
  <2>2. CASE ~(r + 1 < ROWS)
    <3>1. EndPage(w, s, r, c) = Lifted(P) /\ EndRow(w, r, c) = r /\ EndColumn(w, c) = 0
      BY <2>2, Outcome
    <3>2. Rows(Lifted(P)) = Append(Tail(Rows(P)), Promise!BlankLine)
      BY Pages, RowsLifted
    <3>3. lines0' = Append(Tail(Rows(P)), Promise!BlankLine)
      BY <1>1, <3>1, <3>2, Zenon
    <3>4. row0' = row0 /\ col0' = 0 /\ ~(row0 < ROWS)
      BY <1>1, <1>2, <1>3, <2>2, <3>1, Zenon
    <3>5. QED
      BY <3>3, <3>4, Zenon DEF Promise!NewLine
  <2>3. QED
    BY <2>1, <2>2, Zenon
<1>7. w.ch # "LF" => Promise!MoveTo(to, Rows(P))
  <2>1. CASE to < COLS
    <3>1. w.ch # "LF" => ~Over(w, c)
      BY <2>1, Ends DEF Over
    <3>2. QED
      BY <1>5, <3>1, Zenon
  <2>2. CASE ~(to < COLS)
    <3>1. to \in Nat /\ to >= COLS
      BY <2>2, Ends
    <3>2. Promise!NewLine(Rows(P))
      BY <1>6, <3>1, Zenon DEF Over
    <3>3. QED
      BY <2>2, <3>2, Zenon DEF Promise!MoveTo
  <2>3. QED
    BY <2>1, <2>2, Zenon
<1>8. CASE Printable(w.ch)
  <2>1. w.ch # "LF" /\ w.ch \notin Controls /\ to = c + 1
        /\ P = [s EXCEPT ![r * COLS + c] = w]
    BY <1>8 DEF Printable, Controls, ToColumn, Page
  <2>2. Rows(P) = Rewritten(Rows(s), r, c, w)
    BY <1>8, RowsOfGlyph
  <2>3. Rows(P) = [lines0 EXCEPT ![row0][col0] = w]
    BY <1>1, <1>2, <2>2, Zenon DEF Rewritten
  <2>4. Promise!MoveTo(col0 + 1, [lines0 EXCEPT ![row0][col0] = w])
    BY <1>2, <1>7, <2>1, <2>3, Zenon
  <2>5. QED
    BY <1>4, <2>1, <2>4, Zenon DEF Promise!Put, Promise!Glyph
<1>9. CASE ~Printable(w.ch)
  <2>1. Rows(P) = lines0
    BY <1>1, <1>9, Zenon DEF Page
  <2>2. CASE w.ch = "LF"
    BY <1>4, <1>6, <2>1, <2>2, Zenon DEF Over, Promise!Put, Promise!LineFeed
  <2>3. CASE w.ch = "BS"
    <3>1. to = IF col0 > 0 THEN col0 - 1 ELSE 0
      <4>1. to = IF c > 0 THEN c - 1 ELSE 0
        BY <1>9, <2>3 DEF Given, ToColumn, Column
      <4>2. QED
        BY <1>2, <4>1, Zenon
    <3>2. QED
      BY <1>4, <1>7, <2>1, <2>3, <3>1, Zenon DEF Promise!Put, Promise!Backspace
  <2>4. CASE w.ch = "TAB"
    <3>1. to = TAB * (c \div TAB + 1)
      <4>1. to = ((c + TAB) \div TAB) * TAB
        BY <1>9, <2>4 DEF ToColumn, Column
      <4>2. (c + TAB) \div TAB = c \div TAB + 1 /\ c \div TAB \in Nat
        BY NextTab DEF Given
      <4>3. (c \div TAB + 1) * TAB = TAB * (c \div TAB + 1)
        BY <4>2
      <4>4. QED
        BY <4>1, <4>2, <4>3, Zenon
    <3>2. to = TAB * (col0 \div TAB + 1)
      BY <1>2, <3>1, Zenon
    <3>3. Promise!MoveTo(TAB * (col0 \div TAB + 1), lines0)
      BY <1>7, <2>1, <2>4, <3>2, Zenon
    <3>4. QED
      BY <1>4, <2>4, <3>3, Zenon DEF Promise!Put, Promise!Tabulator
  <2>5. CASE w.ch = "CR"
    <3>1. to = 0
      BY <1>9, <2>5 DEF ToColumn, Column
    <3>2. QED
      BY <1>4, <1>7, <2>1, <2>5, <3>1, Zenon DEF Promise!Put, Promise!Return
  <2>6. CASE w.ch = "NUL"
    <3>1. to = c /\ ~Over(w, c)
      BY <1>9, <2>6 DEF Given, ToColumn, Column, Over
    <3>2. QED
      BY <1>2, <1>4, <1>5, <2>1, <2>6, <3>1, Zenon DEF Promise!Put, Promise!Nothing
  <2>7. QED
    BY <1>9, <2>2, <2>3, <2>4, <2>5, <2>6 DEF Printable, Controls
<1>10. QED
  BY <1>8, <1>9
-----------------------------------------------------------------------------
LEMMA InitTerminal == Init => TerminalInv
  BY DEF Init, TerminalInv, Busy, Places

(* A call begins where the last one ended.                                 *)
LEMMA CallBegins ==
  ASSUME ConsoleInv, TerminalInv, Call
  PROVE  \E w, s, r, c : Putting(w, s, r, c)'
<1>1. PICK w \in Words :
        /\ kpc = "idle" /\ word' = w /\ text' = Append(text, w)
        /\ kpc' = IF Printable(w.ch) THEN "cell" ELSE IF w.ch = "LF" THEN "lf" ELSE "ctl"
  <2>1. PICK ch \in KmainChars :
          /\ Kmain("idle", IF Printable(ch) THEN "cell" ELSE IF ch = "LF" THEN "lf" ELSE "ctl")
          /\ word' = [ch |-> ch, fg |-> fg]
          /\ text' = Append(text, word')
    BY DEF Call
  <2>2. [ch |-> ch, fg |-> fg] \in Words
    BY DEF ConsoleInv, TypeOK, Words
  <2>3. QED
    BY <2>1, <2>2 DEF Kmain
<1>2. UNCHANGED <<x, y, video, shown>>
  BY DEF Call, cursor
<1>3. /\ Screen(video) = shown.screen /\ shown.at = y * COLS + x
      /\ x \in Nat /\ x < COLS /\ y \in Nat /\ y < ROWS
  BY <1>1 DEF ConsoleInv, TypeOK, TerminalInv, Bounds, MayBeBelow, MayBeRight
<1>4. PICK s, r, c : s = shown.screen /\ r = y /\ c = x
  OBVIOUS
<1>5. Given(w, s, r, c)
  BY <1>3, <1>4, ScreenType DEF Given, ConsoleInv, TypeOK
<1>6. Progress(w, s, r, c)'
  <2> USE DEF Finding, Advancing, Feeding, Returning, Scrolling, Showing, InMoveCursor
  <2>1. kpc' \in {"cell", "lf", "ctl"} /\ x' = c /\ y' = r /\ Screen(video') = s
    BY <1>1, <1>2, <1>3, <1>4
  <2>2. Letters(w)'
    BY <1>1 DEF Letters, Printable, Controls
  <2>3. Columns(w, c)' /\ Lines(w, r, c)'
    BY <2>1 DEF Columns, Lines
  <2>4. Picture(w, s, r, c)'
    BY <2>1 DEF Picture
  <2>5. QED
    BY <2>2, <2>3, <2>4 DEF Progress
<1>7. text' # <<>> /\ w = text'[Len(text')]
  BY <1>1 DEF ConsoleInv, TypeOK
<1>8. QED
  BY <1>2, <1>3, <1>4, <1>5, <1>6, <1>7 DEF Putting

(* The steps inside of a call.                                             *)
WithinCall ==
  \/ Control
  \/ LoadRow("cell", "add") \/ AddColumn("add", "write") \/ WriteCell
  \/ LoadColumn \/ StoreColumn
  \/ ColumnZero("lf", "lfload") \/ LoadRow("lfload", "lfstore") \/ StoreRow("lfstore", "wrap")
  \/ TestColumn
  \/ ColumnZero("crx", "crload") \/ LoadRow("crload", "crstore") \/ StoreRow("crstore", "scroll")
  \/ TestRow \/ LoadCell \/ StoreCell \/ BlankCell \/ EndScroll
  \/ CursorRow \/ CursorColumn
  \/ Select("selhigh", "high", "high") \/ WriteHigh
  \/ Select("sellow", "low", "low")

LEMMA WithinIsQuiet ==
  WithinCall => UNCHANGED <<text, shown>> /\ Busy /\ Busy' /\ (~cut => ~cut') /\ UNCHANGED irq
  BY DEF WithinCall, Busy, Kmain, history, Control, LoadRow, AddColumn, WriteCell,
         LoadColumn,
         StoreColumn, ColumnZero, StoreRow, TestColumn, TestRow, LoadCell, StoreCell,
         BlankCell, EndScroll, CursorRow, CursorColumn, Select, WriteHigh

LEMMA WithinProgress ==
  ASSUME NEW w, NEW s, NEW r, NEW c, Given(w, s, r, c), TypeOK, Progress(w, s, r, c),
         WithinCall
  PROVE  Progress(w, s, r, c)'
  BY ControlProgress, LoadRowCellProgress, AddColumnCellProgress, WriteCellProgress,
     LoadColumnProgress, StoreColumnProgress, LfZeroProgress, LfLoadProgress,
     LfStoreProgress, TestColumnProgress, CrZeroProgress, CrLoadProgress, CrStoreProgress,
     TestRowProgress, LoadCellProgress, StoreCellProgress, BlankCellProgress,
     EndScrollProgress, CursorRowProgress, CursorColumnProgress, SelectHighProgress,
     WriteHighProgress, SelectLowProgress, Zenon
  DEF WithinCall

(* With its last write the call has done what the terminal does at once.   *)
LEMMA CallEnds ==
  ASSUME ConsoleInv, ConsoleInv', ~cut, WriteLow,
         NEW w, NEW s, NEW r, NEW c, Putting(w, s, r, c)
  PROVE  /\ Screen(video') = shown'.screen /\ shown'.at = y' * COLS + x'
         /\ Promise!Put(w)
<1>1. /\ kpc = "low" /\ kpc' = "idle" /\ UNCHANGED <<x, y, video, text, cut>>
      /\ shown' = [screen |-> Screen(video), at |-> Location(crt')]
  BY DEF WriteLow, Kmain, cursor
<1>2. /\ x = EndColumn(w, c) /\ y = EndRow(w, r, c)
      /\ Screen(video) = EndPage(w, s, r, c)
  BY <1>1 DEF Putting, Progress, Columns, Lines, Picture, Showing, InMoveCursor
<1>3. Location(crt') = y' * COLS + x'
  BY <1>1 DEF ConsoleInv, Sent
<1>4. shown'.screen = EndPage(w, s, r, c)
      /\ shown'.at = EndRow(w, r, c) * COLS + EndColumn(w, c)
  BY <1>1, <1>2, <1>3
<1>5. Promise!Put(w)
  <2>1. Given(w, s, r, c) /\ shown.screen = s /\ shown.at = r * COLS + c /\ text # <<>>
        /\ w = text[Len(text)]
    BY DEF Putting
  <2>2. text \in Seq(Words) /\ kpc \notin {"clear", "idle"}
    BY <1>1 DEF ConsoleInv, TypeOK
  <2>3. QED
    BY <1>1, <1>4, <2>1, <2>2, PutStep
<1>6. QED
  BY <1>1, <1>3, <1>5

LEMMA NoHandlers == IrqChars = {} /\ irq = "none" => ~HandlerStep
  BY DEF HandlerStep, KeyIrq, IrqDebugBegin, IrqDebugPutc, IrqDebugEnd, Interrupt

(* Interrupts are disabled, or their handlers print nothing.              *)
Silent == IrqChars = {}

LEMMA TerminalStep ==
  ASSUME Silent, ConsoleInv, ConsoleInv', TerminalInv, Next
  PROVE  TerminalInv' /\ (Promise!Next \/ UNCHANGED Promise!vars)
<1> DEFINE written == IF kpc \in {"clear", "idle"} THEN text ELSE SubSeq(text, 1, Len(text) - 1)
<1>1. KmainStep
  BY NoHandlers DEF Next, TerminalInv, Silent
<1>2. UNCHANGED shown /\ written' = written => UNCHANGED Promise!vars
  BY Zenon DEF Promise!vars, Line
<1>3. CASE VgaClear
  <2>1. /\ kpc = "clear" /\ kpc' = "idle" /\ x' = 0 /\ y' = 0 /\ UNCHANGED <<text, cut, irq>>
        /\ video' = [n \in Cells |-> IF n < Size THEN Blank ELSE video[n]]
        /\ crt' = [high |-> 0, low |-> 0]
        /\ shown' = [screen |-> Screen(video'), at |-> Location(crt')]
    BY <1>3 DEF VgaClear, Kmain
  <2>2. Screen(video') = [n \in Places |-> Blank]
    BY <2>1, ScreenSize DEF Screen, Places
  <2>3. Location(crt') = 0 /\ y' * COLS + x' = 0
    BY <2>1, Constants DEF Location
  <2>4. UNCHANGED shown /\ written' = written
    BY <2>1, <2>2, <2>3 DEF TerminalInv
  <2>5. TerminalInv'
    BY <2>1, <2>2, <2>3 DEF TerminalInv, Busy
  <2>6. QED
    BY <1>2, <2>4, <2>5
<1>4. CASE DebugBegin \/ DebugEnd
  <2>1. /\ kpc = "idle" /\ kpc' = "idle"
        /\ UNCHANGED <<x, y, video, irq, cut, text, shown>>
    BY <1>4 DEF DebugBegin, DebugEnd, Kmain, cursor, history
  <2>2. TerminalInv'
    BY <2>1 DEF TerminalInv, Busy
  <2>3. QED
    BY <1>2, <2>1, <2>2
<1>5. CASE Call
  <2>1. /\ kpc = "idle" /\ kpc' \notin {"clear", "idle"} /\ UNCHANGED <<irq, cut, shown>>
    BY <1>5 DEF Call, Kmain
  <2>2. PICK w \in Words : text' = Append(text, w)
    BY <1>5 DEF Call, ConsoleInv, TypeOK, Words
  <2>3. SubSeq(Append(text, w), 1, Len(Append(text, w)) - 1) = text
    BY <2>2 DEF ConsoleInv, TypeOK
  <2>4. written = text /\ written' = text
    BY <2>1, <2>2, <2>3
  <2>5. TerminalInv'
    BY <1>5, <2>1, CallBegins DEF TerminalInv, Busy
  <2>6. QED
    BY <1>2, <2>1, <2>4, <2>5
<1>6. CASE WithinCall
  <2>1. UNCHANGED <<text, shown, irq>> /\ Busy /\ Busy' /\ ~cut'
    BY <1>6, WithinIsQuiet DEF TerminalInv
  <2>2. PICK w, s, r, c : Putting(w, s, r, c)
    BY <2>1 DEF TerminalInv
  <2>3. Putting(w, s, r, c)'
    <3>1. Given(w, s, r, c) /\ Progress(w, s, r, c) /\ TypeOK
      BY <2>2 DEF Putting, ConsoleInv
    <3>2. Progress(w, s, r, c)'
      BY <1>6, <3>1, WithinProgress
    <3>3. QED
      BY <2>1, <2>2, <3>2 DEF Putting
  <2>4. TerminalInv'
    BY <2>1, <2>3 DEF TerminalInv, Busy
  <2>5. written' = written
    BY <2>1 DEF Busy
  <2>6. QED
    BY <1>2, <2>1, <2>4, <2>5
<1>7. CASE WriteLow
  <2>1. kpc = "low" /\ kpc' = "idle" /\ UNCHANGED <<irq, cut, text>>
    BY <1>7 DEF WriteLow, Kmain
  <2>2. PICK w, s, r, c : Putting(w, s, r, c)
    BY <2>1 DEF TerminalInv, Busy
  <2>3. /\ Screen(video') = shown'.screen /\ shown'.at = y' * COLS + x'
        /\ Promise!Put(w)
    BY <1>7, <2>2, CallEnds DEF TerminalInv
  <2>4. w \in Words
    BY <2>2 DEF Putting, Given
  <2>5. Promise!Next
    BY <2>3, <2>4 DEF Promise!Next
  <2>6. TerminalInv'
    BY <2>1, <2>3 DEF TerminalInv, Busy
  <2>7. QED
    BY <2>5, <2>6
<1>8. QED
  BY <1>1, <1>3, <1>4, <1>5, <1>6, <1>7 DEF KmainStep, WithinCall

LEMMA TerminalStutter ==
  ASSUME TerminalInv, UNCHANGED vars
  PROVE  TerminalInv' /\ UNCHANGED Promise!vars
<1>1. UNCHANGED <<x, y, video, index, crt, kpc, word, reg, loc, i, irq, cut, text, shown>>
  BY DEF vars, cursor, display, locals, history
<1>2. UNCHANGED Promise!vars
  BY <1>1, Zenon DEF Promise!vars, Line
<1>3. (\E w, s, r, c : Putting(w, s, r, c)) => \E w, s, r, c : Putting(w, s, r, c)'
  <2> SUFFICES ASSUME NEW w, NEW s, NEW r, NEW c, Putting(w, s, r, c)
               PROVE  Putting(w, s, r, c)'
    OBVIOUS
  <2>1. QED
    BY <1>1 DEF Putting, Progress, Letters, Columns, Lines, Picture
<1>4. QED
  BY <1>1, <1>2, <1>3 DEF TerminalInv, Busy

LEMMA TerminalBegins == Init => Promise!Init
<1> SUFFICES ASSUME Init PROVE Promise!Init
  OBVIOUS
<1> USE Constants
<1>1. shown = [screen |-> [n \in Places |-> Blank], at |-> 0] /\ text = <<>> /\ kpc = "clear"
  BY DEF Init, Places
<1>2. shown.at \div COLS + 1 = 1 /\ shown.at % COLS = 0
  <2>1. (0 * COLS + 0) \div COLS = 0 /\ (0 * COLS + 0) % COLS = 0
    BY PlaceOfCell
  <2>2. 0 * COLS + 0 = 0
    OBVIOUS
  <2>3. shown.at = 0
    BY <1>1
  <2>4. 0 \div COLS = 0 /\ 0 % COLS = 0
    BY <2>1, <2>2, Zenon
  <2>5. QED
    BY <2>3, <2>4
<1>3. \A n \in 1..ROWS : Line(n) = [k \in 0..(COLS - 1) |-> Blank]
  <2> SUFFICES ASSUME NEW n \in 1..ROWS PROVE Line(n) = [k \in 0..(COLS - 1) |-> Blank]
    OBVIOUS
  <2>1. \A k \in 0..(COLS - 1) : shown.screen[(n - 1) * COLS + k] = Blank
    BY <1>1, CellOfLine
  <2>2. QED
    BY <2>1 DEF Line
<1>4. QED
  BY <1>1, <1>2, <1>3, Zenon DEF Promise!Init, Promise!BlankLine

(* The accesses of vga_putc() to memory and to the ports of the display    *)
(* add up to a terminal, on which each character is printed at once.       *)
THEOREM ConsoleIsATerminal == Silent => (Spec => IsTerminal)
<1>1. Init => TerminalInv
  BY InitTerminal
<1>2. Silent /\ ConsoleInv /\ ConsoleInv' /\ TerminalInv /\ [Next]_vars => TerminalInv'
  BY TerminalStep, TerminalStutter
<1>3. Silent /\ ConsoleInv /\ ConsoleInv' /\ TerminalInv /\ [Next]_vars
        => [Promise!Next]_(Promise!vars)
  BY TerminalStep, TerminalStutter
<1>4. Init => Promise!Init
  BY TerminalBegins
<1>5. ASSUME Silent PROVE Spec => IsTerminal
  <2>1. ConsoleInv /\ ConsoleInv' /\ TerminalInv /\ [Next]_vars => TerminalInv'
    BY <1>2, <1>5
  <2>2. ConsoleInv /\ ConsoleInv' /\ TerminalInv /\ [Next]_vars => [Promise!Next]_(Promise!vars)
    BY <1>3, <1>5
  <2>3. QED
    BY <1>1, <1>4, <2>1, <2>2, ConsoleInvariant, PTL DEF Spec, IsTerminal, Promise!Spec
<1>6. QED
  BY <1>5
=============================================================================
