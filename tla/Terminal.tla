------------------------------ MODULE Terminal ------------------------------
(***************************************************************************)
(* What the console promises: a screen of ROWS lines of COLS cells to      *)
(* which words (a character with its colour) are written one at a time.    *)
(* Module Console implements it when no interrupt handler prints.          *)
(***************************************************************************)
EXTENDS Integers, Sequences

CONSTANTS
  COLS, ROWS, TAB,   \* the size of the screen and of its tabs
  Words, Blank,      \* what is written, and what a cleared cell holds
  Controls           \* the characters that move the cursor only

VARIABLES
  lines,   \* the lines of the screen, the top one first
  row,     \* where the cursor is: a line ...
  col,     \* ... and a column of it
  text     \* everything written so far

vars == <<lines, row, col, text>>

BlankLine == [c \in 0..(COLS - 1) |-> Blank]

Init ==
  /\ lines = [r \in 1..ROWS |-> BlankLine]
  /\ row = 1 /\ col = 0 /\ text = <<>>

(* The cursor goes to the start of the next line; below the last line the  *)
(* top one makes room.                                                     *)
NewLine(page) ==
  /\ col' = 0
  /\ IF row < ROWS
     THEN row' = row + 1 /\ lines' = page
     ELSE lines' = Append(Tail(page), BlankLine) /\ UNCHANGED row

(* A move inside the page, or past the end of a line.                      *)
MoveTo(column, page) ==
  IF column < COLS THEN col' = column /\ lines' = page /\ UNCHANGED row
                   ELSE NewLine(page)

Glyph(w) ==
  /\ w.ch \notin Controls
  /\ MoveTo(col + 1, [lines EXCEPT ![row][col] = w])

Backspace(w)  == w.ch = "BS"  /\ MoveTo(IF col > 0 THEN col - 1 ELSE 0, lines)
Tabulator(w)  == w.ch = "TAB" /\ MoveTo(TAB * (col \div TAB + 1), lines)
Return(w)     == w.ch = "CR"  /\ MoveTo(0, lines)
LineFeed(w)   == w.ch = "LF"  /\ NewLine(lines)
Nothing(w)    == w.ch = "NUL" /\ UNCHANGED <<lines, row, col>>

Put(w) ==
  /\ \/ Glyph(w) \/ Backspace(w) \/ Tabulator(w)
     \/ Return(w) \/ LineFeed(w) \/ Nothing(w)
  /\ text' = Append(text, w)

Next == \E w \in Words : Put(w)

Spec == Init /\ [][Next]_vars
=============================================================================
