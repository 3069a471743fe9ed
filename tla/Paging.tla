------------------------------- MODULE Paging -------------------------------
(***************************************************************************)
(* The page tables that paging_init() builds (arch/x86/kernel/memory.c)    *)
(* while interrupt handlers use the memory they describe, and the page     *)
(* walk of the CPU.  Memory is counted in pages: ENTRIES of them to a      *)
(* table, ENTRIES tables to the directory.                                 *)
(***************************************************************************)
EXTENDS Integers

CONSTANTS
  ENTRIES,       \* entries of a table (1024)
  TableFrame     \* PAGE(first_page_table)

ASSUME EntriesAssumption == ENTRIES \in Nat /\ ENTRIES > 1
ASSUME TableAssumption   == TableFrame \in 0..(ENTRIES - 1)

VARIABLES
  ppc,      \* what paging_init() does next
  i,       \* its loop variable
  dir,     \* page_directory
  table,   \* first_page_table
  cr3,     \* is the directory loaded?
  pg,      \* the PG bit of cr0
  last     \* the page the kernel accessed last and the frame it reached

pagingVars == <<ppc, i, dir, table, cr3, pg, last>>

Indices == 0..(ENTRIES - 1)
Pages   == 0..(ENTRIES * ENTRIES - 1)
Fault   == -1

(* The tables are in .bss, which the loader has cleared.                   *)
Entry   == [present : BOOLEAN, write : BOOLEAN, user : BOOLEAN, frame : Nat]
Cleared == [present |-> FALSE, write |-> FALSE, user |-> FALSE, frame |-> 0]

TablesInit ==
  /\ ppc = "first" /\ i = 0
  /\ dir = [n \in Indices |-> Cleared] /\ table = [n \in Indices |-> Cleared]
  /\ cr3 = FALSE /\ pg = FALSE
  /\ last = [page |-> 0, to |-> 0]
-----------------------------------------------------------------------------
Mapped(frame) == [present |-> TRUE, write |-> TRUE, user |-> FALSE, frame |-> frame]

FirstEntry ==
  /\ ppc = "first" /\ ppc' = "rest"
  /\ dir' = [dir EXCEPT ![0] = Mapped(TableFrame)]
  /\ i' = 1
  /\ UNCHANGED <<table, cr3, pg, last>>

(* Only the flags of an entry are set, its address is left alone.          *)
Flagged(entry, present) == [entry EXCEPT !.present = present, !.write = TRUE, !.user = FALSE]

(* Definitions marked "seeded" are deliberate faults, as in Interrupts.    *)
(* Seeded: the entries get the flags of the first one.                     *)
PresentEntry ==
  /\ ppc = "rest" /\ i < ENTRIES
  /\ dir' = [dir EXCEPT ![i] = Flagged(@, TRUE)]
  /\ i' = i + 1
  /\ UNCHANGED <<ppc, table, cr3, pg, last>>

(* The entries that follow are not present.                                *)
AbsentEntry ==
  /\ ppc = "rest" /\ i < ENTRIES
  /\ dir' = [dir EXCEPT ![i] = Flagged(@, FALSE)]
  /\ i' = i + 1
  /\ UNCHANGED <<ppc, table, cr3, pg, last>>

DirectoryDone ==
  /\ ppc = "rest" /\ i = ENTRIES
  /\ ppc' = "table" /\ i' = 0
  /\ UNCHANGED <<dir, table, cr3, pg, last>>

(* Seeded: the first page is numbered 1.                                   *)
ShiftedPage ==
  /\ ppc = "table" /\ i < ENTRIES
  /\ table' = [table EXCEPT ![i] = Mapped(i + 1)]
  /\ i' = i + 1
  /\ UNCHANGED <<ppc, dir, cr3, pg, last>>

MapPage ==
  /\ ppc = "table" /\ i < ENTRIES
  /\ table' = [table EXCEPT ![i] = Mapped(i)]
  /\ i' = i + 1
  /\ UNCHANGED <<ppc, dir, cr3, pg, last>>

TableDone ==
  /\ ppc = "table" /\ i = ENTRIES
  /\ ppc' = "load"
  /\ UNCHANGED <<i, dir, table, cr3, pg, last>>

LoadPageDirectory ==
  /\ ppc = "load" /\ ppc' = "enable"
  /\ cr3' = TRUE
  /\ UNCHANGED <<i, dir, table, pg, last>>

EnablePaging ==
  /\ ppc = "enable" /\ ppc' = "done"
  /\ pg' = TRUE
  /\ UNCHANGED <<i, dir, table, cr3, last>>
-----------------------------------------------------------------------------
(* The walk of the CPU.  An entry of the directory that leads elsewhere    *)
(* than to first_page_table would have it read whatever is there.          *)
Walk(page) ==
  LET d == dir[page \div ENTRIES]
      t == table[page % ENTRIES]
  IN IF ~d.present THEN {Fault}
     ELSE IF d.frame # TableFrame THEN Pages \cup {Fault}
     ELSE IF ~t.present THEN {Fault}
     ELSE {t.frame}

Reached(page) == IF ~pg THEN {page} ELSE IF cr3 THEN Walk(page) ELSE Pages \cup {Fault}

(* kmain and the handlers use memory at any time: code, stack, tables and  *)
(* video memory below 4 MB, and the page that kmain reads to fault.        *)
Access ==
  /\ \E page \in 0..ENTRIES : \E to \in Reached(page) : last' = [page |-> page, to |-> to]
  /\ UNCHANGED <<ppc, i, dir, table, cr3, pg>>

TablesNext ==
  \/ FirstEntry \/ AbsentEntry \/ DirectoryDone \/ MapPage \/ TableDone
  \/ LoadPageDirectory \/ EnablePaging \/ Access

TablesSpec == TablesInit /\ [][TablesNext]_pagingVars
-----------------------------------------------------------------------------
TablesTypeOK ==
  /\ ppc \in {"first", "rest", "table", "load", "enable", "done"} /\ i \in 0..ENTRIES
  /\ dir \in [Indices -> Entry] /\ table \in [Indices -> Entry]
  /\ cr3 \in BOOLEAN /\ pg \in BOOLEAN
  /\ last \in [page : 0..ENTRIES, to : Pages \cup {Fault, ENTRIES}]

(* Switching paging on moves nothing under the kernel: in the middle of    *)
(* paging_init() or of a handler, every page below 4 MB is where it was.   *)
SwitchIsTransparent == last.page < ENTRIES => last.to = last.page

(* Once paging is on the address space is exactly the first table: what    *)
(* lies beyond it faults, the word that kmain reads at 0x400000 first.     *)
OnlyFirstTable ==
  pg => \A page \in Pages :
          Reached(page) = IF page < ENTRIES THEN {page} ELSE {Fault}
=============================================================================
