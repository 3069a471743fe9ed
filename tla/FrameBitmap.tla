---------------------------- MODULE FrameBitmap -----------------------------
(***************************************************************************)
(* paging_init() (arch/x86/kernel/memory.c) and its stack: the bitmap of   *)
(* page frames, the loop that clears it, the loop that fills "the rest"    *)
(* with 0xFF, the loop that reserves the frames of the kernel, the tables, *)
(* and the calls that follow.  The array is on the stack.  The second loop *)
(* leaves it: it writes over the variables the loops work with, then over  *)
(* the return address or past it.  And the array may leave the stack: the  *)
(* calls push below it, which is where the page tables are.  All of this   *)
(* depends on the frame the compiler lays out, so the addresses are those  *)
(* of the -O0 build.  Only the bytes that are read again are singled out;  *)
(* the rest of a loop's writes is one step.                                *)
(***************************************************************************)
EXTENDS Integers

CONSTANTS
  StackTop,      \* default_stack_pointer
  Memories       \* values of mem_upper, in KB, that the loader may report

(* .bss ends with three tables of a page each and the stack; the kernel is *)
(* loaded at 1 MB, and lies in the 4 MB that paging_init() maps.           *)
ASSUME StackAssumption  ==
  StackTop \in Nat /\ StackTop % 4096 = 0 /\ 1048576 <= StackTop /\ StackTop <= 4194304
ASSUME MemoryAssumption == Memories \subseteq Nat

STACK_SIZE  == 8192
RAM_MAXPAGE == 1048576
PAGE_SIZE    == 4096
PAGE_SIZE_KB == 4

(* The frame of paging_init(), as seen from kmain()'s and entry_point's.   *)
Ebp       == StackTop - 68
ArrayTop  == Ebp - 72     \* the array ends here, up to rounding
PointerAt == Ebp - 56     \* the pointer to the array
EndAt     == Ebp - 40     \* kernel_mem_end
CounterAt == Ebp - 28     \* page_num
ReturnAt  == Ebp + 4      \* the return address
Word(at)  == at..(at + 3)

(* Below the stack, in the order of the link: the directory, the first and *)
(* the second table, the last of which nobody uses, and below them the     *)
(* tables of gates and handlers.                                           *)
StackBottom     == StackTop - STACK_SIZE
SecondTableAt   == StackBottom - PAGE_SIZE
FirstTableAt    == StackBottom - 2 * PAGE_SIZE
DirectoryAt     == StackBottom - 3 * PAGE_SIZE
EntryAt(number) == FirstTableAt + 4 * number

(* No call of paging_init(), with a handler at its deepest point, pushes   *)
(* more: printk() needs about 390 bytes down to outb(), and an interrupt   *)
(* of the keyboard 360.                                                    *)
Deepest == 768

VARIABLES
  mem_upper,   \* the loader's report
  loop,        \* the part of paging_init() that runs
  page_num,    \* its counter
  mem_bitmap,  \* the pointer to the array
  filled,      \* <<first, last>>: runs of bytes that were set to 0xFF
  marked,      \* <<pointer, first, last>>: runs of frames that were reserved
  pushed       \* addresses of the words pushed since the tables were built

bitmapVars == <<mem_upper, loop, page_num, mem_bitmap, filled, marked, pushed>>
-----------------------------------------------------------------------------
(* kmain() multiplies by 1024 and paging_init() divides by 4096, both in   *)
(* 32 bits: in KB, the report wraps at 4 GB.                               *)
Reported(kb)   == kb % 4194304
TotalPages(kb) == Reported(kb) \div PAGE_SIZE_KB

BitmapSize(kb) == TotalPages(kb) \div 8

(* Definitions marked "seeded" are deliberate faults, as in Interrupts.    *)
(* Seeded: an array of words, of as many entries as there are bytes.       *)
ArrayOfWords(kb) == ArrayTop - 16 * ((4 * BitmapSize(kb) + 15) \div 16)

(* The array is a multiple of 16 bytes below what precedes it.             *)
Array(kb) == ArrayTop - 16 * ((BitmapSize(kb) + 15) \div 16)

(* Seeded: the fill ends where the bitmap of 128 MB does.                  *)
FillEndTooSmall == RAM_MAXPAGE \div 256

FillEnd == RAM_MAXPAGE \div 8

(* PAGE(kernel_mem_end), once the fill is over.                            *)
Inside(byte, run) == run[1] <= byte /\ byte <= run[2]
Filled(byte) == \E run \in filled : Inside(byte, run)
KernelPages == IF Filled(EndAt) THEN RAM_MAXPAGE - 1 ELSE 2048

BitmapInit ==
  /\ mem_upper \in Memories
  /\ loop = "clear" /\ page_num = 0
  /\ mem_bitmap = Array(mem_upper)
  /\ filled = {} /\ marked = {} /\ pushed = {}

(* The array, or what is pushed below it, is on the tables of gates and    *)
(* handlers.                                                               *)
Overrun == Array(mem_upper) - Deepest < DirectoryAt

(* The first loop stays inside the array.                                  *)
Clear ==
  /\ loop = "clear" /\ ~Overrun
  /\ loop' = "fill" /\ page_num' = BitmapSize(mem_upper)
  /\ UNCHANGED <<mem_upper, mem_bitmap, filled, marked, pushed>>

(* It clears the gates, or a handler may be overwritten: the next          *)
(* interrupt goes anywhere, and nothing is said of what follows.           *)
ClearGates ==
  /\ loop = "clear" /\ Overrun
  /\ loop' = "overrun"
  /\ UNCHANGED <<mem_upper, page_num, mem_bitmap, filled, marked, pushed>>
-----------------------------------------------------------------------------
Power == <<1, 256, 65536, 16777216>>

(* A word in memory with one of its bytes, 0 the lowest, set to 0xFF.      *)
Ones(word, byte) == word + (255 - ((word \div Power[byte + 1]) % 256)) * Power[byte + 1]

(* The bytes of its own pointer and counter that the fill would reach next.*)
From == mem_bitmap + page_num
Own  == {b \in Word(PointerAt) \cup Word(CounterAt) :
           From <= b /\ b < mem_bitmap + FillEnd}

(* The fill up to such a byte; the counter is then incremented.            *)
FillOwn ==
  /\ loop = "fill" /\ page_num < FillEnd /\ Own # {}
  /\ \E b \in Own :
       /\ \A c \in Own : b <= c
       /\ filled' = filled \cup {<<From, b>>}
       /\ IF b \in Word(PointerAt)
          THEN /\ mem_bitmap' = Ones(mem_bitmap, b - PointerAt)
               /\ page_num' = page_num + (b - From) + 1
          ELSE /\ page_num' = Ones(page_num + (b - From), b - CounterAt) + 1
               /\ UNCHANGED mem_bitmap
  /\ UNCHANGED <<mem_upper, loop, marked, pushed>>

FillRest ==
  /\ loop = "fill"
  /\ page_num < FillEnd => Own = {}
  /\ filled' = IF page_num < FillEnd
               THEN filled \cup {<<From, mem_bitmap + FillEnd - 1>>} ELSE filled
  /\ loop' = "reserve" /\ page_num' = 0
  /\ UNCHANGED <<mem_upper, mem_bitmap, marked, pushed>>
-----------------------------------------------------------------------------
(* set_page_frame_used(page) sets one bit.  The frames whose bit is a zero *)
(* of the pointer itself; its highest byte is never the first to have one. *)
Frame(byte, bit) == 8 * (PointerAt + byte - mem_bitmap) + bit
BitValue(byte, bit) == Power[byte + 1] * <<1, 2, 4, 8, 16, 32, 64, 128>>[bit + 1]
OwnBits == {p \in (0..2) \X (0..7) :
              /\ page_num <= Frame(p[1], p[2]) /\ Frame(p[1], p[2]) < KernelPages
              /\ (mem_bitmap \div BitValue(p[1], p[2])) % 2 = 0}

ReserveOwn ==
  /\ loop = "reserve" /\ OwnBits # {}
  /\ \E p \in OwnBits :
       /\ \A q \in OwnBits : Frame(p[1], p[2]) <= Frame(q[1], q[2])
       /\ marked' = marked \cup {<<mem_bitmap, page_num, Frame(p[1], p[2])>>}
       /\ mem_bitmap' = mem_bitmap + BitValue(p[1], p[2])
       /\ page_num' = Frame(p[1], p[2]) + 1
  /\ UNCHANGED <<mem_upper, loop, filled, pushed>>

ReserveRest ==
  /\ loop = "reserve" /\ OwnBits = {}
  /\ marked' = marked \cup {<<mem_bitmap, page_num, KernelPages - 1>>}
  /\ loop' = "tables" /\ page_num' = KernelPages
  /\ UNCHANGED <<mem_upper, mem_bitmap, filled, pushed>>
-----------------------------------------------------------------------------
(* The directory and the first table are written, over whatever the loops  *)
(* and the calls before have left there.                                   *)
BuildTables ==
  /\ loop = "tables" /\ loop' = "calls"
  /\ UNCHANGED <<mem_upper, page_num, mem_bitmap, filled, marked, pushed>>

(* printk(), twice, and register_interrupt_handler() have two arguments    *)
(* and __load_page_directory() has one, at 12 and 16 bytes below the array *)
(* with the return address below them, and there the frame of the callee;  *)
(* __enable_paging() has no argument.  Calls in calls and handlers push    *)
(* below.  Then the last of these calls sets PG.                           *)
Below(words) == {Array(mem_upper) - 4 * w : w \in words}

PushAndEnable ==
  /\ loop = "calls" /\ loop' = "paging"
  /\ \E depth \in {6, Deepest \div 4} : pushed' = Below({1, 3, 4, 5, 6} \cup 7..depth)
  /\ UNCHANGED <<mem_upper, page_num, mem_bitmap, filled, marked>>

BitmapNext ==
  \/ Clear \/ ClearGates \/ FillOwn \/ FillRest \/ ReserveOwn \/ ReserveRest
  \/ BuildTables \/ PushAndEnable

BitmapSpec == BitmapInit /\ [][BitmapNext]_bitmapVars
-----------------------------------------------------------------------------
LoopsDone == {"tables", "calls", "paging"}

(* The loops know where they are.                                          *)
BitmapTypeOK ==
  /\ mem_upper \in Memories
  /\ loop \in {"clear", "overrun", "fill", "reserve"} \cup LoopsDone
  /\ page_num \in Nat /\ mem_bitmap \in Nat
  /\ \A run \in filled : run[1] \in Nat /\ run[2] \in Nat
  /\ \A run \in marked : run[1] \in Nat /\ run[2] \in Nat /\ run[3] \in Nat
  /\ pushed \subseteq Int

(* On a machine of up to 355 MB (or 4 GB more: the report wraps) paging is *)
(* switched on with the directory and the first table as they were built,  *)
(* and with its gates and handlers: neither the loops nor what the calls   *)
(* and the interrupts in them push reaches further than the second table.  *)
TablesIntact ==
  Reported(mem_upper) <= 355 * 1024 =>
    /\ loop # "overrun"
    /\ \A at \in pushed : SecondTableAt <= at
    /\ \A run \in filled : SecondTableAt <= run[1]
    /\ \A run \in marked : SecondTableAt <= run[1] + run[2] \div 8

(* A comment of paging_init() (line 99): "We will fill all 1024   *)
(* entries in the table, mapping 4 megabytes".  When PG is set they are    *)
(* still what they were filled with.                                       *)
FourMegabytesMapped ==
  loop = "paging" => \A number \in 0..1023 : EntryAt(number) \notin pushed

(* The address paging_init() returns to is left alone or is 0xFFFFFFFF,    *)
(* the two outcomes of Interrupts!EnablePaging, and which of them only     *)
(* depends on where the array starts in its 256 bytes.                     *)
Hit(byte) ==
  \/ Filled(byte)
  \/ \E run \in marked : /\ run[1] + run[2] \div 8 <= byte
                         /\ byte <= run[1] + run[3] \div 8
ReturnLost == {b \in Word(ReturnAt) : Hit(b) \/ b \in pushed}
ReturnsOrFaults ==
  loop \in LoopsDone =>
    /\ ReturnLost = IF Array(mem_upper) % 256 \in {196, 212} THEN Word(ReturnAt) ELSE {}
    /\ \A b \in ReturnLost : Filled(b)

(* "Pages reserved for kernel (the first 8MB of RAM ...)" (memory.c:76):   *)
(* after the third loop none of those in the bitmap is free.               *)
Frames(kb) == 0..(8 * BitmapSize(kb) - 1)
Used(f) ==
  \/ Filled(Array(mem_upper) + f \div 8)
  \/ \E run \in marked : LET shift == 8 * (run[1] - Array(mem_upper))
                         IN run[2] + shift <= f /\ f <= run[3] + shift
KernelReserved ==
  loop = "tables" => \A f \in Frames(mem_upper) : f < 2048 => Used(f)
=============================================================================
