------------------------------- MODULE Clock --------------------------------
(***************************************************************************)
(* The clock (kernel/timer.c): timer_init() splits a divisor into the two  *)
(* bytes the PIT wants and waits in between by the time stamp counter;     *)
(* timer_callback() increments a 64-bit counter; get_clock_tick() reads it *)
(* as two words of 32 bits, between which ticks may fall; and              *)
(* print_timer_ticks() (kernel/main.c) hands it to "%u", which takes one   *)
(* word.  How interrupts arrive is the subject of Interrupts.              *)
(***************************************************************************)
EXTENDS Integers, Sequences

CONSTANTS
  WordSize,     \* the number of values of a word (2^32)
  TscSize,      \* the number of values of the time stamp counter (2^64)
  SomeTime,     \* cycles that WAIT_SOME_TIME() waits (1000000)
  Jump,         \* most cycles between two steps
  Frequencies,  \* that timer_init() may be called with
  MaxTicks      \* bound on the ticks

ASSUME WordAssumption == WordSize \in Nat /\ WordSize > 1
ASSUME TscAssumption  == /\ TscSize \in Nat /\ SomeTime \in Nat /\ Jump \in Nat \ {0}
                         /\ SomeTime + Jump < TscSize
ASSUME TickAssumption == MaxTicks \in Nat
(* timer_init() divides by its argument, and kmain() passes 100.           *)
ASSUME FrequencyAssumption == Frequencies \subseteq Nat \ {0}

VARIABLES
  pc,          \* the next step of kmain()
  frequency,
  tsc, start,  \* the time stamp counter and the copy in WAIT_SOME_TIME()
  pit,         \* the bytes written to port 0x40 since the command
  low, high,   \* timer_ticks
  order,       \* which word the compiled get_clock_tick() reads first
  rlow, rhigh, \* the words it has read
  printed,     \* what print_timer_ticks() printed, -1 before
  count,       \* history: ticks so far
  before       \* history: ticks when get_clock_tick() was called

tickVars == <<low, high, count>>
readVars == <<rlow, rhigh, printed, before>>
clockVars == <<pc, frequency, order, tsc, start, pit, tickVars, readVars>>

ClockInit ==
  /\ pc = "register" /\ frequency \in Frequencies
  /\ tsc \in 0..(TscSize - 1) /\ start = 0
  /\ pit = <<>>
  /\ low = 0 /\ high = 0 /\ count = 0
  /\ order \in {"low", "high"} /\ rlow = 0 /\ rhigh = 0 /\ printed = -1 /\ before = 0
-----------------------------------------------------------------------------
(* kmain() runs from one step to the next; meanwhile time passes.          *)
Kmain(from, to) ==
  /\ pc = from /\ pc' = to
  /\ \E d \in 1..Jump : tsc' = (tsc + d) % TscSize
  /\ UNCHANGED <<frequency, order, tickVars>>

Register == Kmain("register", "command") /\ UNCHANGED <<start, pit, readVars>>

(* Two bytes will follow, the low one first; the chip counts in mode 3.    *)
Command ==
  /\ Kmain("command", "start1")
  /\ pit' = <<>>
  /\ UNCHANGED <<start, readVars>>

(* WAIT_SOME_TIME().                                                       *)
StartWait(from, to) ==
  /\ Kmain(from, to)
  /\ start' = tsc
  /\ UNCHANGED <<pit, readVars>>

(* Definitions marked "seeded" are deliberate faults, as in Interrupts.    *)
(* Seeded: signed, the difference is negative after the counter wraps.     *)
ElapsedSigned == tsc - start

Elapsed == (tsc - start) % TscSize

Wait(from, to) ==
  /\ Kmain(from, IF Elapsed < SomeTime THEN from ELSE to)
  /\ UNCHANGED <<start, pit, readVars>>

Oscillator == 1193180
Divisor    == Oscillator \div frequency

(* Seeded: both bytes are the low one.                                     *)
HighByteForgotten == Divisor % 256

LowByte  == Divisor % 256
HighByte == (Divisor \div 256) % 256

WriteByte(from, to, byte) ==
  /\ Kmain(from, to)
  /\ pit' = Append(pit, byte)
  /\ UNCHANGED <<start, readVars>>

(* get_clock_tick(), one word at a time.                                   *)
ReadWord(from, to, first) ==
  /\ Kmain(from, to)
  /\ IF (order = "low") = first THEN rlow' = low /\ UNCHANGED rhigh
                               ELSE rhigh' = high /\ UNCHANGED rlow
  /\ before' = IF first THEN count ELSE before
  /\ UNCHANGED <<start, pit, printed>>

(* "%u" takes the first of the two words on the stack.                     *)
FirstWord == rlow
PrintTicks ==
  /\ Kmain("print", "done")
  /\ printed' = FirstWord
  /\ UNCHANGED <<start, pit, rlow, rhigh, before>>

KmainStep ==
  \/ Register \/ Command
  \/ StartWait("start1", "wait1") \/ Wait("wait1", "low")
  \/ WriteByte("low", "start2", LowByte)
  \/ StartWait("start2", "wait2") \/ Wait("wait2", "high")
  \/ WriteByte("high", "delay", HighByte)
  \/ StartWait("delay", "first")
  \/ ReadWord("first", "second", TRUE) \/ ReadWord("second", "print", FALSE)
  \/ PrintTicks
-----------------------------------------------------------------------------
(* Seeded: the upper word is not told of the carry.                        *)
CarryForgotten == 0

Carry == IF low = WordSize - 1 THEN 1 ELSE 0

(* timer_callback(), which nothing interrupts.                             *)
TimerCallback ==
  /\ pc # "register" /\ count < MaxTicks
  /\ count' = count + 1
  /\ low' = (low + 1) % WordSize
  /\ high' = (high + Carry) % WordSize
  /\ UNCHANGED <<pc, frequency, order, tsc, start, pit, readVars>>

ClockNext == KmainStep \/ TimerCallback

(* A tick takes less than its period: kmain() goes on between two.         *)
ClockSpec == ClockInit /\ [][ClockNext]_clockVars /\ WF_clockVars(KmainStep)
-----------------------------------------------------------------------------
ClockTypeOK ==
  /\ pc \in {"register", "command", "start1", "wait1", "low", "start2", "wait2",
            "high", "delay", "first", "second", "print", "done"}
  /\ frequency \in Frequencies /\ order \in {"low", "high"}
  /\ tsc \in 0..(TscSize - 1) /\ start \in 0..(TscSize - 1)
  /\ pit \in Seq(0..255)
  /\ {low, high, rlow, rhigh} \subseteq 0..(WordSize - 1)
  /\ printed \in -1..(WordSize - 1)
  /\ count \in Nat /\ before \in 0..count

(* The bytes written, 0 for the largest count the chip knows, make the     *)
(* rate that was asked for, the next count being too slow, exactly for the *)
(* frequencies whose divisor the chip can count: "the divisor must be      *)
(* small enough to fit into 16-bits" (timer.c:45), and nothing checks it.  *)
Written == IF pc \in {"register", "command", "start1", "wait1", "low"} THEN 0
           ELSE IF pc \in {"start2", "wait2", "high"} THEN 1 ELSE 2
Reload == IF pit = <<0, 0>> THEN 65536 ELSE pit[1] + 256 * pit[2]
AsAskedFor ==
  Oscillator \div (Reload + 1) < frequency /\ frequency <= Oscillator \div Reload
RateIsRight ==
  /\ Len(pit) = Written
  /\ Written = 2 => (AsAskedFor <=> 19 <= frequency /\ frequency <= Oscillator)

(* What is printed is the lower word of a count the clock had during the   *)
(* call, wherever the ticks fall and whichever word is read first.         *)
PrintedIsACount ==
  printed # -1 => \E c \in before..count : printed = c % WordSize

(* The 64 bits that get_clock_tick() returns are a count the clock had     *)
(* during the call, unless the lower word wrapped meanwhile: then it may   *)
(* be off by a whole word, in the direction of what was read first.        *)
Wraps == WordSize * WordSize
Returned == rhigh * WordSize + rlow
Carried  == before \div WordSize # count \div WordSize
ReturnedOrTorn ==
  pc \in {"print", "done"} =>
    \E c \in before..count :
      \/ Returned = c % Wraps
      \/ Carried /\ Returned = (c + (IF order = "low" THEN WordSize ELSE -WordSize)) % Wraps

(* Once timer_init() has begun its waits end, wherever the time stamp      *)
(* counter starts.                                                         *)
WaitsEnd == pc # "register" ~> pc = "done"
=============================================================================
