----------------------------- MODULE Primitives -----------------------------
(***************************************************************************)
(* The primitives below the kernel: memset() (libkern/string.c), a byte at *)
(* a time, and the bit scans msb() and lsb() (asm/processor.h).  None of   *)
(* the code that is built calls them yet.  Memory has Size bytes, at the   *)
(* addresses 0 to Size - 1, after which addresses start again.             *)
(***************************************************************************)
EXTENDS Integers, FiniteSetsExt

CONSTANTS
  Size,       \* of memory, and the values of size_t (2^32)
  Bits,       \* of size_t (32)
  Values      \* that memset() is called with, ints

ASSUME MemoryAssumption  == Size \in Nat \ {0} /\ Bits \in Nat /\ Size = 2^Bits
ASSUME ValueAssumption == Values \subseteq Int

VARIABLES
  mpc,            \* the function that runs, "idle", or "done"
  dest, val, arg, \* what it was called with
  p, left,        \* the variables of memset()
  mem,
  ret,            \* what it has returned
  old             \* history: memory before the call

memVars == <<mpc, dest, val, arg, p, left, mem, ret, old>>

Addresses == 0..(Size - 1)
Untouched == 256     \* what is in memory before, no byte to tell it apart

PrimInit ==
  /\ mpc = "idle" /\ dest = 0 /\ val = 0 /\ arg = 0 /\ p = 0 /\ left = 0 /\ ret = 0
  /\ mem = [a \in Addresses |-> Untouched] /\ old = mem

CallMemset ==
  /\ mpc = "idle" /\ mpc' = "memset"
  /\ dest' \in Addresses /\ val' \in Values /\ arg' \in Addresses
  /\ p' = dest' /\ left' = arg' /\ old' = mem
  /\ UNCHANGED <<mem, ret>>

Byte(v) == v % 256

(* Definitions marked "seeded" are deliberate faults, as in Interrupts.    *)
(* Seeded: while(--n).                                                     *)
SetByteBefore ==
  /\ mpc = "memset" /\ left' = (left - 1) % Size
  /\ IF left' # 0
     THEN mem' = [mem EXCEPT ![p] = Byte(val)] /\ p' = (p + 1) % Size /\ UNCHANGED <<mpc, ret>>
     ELSE mpc' = "done" /\ ret' = dest /\ UNCHANGED <<mem, p>>
  /\ UNCHANGED <<dest, val, arg, old>>

(* while(n--): n is tested before it is decremented, and ends at its       *)
(* largest value.                                                          *)
SetByte ==
  /\ mpc = "memset" /\ left' = (left - 1) % Size
  /\ IF left # 0
     THEN mem' = [mem EXCEPT ![p] = Byte(val)] /\ p' = (p + 1) % Size /\ UNCHANGED <<mpc, ret>>
     ELSE mpc' = "done" /\ ret' = dest /\ UNCHANGED <<mem, p>>
  /\ UNCHANGED <<dest, val, arg, old>>

(* bsr and bsf leave the register of the result undefined for 0.           *)
Ones(i) == {b \in 0..(Bits - 1) : (i \div 2^b) % 2 = 1}
Bsr == [i \in Addresses |-> IF i = 0 THEN Addresses ELSE {Max(Ones(i))}]
Bsf == [i \in Addresses |-> IF i = 0 THEN Addresses ELSE {Min(Ones(i))}]

BitScan(name, scan) ==
  /\ mpc = "idle" /\ mpc' = name
  /\ arg' \in Addresses
  /\ IF arg' = 0 THEN ret' = Bits ELSE ret' \in scan[arg']
  /\ UNCHANGED <<dest, val, p, left, mem, old>>

Msb == BitScan("msb", Bsr)
Lsb == BitScan("lsb", Bsf)

PrimNext == CallMemset \/ SetByte \/ Msb \/ Lsb

PrimSpec == PrimInit /\ [][PrimNext]_memVars
-----------------------------------------------------------------------------
PrimTypeOK ==
  /\ mpc \in {"idle", "memset", "done", "msb", "lsb"}
  /\ {dest, arg, p, left, ret} \subseteq Addresses
  /\ mem \in [Addresses -> 0..Untouched]

(* memset() sets the n bytes from dest on, as many as size_t can say, to   *)
(* the lowest byte of val, returns dest, and touches no other byte at any  *)
(* time.                                                                   *)
SetsExactly ==
  mpc \in {"memset", "done"} =>
    \A a \in Addresses : IF (a - dest) % Size >= arg THEN mem[a] = old[a]
                         ELSE mpc = "done" => ret = dest /\ mem[a] = val % 256

(* msb() and lsb() return the position of the highest and the lowest bit   *)
(* that is set, and for 0 a number that is not the position of a bit.      *)
FindsBit ==
  /\ mpc = "msb" => IF arg = 0 THEN ret >= Bits ELSE 2^ret <= arg /\ arg < 2^(ret + 1)
  /\ mpc = "lsb" => IF arg = 0 THEN ret >= Bits ELSE arg % 2^ret = 0 /\ arg % 2^(ret + 1) # 0

(* Each routine leaves behind what it is called for.                       *)
Postconditions == SetsExactly /\ FindsBit
=============================================================================
