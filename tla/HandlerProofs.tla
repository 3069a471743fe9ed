--------------------------- MODULE HandlerProofs ----------------------------
(***************************************************************************)
(* Theorems about what interrupts do to the code they stop: the frame on   *)
(* the stack, for every content of the registers, every position in code,  *)
(* every set of vectors and every depth of nesting; and the clock, for     *)
(* words of any size, every frequency whose divisor fits, and any number   *)
(* of ticks between any two steps; and the translation of keys, for every  *)
(* keyboard whose legends are those of the table.                          *)
(***************************************************************************)
EXTENDS TrapFrame, Clock, Keyboard, Induction, TLAPS

Vectors == Exceptions \cup Irqs \cup {PageFault}
Trap == [vec : Vectors, code : Nat, access : Accesses, reg : [Names -> Nat],
         eip : Nat, eflags : 0..(2 * IF_BIT - 1), seg : {KERNEL_DS},
         sp : MaxFrame..StackWords, mem : [Address -> Nat]]

(* What the history says of a trap agrees with what the processor pushed.  *)
Honest(t) ==
  /\ t.vec \notin ErrorCode => t.code = 0
  /\ t.vec = PageFault => t.code = ErrorWord(t.access)

(* The words of trap t that are in memory m after three, five or fourteen  *)
(* pushes, and the words above them, which belong to the interrupted code. *)
Pushed3(m, t) == /\ m[t.sp - 1] = t.eflags /\ m[t.sp - 2] = KERNEL_CS
                 /\ m[t.sp - 3] = t.eip
Pushed5(m, t) == Pushed3(m, t) /\ m[t.sp - 4] = t.code /\ m[t.sp - 5] = t.vec
Pushed14(m, t) ==
  /\ Pushed5(m, t)
  /\ m[t.sp - 6] = t.reg["eax"] /\ m[t.sp - 7] = t.reg["ecx"]
  /\ m[t.sp - 8] = t.reg["edx"] /\ m[t.sp - 9] = t.reg["ebx"]
  /\ m[t.sp - 10] = t.sp - 5    /\ m[t.sp - 11] = t.reg["ebp"]
  /\ m[t.sp - 12] = t.reg["esi"] /\ m[t.sp - 13] = t.reg["edi"]
  /\ m[t.sp - 14] = WithLow(t.reg["eax"], KERNEL_DS)
Caller(m, t) == \A a \in Address : a >= t.sp => m[a] = t.mem[a]
Called(m, s, t) == s = t.sp - 15 /\ Pushed14(m, t) /\ Caller(m, t)

(* Where the innermost trap is.                                            *)
Stage ==
  LET t == Top IN
  /\ Caller(mem, t)
  /\ at = "entry" =>
       /\ reg = t.reg /\ Pushed3(mem, t)
       /\ IF t.vec \in ErrorCode
          THEN sp = t.sp - 4 /\ mem[t.sp - 4] = t.code ELSE sp = t.sp - 3
  /\ at = "save" => reg = t.reg /\ sp = t.sp - 5 /\ Pushed5(mem, t)
  /\ at = "call" => sp = t.sp - 14 /\ Pushed14(mem, t)
  /\ at \in {"code", "halted"} => Called(mem, sp, t)
  /\ at = "restore" => sp = t.sp - 14 /\ Pushed14(mem, t)
  /\ at \in {"sti", "iret"} => reg = t.reg /\ sp = t.sp - 3 /\ Pushed3(mem, t)

(* The handler that an inner trap interrupted has its frame in what that   *)
(* trap remembers of memory.                                               *)
Nested == \A k \in 1..(Len(traps) - 1) :
            Called(traps[k].mem, traps[k].sp, traps[k + 1])

Flags == at = "sti" => eflags < IF_BIT

TrapInv ==
  /\ TrapTypeOK /\ Flags
  /\ traps \in Seq(Trap) /\ \A k \in 1..Len(traps) : Honest(traps[k])
  /\ at # "code" => traps # <<>>
  /\ traps # <<>> => Stage
  /\ Nested
  /\ report # <<>> => at = "halted" /\ ReportTellsTheTruth
-----------------------------------------------------------------------------
LEMMA FrameConstants ==
  /\ IF_BIT = 512 /\ KERNEL_CS = 8 /\ KERNEL_DS = 16 /\ PageFault = 14 /\ MaxFrame = 15
  /\ Vectors \subseteq Nat /\ StackWords \in Nat
  /\ \A c \in Contents : c \in [Names -> Nat]
  /\ \A p \in Positions : p \in Nat
  /\ \A a \in Arithmetic : a \in 0..511
BY ContentsAssumption, CodeAssumption, ExceptionAssumption, StackAssumption
   DEF IF_BIT, KERNEL_CS, KERNEL_DS, PageFault, MaxFrame, Vectors

(* A frame is intact as long as the words above the stack pointer are.     *)
LEMMA CalledKept ==
  ASSUME NEW t \in Trap, NEW m, NEW m2, NEW s \in Nat, Called(m, s, t),
         \A a \in Address : a >= s => m2[a] = m[a]
  PROVE  Called(m2, s, t)
<1>1. t.sp \in 15..StackWords /\ s = t.sp - 15 /\ StackWords \in Nat
  BY FrameConstants DEF Trap, Called
<1>2. \A i \in 1..14 : t.sp - i \in Address /\ t.sp - i >= s
  BY <1>1 DEF Address
<1>3. \A i \in 1..14 : m2[t.sp - i] = m[t.sp - i]
  BY <1>2
<1>4. Pushed14(m2, t)
  BY <1>3 DEF Called, Pushed14, Pushed5, Pushed3
<1>5. Caller(m2, t)
  <2>1. \A a \in Address : a >= t.sp => a >= s
    BY <1>1 DEF Address
  <2> QED  BY <2>1 DEF Called, Caller
<1> QED  BY <1>1, <1>4, <1>5 DEF Called

LEMMA PushedKept ==
  ASSUME NEW t \in Trap, NEW m, NEW m2, NEW s \in Nat,
         \A a \in Address : a >= s => m2[a] = m[a]
  PROVE  /\ s <= t.sp /\ Caller(m, t) => Caller(m2, t)
         /\ s <= t.sp - 3 /\ Pushed3(m, t) => Pushed3(m2, t)
         /\ s <= t.sp - 5 /\ Pushed5(m, t) => Pushed5(m2, t)
         /\ s <= t.sp - 14 /\ Pushed14(m, t) => Pushed14(m2, t)
<1>1. t.sp \in 15..StackWords /\ StackWords \in Nat
  BY FrameConstants DEF Trap
<1>2. \A i \in 1..14 : t.sp - i \in Address
  BY <1>1 DEF Address
<1>3. \A i \in 1..14 : s <= t.sp - i => m2[t.sp - i] = m[t.sp - i]
  BY <1>2
<1>4. s <= t.sp /\ Caller(m, t) => Caller(m2, t)
  BY <1>1 DEF Caller, Address
<1>5. s <= t.sp - 3 /\ Pushed3(m, t) => Pushed3(m2, t)
  BY <1>1, <1>3 DEF Pushed3
<1>6. s <= t.sp - 5 /\ Pushed5(m, t) => Pushed5(m2, t)
  BY <1>1, <1>3, <1>5 DEF Pushed5
<1>7. s <= t.sp - 14 /\ Pushed14(m, t) => Pushed14(m2, t)
  BY <1>1, <1>3, <1>6 DEF Pushed14
<1> QED  BY <1>4, <1>5, <1>6, <1>7

(* The innermost trap, when there is one.                                  *)
LEMMA TopTyped ==
  ASSUME TrapInv, traps # <<>>
  PROVE  /\ Top \in Trap /\ Honest(Top) /\ Len(traps) \in Nat /\ Len(traps) > 0
         /\ Top.sp \in 15..StackWords /\ Top.eflags \in 0..1023 /\ Top.seg = 16
         /\ Top.code \in Nat /\ Top.vec \in Nat /\ Top.eip \in Nat
         /\ Top.reg \in [Names -> Nat] /\ Top.mem \in [Address -> Nat]
<1>1. traps \in Seq(Trap) /\ \A k \in 1..Len(traps) : Honest(traps[k])
  BY DEF TrapInv
<1>2. Len(traps) \in Nat /\ Len(traps) > 0 /\ 1 \in 1..Len(traps)
  BY <1>1
<1>3. Top \in Trap /\ Honest(Top)
  BY <1>1, <1>2 DEF Top
<1>4. /\ Top.vec \in Vectors /\ Top.code \in Nat /\ Top.eip \in Nat
      /\ Top.reg \in [Names -> Nat] /\ Top.mem \in [Address -> Nat]
      /\ Top.eflags \in 0..(2 * IF_BIT - 1) /\ Top.seg = KERNEL_DS
      /\ Top.sp \in MaxFrame..StackWords
  BY <1>3 DEF Trap
<1>5. Top.vec \in Nat /\ Top.eflags \in 0..1023 /\ Top.seg = 16 /\ Top.sp \in 15..StackWords
  <2>1. Top.vec \in Nat
    BY <1>4, FrameConstants, ZenonT(40)
  <2>2. Top.eflags \in 0..1023 /\ Top.seg = 16 /\ Top.sp \in 15..StackWords
    BY <1>4 DEF IF_BIT, KERNEL_DS, MaxFrame
  <2> QED  BY <2>1, <2>2
<1> QED  BY <1>2, <1>3, <1>4, <1>5

(* "mov ax, ds" and the pop of ds.                                         *)
LEMMA LowOfWithLow ==
  ASSUME NEW w \in Nat
  PROVE  WithLow(w, 16) \in Nat /\ Low(WithLow(w, 16)) = 16
<1>1. \A x \in Nat : (x - (x % 65536) + 16) % 65536 = 16
  OBVIOUS
<1>2. w - (w % 65536) + 16 \in Nat
  OBVIOUS
<1> QED  BY <1>1, <1>2 DEF WithLow, Low
-----------------------------------------------------------------------------
LEMMA TrapStart == TrapInit => TrapInv
<1> SUFFICES ASSUME TrapInit PROVE TrapInv
  OBVIOUS
<1> USE DEF TrapInit
<1>1. reg \in [Names -> Nat] /\ eip \in Nat /\ eflags \in 0..(2 * IF_BIT - 1)
  <2>1. reg \in [Names -> Nat] /\ eip \in Nat
    BY ContentsAssumption, CodeAssumption
  <2>2. eflags \in 0..(2 * IF_BIT - 1)
    BY CodeAssumption DEF IF_BIT
  <2> QED  BY <2>1, <2>2
<1>2. sp \in 0..StackWords /\ mem \in [Address -> Nat]
  BY StackAssumption DEF CallerWords
<1>3. TrapTypeOK
  BY <1>1, <1>2 DEF TrapTypeOK
<1>4. traps \in Seq(Trap) /\ Len(traps) = 0
  OBVIOUS
<1>5. Nested /\ Flags /\ at = "code" /\ traps = <<>> /\ report = <<>>
  BY <1>4 DEF Nested, Flags
<1> QED  BY <1>3, <1>4, <1>5 DEF TrapInv

(* The processor's own pushes.                                             *)
LEMMA EnterStep ==
  ASSUME TrapInv, NEW v \in Vectors, NEW code \in Nat, NEW access \in Accesses,
         v \notin ErrorCode => code = 0, v = PageFault => code = ErrorWord(access),
         Enter(v, code, access)
  PROVE  TrapInv'
<1> DEFINE t == [vec |-> v, code |-> code, access |-> access, reg |-> reg,
                 eip |-> eip, eflags |-> eflags, seg |-> seg, sp |-> sp, mem |-> mem]
<1>0. /\ at = "code" /\ at' = "entry" /\ sp >= MaxFrame /\ traps' = <<t>> \o traps
      /\ eflags' = eflags % IF_BIT
      /\ UNCHANGED <<reg, eip, seg, handlers, report>>
  BY DEF Enter
<1>1. TrapTypeOK /\ traps \in Seq(Trap) /\ report = <<>>
  BY <1>0 DEF TrapInv
<1>2. t \in Trap /\ Honest(t)
  <2>1. sp \in MaxFrame..StackWords
    BY <1>0, <1>1, FrameConstants DEF TrapTypeOK
  <2> QED  BY <1>1, <2>1 DEF Trap, TrapTypeOK, Honest
<1>3. /\ traps' \in Seq(Trap) /\ Len(traps') = Len(traps) + 1 /\ traps' # <<>>
      /\ traps'[1] = t /\ \A k \in 1..Len(traps) : traps'[k + 1] = traps[k]
  BY <1>0, <1>1, <1>2
<1>4. \A k \in 1..Len(traps') : Honest(traps'[k])
  <2> SUFFICES ASSUME NEW k \in 1..Len(traps') PROVE Honest(traps'[k])
    OBVIOUS
  <2>1. CASE k = 1
    BY <1>2, <1>3, <2>1
  <2>2. CASE k # 1
    <3>1. k - 1 \in 1..Len(traps) /\ traps'[(k - 1) + 1] = traps[k - 1]
      BY <1>1, <1>3, <2>2
    <3> QED  BY <1>1, <3>1 DEF TrapInv
  <2> QED  BY <2>1, <2>2
<1>5. sp \in 15..StackWords /\ StackWords \in Nat /\ mem \in [Address -> Nat]
  BY <1>0, <1>1, FrameConstants DEF TrapTypeOK
<1>6. \A i \in 1..4 : sp - i \in Address
  BY <1>5 DEF Address
<1>7. /\ mem' \in [Address -> Nat] /\ \A a \in Address : a >= sp => mem'[a] = mem[a]
      /\ mem'[sp - 1] = eflags /\ mem'[sp - 2] = KERNEL_CS /\ mem'[sp - 3] = eip
      /\ IF v \in ErrorCode THEN sp' = sp - 4 /\ mem'[sp - 4] = code ELSE sp' = sp - 3
  <2>0. eip \in Nat /\ eflags \in Nat /\ KERNEL_CS \in Nat
    BY <1>1, FrameConstants DEF TrapTypeOK
  <2>1. CASE v \in ErrorCode
    <3> DEFINE w == <<code, eip, KERNEL_CS, eflags>>
    <3>1. /\ sp' = sp - 4
          /\ mem' = [a \in Address |-> IF sp - 4 <= a /\ a < sp
                                        THEN w[a - sp + 4 + 1] ELSE mem[a]]
      BY <2>1 DEF Enter, Push
    <3>2. \A i \in 1..4 : w[i] \in Nat
      BY <2>0
    <3> HIDE DEF w
    <3>3. \A a \in Address : a >= sp => mem'[a] = mem[a]
      BY <3>1, <1>5 DEF Address
    <3>4. \A a \in Address : sp - 4 <= a /\ a < sp => mem'[a] = w[a - sp + 4 + 1]
      BY <3>1, <1>5 DEF Address
    <3>5. mem' \in [Address -> Nat]
      <4>1. \A a \in Address : sp - 4 <= a /\ a < sp => a - sp + 4 + 1 \in 1..4
        BY <1>5 DEF Address
      <4>2. \A a \in Address :
              (IF sp - 4 <= a /\ a < sp THEN w[a - sp + 4 + 1] ELSE mem[a]) \in Nat
        BY <3>2, <4>1, <1>5
      <4> QED  BY <3>1, <4>2
    <3>6. /\ mem'[sp - 1] = w[4] /\ mem'[sp - 2] = w[3] /\ mem'[sp - 3] = w[2]
          /\ mem'[sp - 4] = w[1]
      <4>1. /\ sp - 1 - sp + 4 + 1 = 4 /\ sp - 2 - sp + 4 + 1 = 3
            /\ sp - 3 - sp + 4 + 1 = 2 /\ sp - 4 - sp + 4 + 1 = 1
        BY <1>5
      <4> QED  BY <3>4, <4>1, <1>5, <1>6
    <3> QED  BY <2>1, <3>1, <3>3, <3>5, <3>6 DEF w
  <2>2. CASE v \notin ErrorCode
    <3> DEFINE w == <<eip, KERNEL_CS, eflags>>
    <3>1. /\ sp' = sp - 3
          /\ mem' = [a \in Address |-> IF sp - 3 <= a /\ a < sp
                                        THEN w[a - sp + 3 + 1] ELSE mem[a]]
      BY <2>2 DEF Enter, Push
    <3>2. \A i \in 1..3 : w[i] \in Nat
      BY <2>0
    <3> HIDE DEF w
    <3>3. \A a \in Address : a >= sp => mem'[a] = mem[a]
      BY <3>1, <1>5 DEF Address
    <3>4. \A a \in Address : sp - 3 <= a /\ a < sp => mem'[a] = w[a - sp + 3 + 1]
      BY <3>1, <1>5 DEF Address
    <3>5. mem' \in [Address -> Nat]
      <4>1. \A a \in Address : sp - 3 <= a /\ a < sp => a - sp + 3 + 1 \in 1..3
        BY <1>5 DEF Address
      <4>2. \A a \in Address :
              (IF sp - 3 <= a /\ a < sp THEN w[a - sp + 3 + 1] ELSE mem[a]) \in Nat
        BY <3>2, <4>1, <1>5
      <4> QED  BY <3>1, <4>2
    <3>6. mem'[sp - 1] = w[3] /\ mem'[sp - 2] = w[2] /\ mem'[sp - 3] = w[1]
      <4>1. /\ sp - 1 - sp + 3 + 1 = 3 /\ sp - 2 - sp + 3 + 1 = 2
            /\ sp - 3 - sp + 3 + 1 = 1
        BY <1>5
      <4> QED  BY <3>4, <4>1, <1>5, <1>6
    <3> QED  BY <2>2, <3>1, <3>3, <3>5, <3>6 DEF w
  <2> QED  BY <2>1, <2>2
<1>8. eflags' \in 0..(IF_BIT - 1)
  BY <1>0, <1>1 DEF TrapTypeOK, IF_BIT
<1>9. TrapTypeOK' /\ Flags'
  <2>1. sp' \in 0..StackWords
    BY <1>5, <1>7
  <2>2. eflags' \in 0..(2 * IF_BIT - 1) /\ eflags' < IF_BIT
    BY <1>8 DEF IF_BIT
  <2> QED  BY <1>0, <1>1, <1>7, <2>1, <2>2 DEF TrapTypeOK, Flags
<1>10. Stage'
  <2>1. Top' = t
    BY <1>3 DEF Top
  <2>2. Caller(mem', t) /\ Pushed3(mem', t)
    BY <1>7 DEF Caller, Pushed3
  <2> QED  BY <2>1, <2>2, <1>0, <1>7 DEF Stage
<1>11. Nested'
  <2> SUFFICES ASSUME NEW k \in 1..(Len(traps') - 1)
               PROVE  Called(traps'[k].mem, traps'[k].sp, traps'[k + 1])
    BY DEF Nested
  <2>1. CASE k = 1
    <3>1. traps # <<>> /\ traps'[2] = traps[1]
      BY <1>1, <1>3, <2>1
    <3>2. Called(mem, sp, Top)
      BY <3>1, <1>0 DEF TrapInv, Stage
    <3> QED  BY <2>1, <3>1, <3>2, <1>3 DEF Top
  <2>2. CASE k # 1
    <3>1. k - 1 \in 1..(Len(traps) - 1) /\ k - 1 \in 1..Len(traps) /\ k \in 1..Len(traps)
          /\ (k - 1) + 1 = k
      BY <1>1, <1>3, <2>2
    <3>2. traps'[k] = traps[k - 1] /\ traps'[k + 1] = traps[k]
      BY <1>3, <3>1
    <3>3. Called(traps[k - 1].mem, traps[k - 1].sp, traps[k])
      BY <3>1 DEF TrapInv, Nested
    <3> QED  BY <3>2, <3>3
  <2> QED  BY <2>1, <2>2
<1> QED  BY <1>0, <1>1, <1>3, <1>4, <1>9, <1>10, <1>11 DEF TrapInv
-----------------------------------------------------------------------------
(* The steps between entry and iret leave the history alone.               *)
LEMMA SameTraps ==
  ASSUME TrapInv, traps # <<>>, UNCHANGED traps, at # "halted", at' # "halted",
         UNCHANGED report, TrapTypeOK', Flags', Stage'
  PROVE  TrapInv'
<1>1. Nested'
  BY DEF TrapInv, Nested
<1>2. report' = <<>>
  BY DEF TrapInv
<1> QED  BY <1>1, <1>2 DEF TrapInv

LEMMA StubEntryStep == TrapInv /\ StubEntry => TrapInv'
<1> SUFFICES ASSUME TrapInv, StubEntry PROVE TrapInv'
  OBVIOUS
<1> DEFINE t == Top
<1>0. /\ at = "entry" /\ at' = "save" /\ traps # <<>> /\ traps' = traps
      /\ UNCHANGED <<reg, eip, eflags, seg, handlers, report>>
  BY DEF StubEntry, Goto, TrapInv
<1>1. TrapTypeOK /\ Stage /\ Flags
  BY <1>0 DEF TrapInv
<1>2. /\ t.sp \in 15..StackWords /\ StackWords \in Nat /\ t.vec \in Nat
      /\ t.vec \notin ErrorCode => t.code = 0
  BY <1>0, TopTyped, FrameConstants DEF Honest
<1>3. mem \in [Address -> Nat]
  BY <1>1 DEF TrapTypeOK
<1>4. /\ Caller(mem, t) /\ Pushed3(mem, t)
      /\ IF t.vec \in ErrorCode
         THEN sp = t.sp - 4 /\ mem[t.sp - 4] = t.code ELSE sp = t.sp - 3
  BY <1>0, <1>1 DEF Stage
<1>5. /\ sp' = t.sp - 5 /\ mem' \in [Address -> Nat]
      /\ \A a \in Address : a >= sp => mem'[a] = mem[a]
      /\ mem'[t.sp - 5] = t.vec /\ mem'[t.sp - 4] = t.code
  <2>1. CASE t.vec \in ErrorCode
    <3> DEFINE w == <<t.vec>>
    <3>1. /\ sp' = sp - 1
          /\ mem' = [a \in Address |-> IF sp - 1 <= a /\ a < sp
                                        THEN w[a - sp + 1 + 1] ELSE mem[a]]
      BY <2>1 DEF StubEntry, Push, ErrStubs, ErrorCode
    <3>2. sp = t.sp - 4 /\ mem[t.sp - 4] = t.code /\ sp - 1 \in Address /\ sp \in Address
      BY <2>1, <1>2, <1>4 DEF Address
    <3>3. w[1] = t.vec
      OBVIOUS
    <3> HIDE DEF w
    <3>4. (sp - 1) - sp + 1 + 1 = 1 /\ sp - 1 < sp
      BY <3>2 DEF Address
    <3>5. mem'[sp - 1] = t.vec
      <4>1. sp - 1 <= sp - 1
        BY <3>2 DEF Address
      <4>2. mem'[sp - 1] = w[(sp - 1) - sp + 1 + 1]
        BY <3>1, <3>2, <3>4, <4>1
      <4> QED  BY <3>3, <3>4, <4>2
    <3>6. \A a \in Address : a # sp - 1 => mem'[a] = mem[a]
      BY <3>1, <3>2 DEF Address
    <3>7. \A a \in Address : mem'[a] \in Nat
      BY <3>5, <3>6, <1>2, <1>3
    <3>8. mem' \in [Address -> Nat]
      BY <3>1, <3>7
    <3>9. sp - 1 = t.sp - 5 /\ t.sp - 4 = sp /\ \A a \in Address : a >= sp => a # sp - 1
      BY <3>2, <1>2 DEF Address
    <3> QED  BY <3>1, <3>2, <3>5, <3>6, <3>8, <3>9
  <2>2. CASE t.vec \notin ErrorCode
    <3> DEFINE w == <<t.vec, 0>>
    <3>1. /\ sp' = sp - 2
          /\ mem' = [a \in Address |-> IF sp - 2 <= a /\ a < sp
                                        THEN w[a - sp + 2 + 1] ELSE mem[a]]
      BY <2>2 DEF StubEntry, Push, ErrStubs, ErrorCode
    <3>2. sp = t.sp - 3 /\ sp - 1 \in Address /\ sp - 2 \in Address /\ sp \in Address
      BY <2>2, <1>2, <1>4 DEF Address
    <3>3. w[1] = t.vec /\ w[2] = 0
      OBVIOUS
    <3> HIDE DEF w
    <3>4. /\ (sp - 1) - sp + 2 + 1 = 2 /\ (sp - 2) - sp + 2 + 1 = 1
          /\ sp - 1 < sp /\ sp - 2 < sp /\ sp - 2 <= sp - 1
      BY <3>2 DEF Address
    <3>5. mem'[sp - 1] = 0 /\ mem'[sp - 2] = t.vec
      <4>1. sp - 2 <= sp - 2
        BY <3>2 DEF Address
      <4>2. mem'[sp - 1] = w[(sp - 1) - sp + 2 + 1]
        BY <3>1, <3>2, <3>4
      <4>3. mem'[sp - 2] = w[(sp - 2) - sp + 2 + 1]
        BY <3>1, <3>2, <3>4, <4>1
      <4> QED  BY <3>3, <3>4, <4>2, <4>3
    <3>6. \A a \in Address : a # sp - 1 /\ a # sp - 2 => mem'[a] = mem[a]
      BY <3>1, <3>2, SMTT(40) DEF Address
    <3>7. \A a \in Address : mem'[a] \in Nat
      BY <3>5, <3>6, <1>2, <1>3
    <3>8. mem' \in [Address -> Nat]
      BY <3>1, <3>7
    <3>9. /\ sp - 2 = t.sp - 5 /\ t.sp - 4 = sp - 1
          /\ \A a \in Address : a >= sp => a # sp - 1 /\ a # sp - 2
      BY <3>2, <1>2 DEF Address
    <3> QED  BY <2>2, <3>1, <3>2, <3>5, <3>6, <3>8, <3>9, <1>2
  <2> QED  BY <2>1, <2>2
<1>6. Caller(mem', t) /\ Pushed3(mem', t)
  <2>1. t \in Trap /\ sp \in Nat /\ sp <= t.sp - 3
    BY <1>0, <1>2, <1>4, TopTyped, SMTT(40)
  <2> QED  BY <2>1, <1>2, <1>4, <1>5, PushedKept
<1>7. TrapTypeOK' /\ Flags'
  <2>1. sp' \in 0..StackWords
    BY <1>2, <1>5
  <2> QED  BY <1>0, <1>1, <1>5, <2>1 DEF TrapTypeOK, Flags
<1>8. Stage'
  <2>1. Top' = t
    BY <1>0 DEF Top
  <2>2. reg' = t.reg /\ Pushed5(mem', t)
    BY <1>0, <1>1, <1>5, <1>6 DEF Stage, Pushed5
  <2> QED  BY <2>1, <2>2, <1>0, <1>5, <1>6 DEF Stage
<1> QED  BY <1>0, <1>7, <1>8, SameTraps

LEMMA SaveStateStep == TrapInv /\ SaveState => TrapInv'
<1> SUFFICES ASSUME TrapInv, SaveState PROVE TrapInv'
  OBVIOUS
<1> DEFINE t == Top
           ds == WithLow(reg["eax"], seg)
           w == <<ds, reg["edi"], reg["esi"], reg["ebp"], sp,
                  reg["ebx"], reg["edx"], reg["ecx"], reg["eax"]>>
<1>0. /\ at = "save" /\ at' = "call" /\ traps # <<>> /\ traps' = traps
      /\ reg' = [reg EXCEPT !["eax"] = WithLow(ds, KERNEL_DS)] /\ seg' = KERNEL_DS
      /\ UNCHANGED <<eip, eflags, handlers, report>>
  BY DEF SaveState, Goto, TrapInv
<1>1. TrapTypeOK /\ Stage /\ Flags
  BY <1>0 DEF TrapInv
<1>2. t.sp \in 15..StackWords /\ StackWords \in Nat /\ t \in Trap
  BY <1>0, TopTyped, FrameConstants
<1>3. /\ mem \in [Address -> Nat] /\ seg = 16 /\ KERNEL_DS = 16
      /\ \A r \in Names : reg[r] \in Nat
  BY <1>1, FrameConstants DEF TrapTypeOK
<1>4. Caller(mem, t) /\ Pushed5(mem, t) /\ sp = t.sp - 5 /\ reg = t.reg
  BY <1>0, <1>1 DEF Stage
<1>5. {"eax", "ebx", "ecx", "edx", "esi", "edi", "ebp"} = Names
  BY DEF Names
<1>6. ds \in Nat /\ WithLow(ds, KERNEL_DS) \in Nat
  BY <1>3, <1>5, LowOfWithLow
<1> HIDE DEF ds
<1>7. /\ sp' = sp - 9
      /\ mem' = [a \in Address |-> IF sp - 9 <= a /\ a < sp
                                    THEN w[a - sp + 9 + 1] ELSE mem[a]]
  BY DEF SaveState, Push, ds
<1>8. \A i \in 1..9 : w[i] \in Nat
  <2>1. /\ reg["edi"] \in Nat /\ reg["esi"] \in Nat /\ reg["ebp"] \in Nat /\ sp \in Nat
        /\ reg["ebx"] \in Nat /\ reg["edx"] \in Nat /\ reg["ecx"] \in Nat
        /\ reg["eax"] \in Nat
    BY <1>2, <1>3, <1>4, <1>5
  <2> QED  BY <2>1, <1>6
<1>9. /\ w[1] = ds /\ w[2] = reg["edi"] /\ w[3] = reg["esi"] /\ w[4] = reg["ebp"]
      /\ w[5] = sp /\ w[6] = reg["ebx"] /\ w[7] = reg["edx"] /\ w[8] = reg["ecx"]
      /\ w[9] = reg["eax"]
  OBVIOUS
<1> HIDE DEF w
<1>10. \A a \in Address : a >= sp => mem'[a] = mem[a]
  BY <1>2, <1>4, <1>7 DEF Address
<1>11. \A i \in 1..9 : mem'[sp - i] = w[10 - i]
  <2> SUFFICES ASSUME NEW i \in 1..9 PROVE mem'[sp - i] = w[10 - i]
    OBVIOUS
  <2>1. sp - i \in Address /\ sp - 9 <= sp - i /\ sp - i < sp
    BY <1>2, <1>4 DEF Address
  <2>2. (sp - i) - sp + 9 + 1 = 10 - i
    BY <1>2, <1>4
  <2> QED  BY <1>7, <2>1, <2>2
<1>12. mem' \in [Address -> Nat]
  <2>1. \A a \in Address : sp - 9 <= a /\ a < sp => a - sp + 9 + 1 \in 1..9
    BY <1>2, <1>4 DEF Address
  <2>2. \A a \in Address :
          (IF sp - 9 <= a /\ a < sp THEN w[a - sp + 9 + 1] ELSE mem[a]) \in Nat
    BY <2>1, <1>3, <1>8
  <2> QED  BY <1>7, <2>2
<1>13. Caller(mem', t) /\ Pushed5(mem', t)
  <2>1. sp \in Nat /\ sp <= t.sp - 5 /\ sp <= t.sp
    BY <1>2, <1>4
  <2> QED  BY <2>1, <1>2, <1>4, <1>10, PushedKept
<1>14. Pushed14(mem', t)
  <2>1. /\ sp - 1 = t.sp - 6 /\ sp - 2 = t.sp - 7 /\ sp - 3 = t.sp - 8
        /\ sp - 4 = t.sp - 9 /\ sp - 5 = t.sp - 10 /\ sp - 6 = t.sp - 11
        /\ sp - 7 = t.sp - 12 /\ sp - 8 = t.sp - 13 /\ sp - 9 = t.sp - 14
    BY <1>2, <1>4
  <2>2. /\ mem'[sp - 1] = w[9] /\ mem'[sp - 2] = w[8] /\ mem'[sp - 3] = w[7]
        /\ mem'[sp - 4] = w[6] /\ mem'[sp - 5] = w[5] /\ mem'[sp - 6] = w[4]
        /\ mem'[sp - 7] = w[3] /\ mem'[sp - 8] = w[2] /\ mem'[sp - 9] = w[1]
    BY <1>11
  <2>3. ds = WithLow(t.reg["eax"], KERNEL_DS)
    BY <1>3, <1>4 DEF ds
  <2> QED  BY <2>1, <2>2, <2>3, <1>4, <1>9, <1>13 DEF Pushed14
<1>15. TrapTypeOK' /\ Flags'
  <2>1. sp' \in 0..StackWords
    BY <1>2, <1>4, <1>7
  <2>2. reg' \in [Names -> Nat]
    BY <1>0, <1>1, <1>6 DEF TrapTypeOK
  <2> QED  BY <1>0, <1>1, <1>12, <2>1, <2>2 DEF TrapTypeOK, Flags
<1>16. Stage'
  <2>1. Top' = t
    BY <1>0 DEF Top
  <2>2. sp' = t.sp - 14
    BY <1>2, <1>4, <1>7
  <2> QED  BY <2>1, <2>2, <1>0, <1>13, <1>14 DEF Stage
<1> QED  BY <1>0, <1>15, <1>16, SameTraps

LEMMA CallHandlerStep == TrapInv /\ CallHandler => TrapInv'
<1> SUFFICES ASSUME TrapInv, CallHandler PROVE TrapInv'
  OBVIOUS
<1> DEFINE t == Top
           w == <<0>>
<1>0. /\ at = "call" /\ at' = "code" /\ traps # <<>> /\ traps' = traps
      /\ reg' \in Contents /\ eip' \in Positions /\ eflags' \in Arithmetic
      /\ UNCHANGED <<seg, handlers, report>>
  BY DEF CallHandler, Goto, TrapInv
<1>1. TrapTypeOK /\ Stage /\ Flags
  BY <1>0 DEF TrapInv
<1>2. t.sp \in 15..StackWords /\ StackWords \in Nat /\ t \in Trap
  BY <1>0, TopTyped, FrameConstants
<1>3. Caller(mem, t) /\ Pushed14(mem, t) /\ sp = t.sp - 14 /\ mem \in [Address -> Nat]
  BY <1>0, <1>1 DEF Stage, TrapTypeOK
<1>4. /\ sp' = sp - 1
      /\ mem' = [a \in Address |-> IF sp - 1 <= a /\ a < sp
                                    THEN w[a - sp + 1 + 1] ELSE mem[a]]
  BY DEF CallHandler, Push
<1>5. w[1] = 0
  OBVIOUS
<1> HIDE DEF w
<1>6. \A a \in Address : a >= sp => mem'[a] = mem[a]
  BY <1>2, <1>3, <1>4 DEF Address
<1>7. mem' \in [Address -> Nat]
  <2>1. \A a \in Address : sp - 1 <= a /\ a < sp => a - sp + 1 + 1 = 1
    BY <1>2, <1>3, SMTT(40) DEF Address
  <2>2. \A a \in Address :
          (IF sp - 1 <= a /\ a < sp THEN w[a - sp + 1 + 1] ELSE mem[a]) \in Nat
    BY <2>1, <1>3, <1>5
  <2> QED  BY <1>4, <2>2
<1>8. sp \in Nat /\ sp <= t.sp /\ sp <= t.sp - 14 /\ sp - 1 = t.sp - 15
  BY <1>2, <1>3
<1>9. Caller(mem', t) /\ Pushed14(mem', t)
  BY <1>2, <1>3, <1>6, <1>8, PushedKept
<1>10. TrapTypeOK' /\ Flags'
  <2>1. sp' \in 0..StackWords
    BY <1>2, <1>4, <1>8
  <2>2. reg' \in [Names -> Nat] /\ eip' \in Nat
    BY <1>0, ContentsAssumption, CodeAssumption
  <2>3. eflags' \in 0..(2 * IF_BIT - 1)
    BY <1>0, CodeAssumption DEF IF_BIT
  <2> QED  BY <1>0, <1>1, <1>7, <2>1, <2>2, <2>3 DEF TrapTypeOK, Flags
<1>11. Stage'
  <2>1. Top' = t
    BY <1>0 DEF Top
  <2> QED  BY <2>1, <1>0, <1>4, <1>8, <1>9 DEF Stage, Called
<1> QED  BY <1>0, <1>10, <1>11, SameTraps

(* What a handler sees of the innermost trap.                              *)
LEMMA Fields == TrapInv => FieldsMatch
<1> SUFFICES ASSUME TrapInv, InHandler PROVE FieldsMatch
  BY DEF FieldsMatch
<1> DEFINE t == Top
<1>0. at = "code" /\ traps # <<>>
  BY DEF InHandler
<1>1. Called(mem, sp, t)
  BY <1>0 DEF TrapInv, Stage
<1>2. t.sp \in 15..StackWords /\ sp = t.sp - 15 /\ StackWords \in Nat /\ t.seg = 16
      /\ t.reg \in [Names -> Nat]
  BY <1>0, <1>1, TopTyped, FrameConstants DEF Called
<1>3. \A i \in 1..14 : mem[sp + i] = mem[t.sp - (15 - i)]
  <2>1. \A i \in 1..14 : sp + i = t.sp - (15 - i)
    BY <1>2
  <2> QED  BY <2>1
<1>4. /\ mem[sp + 1] = mem[t.sp - 14] /\ mem[sp + 2] = mem[t.sp - 13]
      /\ mem[sp + 3] = mem[t.sp - 12] /\ mem[sp + 4] = mem[t.sp - 11]
      /\ mem[sp + 5] = mem[t.sp - 10] /\ mem[sp + 6] = mem[t.sp - 9]
      /\ mem[sp + 7] = mem[t.sp - 8] /\ mem[sp + 8] = mem[t.sp - 7]
      /\ mem[sp + 9] = mem[t.sp - 6] /\ mem[sp + 10] = mem[t.sp - 5]
      /\ mem[sp + 11] = mem[t.sp - 4] /\ mem[sp + 12] = mem[t.sp - 3]
      /\ mem[sp + 13] = mem[t.sp - 2] /\ mem[sp + 14] = mem[t.sp - 1]
  BY <1>3
<1>5. /\ Regs("edi") = mem[sp + 2] /\ Regs("esi") = mem[sp + 3]
      /\ Regs("ebp") = mem[sp + 4] /\ Regs("ebx") = mem[sp + 6]
      /\ Regs("edx") = mem[sp + 7] /\ Regs("ecx") = mem[sp + 8]
      /\ Regs("eax") = mem[sp + 9]
  BY DEF Regs, Field
<1>6. /\ Regs("ds") = mem[sp + 1] /\ Regs("esp") = mem[sp + 5]
      /\ Regs("int_no") = mem[sp + 10] /\ Regs("err_code") = mem[sp + 11]
      /\ Regs("eip") = mem[sp + 12] /\ Regs("cs") = mem[sp + 13]
      /\ Regs("eflags") = mem[sp + 14]
  BY DEF Regs, Field
<1>7. \A r \in Names : Regs(r) = t.reg[r]
  BY <1>1, <1>4, <1>5 DEF Called, Pushed14, Names
<1>8. Low(Regs("ds")) = t.seg
  <2>1. Regs("ds") = WithLow(t.reg["eax"], 16)
    BY <1>1, <1>4, <1>6, FrameConstants DEF Called, Pushed14
  <2>2. t.reg["eax"] \in Nat
    BY <1>2 DEF Names
  <2> QED  BY <1>2, <2>1, <2>2, LowOfWithLow
<1>9. /\ Regs("esp") = t.sp - 5 /\ Regs("int_no") = t.vec /\ Regs("err_code") = t.code
      /\ Regs("eip") = t.eip /\ Regs("cs") = KERNEL_CS /\ Regs("eflags") = t.eflags
  BY <1>1, <1>4, <1>6 DEF Called, Pushed14, Pushed5, Pushed3
<1> QED  BY <1>7, <1>8, <1>9 DEF FieldsMatch

(* The five bits of the error code of a page fault.                        *)
LEMMA BitsOfErrorWord ==
  ASSUME NEW access \in Accesses
  PROVE  LET e == ErrorWord(access)
         IN /\ ((e \div 1) % 2 = 1) = access.present
            /\ ((e \div 2) % 2 = 1) = access.write
            /\ ((e \div 4) % 2 = 1) = access.user
            /\ ((e \div 8) % 2 = 1) = access.reserved
            /\ ((e \div 16) % 2 = 1) = access.fetch
            /\ e \in Nat
<1> DEFINE e == ErrorWord(access)
<1>1. \A a, b, c, d \in {0, 1} :
        LET n == a + 2 * b + 4 * 0 + 8 * c + 16 * d
        IN /\ (n \div 1) % 2 = a /\ (n \div 2) % 2 = b /\ (n \div 4) % 2 = 0
           /\ (n \div 8) % 2 = c /\ (n \div 16) % 2 = d /\ n \in Nat
  OBVIOUS
<1>2. /\ access.present \in BOOLEAN /\ access.write \in BOOLEAN /\ access.user = FALSE
      /\ access.reserved \in BOOLEAN /\ access.fetch \in BOOLEAN
  BY DEF Accesses
<1>3. \A b \in BOOLEAN : Bit(b) \in {0, 1} /\ (Bit(b) = 1) = b
  BY DEF Bit
<1>4. Bit(access.user) = 0
  BY <1>2 DEF Bit
<1>5. e = Bit(access.present) + 2 * Bit(access.write) + 4 * 0
          + 8 * Bit(access.reserved) + 16 * Bit(access.fetch)
  BY <1>4 DEF ErrorWord
<1>6. /\ (e \div 1) % 2 = Bit(access.present) /\ (e \div 2) % 2 = Bit(access.write)
      /\ (e \div 4) % 2 = 0 /\ (e \div 8) % 2 = Bit(access.reserved)
      /\ (e \div 16) % 2 = Bit(access.fetch) /\ e \in Nat
  <2> HIDE DEF e
  <2> QED  BY <1>1, <1>2, <1>3, <1>5
<1> HIDE DEF e
<1> QED  BY <1>2, <1>3, <1>6 DEF e

(* A pop forgets only what lies below the new stack pointer.               *)
LEMMA PopKeeps ==
  ASSUME NEW n \in Nat, sp \in Nat, mem \in [Address -> Nat], Pop(n)
  PROVE  /\ sp' = sp + n /\ mem' \in [Address -> Nat]
         /\ \A a \in Address : a >= sp + n => mem'[a] = mem[a]
<1>1. /\ sp' = sp + n
      /\ mem' = [a \in Address |-> IF a < sp + n THEN 0 ELSE mem[a]]
  BY DEF Pop
<1>2. \A a \in Address : a >= sp + n => ~(a < sp + n)
  BY DEF Address
<1> QED  BY <1>1, <1>2

LEMMA HandlerReturnsStep == TrapInv /\ HandlerReturns => TrapInv'
<1> SUFFICES ASSUME TrapInv, HandlerReturns PROVE TrapInv'
  OBVIOUS
<1> DEFINE t == Top
<1>0. /\ at = "code" /\ at' = "restore" /\ traps # <<>> /\ traps' = traps
      /\ reg' \in Contents /\ Pop(1)
      /\ UNCHANGED <<eip, eflags, seg, handlers, report>>
  BY DEF HandlerReturns, Goto, InHandler
<1>1. TrapTypeOK /\ Stage
  BY <1>0 DEF TrapInv
<1>2. t.sp \in 15..StackWords /\ StackWords \in Nat /\ t \in Trap
  BY <1>0, TopTyped, FrameConstants
<1>3. /\ sp = t.sp - 15 /\ sp \in Nat /\ Pushed14(mem, t) /\ Caller(mem, t)
      /\ mem \in [Address -> Nat]
  BY <1>0, <1>1, <1>2 DEF Stage, Called, TrapTypeOK
<1>4. /\ sp' = sp + 1 /\ mem' \in [Address -> Nat]
      /\ \A a \in Address : a >= sp + 1 => mem'[a] = mem[a]
  BY <1>0, <1>3, PopKeeps
<1>5. sp + 1 \in Nat /\ sp + 1 <= t.sp - 14 /\ sp + 1 <= t.sp /\ sp' = t.sp - 14
  BY <1>2, <1>3, <1>4
<1>6. Pushed14(mem', t) /\ Caller(mem', t)
  BY <1>2, <1>3, <1>4, <1>5, PushedKept
<1>7. TrapTypeOK' /\ Flags'
  <2>1. sp' \in 0..StackWords
    BY <1>2, <1>5
  <2>2. reg' \in [Names -> Nat]
    BY <1>0, ContentsAssumption
  <2> QED  BY <1>0, <1>1, <1>4, <2>1, <2>2 DEF TrapTypeOK, Flags
<1>8. Stage'
  <2>1. Top' = t
    BY <1>0 DEF Top
  <2> QED  BY <2>1, <1>0, <1>5, <1>6 DEF Stage
<1> QED  BY <1>0, <1>7, <1>8, SameTraps

LEMMA RestoreStateStep == TrapInv /\ RestoreState => TrapInv'
<1> SUFFICES ASSUME TrapInv, RestoreState PROVE TrapInv'
  OBVIOUS
<1> DEFINE t == Top
<1>0. /\ at = "restore" /\ at' = "sti" /\ traps # <<>> /\ traps' = traps
      /\ seg' = Low(mem[sp]) /\ reg' = [r \in Names |-> mem[sp + Field[r] - 1]]
      /\ Pop(11) /\ eflags' \in Arithmetic
      /\ UNCHANGED <<eip, handlers, report>>
  BY DEF RestoreState, Goto, TrapInv
<1>1. TrapTypeOK /\ Stage
  BY <1>0 DEF TrapInv
<1>2. /\ t.sp \in 15..StackWords /\ StackWords \in Nat /\ t \in Trap
      /\ t.reg \in [Names -> Nat] /\ t.seg = 16
  BY <1>0, TopTyped, FrameConstants
<1>3. /\ sp = t.sp - 14 /\ sp \in Nat /\ Pushed14(mem, t) /\ Caller(mem, t)
      /\ mem \in [Address -> Nat]
  BY <1>0, <1>1, <1>2 DEF Stage, TrapTypeOK
<1>4. /\ sp' = sp + 11 /\ mem' \in [Address -> Nat]
      /\ \A a \in Address : a >= sp + 11 => mem'[a] = mem[a]
  BY <1>0, <1>3, PopKeeps
<1>5. sp + 11 \in Nat /\ sp + 11 <= t.sp - 3 /\ sp + 11 <= t.sp /\ sp' = t.sp - 3
  BY <1>2, <1>3, <1>4
<1>6. Pushed3(mem', t) /\ Caller(mem', t)
  BY <1>2, <1>3, <1>4, <1>5, PushedKept DEF Pushed14, Pushed5
<1>7. reg' = t.reg
  <2>1. /\ sp + 2 - 1 = t.sp - 13 /\ sp + 3 - 1 = t.sp - 12 /\ sp + 4 - 1 = t.sp - 11
        /\ sp + 6 - 1 = t.sp - 9 /\ sp + 7 - 1 = t.sp - 8 /\ sp + 8 - 1 = t.sp - 7
        /\ sp + 9 - 1 = t.sp - 6
    BY <1>2, <1>3
  <2>2. /\ Field["edi"] = 2 /\ Field["esi"] = 3 /\ Field["ebp"] = 4 /\ Field["ebx"] = 6
        /\ Field["edx"] = 7 /\ Field["ecx"] = 8 /\ Field["eax"] = 9
    BY DEF Field
  <2>3. /\ mem[sp + Field["edi"] - 1] = t.reg["edi"]
        /\ mem[sp + Field["esi"] - 1] = t.reg["esi"]
        /\ mem[sp + Field["ebp"] - 1] = t.reg["ebp"]
        /\ mem[sp + Field["ebx"] - 1] = t.reg["ebx"]
        /\ mem[sp + Field["edx"] - 1] = t.reg["edx"]
        /\ mem[sp + Field["ecx"] - 1] = t.reg["ecx"]
        /\ mem[sp + Field["eax"] - 1] = t.reg["eax"]
    BY <2>1, <2>2, <1>3 DEF Pushed14
  <2>4. \A r \in Names : mem[sp + Field[r] - 1] = t.reg[r]
    BY <2>3 DEF Names
  <2> QED  BY <2>4, <1>0, <1>2
<1>8. seg' = 16
  <2>1. mem[sp] = WithLow(t.reg["eax"], 16)
    BY <1>3, FrameConstants DEF Pushed14
  <2>2. t.reg["eax"] \in Nat
    BY <1>2 DEF Names
  <2> QED  BY <1>0, <2>1, <2>2, LowOfWithLow
<1>9. TrapTypeOK' /\ Flags'
  <2>1. sp' \in 0..StackWords
    BY <1>2, <1>5
  <2>2. reg' \in [Names -> Nat] /\ seg' = KERNEL_DS
    BY <1>2, <1>7, <1>8, FrameConstants
  <2>3. eflags' \in 0..(2 * IF_BIT - 1) /\ eflags' < IF_BIT
    BY <1>0, CodeAssumption DEF IF_BIT
  <2> QED  BY <1>0, <1>1, <1>4, <2>1, <2>2, <2>3 DEF TrapTypeOK, Flags
<1>10. Stage'
  <2>1. Top' = t
    BY <1>0 DEF Top
  <2> QED  BY <2>1, <1>0, <1>5, <1>6, <1>7 DEF Stage
<1> QED  BY <1>0, <1>9, <1>10, SameTraps

LEMMA StubStiStep == TrapInv /\ StubSti => TrapInv'
<1> SUFFICES ASSUME TrapInv, StubSti PROVE TrapInv'
  OBVIOUS
<1>0. /\ at = "sti" /\ at' = "iret" /\ traps # <<>> /\ traps' = traps
      /\ eflags' = IF_BIT + eflags
      /\ UNCHANGED <<reg, eip, seg, sp, mem, handlers, report>>
  BY DEF StubSti, Goto, TrapInv
<1>1. TrapTypeOK /\ Stage /\ Flags
  BY <1>0 DEF TrapInv
<1>2. TrapTypeOK' /\ Flags'
  <2>1. eflags' \in 0..(2 * IF_BIT - 1)
    BY <1>0, <1>1 DEF TrapTypeOK, Flags, IF_BIT
  <2> QED  BY <1>0, <1>1, <2>1 DEF TrapTypeOK, Flags
<1>3. Stage'
  <2>1. Top' = Top
    BY <1>0 DEF Top
  <2> QED  BY <2>1, <1>0, <1>1 DEF Stage, Caller, Pushed3
<1> QED  BY <1>0, <1>2, <1>3, SameTraps

(* What iret leaves: the statement of Restored.                            *)
Resumed ==
  /\ reg' = Top.reg /\ eip' = Top.eip /\ eflags' = Top.eflags
  /\ seg' = Top.seg /\ sp' = Top.sp
  /\ \A a \in Address : a >= Top.sp => mem'[a] = Top.mem[a]

LEMMA IretStep == TrapInv /\ Iret => TrapInv' /\ Resumed
<1> SUFFICES ASSUME TrapInv, Iret PROVE TrapInv' /\ Resumed
  OBVIOUS
<1> DEFINE t == Top
<1>0. /\ at = "iret" /\ at' = "code" /\ traps # <<>> /\ traps' = Tail(traps)
      /\ eip' = mem[sp] /\ eflags' = mem[sp + 2] /\ Pop(3)
      /\ UNCHANGED <<reg, seg, handlers, report>>
  BY DEF Iret, TrapInv
<1>1. TrapTypeOK /\ Stage /\ traps \in Seq(Trap)
  BY <1>0 DEF TrapInv
<1>2. /\ t.sp \in 15..StackWords /\ StackWords \in Nat /\ t \in Trap
      /\ t.reg \in [Names -> Nat] /\ t.seg = 16 /\ t.eip \in Nat
      /\ t.eflags \in 0..1023 /\ t.mem \in [Address -> Nat]
  BY <1>0, TopTyped, FrameConstants
<1>3. /\ sp = t.sp - 3 /\ sp \in Nat /\ Pushed3(mem, t) /\ Caller(mem, t)
      /\ mem \in [Address -> Nat] /\ reg = t.reg /\ seg = 16
  BY <1>0, <1>1, <1>2, FrameConstants DEF Stage, TrapTypeOK
<1>4. /\ sp' = sp + 3 /\ mem' \in [Address -> Nat]
      /\ \A a \in Address : a >= sp + 3 => mem'[a] = mem[a]
  BY <1>0, <1>3, PopKeeps
<1>5. sp + 3 = t.sp /\ sp' = t.sp /\ sp + 2 = t.sp - 1
  BY <1>2, <1>3, <1>4
<1>6. eip' = t.eip /\ eflags' = t.eflags
  BY <1>0, <1>3, <1>5 DEF Pushed3
<1>7. \A a \in Address : a >= t.sp => mem'[a] = t.mem[a]
  BY <1>3, <1>4, <1>5 DEF Caller
<1>8. Resumed
  BY <1>0, <1>2, <1>3, <1>5, <1>6, <1>7, SMTT(40) DEF Resumed
<1>9. /\ traps' \in Seq(Trap) /\ Len(traps') = Len(traps) - 1 /\ Len(traps) \in Nat
      /\ \A k \in 1..Len(traps') : traps'[k] = traps[k + 1] /\ k + 1 \in 1..Len(traps)
  BY <1>0, <1>1
<1>10. \A k \in 1..Len(traps') : Honest(traps'[k])
  BY <1>9 DEF TrapInv
<1>11. Nested'
  <2> SUFFICES ASSUME NEW k \in 1..(Len(traps') - 1)
               PROVE  Called(traps'[k].mem, traps'[k].sp, traps'[k + 1])
    BY DEF Nested
  <2>1. /\ k \in 1..Len(traps') /\ k + 1 \in 1..Len(traps') /\ k + 1 \in 1..(Len(traps) - 1)
    BY <1>9
  <2>2. traps'[k] = traps[k + 1] /\ traps'[k + 1] = traps[(k + 1) + 1]
    BY <1>9, <2>1
  <2> QED  BY <2>1, <2>2 DEF TrapInv, Nested
<1>12. TrapTypeOK' /\ Flags'
  <2>1. sp' \in 0..StackWords
    BY <1>2, <1>5
  <2>2. eflags' \in 0..(2 * IF_BIT - 1) /\ eip' \in Nat
    BY <1>2, <1>6 DEF IF_BIT
  <2> QED  BY <1>0, <1>1, <1>4, <2>1, <2>2 DEF TrapTypeOK, Flags
<1>13. traps' # <<>> => Stage'
  <2> SUFFICES ASSUME traps' # <<>> PROVE Stage'
    OBVIOUS
  <2>1. /\ 1 \in 1..Len(traps') /\ 1 \in 1..(Len(traps) - 1) /\ 1 + 1 \in 1..Len(traps)
    BY <1>9
  <2>2. Top' = traps[1 + 1] /\ traps[1 + 1] \in Trap
    BY <1>1, <1>9, <2>1 DEF Top
  <2>3. Called(t.mem, t.sp, traps[1 + 1])
    BY <2>1 DEF TrapInv, Nested, Top
  <2>4. t.sp \in Nat
    BY <1>2
  <2>5. Called(mem', t.sp, traps[1 + 1])
    BY <1>7, <2>2, <2>3, <2>4, CalledKept
  <2> QED  BY <2>2, <2>5, <1>0, <1>5 DEF Stage, Called
<1>14. report' = <<>>
  BY <1>0 DEF TrapInv
<1> QED  BY <1>0, <1>8, <1>9, <1>10, <1>11, <1>12, <1>13, <1>14 DEF TrapInv

LEMMA CallbackStep == TrapInv /\ PageFaultCallback => TrapInv'
<1> SUFFICES ASSUME TrapInv, PageFaultCallback PROVE TrapInv'
  OBVIOUS
<1> DEFINE t == Top
<1>0. /\ at = "code" /\ at' = "halted" /\ traps # <<>> /\ traps' = traps
      /\ Registered /\ UNCHANGED <<reg, eip, eflags, seg, sp, mem, handlers>>
      /\ report' = <<[present |-> Masked(1), write |-> Masked(2), user |-> Masked(4),
                      reserved |-> Masked(8), fetch |-> Masked(16)],
                     [int_no |-> Regs("int_no"), cs |-> Regs("cs"), eip |-> Regs("eip"),
                      esp |-> Regs("esp"), eflags |-> Regs("eflags")]>>
  BY DEF PageFaultCallback, Goto, InHandler, cpu
<1>1. TrapTypeOK /\ Stage
  BY <1>0 DEF TrapInv
<1>2. /\ Regs("int_no") = t.vec /\ Regs("err_code") = t.code /\ Regs("esp") = t.sp - 5
      /\ Regs("eip") = t.eip /\ Regs("cs") = KERNEL_CS /\ Regs("eflags") = t.eflags
  BY <1>0, Fields DEF FieldsMatch, InHandler
<1>3. t \in Trap /\ Honest(t) /\ t.vec \in Vectors
  <2>1. t \in Trap /\ Honest(t)
    BY <1>0, TopTyped
  <2> QED  BY <2>1 DEF Trap
<1>4. t.vec = PageFault
  <2>1. t.vec % 256 = PageFault
    BY <1>0, <1>1, <1>2 DEF Registered, TrapTypeOK
  <2>2. t.vec \in 0..47
    <3>1. \A v \in Vectors : v \in 0..47
      BY ExceptionAssumption DEF Vectors, PageFault
    <3> QED  BY <3>1, <1>3
  <2> QED  BY <2>1, <2>2
<1>5. t.access \in Accesses /\ t.code = ErrorWord(t.access)
  BY <1>3, <1>4 DEF Trap, Honest
<1>6. /\ Masked(1) = t.access.present /\ Masked(2) = t.access.write
      /\ Masked(4) = t.access.user /\ Masked(8) = t.access.reserved
      /\ Masked(16) = t.access.fetch
  BY <1>2, <1>5, BitsOfErrorWord DEF Masked
<1>7. t.access = [present |-> t.access.present, write |-> t.access.write,
                  user |-> t.access.user, reserved |-> t.access.reserved,
                  fetch |-> t.access.fetch]
  BY <1>5 DEF Accesses
<1>8. Top' = t
  BY <1>0 DEF Top
<1>9. ReportTellsTheTruth'
  <2>1. report'[1] = t.access
    BY <1>0, <1>6, <1>7
  <2>2. report'[2] = [int_no |-> PageFault, cs |-> KERNEL_CS, eip |-> t.eip,
                      esp |-> t.sp - 5, eflags |-> t.eflags]
    BY <1>0, <1>2, <1>4
  <2> QED  BY <2>1, <2>2, <1>4, <1>8 DEF ReportTellsTheTruth
<1>10. TrapTypeOK' /\ Flags'
  BY <1>0, <1>1 DEF TrapTypeOK, Flags
<1>11. Stage'
  BY <1>0, <1>1, <1>8 DEF Stage, Called, Caller, Pushed14, Pushed5, Pushed3
<1>12. Nested'
  BY <1>0 DEF TrapInv, Nested
<1> QED  BY <1>0, <1>9, <1>10, <1>11, <1>12 DEF TrapInv
-----------------------------------------------------------------------------
(* Every step keeps the invariant, and only iret ends a trap.              *)
LEMMA TrapStep == TrapInv /\ [TrapNext]_trapVars => TrapInv'
<1> SUFFICES ASSUME TrapInv, [TrapNext]_trapVars PROVE TrapInv'
  OBVIOUS
<1>1. CASE Interrupt
  <2>1. PICK v \in Irqs : Enter(v, 0, NoAccess)
    BY <1>1 DEF Interrupt
  <2>2. /\ v \in Vectors /\ v # PageFault /\ NoAccess \in Accesses
    BY ExceptionAssumption DEF Vectors, PageFault, NoAccess, Accesses
  <2> QED  BY <2>1, <2>2, EnterStep
<1>2. CASE Fault
  <2>1. PICK v \in Exceptions \ {PageFault} :
          Enter(v, IF v \in ErrorCode THEN KERNEL_CS ELSE 0, NoAccess)
    BY <1>2 DEF Fault
  <2>2. /\ v \in Vectors /\ v # PageFault /\ NoAccess \in Accesses
    BY DEF Vectors, NoAccess, Accesses
  <2>3. (IF v \in ErrorCode THEN KERNEL_CS ELSE 0) \in Nat
    BY DEF KERNEL_CS
  <2> QED  BY <2>1, <2>2, <2>3, EnterStep
<1>3. CASE PageFaults
  <2>1. PICK access \in Accesses : Enter(PageFault, ErrorWord(access), access)
    BY <1>3 DEF PageFaults
  <2>2. ErrorWord(access) \in Nat /\ PageFault \in ErrorCode /\ PageFault \in Vectors
    BY BitsOfErrorWord DEF ErrorCode, PageFault, Vectors
  <2> QED  BY <2>1, <2>2, EnterStep
<1>4. CASE UNCHANGED trapVars
  <2>1. UNCHANGED <<at, reg, eip, eflags, seg, sp, mem, handlers, traps, report>>
    BY <1>4, SMTT(40) DEF trapVars, cpu
  <2>2. TrapTypeOK' /\ Flags' /\ Nested' /\ (traps # <<>> => Stage')
    BY <2>1, SMTT(30) DEF TrapInv, TrapTypeOK, Flags, Nested, Stage, Top, Called, Caller, Pushed14,
                Pushed5, Pushed3
  <2>3. report' # <<>> => at' = "halted" /\ ReportTellsTheTruth'
    BY <2>1 DEF TrapInv, ReportTellsTheTruth, Top
  <2> QED  BY <2>1, <2>2, <2>3 DEF TrapInv
<1> QED  BY <1>1, <1>2, <1>3, <1>4, StubEntryStep, SaveStateStep, CallHandlerStep,
            HandlerReturnsStep, CallbackStep, RestoreStateStep, StubStiStep, IretStep
         DEF TrapNext

LEMMA TrapEnds ==
  TrapInv /\ [TrapNext]_trapVars => (Len(traps') < Len(traps) => Resumed)
<1> SUFFICES ASSUME TrapInv, [TrapNext]_trapVars, Len(traps') < Len(traps) PROVE Resumed
  OBVIOUS
<1>1. Len(traps) \in Nat /\ traps \in Seq(Trap)
  BY DEF TrapInv
<1>2. traps' # traps
  BY <1>1
<1>3. ASSUME NEW v, NEW code, NEW access, Enter(v, code, access) PROVE FALSE
  <2>1. PICK t : traps' = <<t>> \o traps
    BY <1>3 DEF Enter
  <2>2. Len(traps') = Len(traps) + 1
    BY <1>1, <2>1
  <2> QED  BY <1>1, <2>2
<1>4. Iret
  BY <1>2, <1>3 DEF TrapNext, Interrupt, Fault, PageFaults, StubEntry, SaveState, CallHandler,
     HandlerReturns, PageFaultCallback, RestoreState, StubSti, Goto, trapVars
<1> QED  BY <1>4, IretStep

(* The model's variables keep their types.                                 *)
THEOREM TrapTypes == TrapSpec => []TrapTypeOK
<1>1. TrapInv => TrapTypeOK
  BY DEF TrapInv
<1> QED  BY <1>1, TrapStart, TrapStep, PTL DEF TrapSpec

(* Handlers find what was interrupted in struct registers_t (isr.h).       *)
THEOREM FieldsAreWhatTheySay == TrapSpec => []FieldsMatch
BY Fields, TrapStart, TrapStep, PTL DEF TrapSpec

(* print_page_fault() reports the fault that happened.                     *)
THEOREM ReportIsTrue == TrapSpec => []ReportTellsTheTruth
<1>1. TrapInv => ReportTellsTheTruth
  BY DEF TrapInv, ReportTellsTheTruth
<1> QED  BY <1>1, TrapStart, TrapStep, PTL DEF TrapSpec

(* The stubs restore what was interrupted, at every depth of nesting.      *)
THEOREM CodeResumes == TrapSpec => Restored
<1>1. TrapInv /\ [TrapNext]_trapVars =>
        [Len(traps') < Len(traps) =>
           /\ reg' = Top.reg /\ eip' = Top.eip /\ eflags' = Top.eflags
           /\ seg' = Top.seg /\ sp' = Top.sp
           /\ \A a \in Address : a >= Top.sp => mem'[a] = Top.mem[a]]_trapVars
  BY TrapEnds DEF Resumed
<1> QED  BY <1>1, TrapStart, TrapStep, PTL DEF TrapSpec, Restored
-----------------------------------------------------------------------------
(* The clock.                                                              *)

(* Quotient and remainder, for a divisor that is not a number but a name.  *)
LEMMA DivMod ==
  ASSUME NEW ws \in Nat, ws > 0, NEW n \in Nat
  PROVE  /\ n \div ws \in Nat /\ n % ws \in 0..(ws - 1)
         /\ n = ws * (n \div ws) + (n % ws)
<1>1. n % ws \in 0..(ws - 1)
  BY SMT
<1>2. n = ws * (n \div ws) + (n % ws)
  BY SMT
<1>3. n \div ws \in Int
  BY SMT
<1>4. n \div ws >= 0
  <2> SUFFICES ASSUME n \div ws < 0 PROVE FALSE
    BY <1>3
  <2> DEFINE q == n \div ws
             r == n % ws
  <2>1. q \in Int /\ q <= -1 /\ r \in 0..(ws - 1) /\ n = ws * q + r
    BY <1>1, <1>2, <1>3
  <2> HIDE DEF q, r
  <2>2. ws * q <= ws * (-1)
    BY <2>1, SMT
  <2> QED  BY <2>1, <2>2
<1> QED  BY <1>1, <1>2, <1>3, <1>4

LEMMA DivModUnique ==
  ASSUME NEW ws \in Nat, ws > 0, NEW q \in Int, NEW r \in 0..(ws - 1)
  PROVE  (ws * q + r) % ws = r /\ (ws * q + r) \div ws = q
<1>1. (q * ws + r) % ws = r
  BY SMT
<1>2. (q * ws + r) \div ws = q
  BY SMT
<1>3. ws * q = q * ws
  BY SMT
<1> QED  BY <1>1, <1>2, <1>3

(* The two words of a number of two words.                                 *)
LEMMA TwoWords ==
  ASSUME NEW ws \in Nat, ws > 0, NEW n \in Nat
  PROVE  ((n \div ws) % ws) * ws + (n % ws) = n % (ws * ws)
<1> DEFINE a == n \div ws
           b == n % ws
           a1 == a \div ws
           a0 == a % ws
<1>1. a \in Nat /\ b \in 0..(ws - 1) /\ n = ws * a + b
  BY DivMod
<1>2. a1 \in Nat /\ a0 \in 0..(ws - 1) /\ a = ws * a1 + a0
  BY <1>1, DivMod
<1> HIDE DEF a, b, a1, a0
<1>3. ws * ws \in Nat /\ ws * ws > 0
  BY SMT
<1>4. n = (ws * ws) * a1 + (ws * a0 + b)
  BY <1>1, <1>2, SMT
<1>5. ws * a0 + b \in 0..(ws * ws - 1)
  <2>1. ws * a0 \in Nat /\ ws * a0 <= ws * (ws - 1)
    BY <1>2, SMT
  <2>2. ws * (ws - 1) = ws * ws - ws
    BY SMT
  <2> QED  BY <1>1, <1>3, <2>1, <2>2
<1>6. n % (ws * ws) = ws * a0 + b
  <2> DEFINE ww == ws * ws
             r == ws * a0 + b
  <2>1. ww \in Nat /\ ww > 0 /\ r \in 0..(ww - 1) /\ a1 \in Int
    BY <1>2, <1>3, <1>5
  <2>2. n = ww * a1 + r
    BY <1>4
  <2> HIDE DEF ww, r
  <2>3. (ww * a1 + r) % ww = r
    BY <2>1, DivModUnique
  <2> QED  BY <2>2, <2>3 DEF ww, r
<1>7. a0 * ws = ws * a0
  BY <1>2, SMT
<1> QED  BY <1>6, <1>7 DEF a, b, a0

(* A count and the next: the remainder, with its carry.                    *)
LEMMA NextCount ==
  ASSUME NEW n \in Nat
  PROVE  /\ (n + 1) % WordSize = ((n % WordSize) + 1) % WordSize
         /\ (n + 1) \div WordSize
              = (n \div WordSize) + (IF n % WordSize = WordSize - 1 THEN 1 ELSE 0)
<1> DEFINE q == n \div WordSize
           r == n % WordSize
<1>1. WordSize \in Nat /\ WordSize > 1
  BY WordAssumption
<1>2. q \in Nat /\ r \in 0..(WordSize - 1) /\ n = WordSize * q + r
  BY <1>1, DivMod
<1> HIDE DEF q, r
<1>3. CASE r = WordSize - 1
  <2>1. n + 1 = WordSize * (q + 1) + 0
    BY <1>1, <1>2, <1>3, SMT
  <2>2. (n + 1) % WordSize = 0 /\ (n + 1) \div WordSize = q + 1
    BY <1>1, <1>2, <2>1, DivModUnique
  <2>3. r + 1 = WordSize * 1 + 0
    BY <1>1, <1>3
  <2>4. (r + 1) % WordSize = 0
    BY <1>1, <2>3, DivModUnique
  <2> QED  BY <1>3, <2>2, <2>4 DEF q, r
<1>4. CASE r # WordSize - 1
  <2>1. r + 1 \in 0..(WordSize - 1) /\ n + 1 = WordSize * q + (r + 1)
    BY <1>1, <1>2, <1>4
  <2>2. (n + 1) % WordSize = r + 1 /\ (n + 1) \div WordSize = q
    BY <1>1, <1>2, <2>1, DivModUnique
  <2>3. r + 1 = WordSize * 0 + (r + 1)
    BY <1>1, <1>2
  <2>4. (r + 1) % WordSize = r + 1
    BY <1>1, <2>1, <2>3, DivModUnique
  <2> QED  BY <1>2, <1>4, <2>2, <2>4 DEF q, r
<1> QED  BY <1>3, <1>4
-----------------------------------------------------------------------------
(* The words are those of the count, and those that were read are words of *)
(* counts between the call and now.                                        *)
LowOf(n)  == n % WordSize
HighOf(n) == (n \div WordSize) % WordSize
Words == low = LowOf(count) /\ high = HighOf(count)
Read ==
  /\ pc = "second" => IF order = "low" THEN rlow = LowOf(before)
                                       ELSE rhigh = HighOf(before)
  /\ pc \in {"print", "done"} =>
       \E c \in before..count :
         IF order = "low" THEN rlow = LowOf(before) /\ rhigh = HighOf(c)
                          ELSE rhigh = HighOf(before) /\ rlow = LowOf(c)
  /\ printed # -1 => pc = "done" /\ printed = rlow

ByteOf == /\ Written >= 1 => pit[1] = LowByte
          /\ Written = 2 => pit[2] = HighByte

ClockInv == ClockTypeOK /\ Words /\ Read /\ Len(pit) = Written /\ ByteOf

LEMMA ClockConstants ==
  /\ WordSize \in Nat /\ WordSize > 1 /\ TscSize \in Nat /\ TscSize > 0
  /\ Jump \in Nat
BY WordAssumption, TscAssumption

LEMMA BytesAreBytes ==
  ASSUME ClockTypeOK
  PROVE  frequency \in Nat \ {0} /\ LowByte \in 0..255 /\ HighByte \in 0..255
<1>1. frequency \in Nat \ {0}
  BY FrequencyAssumption DEF ClockTypeOK
<1>2. Divisor \in Int
  BY <1>1, SMT DEF Divisor, Oscillator
<1>3. \A x \in Int : x % 256 \in 0..255 /\ x \div 256 \in Int
  BY SMT
<1> QED  BY <1>1, <1>2, <1>3 DEF LowByte, HighByte

LEMMA Bytes ==
  ASSUME NEW f \in Nat, 19 <= f, f <= Oscillator
  PROVE  LET d == Oscillator \div f
         IN /\ d \in Nat /\ d > 0 /\ Oscillator - f < f * d /\ f * d <= Oscillator
            /\ d % 256 \in 0..255 /\ (d \div 256) % 256 \in 0..255
            /\ (d % 256) + 256 * ((d \div 256) % 256) = d
<1> DEFINE d == Oscillator \div f
           r == Oscillator % f
<1>0. Oscillator \in Nat /\ Oscillator > 0 /\ Oscillator < 19 * 65536
  BY SMT DEF Oscillator
<1>1. d \in Nat /\ r \in 0..(f - 1) /\ Oscillator = f * d + r
  BY <1>0, DivMod, SMT
<1> HIDE DEF d, r
<1>2. f * d \in Nat
  BY <1>1, SMT
<1>3. Oscillator - f < f * d /\ f * d <= Oscillator
  BY <1>0, <1>1, <1>2, SMT
<1>4. d <= 65535
  <2> SUFFICES ASSUME d >= 65536 PROVE FALSE
    BY <1>1, SMT
  <2>1. f * d >= 19 * 65536
    BY <1>1, SMT
  <2> QED  BY <1>0, <1>2, <1>3, <2>1, SMT
<1>5. d >= 1
  <2> SUFFICES ASSUME d = 0 PROVE FALSE
    BY <1>1, SMT
  <2>1. f * d = 0
    BY SMT
  <2> QED  BY <1>0, <1>1, <2>1, SMT
<1>6. \A x \in Nat : x % 256 \in 0..255 /\ x = 256 * (x \div 256) + (x % 256)
  BY SMT
<1>7. \A x \in Nat : x \div 256 \in Nat
  <2>1. \A x \in Nat : x \div 256 \in Int /\ x \div 256 >= 0
    BY SMT
  <2> QED  BY <2>1
<1>8. \A x \in 0..255 : x % 256 = x
  BY SMT
<1>9. d \in Nat
  BY <1>1
<1>10. /\ d % 256 \in 0..255 /\ d \div 256 \in Nat
       /\ d = 256 * (d \div 256) + (d % 256)
  BY <1>6, <1>7, <1>9
<1>11. d \div 256 \in 0..255
  <2> DEFINE q == d \div 256
             l == d % 256
  <2>1. q \in Nat /\ l \in 0..255 /\ d = 256 * q + l
    BY <1>10
  <2> HIDE DEF q, l
  <2>2. q <= 255
    BY <2>1, <1>4, SMT
  <2> QED  BY <2>1, <2>2 DEF q
<1>12. (d \div 256) % 256 = d \div 256
  BY <1>8, <1>11
<1>13. (d % 256) + 256 * ((d \div 256) % 256) = d
  <2> DEFINE q == d \div 256
             l == d % 256
  <2>1. q \in Nat /\ l \in 0..255 /\ d = 256 * q + l /\ q % 256 = q
    BY <1>10, <1>12
  <2> HIDE DEF q, l
  <2>2. l + 256 * (q % 256) = d
    BY <2>1, SMT
  <2> QED  BY <2>2 DEF q, l
<1> QED  BY <1>3, <1>5, <1>9, <1>10, <1>11, <1>12, <1>13, SMTT(40) DEF d
-----------------------------------------------------------------------------
LEMMA ClockStart == ClockInit => ClockInv
<1> SUFFICES ASSUME ClockInit PROVE ClockInv
  OBVIOUS
<1> USE DEF ClockInit
<1>1. LowOf(count) = 0 /\ HighOf(count) = 0
  <2>1. count = WordSize * 0 + 0 /\ 0 \in 0..(WordSize - 1)
    BY ClockConstants
  <2>2. count % WordSize = 0 /\ count \div WordSize = 0 /\ 0 % WordSize = 0
    BY <2>1, ClockConstants, DivModUnique
  <2> QED  BY <2>2 DEF LowOf, HighOf
<1>2. ClockTypeOK
  BY ClockConstants DEF ClockTypeOK
<1>3. Len(pit) = Written /\ ByteOf
  BY DEF Written, ByteOf
<1> QED  BY <1>1, <1>2, <1>3 DEF ClockInv, Words, Read

(* What every step of kmain() leaves typed.                                *)
LEMMA KmainKeeps ==
  ASSUME ClockInv, NEW from, NEW to, Kmain(from, to)
  PROVE  /\ frequency' \in Frequencies /\ order' \in {"low", "high"}
         /\ tsc' \in 0..(TscSize - 1)
         /\ {low', high'} \subseteq 0..(WordSize - 1) /\ count' \in Nat
         /\ pc = from /\ pc' = to /\ count' = count /\ order' = order
         /\ frequency' = frequency /\ Words'
<1>0. UNCHANGED <<frequency, order, low, high, count>> /\ pc = from /\ pc' = to
  BY DEF Kmain, tickVars
<1>1. tsc' \in 0..(TscSize - 1)
  <2>1. PICK d \in 1..Jump : tsc' = (tsc + d) % TscSize
    BY DEF Kmain
  <2>2. tsc + d \in Nat
    BY <2>1, ClockConstants DEF ClockInv, ClockTypeOK
  <2>3. (tsc + d) % TscSize \in 0..(TscSize - 1)
    BY <2>2, ClockConstants, DivMod
  <2> QED  BY <2>1, <2>3
<1>2. Words'
  BY <1>0 DEF ClockInv, Words, LowOf, HighOf
<1> QED  BY <1>0, <1>1, <1>2 DEF ClockInv, ClockTypeOK

(* Steps that touch neither the chip nor the words that are read.          *)
LEMMA QuietStep ==
  ASSUME ClockInv, NEW from, NEW to, Kmain(from, to), UNCHANGED <<pit, readVars>>,
         start' \in 0..(TscSize - 1),
         <<from, to>> \in {<<"register", "command">>, <<"start1", "wait1">>,
                          <<"wait1", "wait1">>, <<"wait1", "low">>,
                          <<"start2", "wait2">>, <<"wait2", "wait2">>,
                          <<"wait2", "high">>, <<"delay", "first">>}
  PROVE  ClockInv'
<1>0. /\ pc = from /\ pc' = to /\ Words' /\ ClockTypeOK
      /\ UNCHANGED <<count, pit, rlow, rhigh, printed, before, frequency, order>>
  BY KmainKeeps DEF readVars, ClockInv
<1>1. ClockTypeOK'
  BY <1>0, KmainKeeps DEF ClockTypeOK
<1>2. Written' = Written
  BY <1>0 DEF Written
<1>3. ByteOf' /\ Len(pit') = Written'
  BY <1>0, <1>2 DEF ClockInv, ByteOf, LowByte, HighByte, Divisor
<1>4. Read'
  BY <1>0 DEF ClockInv, Read, LowOf, HighOf
<1> QED  BY <1>0, <1>1, <1>3, <1>4 DEF ClockInv

LEMMA CommandStep == ClockInv /\ Command => ClockInv'
<1> SUFFICES ASSUME ClockInv, Command PROVE ClockInv'
  OBVIOUS
<1>0. /\ Kmain("command", "start1") /\ pit' = <<>> /\ start' = start
      /\ UNCHANGED <<rlow, rhigh, printed, before>>
  BY DEF Command, readVars
<1>1. pc = "command" /\ pc' = "start1" /\ Words' /\ order' = order /\ count' = count
  BY <1>0, KmainKeeps
<1>2. ClockTypeOK'
  BY <1>0, <1>1, KmainKeeps DEF ClockInv, ClockTypeOK
<1>3. ByteOf' /\ Len(pit') = Written'
  BY <1>0, <1>1 DEF ByteOf, Written
<1>4. Read'
  BY <1>0, <1>1 DEF ClockInv, Read
<1> QED  BY <1>1, <1>2, <1>3, <1>4 DEF ClockInv

(* A byte for the chip.                                                    *)
LEMMA ByteStep ==
  ASSUME ClockInv
  PROVE  /\ WriteByte("low", "start2", LowByte) => ClockInv'
         /\ WriteByte("high", "delay", HighByte) => ClockInv'
<1>0. pit \in Seq(0..255) /\ ClockTypeOK /\ Len(pit) = Written
  BY DEF ClockInv, ClockTypeOK
<1>1. LowByte \in 0..255 /\ HighByte \in 0..255
  BY <1>0, BytesAreBytes
<1>2. ASSUME NEW from \in {"low", "high"}, NEW to \in {"start2", "delay"},
             NEW byte \in 0..255, WriteByte(from, to, byte)
      PROVE  /\ pc = from /\ pc' = to /\ ClockTypeOK' /\ Words' /\ Read'
             /\ Len(pit') = Len(pit) + 1 /\ pit'[Len(pit) + 1] = byte
             /\ \A i \in 1..Len(pit) : pit'[i] = pit[i]
             /\ frequency' = frequency
  <2>1. /\ Kmain(from, to) /\ pit' = Append(pit, byte) /\ start' = start
        /\ UNCHANGED <<rlow, rhigh, printed, before>>
    BY <1>2 DEF WriteByte, readVars
  <2>2. /\ pc = from /\ pc' = to /\ Words' /\ order' = order /\ count' = count
        /\ frequency' = frequency
    BY <2>1, KmainKeeps
  <2>3. /\ pit' \in Seq(0..255) /\ Len(pit') = Len(pit) + 1
        /\ pit'[Len(pit) + 1] = byte /\ \A i \in 1..Len(pit) : pit'[i] = pit[i]
    BY <1>0, <2>1
  <2>4. ClockTypeOK'
    BY <2>1, <2>2, <2>3, KmainKeeps DEF ClockInv, ClockTypeOK
  <2>5. Read'
    BY <2>1, <2>2 DEF ClockInv, Read
  <2> QED  BY <2>2, <2>3, <2>4, <2>5
<1>3. ASSUME WriteByte("low", "start2", LowByte) PROVE ClockInv'
  <2>1. /\ pc = "low" /\ pc' = "start2" /\ ClockTypeOK' /\ Words' /\ Read'
        /\ Len(pit') = Len(pit) + 1 /\ pit'[Len(pit) + 1] = LowByte
        /\ frequency' = frequency
    BY <1>1, <1>2, <1>3, ZenonT(40)
  <2>2. Len(pit) = 0 /\ Written' = 1
    BY <1>0, <2>1 DEF Written
  <2>3. LowByte' = LowByte
    BY <2>1 DEF LowByte, Divisor
  <2> QED  BY <2>1, <2>2, <2>3, SMTT(40) DEF ClockInv, ByteOf
<1>4. ASSUME WriteByte("high", "delay", HighByte) PROVE ClockInv'
  <2>1. /\ pc = "high" /\ pc' = "delay" /\ ClockTypeOK' /\ Words' /\ Read'
        /\ Len(pit') = Len(pit) + 1 /\ pit'[Len(pit) + 1] = HighByte
        /\ \A i \in 1..Len(pit) : pit'[i] = pit[i] /\ frequency' = frequency
    BY <1>1, <1>2, <1>4, ZenonT(40)
  <2>2. Len(pit) = 1 /\ Written = 1 /\ Written' = 2
    BY <1>0, <2>1 DEF Written
  <2>3. pit[1] = LowByte
    BY <2>2 DEF ClockInv, ByteOf
  <2>4. LowByte' = LowByte /\ HighByte' = HighByte
    <3>0. frequency' = frequency
      BY <1>4 DEF WriteByte, Kmain
    <3>1. Divisor' = Divisor
      BY <3>0 DEF Divisor
    <3> QED  BY <3>1 DEF LowByte, HighByte
  <2>5. pit'[1] = LowByte' /\ pit'[2] = HighByte' /\ Len(pit') = 2
    BY <2>1, <2>2, <2>3, <2>4
  <2> QED  BY <2>1, <2>2, <2>5 DEF ClockInv, ByteOf
<1> QED  BY <1>3, <1>4

LEMMA ReadStep ==
  ASSUME ClockInv
  PROVE  /\ ReadWord("first", "second", TRUE) => ClockInv'
         /\ ReadWord("second", "print", FALSE) => ClockInv'
<1>0. ClockTypeOK /\ Words /\ Read /\ Len(pit) = Written /\ ByteOf /\ count \in Nat
  BY DEF ClockInv, ClockTypeOK
<1>1. ASSUME ReadWord("first", "second", TRUE) PROVE ClockInv'
  <2>0. /\ Kmain("first", "second") /\ before' = count
        /\ IF order = "low" THEN rlow' = low /\ rhigh' = rhigh
                            ELSE rhigh' = high /\ rlow' = rlow
        /\ UNCHANGED <<start, pit, printed>>
    BY <1>0, <1>1 DEF ReadWord, ClockTypeOK
  <2>1. /\ pc = "first" /\ pc' = "second" /\ Words' /\ order' = order /\ count' = count
        /\ frequency' = frequency
    BY <2>0, KmainKeeps
  <2>2. ClockTypeOK'
    BY <2>0, <2>1, <1>0, KmainKeeps DEF ClockTypeOK
  <2>3. Len(pit') = Written' /\ ByteOf'
    BY <2>0, <2>1, <1>0 DEF Written, ByteOf, LowByte, HighByte, Divisor
  <2>4. Read'
    BY <2>0, <2>1, <1>0 DEF Read, Words, LowOf, HighOf
  <2> QED  BY <2>1, <2>2, <2>3, <2>4 DEF ClockInv
<1>2. ASSUME ReadWord("second", "print", FALSE) PROVE ClockInv'
  <2>0. /\ Kmain("second", "print") /\ before' = before
        /\ IF order = "low" THEN rhigh' = high /\ rlow' = rlow
                            ELSE rlow' = low /\ rhigh' = rhigh
        /\ UNCHANGED <<start, pit, printed>>
    BY <1>0, <1>2 DEF ReadWord, ClockTypeOK
  <2>1. /\ pc = "second" /\ pc' = "print" /\ Words' /\ order' = order /\ count' = count
        /\ frequency' = frequency
    BY <2>0, KmainKeeps
  <2>2. ClockTypeOK'
    BY <2>0, <2>1, <1>0, KmainKeeps DEF ClockTypeOK
  <2>3. Len(pit') = Written' /\ ByteOf'
    BY <2>0, <2>1, <1>0 DEF Written, ByteOf, LowByte, HighByte, Divisor
  <2>4. count \in before..count
    BY <1>0 DEF ClockTypeOK
  <2>5. IF order = "low" THEN rlow' = LowOf(before) /\ rhigh' = HighOf(count)
                         ELSE rhigh' = HighOf(before) /\ rlow' = LowOf(count)
    BY <2>0, <2>1, <1>0 DEF Read, Words
  <2>6. Read'
    BY <2>0, <2>1, <2>4, <2>5, <1>0 DEF Read, LowOf, HighOf
  <2> QED  BY <2>1, <2>2, <2>3, <2>6 DEF ClockInv
<1> QED  BY <1>1, <1>2

LEMMA PrintStep == ClockInv /\ PrintTicks => ClockInv'
<1> SUFFICES ASSUME ClockInv, PrintTicks PROVE ClockInv'
  OBVIOUS
<1>0. /\ Kmain("print", "done") /\ printed' = rlow
      /\ UNCHANGED <<start, pit, rlow, rhigh, before>>
  BY DEF PrintTicks, FirstWord
<1>1. /\ pc = "print" /\ pc' = "done" /\ Words' /\ order' = order /\ count' = count
      /\ frequency' = frequency
  BY <1>0, KmainKeeps
<1>2. ClockTypeOK'
  BY <1>0, <1>1, KmainKeeps, ClockConstants, SMTT(40) DEF ClockInv, ClockTypeOK
<1>3. Len(pit') = Written' /\ ByteOf'
  BY <1>0, <1>1 DEF ClockInv, Written, ByteOf, LowByte, HighByte, Divisor
<1>4. Read'
  BY <1>0, <1>1 DEF ClockInv, Read, LowOf, HighOf
<1> QED  BY <1>1, <1>2, <1>3, <1>4 DEF ClockInv

LEMMA TickStep == ClockInv /\ TimerCallback => ClockInv'
<1> SUFFICES ASSUME ClockInv, TimerCallback PROVE ClockInv'
  OBVIOUS
<1>0. /\ count' = count + 1 /\ low' = (low + 1) % WordSize
      /\ high' = (high + Carry) % WordSize
      /\ UNCHANGED <<pc, frequency, order, tsc, start, pit, rlow, rhigh, printed, before>>
  BY DEF TimerCallback, readVars
<1>1. /\ ClockTypeOK /\ Words /\ Read /\ count \in Nat /\ before \in 0..count
      /\ low \in 0..(WordSize - 1) /\ high \in 0..(WordSize - 1)
  BY DEF ClockInv, ClockTypeOK
<1>2. low' = LowOf(count')
  BY <1>0, <1>1, NextCount DEF Words, LowOf
<1>3. high' = HighOf(count')
  <2> DEFINE q == count \div WordSize
  <2>1. q \in Nat
    BY <1>1, ClockConstants, DivMod
  <2>2. count' \div WordSize = q + Carry /\ Carry \in {0, 1}
    BY <1>0, <1>1, NextCount DEF Words, LowOf, Carry
  <2>3. high = q % WordSize
    BY <1>1 DEF Words, HighOf
  <2> HIDE DEF q
  <2>4. (q + 1) % WordSize = ((q % WordSize) + 1) % WordSize
    BY <2>1, NextCount
  <2>5. high \in 0..(WordSize - 1) /\ high = WordSize * 0 + high
    BY <1>1, ClockConstants
  <2>6. high % WordSize = high
    BY <2>5, ClockConstants, DivModUnique
  <2>7. (high + Carry) % WordSize = (q + Carry) % WordSize
    BY <2>1, <2>2, <2>3, <2>4, <2>6, <1>1
  <2> QED  BY <1>0, <2>2, <2>7 DEF HighOf
<1>4. low' \in 0..(WordSize - 1) /\ high' \in 0..(WordSize - 1)
  <2>1. low + 1 \in Nat /\ high + Carry \in Nat
    BY <1>1, ClockConstants DEF Carry
  <2> QED  BY <2>1, <1>0, ClockConstants, DivMod
<1>5. ClockTypeOK'
  BY <1>0, <1>1, <1>4 DEF ClockTypeOK
<1>6. Len(pit') = Written' /\ ByteOf'
  BY <1>0 DEF ClockInv, Written, ByteOf, LowByte, HighByte, Divisor
<1>7. \A c \in before..count : c \in before'..count'
  BY <1>0, <1>1
<1>8. Read'
  BY <1>0, <1>1, <1>7 DEF Read, LowOf, HighOf
<1> QED  BY <1>2, <1>3, <1>5, <1>6, <1>8 DEF ClockInv, Words

LEMMA ClockStep == ClockInv /\ [ClockNext]_clockVars => ClockInv'
<1> SUFFICES ASSUME ClockInv, [ClockNext]_clockVars PROVE ClockInv'
  OBVIOUS
<1>0. start \in 0..(TscSize - 1) /\ tsc \in 0..(TscSize - 1)
  BY DEF ClockInv, ClockTypeOK
<1>1. CASE Register
  BY <1>0, <1>1, QuietStep DEF Register
<1>2. CASE StartWait("start1", "wait1") \/ StartWait("start2", "wait2")
           \/ StartWait("delay", "first")
  BY <1>0, <1>2, QuietStep DEF StartWait
<1>3. CASE Wait("wait1", "low")
  <2>1. \/ Kmain("wait1", "wait1") \/ Kmain("wait1", "low")
    BY <1>3 DEF Wait
  <2> QED  BY <1>0, <1>3, <2>1, QuietStep DEF Wait
<1>4. CASE Wait("wait2", "high")
  <2>1. \/ Kmain("wait2", "wait2") \/ Kmain("wait2", "high")
    BY <1>4 DEF Wait
  <2> QED  BY <1>0, <1>4, <2>1, QuietStep DEF Wait
<1>5. CASE UNCHANGED clockVars
  <2>1. UNCHANGED <<pc, frequency, order, tsc, start, pit, low, high, count, rlow, rhigh,
                    printed, before>>
    BY <1>5 DEF clockVars, tickVars, readVars
  <2>2. ClockTypeOK' /\ Words' /\ Read' /\ Len(pit') = Written' /\ ByteOf'
    BY <2>1 DEF ClockInv, ClockTypeOK, Words, Read, Written, ByteOf, LowByte, HighByte, Divisor,
                LowOf, HighOf
  <2> QED  BY <2>2 DEF ClockInv
<1> QED  BY <1>1, <1>2, <1>3, <1>4, <1>5, CommandStep, ByteStep, ReadStep, PrintStep,
            TickStep DEF ClockNext, KmainStep
-----------------------------------------------------------------------------
(* A count is slow enough when it fits the oscillator so many times.       *)
LEMMA Fitting ==
  ASSUME NEW f \in Nat, NEW n \in Nat, n > 0
  PROVE  f <= Oscillator \div n <=> f * n <= Oscillator
<1> DEFINE q == Oscillator \div n
           r == Oscillator % n
<1>1. q \in Nat /\ r \in 0..(n - 1) /\ Oscillator = n * q + r
  <2>1. Oscillator \in Nat
    BY SMT DEF Oscillator
  <2> QED  BY <2>1, DivMod, SMT
<1> HIDE DEF q, r
<1>2. ASSUME f <= q PROVE f * n <= Oscillator
  <2>1. f * n <= q * n
    BY <1>1, <1>2, SMT
  <2> QED  BY <1>1, <2>1, SMT
<1>3. ASSUME f >= q + 1 PROVE f * n > Oscillator
  <2>1. f * n >= (q + 1) * n
    BY <1>1, <1>3, SMT
  <2>2. (q + 1) * n = n * q + n
    BY <1>1, SMT
  <2> QED  BY <1>1, <2>1, <2>2, SMT
<1>4. f <= q \/ f >= q + 1
  BY <1>1, SMT
<1>5. f * n \in Int /\ Oscillator \in Int /\ q \in Int
  BY <1>1, SMT DEF Oscillator
<1>6. f <= q <=> f * n <= Oscillator
  BY <1>1, <1>2, <1>3, <1>4, <1>5, SMT
<1> QED  BY <1>6 DEF q

(* A divisor of more than 16 bits makes a rate that is too high, and none  *)
(* of 16 bits is small enough for a frequency above the oscillator's.      *)
LEMMA RateFollows == ClockInv => RateIsRight
<1> SUFFICES ASSUME ClockInv, Written = 2
             PROVE  AsAskedFor <=> 19 <= frequency /\ frequency <= Oscillator
  BY DEF ClockInv, RateIsRight
<1>1. /\ frequency \in Nat /\ frequency > 0 /\ Oscillator = 1193180
      /\ LowByte \in 0..255 /\ HighByte \in 0..255
  BY BytesAreBytes, SMT DEF ClockInv, Oscillator
<1>2. pit \in Seq(0..255) /\ Len(pit) = 2 /\ pit[1] = LowByte /\ pit[2] = HighByte
  BY DEF ClockInv, ClockTypeOK, ByteOf
<1>3. pit = <<0, 0>> <=> LowByte + 256 * HighByte = 0
  <2>1. pit = <<LowByte, HighByte>>
    BY <1>2
  <2>2. <<LowByte, HighByte>> = <<0, 0>> <=> LowByte = 0 /\ HighByte = 0
    OBVIOUS
  <2>3. LowByte + 256 * HighByte = 0 <=> LowByte = 0 /\ HighByte = 0
    BY <1>1, SMT
  <2> QED  BY <2>1, <2>2, <2>3
<1>4. /\ Reload \in Nat /\ 1 <= Reload /\ Reload <= 65536
      /\ LowByte + 256 * HighByte # 0 => Reload = LowByte + 256 * HighByte
  BY <1>1, <1>2, <1>3, SMT DEF Reload
<1>5. AsAskedFor <=> ~ (frequency * (Reload + 1) <= Oscillator) /\ frequency * Reload <= Oscillator
  <2>1. frequency <= Oscillator \div Reload <=> frequency * Reload <= Oscillator
    BY <1>1, <1>4, Fitting
  <2>2. frequency <= Oscillator \div (Reload + 1) <=> frequency * (Reload + 1) <= Oscillator
    <3>1. Reload + 1 \in Nat /\ Reload + 1 > 0
      BY <1>4, SMT
    <3> QED  BY <1>1, <3>1, Fitting
  <2>3. Oscillator \div (Reload + 1) \in Int
    BY <1>1, <1>4, SMT
  <2>4. Oscillator \div (Reload + 1) < frequency
        <=> ~ (frequency <= Oscillator \div (Reload + 1))
    BY <1>1, <2>3, SMT
  <2> QED  BY <2>1, <2>2, <2>4 DEF AsAskedFor
<1>6. frequency * Reload \in Int /\ frequency * (Reload + 1) = frequency * Reload + frequency
  BY <1>1, <1>4, SMT
<1>7. CASE 19 <= frequency /\ frequency <= Oscillator
  <2>1. /\ LowByte + 256 * HighByte = Divisor /\ Divisor > 0
        /\ Oscillator - frequency < frequency * Divisor
        /\ frequency * Divisor <= Oscillator
    BY <1>1, <1>7, Bytes DEF LowByte, HighByte, Divisor
  <2>2. Reload = Divisor
    BY <1>4, <2>1, SMT
  <2>3. frequency * (Reload + 1) > Oscillator
    BY <1>1, <1>6, <2>1, <2>2, SMT
  <2> QED  BY <1>1, <1>5, <1>6, <1>7, <2>1, <2>2, <2>3, SMT
<1>8. CASE frequency < 19
  <2>1. frequency * (Reload + 1) <= 18 * 65537
    BY <1>1, <1>4, <1>8, SMT
  <2>2. frequency * (Reload + 1) <= Oscillator
    BY <1>1, <1>6, <2>1, SMT
  <2> QED  BY <1>1, <1>5, <1>8, <2>2, SMT
<1>9. CASE frequency > Oscillator
  <2>1. frequency * Reload >= frequency
    BY <1>1, <1>4, SMT
  <2>2. ~ (frequency * Reload <= Oscillator)
    BY <1>1, <1>6, <1>9, <2>1, SMT
  <2> QED  BY <1>1, <1>5, <1>9, <2>2, SMT
<1> QED  BY <1>1, <1>7, <1>8, <1>9, SMT

LEMMA PrintedFollows == ClockInv => PrintedIsACount
<1> SUFFICES ASSUME ClockInv, printed # -1
             PROVE  \E c \in before..count : printed = c % WordSize
  BY DEF PrintedIsACount
<1>1. pc = "done" /\ printed = rlow /\ count \in Nat /\ before \in 0..count
  BY DEF ClockInv, Read, ClockTypeOK
<1>2. PICK c \in before..count : rlow = LowOf(before) \/ rlow = LowOf(c)
  BY <1>1 DEF ClockInv, Read
<1>3. before \in before..count
  BY <1>1
<1> QED  BY <1>1, <1>2, <1>3 DEF LowOf

(* A number with the lower word of one count and the upper of a later one. *)
LEMMA Mixed ==
  ASSUME NEW a \in Nat, NEW b \in Nat
  PROVE  LET n == WordSize * (b \div WordSize) + (a % WordSize)
         IN n \in Nat /\ HighOf(b) * WordSize + LowOf(a) = n % Wraps
<1> DEFINE q == b \div WordSize
           r == a % WordSize
           n == WordSize * q + r
<1>1. q \in Nat /\ r \in 0..(WordSize - 1) /\ WordSize \in Nat /\ WordSize > 0
  BY ClockConstants, DivMod
<1> HIDE DEF q, r
<1>2. n % WordSize = r /\ n \div WordSize = q
  BY <1>1, DivModUnique
<1>3. n \in Nat
  <2>1. WordSize * q \in Nat
    BY <1>1, SMT
  <2> QED  BY <1>1, <2>1
<1> HIDE DEF n
<1>4. ((n \div WordSize) % WordSize) * WordSize + (n % WordSize) = n % (WordSize * WordSize)
  BY <1>1, <1>3, TwoWords
<1>5. (q % WordSize) * WordSize + r = n % (WordSize * WordSize)
  BY <1>2, <1>4
<1> QED  BY <1>3, <1>5 DEF n, q, r, HighOf, LowOf, Wraps

LEMMA TornFollows == ClockInv => ReturnedOrTorn
<1> SUFFICES ASSUME ClockInv, pc \in {"print", "done"} PROVE ReturnedOrTorn
  BY DEF ReturnedOrTorn
<1> DEFINE W == WordSize
           qa == before \div W
           ra == before % W
<1>1. /\ count \in Nat /\ before \in Nat /\ before <= count /\ W \in Nat /\ W > 1
      /\ order \in {"low", "high"}
  BY ClockConstants DEF ClockInv, ClockTypeOK
<1>2. PICK c \in before..count :
        IF order = "low" THEN rlow = LowOf(before) /\ rhigh = HighOf(c)
                         ELSE rhigh = HighOf(before) /\ rlow = LowOf(c)
  BY DEF ClockInv, Read
<1> DEFINE qc == c \div W
           rc == c % W
           qn == count \div W
           rn == count % W
<1>3. /\ c \in Nat /\ before <= c /\ c <= count
      /\ qa \in Nat /\ ra \in 0..(W - 1) /\ before = W * qa + ra
      /\ qc \in Nat /\ rc \in 0..(W - 1) /\ c = W * qc + rc
      /\ qn \in Nat /\ rn \in 0..(W - 1) /\ count = W * qn + rn
  <2>1. c \in Nat /\ before <= c /\ c <= count
    BY <1>1, <1>2
  <2> QED  BY <1>1, <2>1, DivMod
<1>4. HighOf(c) * W + LowOf(before) = (W * qc + ra) % Wraps
  BY <1>1, <1>3, Mixed
<1>5. HighOf(before) * W + LowOf(c) = (W * qa + rc) % Wraps
  BY <1>1, <1>3, Mixed
<1> HIDE DEF W, qa, ra, qc, rc, qn, rn
(* The quotients are ordered as the numbers are.                           *)
<1>6. \A x, y \in Nat, u, v \in 0..(W - 1) : W * x + u <= W * y + v => x <= y
  <2> SUFFICES ASSUME NEW x \in Nat, NEW y \in Nat, NEW u \in 0..(W - 1),
                      NEW v \in 0..(W - 1), x >= y + 1, W * x + u <= W * y + v
               PROVE  FALSE
    BY SMT
  <2>1. W * x >= W * (y + 1)
    BY <1>1, SMT
  <2>2. W * (y + 1) = W * y + W
    BY <1>1, SMT
  <2>3. W * x \in Nat /\ W * y \in Nat
    BY <1>1, SMT
  <2> QED  BY <1>1, <2>1, <2>2, <2>3, SMT
<1>7. qa <= qc /\ qc <= qn
  BY <1>3, <1>6
(* Within one word nothing is torn.                                        *)
<1>8. CASE qa = qc
  <2>1. Returned = IF order = "low" THEN before % Wraps ELSE c % Wraps
    BY <1>2, <1>3, <1>4, <1>5, <1>8 DEF Returned, W
  <2>2. before \in before..count
    BY <1>1
  <2> QED  BY <1>2, <2>1, <2>2 DEF ReturnedOrTorn
<1>9. CASE qa # qc
  <2>1. Carried
    <3>1. qa # qn
      BY <1>3, <1>7, <1>9
    <3> QED  BY <3>1 DEF Carried, qa, qn, W
  <2>2. qc >= qa + 1
    BY <1>3, <1>7, <1>9
  <2>3. CASE order = "low"
    <3> DEFINE d == W * qc + ra - W
    <3>1. W * (qc - 1) = W * qc - W /\ W * (qc - 1) >= W * qa
          /\ W * qa \in Nat /\ W * qc \in Nat
      BY <1>1, <1>3, <2>2, SMT
    <3>2. d \in Nat /\ before <= d /\ d <= count /\ d + W = W * qc + ra
      BY <1>1, <1>3, <3>1, SMT
    <3> HIDE DEF d
    <3>3. d \in before..count
      BY <1>1, <3>2
    <3>4. Returned = (d + WordSize) % Wraps
      BY <1>2, <1>4, <2>3, <3>2 DEF Returned, W
    <3> QED  BY <2>1, <2>3, <3>3, <3>4 DEF ReturnedOrTorn
  <2>4. CASE order = "high"
    <3> DEFINE d == W * qa + rc + W
    <3>1. W * (qa + 1) = W * qa + W /\ W * (qa + 1) <= W * qc
          /\ W * qa \in Nat /\ W * qc \in Nat
      BY <1>1, <1>3, <2>2, SMT
    <3>2. d \in Nat /\ before <= d /\ d <= count /\ d + (-W) = W * qa + rc
      BY <1>1, <1>3, <3>1, SMT
    <3> HIDE DEF d
    <3>3. d \in before..count
      BY <1>1, <3>2
    <3>4. Returned = (d + (-WordSize)) % Wraps
      BY <1>2, <1>5, <2>4, <3>2 DEF Returned, W
    <3> QED  BY <2>1, <2>4, <3>3, <3>4 DEF ReturnedOrTorn
  <2> QED  BY <1>1, <2>3, <2>4
<1> QED  BY <1>8, <1>9

(* The variables of the clock keep their types: bytes are bytes and words  *)
(* are words.                                                              *)
THEOREM ClockTypes == ClockSpec => []ClockTypeOK
<1>1. ClockInv => ClockTypeOK
  BY DEF ClockInv
<1> QED  BY <1>1, ClockStart, ClockStep, PTL DEF ClockSpec

(* timer_init() gives the PIT the rate it was asked for, for whatever      *)
(* frequency it is called with, exactly when the divisor fits 16 bits.     *)
THEOREM RateProgrammed == ClockSpec => []RateIsRight
BY RateFollows, ClockStart, ClockStep, PTL DEF ClockSpec

(* print_timer_ticks() prints the lower word of a count the clock had.     *)
THEOREM PrintsACount == ClockSpec => []PrintedIsACount
BY PrintedFollows, ClockStart, ClockStep, PTL DEF ClockSpec

(* get_clock_tick() is torn only when the lower word wraps under it.       *)
THEOREM TornOnlyByACarry == ClockSpec => []ReturnedOrTorn
BY TornFollows, ClockStart, ClockStep, PTL DEF ClockSpec
-----------------------------------------------------------------------------
(* What the keyboard and the table speak of, what the table makes of a     *)
(* sequence of bytes, and what a sequence of keys is answered with.        *)
Letters  == {k.legend : k \in USKeys} \cup {kbd_US[code] : code \in 0..127} \cup {"*"}
Codes    == 0..255
Texts(s) == [i \in DOMAIN s |-> Translated(s[i])]
Reads(s) == FlattenSeq(Texts(s))
Answers(s) == FlattenSeq([i \in DOMAIN s |-> Answer(s[i])])

(* The inductive invariant: what is printed and what is on its way answer  *)
(* the keys that were typed.                                               *)
KeyInv ==
  /\ bytes \in Seq(Codes) /\ echoed \in Seq(Letters) /\ typed \in Seq(USKeys)
  /\ echoed \o Reads(bytes) = Answers(typed)

LEMMA ShownTyped == \A c \in Letters : Shown(c) \in Seq(Letters)
  BY EmptySeq DEF Shown

LEMMA TranslatedTyped == \A b \in Codes : Translated(b) \in Seq(Letters)
<1> SUFFICES ASSUME NEW b \in Codes PROVE Translated(b) \in Seq(Letters)
  OBVIOUS
<1>1. b % 128 \in 0..127
  BY DEF Codes
<1>2. kbd_US[b % 128] \in Letters
  BY <1>1 DEF Letters
<1>3. <<>> \in Seq(Letters)
  BY EmptySeq
<1> QED  BY <1>2, <1>3, ShownTyped DEF Translated

LEMMA AnswerTyped == \A k \in USKeys : Answer(k) \in Seq(Letters)
<1> SUFFICES ASSUME NEW k \in USKeys PROVE Answer(k) \in Seq(Letters)
  OBVIOUS
<1>1. k.legend \in Letters /\ "*" \in Letters
  BY DEF Letters
<1>2. <<>> \in Seq(Letters) /\ <<"*">> \in Seq(Letters) /\ Shown(k.legend) \in Seq(Letters)
  BY <1>1, EmptySeq, ShownTyped
<1> QED  BY <1>2 DEF Answer

(* The table against the keyboard, row by row.                             *)
InTable(k) == k.code \in 0..127 /\ k.extended \in BOOLEAN /\ Shown(kbd_US[k.code]) = Shown(k.legend)

LEMMA KeyFields ==
  \A code, legend :
    /\ Key(code, legend).code = code /\ Extended(code, legend).code = code
    /\ Key(code, legend).legend = legend /\ Extended(code, legend).legend = legend
    /\ Key(code, legend).extended = FALSE /\ Extended(code, legend).extended = TRUE
  BY DEF Key, Extended

LEMMA Entries == \A code \in 0..127 : kbd_US[code] = Character(code)
  BY Zenon DEF kbd_US

LEMMA PlainKey ==
  ASSUME NEW code \in 0..127, NEW legend, Shown(Character(code)) = Shown(legend)
  PROVE  InTable(Key(code, legend)) /\ InTable(Extended(code, legend))
<1>1. kbd_US[code] = Character(code)
  BY Entries
<1>2. \A k : k.code = code /\ k.legend = legend /\ k.extended \in BOOLEAN => InTable(k)
  BY <1>1 DEF InTable
<1> DEFINE a == Key(code, legend)
           b == Extended(code, legend)
<1>3. /\ a.code = code /\ a.legend = legend /\ a.extended = FALSE
      /\ b.code = code /\ b.legend = legend /\ b.extended = TRUE
  BY DEF Key, Extended
<1>4. a.extended \in BOOLEAN /\ b.extended \in BOOLEAN
  BY <1>3
<1> HIDE DEF a, b
<1>5. InTable(a) /\ InTable(b)
  BY <1>2, <1>3, <1>4, Zenon
<1> QED  BY <1>5 DEF a, b

LEMMA RowOfTable ==
  ASSUME NEW first \in Nat, NEW legends, NEW n \in Nat, DOMAIN legends = 1..n,
         first + n <= 128, \A i \in 1..n : Character(first + i - 1) = legends[i]
  PROVE  \A k \in Row(first, legends) : InTable(k)
<1> SUFFICES ASSUME NEW i \in 1..n PROVE InTable(Key(first + i - 1, legends[i]))
  BY DEF Row
<1> DEFINE c == first + i - 1
<1>1. c \in 0..127 /\ Character(c) = legends[i]
  OBVIOUS
<1> HIDE DEF c
<1>2. InTable(Key(c, legends[i]))
  BY <1>1, PlainKey
<1> QED  BY <1>2 DEF c

(* Every key is answered with what the table has at its code.              *)
LEMMA TableAnswers ==
  \A k \in USKeys :
    k.code \in 0..127 /\ k.extended \in BOOLEAN /\ Shown(kbd_US[k.code]) = Answer(k)
<1>1. \A k \in Row(1, <<"ESC", "1", "2", "3", "4", "5", "6", "7", "8", "9", "0", "-", "=", "BS">>) :
        InTable(k)
  <2> DEFINE first == 1
             n == 14
             r == <<"ESC", "1", "2", "3", "4", "5", "6", "7", "8", "9", "0", "-", "=", "BS">>
  <2>1. /\ Character(1) = "ESC" /\ Character(2) = "1" /\ Character(3) = "2"
        /\ Character(4) = "3" /\ Character(5) = "4" /\ Character(6) = "5"
        /\ Character(7) = "6" /\ Character(8) = "7" /\ Character(9) = "8"
        /\ Character(10) = "9" /\ Character(11) = "0" /\ Character(12) = "-"
        /\ Character(13) = "=" /\ Character(14) = "BS"
    BY DEF Character, UpToSpace
  <2>2. DOMAIN r = 1..n /\ \A i \in 1..n : Character(first + i - 1) = r[i]
    BY <2>1
  <2>3. first \in Nat /\ n \in Nat /\ first + n <= 128
    OBVIOUS
  <2> HIDE DEF first, n, r
  <2>4. \A k \in Row(first, r) : InTable(k)
    BY <2>2, <2>3, RowOfTable
  <2> QED  BY <2>4 DEF first, r
<1>2. \A k \in Row(15, <<"TAB", "q", "w", "e", "r", "t", "y", "u", "i", "o", "p", "[", "]", "LF">>) :
        InTable(k)
  <2> DEFINE first == 15
             n == 14
             r == <<"TAB", "q", "w", "e", "r", "t", "y", "u", "i", "o", "p", "[", "]", "LF">>
  <2>1. /\ Character(15) = "TAB" /\ Character(16) = "q" /\ Character(17) = "w"
        /\ Character(18) = "e" /\ Character(19) = "r" /\ Character(20) = "t"
        /\ Character(21) = "y" /\ Character(22) = "u" /\ Character(23) = "i"
        /\ Character(24) = "o" /\ Character(25) = "p" /\ Character(26) = "["
        /\ Character(27) = "]" /\ Character(28) = "LF"
    BY DEF Character, UpToSpace
  <2>2. DOMAIN r = 1..n /\ \A i \in 1..n : Character(first + i - 1) = r[i]
    BY <2>1
  <2>3. first \in Nat /\ n \in Nat /\ first + n <= 128
    OBVIOUS
  <2> HIDE DEF first, n, r
  <2>4. \A k \in Row(first, r) : InTable(k)
    BY <2>2, <2>3, RowOfTable
  <2> QED  BY <2>4 DEF first, r
<1>3. \A k \in Row(30, <<"a", "s", "d", "f", "g", "h", "j", "k", "l", "SEMICOLON", "QUOTE", "GRAVE">>) :
        InTable(k)
  <2> DEFINE first == 30
             n == 12
             r == <<"a", "s", "d", "f", "g", "h", "j", "k", "l", "SEMICOLON", "QUOTE", "GRAVE">>
  <2>1. /\ Character(30) = "a" /\ Character(31) = "s" /\ Character(32) = "d"
        /\ Character(33) = "f" /\ Character(34) = "g" /\ Character(35) = "h"
        /\ Character(36) = "j" /\ Character(37) = "k" /\ Character(38) = "l"
        /\ Character(39) = "SEMICOLON" /\ Character(40) = "QUOTE" /\ Character(41) = "GRAVE"
    BY DEF Character, UpToSpace
  <2>2. DOMAIN r = 1..n /\ \A i \in 1..n : Character(first + i - 1) = r[i]
    BY <2>1
  <2>3. first \in Nat /\ n \in Nat /\ first + n <= 128
    OBVIOUS
  <2> HIDE DEF first, n, r
  <2>4. \A k \in Row(first, r) : InTable(k)
    BY <2>2, <2>3, RowOfTable
  <2> QED  BY <2>4 DEF first, r
<1>4. \A k \in Row(43, <<"BACKSLASH", "z", "x", "c", "v", "b", "n", "m", "COMMA", ".", "/">>) :
        InTable(k)
  <2> DEFINE first == 43
             n == 11
             r == <<"BACKSLASH", "z", "x", "c", "v", "b", "n", "m", "COMMA", ".", "/">>
  <2>1. /\ Character(43) = "BACKSLASH" /\ Character(44) = "z" /\ Character(45) = "x"
        /\ Character(46) = "c" /\ Character(47) = "v" /\ Character(48) = "b"
        /\ Character(49) = "n" /\ Character(50) = "m" /\ Character(51) = "COMMA"
        /\ Character(52) = "." /\ Character(53) = "/"
    BY DEF Character, UpToSpace
  <2>2. DOMAIN r = 1..n /\ \A i \in 1..n : Character(first + i - 1) = r[i]
    BY <2>1
  <2>3. first \in Nat /\ n \in Nat /\ first + n <= 128
    OBVIOUS
  <2> HIDE DEF first, n, r
  <2>4. \A k \in Row(first, r) : InTable(k)
    BY <2>2, <2>3, RowOfTable
  <2> QED  BY <2>4 DEF first, r
<1>5. \A k \in {Key(55, "*"), Key(57, "SPACE"), Key(74, "-"), Key(78, "+"),
                 Extended(28, "LF"), Extended(53, "/")} : InTable(k)
  <2>1. /\ Character(55) = "*" /\ Character(57) = "SPACE" /\ Character(74) = "-"
        /\ Character(78) = "+" /\ Character(28) = "LF" /\ Character(53) = "/"
    BY DEF Character, UpToSpace
  <2>2. /\ 28 \in 0..127 /\ 53 \in 0..127 /\ 55 \in 0..127
        /\ 57 \in 0..127 /\ 74 \in 0..127 /\ 78 \in 0..127
    OBVIOUS
  <2>3. InTable(Key(55, "*")) /\ InTable(Key(57, "SPACE")) /\ InTable(Key(74, "-"))
    BY <2>1, <2>2, PlainKey
  <2>4. InTable(Key(78, "+")) /\ InTable(Extended(28, "LF")) /\ InTable(Extended(53, "/"))
    BY <2>1, <2>2, PlainKey
  <2> QED  BY <2>3, <2>4, Zenon
<1>6. \A code \in {29, 42, 54, 56, 75, 77, 87, 88, 91, 92, 93} \cup 58..70 \cup 71..73 \cup 79..83 :
        code \in 0..127 /\ Character(code) = None
  <2>1. /\ Character(29) = None /\ Character(42) = None
        /\ Character(54) = None /\ Character(56) = None
    BY DEF Character, UpToSpace
  <2>2. \A code \in 58..93 \ {74, 78} : Character(code) = None
    BY DEF Character
  <2>3. /\ \A code \in {29, 42, 54, 56} : code \in 0..127
        /\ \A code \in 58..93 : code \in 0..127
        /\ \A code \in {75, 77, 87, 88, 91, 92, 93} \cup 58..70 \cup 71..73 \cup 79..83 :
             code \in 58..93 \ {74, 78}
    OBVIOUS
  <2> QED  BY <2>1, <2>2, <2>3
<1>7. /\ \A code \in {29, 42, 54, 56, 87, 88} \cup 58..70 : InTable(Key(code, None))
      /\ \A code \in {29, 56, 75, 77, 91, 92, 93} \cup 71..73 \cup 79..83 :
           InTable(Extended(code, None))
  BY <1>6, PlainKey
<1>8. \A k \in Keypad : k.code \in 71..83 \ {74, 78} /\ k.extended = FALSE
  <2>1. /\ DOMAIN <<"7", "8", "9">> = 1..3 /\ DOMAIN <<"4", "5", "6">> = 1..3
        /\ DOMAIN <<"1", "2", "3", "0", ".">> = 1..5
    OBVIOUS
  <2>2. \A k \in Row(71, <<"7", "8", "9">>) : k.code \in 71..73 /\ k.extended = FALSE
    BY <2>1 DEF Row, Key
  <2>3. \A k \in Row(75, <<"4", "5", "6">>) : k.code \in 75..77 /\ k.extended = FALSE
    BY <2>1 DEF Row, Key
  <2>4. \A k \in Row(79, <<"1", "2", "3", "0", ".">>) : k.code \in 79..83 /\ k.extended = FALSE
    BY <2>1 DEF Row, Key
  <2> QED  BY <2>2, <2>3, <2>4 DEF Keypad
<1>9. \A k \in Keypad :
        k.code \in 0..127 /\ k.extended \in BOOLEAN /\ Shown(kbd_US[k.code]) = <<>>
  <2>1. \A code \in 71..83 \ {74, 78} : code \in 0..127 /\ Character(code) = None
    BY DEF Character
  <2>2. \A code \in 71..83 \ {74, 78} : kbd_US[code] = None
    BY <2>1, Entries
  <2>3. Shown(None) = <<>>
    BY DEF Shown
  <2> QED  BY <1>8, <2>1, <2>2, <2>3
<1>10. /\ PrtSc.code = 55 /\ PrtSc.extended = TRUE /\ 55 \in 0..127
       /\ Shown(kbd_US[55]) = <<"*">>
  <2>1. Character(55) = "*" /\ 55 \in 0..127
    BY DEF Character, UpToSpace
  <2>2. kbd_US[55] = "*"
    BY <2>1, Entries
  <2>3. Shown("*") = <<"*">>
    BY DEF Shown, None
  <2> QED  BY <2>1, <2>2, <2>3, KeyFields DEF PrtSc
<1>11. \A k \in USKeys : k = PrtSc \/ k \in Keypad \/ InTable(k)
  <2> SUFFICES ASSUME NEW k \in USKeys, k # PrtSc, k \notin Keypad PROVE InTable(k)
    OBVIOUS
  <2>1. CASE \/ k \in Row(1, <<"ESC", "1", "2", "3", "4", "5", "6", "7", "8", "9", "0", "-", "=", "BS">>)
             \/ k \in Row(15, <<"TAB", "q", "w", "e", "r", "t", "y", "u", "i", "o", "p", "[", "]", "LF">>)
             \/ k \in Row(30, <<"a", "s", "d", "f", "g", "h", "j", "k", "l", "SEMICOLON", "QUOTE", "GRAVE">>)
             \/ k \in Row(43, <<"BACKSLASH", "z", "x", "c", "v", "b", "n", "m", "COMMA", ".", "/">>)
    BY <1>1, <1>2, <1>3, <1>4, <2>1, Zenon
  <2>2. CASE k \in {Key(55, "*"), Key(57, "SPACE"), Key(74, "-"), Key(78, "+"),
                     Extended(28, "LF"), Extended(53, "/")}
    BY <1>5, <2>2, Zenon
  <2>3. CASE k \in {Key(code, None) : code \in {29, 42, 54, 56, 87, 88} \cup 58..70}
    BY <1>7, <2>3, Zenon
  <2>4. CASE k \in {Extended(code, None) :
                     code \in {29, 56, 75, 77, 91, 92, 93} \cup 71..73 \cup 79..83}
    BY <1>7, <2>4, Zenon
  <2> QED  BY <2>1, <2>2, <2>3, <2>4, Zenon DEF USKeys
<1> QED  BY <1>9, <1>10, <1>11 DEF Answer, InTable

LEMMA ReadsNone == Reads(<<>>) = <<>>
<1>1. Texts(<<>>) = <<>>
  BY DEF Texts
<1> QED  BY <1>1, FlattenNone DEF Reads

LEMMA TextsTyped == \A s \in Seq(Codes) : Texts(s) \in Seq(Seq(Letters))
<1> SUFFICES ASSUME NEW s \in Seq(Codes) PROVE Texts(s) \in Seq(Seq(Letters))
  OBVIOUS
<1>1. DOMAIN s = 1..Len(s) /\ Len(s) \in Nat /\ \A i \in 1..Len(s) : s[i] \in Codes
  BY LenProperties, ElementOfSeq
<1>2. \A i \in 1..Len(s) : Translated(s[i]) \in Seq(Letters)
  BY <1>1, TranslatedTyped
<1>3. Texts(s) = [i \in 1..Len(s) |-> Translated(s[i])]
  BY <1>1 DEF Texts
<1> QED  BY <1>1, <1>2, <1>3, IsASeq

LEMMA ReadsAppend ==
  \A s \in Seq(Codes) : \A b \in Codes :
    Reads(s) \in Seq(Letters) /\ Reads(Append(s, b)) = Reads(s) \o Translated(b)
<1> SUFFICES ASSUME NEW s \in Seq(Codes), NEW b \in Codes
             PROVE  /\ Reads(s) \in Seq(Letters)
                    /\ Reads(Append(s, b)) = Reads(s) \o Translated(b)
  OBVIOUS
<1> DEFINE t == Append(s, b)
           u == Append(Texts(s), Translated(b))
<1>1. /\ Len(s) \in Nat /\ DOMAIN s = 1..Len(s) /\ DOMAIN t = 1..(Len(s) + 1)
      /\ t[Len(s) + 1] = b /\ \A i \in 1..Len(s) : t[i] = s[i]
  BY LenProperties, AppendProperties
<1>2. Texts(s) \in Seq(Seq(Letters)) /\ Translated(b) \in Seq(Letters)
  BY TextsTyped, TranslatedTyped
<1>3. DOMAIN Texts(s) = 1..Len(s) /\ \A i \in 1..Len(s) : Texts(s)[i] = Translated(s[i])
  BY <1>1 DEF Texts
<1>4. Len(Texts(s)) = Len(s)
  BY <1>1, <1>2, <1>3, LenProperties
<1>5. /\ DOMAIN u = 1..(Len(s) + 1) /\ u[Len(s) + 1] = Translated(b)
      /\ \A i \in 1..Len(s) : u[i] = Translated(s[i])
      /\ u \in Seq(Seq(Letters))
  BY <1>1, <1>2, <1>3, <1>4, AppendProperties
<1>6. DOMAIN Texts(t) = 1..(Len(s) + 1) /\ \A i \in 1..(Len(s) + 1) : Texts(t)[i] = Translated(t[i])
  BY <1>1 DEF Texts
<1> HIDE DEF t, u
<1>7. Texts(t) = u
  <2>1. \A i \in 1..(Len(s) + 1) : i = Len(s) + 1 \/ i \in 1..Len(s)
    BY <1>1
  <2>2. \A i \in 1..(Len(s) + 1) : Texts(t)[i] = u[i]
    BY <1>1, <1>5, <1>6, <2>1
  <2>3. Texts(t) = [i \in 1..(Len(s) + 1) |-> Texts(t)[i]]
    BY <1>6 DEF Texts
  <2>4. u = [i \in 1..(Len(s) + 1) |-> u[i]]
    BY <1>5
  <2> QED  BY <2>2, <2>3, <2>4, Zenon
<1> QED  BY <1>2, <1>7, FlattenAppend DEF Reads, t, u

LEMMA ReadsHead ==
  \A s \in Seq(Codes) : s # <<>> => Reads(s) = Translated(Head(s)) \o Reads(Tail(s))
<1> SUFFICES ASSUME NEW s \in Seq(Codes), s # <<>>
             PROVE  Reads(s) = Translated(Head(s)) \o Reads(Tail(s))
  OBVIOUS
<1> DEFINE n == Len(s)
           e == Translated(Head(s))
           r == Texts(Tail(s))
           u == <<e>> \o r
<1>1. /\ n \in Nat /\ n # 0 /\ DOMAIN s = 1..n /\ Head(s) = s[1] /\ s[1] \in Codes
      /\ Tail(s) \in Seq(Codes) /\ DOMAIN Tail(s) = 1..(n - 1) /\ Len(Tail(s)) = n - 1
      /\ \A i \in 1..(n - 1) : Tail(s)[i] = s[i + 1]
  BY EmptySeq, HeadTailProperties, ElementOfSeq, LenProperties
<1>2. r \in Seq(Seq(Letters)) /\ e \in Seq(Letters)
  BY <1>1, TextsTyped, TranslatedTyped
<1>3. DOMAIN r = 1..(n - 1) /\ \A i \in 1..(n - 1) : r[i] = Translated(s[i + 1])
  BY <1>1 DEF Texts
<1>4. Len(r) = n - 1
  <2>1. n - 1 \in Nat /\ Len(r) \in Nat /\ DOMAIN r = 1..Len(r)
    BY <1>1, <1>2, LenProperties
  <2> QED  BY <1>3, <2>1
<1> HIDE DEF n, e, r
<1>5. /\ u \in Seq(Seq(Letters)) /\ DOMAIN u = 1..n /\ u[1] = e
      /\ \A i \in 2..n : u[i] = r[i - 1]
  BY <1>1, <1>2, <1>4
<1>6. \A i \in 1..n : Texts(s)[i] = Translated(s[i])
  BY <1>1 DEF Texts
<1> HIDE DEF u
<1>7. \A i \in 1..n : Texts(s)[i] = u[i]
  <2> SUFFICES ASSUME NEW i \in 1..n PROVE Texts(s)[i] = u[i]
    OBVIOUS
  <2>1. CASE i = 1
    BY <1>1, <1>5, <1>6, <2>1 DEF e
  <2>2. CASE i # 1
    <3>1. i \in 2..n /\ i - 1 \in 1..(n - 1) /\ (i - 1) + 1 = i
      BY <1>1, <2>2
    <3> QED  BY <1>3, <1>5, <1>6, <3>1
  <2> QED  BY <2>1, <2>2
<1>8. Texts(s) = u
  <2>1. Texts(s) = [i \in 1..n |-> Texts(s)[i]]
    BY <1>1 DEF Texts
  <2>2. u = [i \in 1..n |-> u[i]]
    BY <1>5
  <2> QED  BY <1>7, <2>1, <2>2, Zenon
<1>9. FlattenSeq(u) = e \o FlattenSeq(r)
  BY <1>2, FlattenHead DEF u
<1> QED  BY <1>8, <1>9 DEF Reads, e, r

LEMMA LettersJoin ==
  \A r, s, t \in Seq(Letters) : (r \o s) \o t = r \o (s \o t) /\ r \o s \in Seq(Letters)
  BY ConcatAssociative, ConcatProperties

LEMMA ReadsSent ==
  ASSUME NEW k \in Keys, NEW top \in {0, 128}, Send(k, top), bytes \in Seq(Codes)
  PROVE  /\ bytes' \in Seq(Codes)
         /\ Reads(bytes') = Reads(bytes) \o Translated(k.code + top)
<1>1. k.code + top \in Codes /\ Prefix \in Codes
  <2> DEFINE c == k.code
  <2>1. c \in 0..127
    BY KeyAssumption, TableAnswers
  <2> HIDE DEF c
  <2>2. c + top \in 0..255
    BY <2>1
  <2> QED  BY <2>2 DEF Codes, Prefix, c
<1>2. Translated(Prefix) = <<>>
  BY DEF Translated, IsRelease, Prefix
<1>3. CASE k.extended
  <2>1. bytes' = Append(Append(bytes, Prefix), k.code + top)
    BY <1>1, <1>3 DEF Send
  <2>2. Append(bytes, Prefix) \in Seq(Codes)
    BY <1>1
  <2>3. Reads(Append(bytes, Prefix)) = Reads(bytes)
    BY <1>1, <1>2, ReadsAppend, ConcatEmptySeq
  <2> QED  BY <1>1, <2>1, <2>2, <2>3, ReadsAppend, AppendProperties, ZenonT(40)
<1>4. CASE ~ k.extended
  <2>1. bytes' = Append(bytes, k.code + top)
    BY <1>1, <1>4 DEF Send
  <2> QED  BY <1>1, <2>1, ReadsAppend, AppendProperties
<1> QED  BY <1>3, <1>4

(* One more key is answered after those before it.                         *)
LEMMA AnswersAppend ==
  \A s \in Seq(USKeys) : \A k \in USKeys :
    Answers(s) \in Seq(Letters) /\ Answers(Append(s, k)) = Answers(s) \o Answer(k)
<1> SUFFICES ASSUME NEW s \in Seq(USKeys), NEW k \in USKeys
             PROVE  /\ Answers(s) \in Seq(Letters)
                    /\ Answers(Append(s, k)) = Answers(s) \o Answer(k)
  OBVIOUS
<1> DEFINE t == Append(s, k)
           as == [i \in DOMAIN s |-> Answer(s[i])]
           at2 == [i \in DOMAIN t |-> Answer(t[i])]
           u == Append(as, Answer(k))
<1>1. /\ Len(s) \in Nat /\ DOMAIN s = 1..Len(s) /\ DOMAIN t = 1..(Len(s) + 1)
      /\ t[Len(s) + 1] = k /\ \A i \in 1..Len(s) : t[i] = s[i] /\ s[i] \in USKeys
  BY LenProperties, AppendProperties, ElementOfSeq
<1>2. Answer(k) \in Seq(Letters)
  BY AnswerTyped
<1>3. as = [i \in 1..Len(s) |-> Answer(s[i])] /\ DOMAIN as = 1..Len(s)
      /\ \A i \in 1..Len(s) : as[i] = Answer(s[i])
  BY <1>1
<1>4. as \in Seq(Seq(Letters))
  <2>1. \A i \in 1..Len(s) : Answer(s[i]) \in Seq(Letters)
    BY <1>1, AnswerTyped
  <2> HIDE DEF as
  <2> QED  BY <1>1, <1>3, <2>1, IsASeq
<1>5. DOMAIN at2 = 1..(Len(s) + 1) /\ at2 = [i \in 1..(Len(s) + 1) |-> at2[i]]
      /\ \A i \in 1..(Len(s) + 1) : at2[i] = Answer(t[i])
  BY <1>1
<1> HIDE DEF as, at2, t
<1>6. Len(as) = Len(s)
  BY <1>1, <1>3, <1>4, LenProperties
<1>7. /\ DOMAIN u = 1..(Len(s) + 1) /\ u[Len(s) + 1] = Answer(k)
      /\ \A i \in 1..Len(s) : u[i] = Answer(s[i])
      /\ u \in Seq(Seq(Letters))
  BY <1>1, <1>2, <1>3, <1>4, <1>6, AppendProperties
<1> HIDE DEF u
<1>8. at2 = u
  <2>1. \A i \in 1..(Len(s) + 1) : i = Len(s) + 1 \/ i \in 1..Len(s)
    BY <1>1
  <2>2. \A i \in 1..(Len(s) + 1) : at2[i] = u[i]
    BY <1>1, <1>5, <1>7, <2>1
  <2>3. u = [i \in 1..(Len(s) + 1) |-> u[i]]
    BY <1>7
  <2> QED  BY <1>5, <2>2, <2>3, Zenon
<1>9. FlattenSeq(as) \in Seq(Letters) /\ FlattenSeq(u) = FlattenSeq(as) \o Answer(k)
  BY <1>2, <1>4, FlattenAppend DEF u
<1> QED  BY <1>8, <1>9 DEF Answers, as, at2, t

LEMMA KeyStep == KeyInv /\ KeyboardNext => KeyInv'
<1>c. SUFFICES ASSUME KeyInv, KeyboardNext PROVE KeyInv'
  OBVIOUS
<1>a. bytes \in Seq(Codes) /\ echoed \in Seq(Letters) /\ typed \in Seq(USKeys)
  BY <1>c DEF KeyInv
<1>b. echoed \o Reads(bytes) = Answers(typed)
  BY <1>c DEF KeyInv
<1>0. Reads(bytes) \in Seq(Letters)
  <2>1. 0 \in Codes
    BY DEF Codes
  <2> QED  BY <1>a, <2>1, ReadsAppend
<1>1. ASSUME NEW k \in Keys, Press(k) \/ Repeat(k) PROVE KeyInv'
  <2>0. k \in USKeys
    BY KeyAssumption
  <2>1. Send(k, 0) /\ typed' = Append(typed, k) /\ echoed' = echoed
    BY <1>1 DEF Press, Repeat, Send
  <2>2. Translated(k.code + 0) = Answer(k)
    <3> DEFINE c == k.code
    <3>1. c \in 0..127 /\ Shown(kbd_US[c]) = Answer(k)
      BY <2>0, TableAnswers
    <3> HIDE DEF c
    <3>2. ~ (c + 0 >= 128) /\ (c + 0) % 128 = c
      <4>1. c \in Nat /\ c < 128 /\ c + 0 = c
        BY <3>1
      <4>2. c % 128 = c
        BY <4>1
      <4> QED  BY <4>1, <4>2
    <3>3. Translated(c + 0) = Answer(k)
      BY <3>1, <3>2 DEF Translated, IsRelease
    <3> QED  BY <3>3 DEF c
  <2>3. Answer(k) \in Seq(Letters)
    BY <2>0, AnswerTyped
  <2>4. bytes' \in Seq(Codes) /\ Reads(bytes') = Reads(bytes) \o Answer(k)
    BY <1>a, <2>1, <2>2, ReadsSent
  <2>5. (echoed \o Reads(bytes)) \o Answer(k) = echoed \o (Reads(bytes) \o Answer(k))
    <3> DEFINE d == Answer(k)
               t == Reads(bytes)
    <3>1. echoed \in Seq(Letters) /\ t \in Seq(Letters) /\ d \in Seq(Letters)
      BY <1>a, <1>0, <2>3
    <3> HIDE DEF d, t
    <3>2. (echoed \o t) \o d = echoed \o (t \o d)
      BY <3>1, LettersJoin
    <3> QED  BY <3>2 DEF d, t
  <2>6. typed' \in Seq(USKeys) /\ Answers(typed') = Answers(typed) \o Answer(k)
    BY <1>a, <2>0, <2>1, AnswersAppend, AppendProperties
  <2> QED  BY <1>a, <1>b, <2>1, <2>4, <2>5, <2>6 DEF KeyInv
<1>2. ASSUME NEW k \in Keys, Release(k) PROVE KeyInv'
  <2>1. Send(k, 128) /\ typed' = typed /\ echoed' = echoed
    BY <1>2 DEF Release, Send
  <2>2. Translated(k.code + 128) = <<>>
    <3> DEFINE c == k.code
    <3>1. c \in 0..127
      BY KeyAssumption, TableAnswers
    <3> HIDE DEF c
    <3>2. c + 128 >= 128
      BY <3>1
    <3>3. Translated(c + 128) = <<>>
      BY <3>2 DEF Translated, IsRelease
    <3> QED  BY <3>3 DEF c
  <2>3. bytes' \in Seq(Codes) /\ Reads(bytes') = Reads(bytes) \o <<>>
    BY <1>a, <2>1, <2>2, ReadsSent, ZenonT(40)
  <2>4. Reads(bytes) \o <<>> = Reads(bytes)
    BY <1>0, ConcatEmptySeq
  <2> QED  BY <1>a, <1>b, <2>1, <2>3, <2>4 DEF KeyInv
<1>3. CASE KbdCallback
  <2>1. /\ bytes # <<>> /\ bytes' = Tail(bytes) /\ typed' = typed
        /\ echoed' = echoed \o Translated(Head(bytes))
    BY <1>3 DEF KbdCallback
  <2>2. Head(bytes) \in Codes /\ Tail(bytes) \in Seq(Codes)
    BY <1>a, <2>1, HeadTailProperties
  <2>3. Translated(Head(bytes)) \in Seq(Letters) /\ Reads(Tail(bytes)) \in Seq(Letters)
    BY <2>2, TranslatedTyped, ReadsAppend
  <2>4. Reads(bytes) = Translated(Head(bytes)) \o Reads(Tail(bytes))
    BY <1>a, <2>1, ReadsHead
  <2>5. (echoed \o Translated(Head(bytes))) \o Reads(Tail(bytes))
          = echoed \o (Translated(Head(bytes)) \o Reads(Tail(bytes)))
    BY <1>a, <2>3, LettersJoin, SMTT(40)
  <2>6. echoed \o Translated(Head(bytes)) \in Seq(Letters)
    BY <1>a, <2>3, ConcatProperties
  <2> QED  BY <1>a, <1>b, <2>1, <2>2, <2>4, <2>5, <2>6 DEF KeyInv
<1> QED  BY <1>c, <1>1, <1>2, <1>3 DEF KeyboardNext

(* Every press and repetition of a key shows what is printed on it, once   *)
(* and in order, but for the keypad and PrtSc, and neither a release nor a *)
(* prefix shows anything: for any of the keys of a US keyboard, any number *)
(* of bytes held back and any number of keys pressed.                      *)
THEOREM LegendsArePrinted == KeyboardSpec => []LegendsInOrder
<1>1. KeyboardInit => KeyInv
  <2>1. Answers(<<>>) = <<>>
    <3>1. [i \in DOMAIN <<>> |-> Answer(<<>>[i])] = <<>>
      OBVIOUS
    <3> QED  BY <3>1, FlattenNone DEF Answers
  <2> QED  BY <2>1, ReadsNone, EmptySeq DEF KeyboardInit, KeyInv
<1>2. KeyInv /\ [KeyboardNext]_keyboardVars => KeyInv'
  BY KeyStep DEF keyboardVars, KeyInv, Reads, Texts, Answers
<1>3. KeyInv => LegendsInOrder
  BY DEF KeyInv, LegendsInOrder, OnItsWay, Reads, Texts, Answers
<1> QED  BY <1>1, <1>2, <1>3, PTL DEF KeyboardSpec
=============================================================================
