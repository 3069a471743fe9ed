----------------------------- MODULE MCHandlers -----------------------------
(* What interrupts do to the code they stop: the frame on the stack, the   *)
(* tick counter and the translation of keys.  They share no state, so that *)
(* one run looks at each of them by itself: part says at which.            *)
EXTENDS TrapFrame, Clock, Keyboard

CONSTANT Parts

VARIABLE part

allVars == <<part, trapVars, clockVars, keyboardVars>>

(* Two different words in every register, with different upper halves.     *)
SomeContents == {
  [eax |-> 65537, ebx |-> 2, ecx |-> 3, edx |-> 4, esi |-> 5, edi |-> 6, ebp |-> 7],
  [eax |-> 1200042, ebx |-> 22, ecx |-> 23, edx |-> 24, esi |-> 25, edi |-> 26, ebp |-> 27]}
SomePositions  == {1048844, 1050000}
SomeArithmetic == {70}
SomeExceptions == {3, 13, 14}

(* The lowest and the highest the chip can count and their neighbours, the *)
(* lowest of all, that of the kernel, and two whose divisors have a byte 0 *)
(* or 255.                                                                 *)
SomeFrequencies == {1, 18, 19, 100, 4660, 4679, 1193180, 1193181}

(* A key at either end of every row of the table, keys with a prefix that  *)
(* share their code with one without, PrtSc and digits of the keypad among *)
(* them.                                                                   *)
SomeKeys ==
  {k \in USKeys : k.extended \/ k.code \in
     {1, 2, 13, 14, 15, 16, 27, 28, 29, 30, 40, 41, 42, 43, 44, 50, 53, 54, 55, 56, 57, 58, 68,
      69, 70, 71, 74, 77, 78, 83, 88}}

Init ==
  /\ part \in Parts
  /\ TrapInit /\ ClockInit /\ KeyboardInit
  /\ part # "frame" =>
       /\ reg = CHOOSE c \in Contents : TRUE
       /\ eip = CHOOSE p \in Positions : TRUE
       /\ eflags = IF_BIT + CHOOSE a \in Arithmetic : TRUE
       /\ handlers = {}
  /\ part # "clock" =>
       /\ frequency = CHOOSE f \in Frequencies : TRUE
       /\ tsc = 0 /\ order = "low"

Tick == part = "clock" /\ TimerCallback /\ UNCHANGED <<part, trapVars, keyboardVars>>
Boot == part = "clock" /\ KmainStep /\ UNCHANGED <<part, trapVars, keyboardVars>>

Next ==
  \/ part = "frame" /\ TrapNext /\ UNCHANGED <<part, clockVars, keyboardVars>>
  \/ Tick \/ Boot
  \/ part = "keyboard" /\ KeyboardNext /\ UNCHANGED <<part, trapVars, clockVars>>

Spec == Init /\ [][Next]_allVars /\ WF_allVars(Boot)
=============================================================================
