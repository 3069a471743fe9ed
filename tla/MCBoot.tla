------------------------------- MODULE MCBoot -------------------------------
(* What is set up once: the handoff by the loader, the descriptor tables,  *)
(* the frame bitmap and the page tables.  They share no state, so that one *)
(* run looks at each of them by itself: part says at which.                *)
EXTENDS Handoff, Descriptors, FrameBitmap, Paging

CONSTANT Parts

VARIABLE part

allVars == <<part, handoffVars, descVars, bitmapVars, pagingVars>>

(* Stubs of 16 bytes each from 1 MB + 60 KB on, so that they lie on both   *)
(* sides of a 64 KB boundary.                                              *)
BitsOf(a) == {b \in 0..30 : (a \div 2^b) % 2 = 1}
MCIsrAddress == [v \in 0..31 \cup {128} |-> BitsOf(1048576 + 65136 + 16 * v)]
MCIrqAddress == [l \in 0..15 |-> BitsOf(1048576 + 65136 + 16 * (160 + l))]

(* Any machine.  From 16 MB to 251 MB in steps that are no multiple of     *)
(* 512 KB, what a difference of 16 bytes in the array stands for; smaller  *)
(* ones; those whose array leaves the stack, in steps that take the words  *)
(* pushed below it to every table; and some beyond 4 GB, where the report  *)
(* wraps and the array may have no bytes.                                  *)
UpTo251MB     == {16384 + 456 * k : k \in 0..525}
Small         == {0, 31, 32, 640, 1024, 15360}
BeyondStack   == {251 * 1024 + 1000 * k : k \in 0..400} \cup {1048576 * k : k \in 1..4}
Beyond4GB     == {4194304 + k : k \in {0, 31, 32} \cup {16384 + 4096 * j : j \in 0..10}}
SomeMemories  == UpTo251MB \cup Small \cup BeyondStack \cup Beyond4GB

(* The page tables are in the last frame that is mapped.                   *)
LastFrame == ENTRIES - 1

Init ==
  /\ part \in Parts
  /\ HandoffInit /\ DescriptorsInit /\ BitmapInit /\ TablesInit
  /\ part # "handoff" => loader = "foreign" /\ mode = "text"
  /\ part # "bitmap" => mem_upper = CHOOSE kb \in Memories : TRUE

Next ==
  /\ UNCHANGED part
  /\ \/ /\ part = "handoff" /\ HandoffNext
        /\ UNCHANGED <<descVars, bitmapVars, pagingVars>>
     \/ /\ part = "descriptors" /\ DescriptorsNext
        /\ UNCHANGED <<handoffVars, bitmapVars, pagingVars>>
     \/ /\ part = "bitmap" /\ BitmapNext
        /\ UNCHANGED <<handoffVars, descVars, pagingVars>>
     \/ /\ part = "tables" /\ TablesNext
        /\ UNCHANGED <<handoffVars, descVars, bitmapVars>>

Spec == Init /\ [][Next]_allVars
=============================================================================
