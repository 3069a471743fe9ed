----------------------------- MODULE IrqService -----------------------------
(***************************************************************************)
(* What the interrupt subsystem promises to a line, with no controller, no *)
(* stub and no stack: requests are collected, and once the kernel is open  *)
(* for them they are served one at a time, each request at most once.  A   *)
(* request may be withdrawn before it is served; the handler of one of the *)
(* SpuriousLines then runs in its place.  Requests made before the kernel  *)
(* opens may be forgotten, later ones may not.                             *)
(***************************************************************************)
CONSTANTS Lines, SpuriousLines

VARIABLES open,       \* the kernel has enabled interrupts
          requested,  \* lines waiting for service
          serving     \* the line whose handler runs, if any

vars == <<open, requested, serving>>

Init == open = FALSE /\ requested = {} /\ serving = {}

Request(l) ==
  /\ requested' = requested \cup {l}
  /\ UNCHANGED <<open, serving>>

Forget ==
  /\ ~open
  /\ requested' = {}
  /\ UNCHANGED <<open, serving>>

Open ==
  /\ ~open /\ open' = TRUE
  /\ UNCHANGED <<requested, serving>>

(* The request of l is taken; handler l runs, or a spurious one.           *)
Begin(l, handler) ==
  /\ open /\ serving = {}
  /\ l \in requested
  /\ handler \in {l} \cup SpuriousLines
  /\ requested' = requested \ {l}
  /\ serving' = {handler}
  /\ UNCHANGED open

Finish ==
  /\ serving # {}
  /\ serving' = {}
  /\ UNCHANGED <<open, requested>>

Next ==
  \/ Forget \/ Open \/ Finish
  \/ \E l \in Lines : Request(l)
  \/ \E l, handler \in Lines : Begin(l, handler)

Spec == Init /\ [][Next]_vars

(* Every handler comes to its end.                                         *)
HandlersEnd == serving # {} ~> serving = {}
=============================================================================
