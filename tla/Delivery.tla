------------------------------ MODULE Delivery ------------------------------
(***************************************************************************)
(* What publishing promises a client about each post, without the worker,  *)
(* the statements and the threads: clients move posts between shelf and    *)
(* queue, one post at a time is taken out of the queue to be sent, every   *)
(* copy handed to the network leaves a receipt, a receipt is either        *)
(* recorded, which delivers the post for good, or lost.                    *)
(***************************************************************************)
EXTENDS Naturals

CONSTANT Post

VARIABLES
  stage,     \* where a post is
  copies,    \* how many copies of it the network has
  unsure,    \* how many of them were never recorded
  receipts   \* the posts with a receipt in hand

dvars == <<stage, copies, unsure, receipts>>

Stage == {"unborn", "shelf", "queue", "sending", "delivered", "dead", "gone"}

Init ==
  /\ stage = [p \in Post |-> "unborn"]
  /\ copies = [p \in Post |-> 0]
  /\ unsure = [p \in Post |-> 0]
  /\ receipts = {}

(* A client creates, schedules, edits, cancels, requeues or deletes any      *)
(* number of posts at once, none of them on its way or delivered.            *)
Author ==
  /\ stage' \in [Post -> Stage]
  /\ \A p \in Post : stage'[p] # stage[p] =>
       /\ stage[p] \in {"unborn", "shelf", "queue", "dead"}
       /\ stage'[p] \in {"shelf", "queue", "gone"}
  /\ UNCHANGED <<copies, unsure, receipts>>

Take(p) ==
  /\ stage[p] = "queue"
  /\ stage' = [stage EXCEPT ![p] = "sending"]
  /\ UNCHANGED <<copies, unsure, receipts>>

(* The network has another copy and says so. *)
Emit(p) ==
  /\ stage[p] = "sending"
  /\ p \notin receipts
  /\ copies' = [copies EXCEPT ![p] = @ + 1]
  /\ receipts' = receipts \cup {p}
  /\ UNCHANGED <<stage, unsure>>

(* The network has another copy and nobody knows. *)
EmitUnheard(p) ==
  /\ stage[p] = "sending"
  /\ p \notin receipts
  /\ copies' = [copies EXCEPT ![p] = @ + 1]
  /\ unsure' = [unsure EXCEPT ![p] = @ + 1]
  /\ UNCHANGED <<stage, receipts>>

LoseReceipt(p) ==
  /\ p \in receipts
  /\ receipts' = receipts \ {p}
  /\ unsure' = [unsure EXCEPT ![p] = @ + 1]
  /\ UNCHANGED <<stage, copies>>

Deliver(p) ==
  /\ stage[p] = "sending"
  /\ p \in receipts
  /\ stage' = [stage EXCEPT ![p] = "delivered"]
  /\ receipts' = receipts \ {p}
  /\ UNCHANGED <<copies, unsure>>

(* A post without a receipt goes back to the queue. *)
Return(p) ==
  /\ stage[p] = "sending"
  /\ p \notin receipts
  /\ stage' = [stage EXCEPT ![p] = "queue"]
  /\ UNCHANGED <<copies, unsure, receipts>>

(* Posts without a receipt are given up: some on their way, and queued ones  *)
(* that can no longer follow them.                                           *)
GiveUp(S) ==
  /\ \A p \in S : stage[p] \in {"sending", "queue"} /\ p \notin receipts
  /\ \E p \in S : stage[p] = "sending"
  /\ stage' = [p \in Post |-> IF p \in S THEN "dead" ELSE stage[p]]
  /\ UNCHANGED <<copies, unsure, receipts>>

Next ==
  \/ Author
  \/ \E p \in Post :
       Take(p) \/ Emit(p) \/ EmitUnheard(p) \/ LoseReceipt(p) \/ Deliver(p) \/ Return(p)
  \/ \E S \in SUBSET Post : GiveUp(S)

Spec == Init /\ [][Next]_dvars
=============================================================================
