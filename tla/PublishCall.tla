----------------------------- MODULE PublishCall -----------------------------
(***************************************************************************)
(* What the publish cycle assumes of a network: one attempt calls Publish, *)
(* at most twice, and ends with an answer to mark, to fail or to defer.    *)
(* These are the steps PublishOk, PublishError and AnswerLost of           *)
(* PublishCycle, seen from one post.                                       *)
(***************************************************************************)
EXTENDS Naturals

VARIABLES
  phase,    \* "first" or "again" while the call runs, then what it led to
  copies,   \* copies of the post the network has
  unheard   \* how many of them the caller knows nothing of

pvars == <<phase, copies, unheard>>

Init == phase = "first" /\ copies = 0 /\ unheard = 0

Running == phase \in {"first", "again"}

Ok ==
  /\ Running
  /\ copies' = copies + 1
  /\ phase' = "mark"
  /\ UNCHANGED unheard

(* The call fails; the first time it may be repeated. *)
Falls == phase' \in {"fail", "defer"} \cup (IF phase = "first" THEN {"again"} ELSE {})

Error ==
  /\ Running
  /\ Falls
  /\ UNCHANGED <<copies, unheard>>

(* A copy is out that nobody heard of; the call fails or goes on. *)
Lost ==
  /\ Running
  /\ copies' = copies + 1
  /\ unheard' = unheard + 1
  /\ Falls \/ UNCHANGED phase

Next == Ok \/ Error \/ Lost

Spec == Init /\ [][Next]_pvars
=============================================================================
