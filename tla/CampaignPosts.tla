---------------------------- MODULE CampaignPosts ----------------------------
(***************************************************************************)
(* The editorial columns of table campaign_posts, functions of the post or *)
(* sets of posts, and the statements that record a verdict                 *)
(* (internal/db/safety_rules.go, internal/db/campaigns.go).                *)
(***************************************************************************)

VARIABLES
  es,       \* editorial_status, "none" without a row; idea, drafting and
            \* scheduled are one
  needs,    \* the posts with requires_approval = 1
  stamped,  \* the posts with an approved_at
  audit,    \* auto_approved_reason: "blank", "rules" or "manual"
  blocked   \* the posts with a blocked_reason

editorial == <<es, needs, stamped, audit, blocked>>

(* What ClaimDuePosts holds back: pending sign-off. *)
InReview(p) == p \in needs /\ es[p] = "needs_review"

(* Mutant: the blocked reason survives an approval. *)
PromoteOnly(p, reason) ==
  /\ es' = [es EXCEPT ![p] = "approved"]
  /\ needs' = needs \ {p}
  /\ stamped' = stamped \cup {p}
  /\ audit' = [audit EXCEPT ![p] = reason]
  /\ UNCHANGED blocked

(* UPDATE campaign_posts with an approval; without a row it does nothing. *)
Promote(p, reason) ==
  /\ es' = [es EXCEPT ![p] = "approved"]
  /\ needs' = needs \ {p}
  /\ stamped' = stamped \cup {p}
  /\ audit' = [audit EXCEPT ![p] = reason]
  /\ blocked' = blocked \ {p}

Block(p) ==
  /\ audit' = [audit EXCEPT ![p] = "blank"]
  /\ blocked' = blocked \cup {p}
  /\ UNCHANGED <<es, needs, stamped>>

(* The two reasons of a row contradict each other and never stand together,  *)
(* and a row with an audit reason has its approved_at: through any overlap   *)
(* of sweeps, approvals and edits the last verdict is the one recorded.      *)
ReasonsAgree ==
  \A p \in DOMAIN audit : audit[p] # "blank" => p \notin blocked /\ p \in stamped
=============================================================================
