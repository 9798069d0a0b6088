----------------------------- MODULE SafetyGate -----------------------------
(***************************************************************************)
(* The editorial side of a post and the gate that approves posts by rule   *)
(* (internal/application/safetygate, internal/db/safety_rules.go,          *)
(* safety_sweep.go, campaigns.go, internal/application/posts/mutations.go).*)
(*                                                                         *)
(* A sweep reads the rules, lists the eligible posts, loads each of them   *)
(* and then writes one verdict per post; the worker runs sweeps under a    *)
(* lease, the API (POST /posts/auto-approve, MCP) runs them without.       *)
(* Clients attach, edit, approve and schedule posts meanwhile.  A post is  *)
(* a thread of one step here, and a claim is one step: threads and the     *)
(* statements of a claim are the subject of Publishing.                    *)
(*                                                                         *)
(* A text stands for what the rules say of it: the rules in force are the  *)
(* set of texts that some enabled rule of severity block rejects.          *)
(***************************************************************************)
EXTENDS Naturals, FiniteSets, CampaignPosts

CONSTANTS
  NumPosts,   \* posts, numbered by created_at
  Text,       \* the texts
  Unread,     \* a text not loaded
  Worker,     \* the worker's sweep
  Caller,     \* the API's sweeps
  Batch,      \* posts per sweep (MaxBatchSize)
  MaxOps,     \* bound on the requests of a behaviour
  MaxFaults   \* bound on errors and crashes

ASSUME GateAssumption ==
  /\ NumPosts \in Nat
  /\ Unread \notin Text
  /\ Worker \notin Caller
  /\ Batch \in Nat \ {0}
  /\ MaxOps \in Nat /\ MaxFaults \in Nat

Post    == 1..NumPosts
Sweeper == {Worker} \cup Caller

VARIABLES
  stage,    \* posts.status: "publishing" and later are one
  text,     \* posts.text
  rejects,  \* the texts the rules reject
  lease,    \* settings.safety_sweep_lease: "free", "held" or "expired"
  sweep,    \* the sweeps in progress
  req,      \* the schedule or edit request in progress
  orphan,   \* history: the lease's holder died or failed to release it
  ops, faults

vars == <<stage, text, editorial, rejects, lease, sweep, req, orphan, ops, faults>>

-----------------------------------------------------------------------------
Status == {"drafting", "needs_review", "approved"}
Keep   == "keep"   \* an omitted field of an edit

Sweep ==
  [pc : {"idle", "rules", "list", "load", "judge"},
   rules : SUBSET Text, ids : SUBSET Post, seen : [Post -> Text \cup {Unread}]]

Rest == [pc |-> "idle", rules |-> {}, ids |-> {}, seen |-> [p \in Post |-> Unread]]

(* What an edit is going to write. *)
Edit ==
  [phase : {"none", "schedule", "write", "meta"}, post : Post \cup {0},
   to : {"draft", "scheduled"}, text : Text \cup {Unread}, steps : BOOLEAN,
   es : Status \cup {Keep}, needs : {Keep, "yes", "no"}, stamp : BOOLEAN]

NoEdit ==
  [phase |-> "none", post |-> 0, to |-> "draft", text |-> Unread, steps |-> FALSE,
   es |-> Keep, needs |-> Keep, stamp |-> FALSE]

TypeOK ==
  /\ stage \in [Post -> {"absent", "draft", "scheduled", "publishing"}]
  /\ text \in [Post -> Text \cup {Unread}]
  /\ es \in [Post -> Status \cup {"none"}]
  /\ needs \subseteq Post /\ stamped \subseteq Post
  /\ audit \in [Post -> {"blank", "rules", "manual"}]
  /\ blocked \subseteq Post
  /\ rejects \subseteq Text
  /\ lease \in {"free", "held", "expired"}
  /\ sweep \in [Sweeper -> Sweep]
  /\ req \in Edit
  /\ req.phase # "none" => req.post \in Post
  /\ orphan \in BOOLEAN
  /\ ops \in Nat /\ faults \in Nat

Init ==
  /\ stage = [p \in Post |-> "absent"]
  /\ text = [p \in Post |-> Unread]
  /\ es = [p \in Post |-> "none"]
  /\ needs = {} /\ stamped = {} /\ blocked = {}
  /\ audit = [p \in Post |-> "blank"]
  /\ rejects \in SUBSET Text
  /\ lease = "free"
  /\ sweep = [s \in Sweeper |-> Rest]
  /\ req = NoEdit
  /\ orphan = FALSE
  /\ ops = 0 /\ faults = 0

Op    == ops < MaxOps /\ ops' = ops + 1
Fault == faults < MaxFaults /\ faults' = faults + 1

(* postRequiresApproval *)
RequiresApproval(status, required, approvedAt) ==
  required /\ status # "approved" /\ ~approvedAt

-----------------------------------------------------------------------------
(* Sweeps.                                                                 *)

(* Mutant: blocked posts are listed again. *)
EligibleAlways == {p \in Post : InReview(p) /\ audit[p] = "blank"}

Eligible == {p \in Post : InReview(p) /\ audit[p] = "blank" /\ p \notin blocked}

(* ORDER BY created_at LIMIT n *)
Oldest(S, n) == {p \in S : Cardinality({q \in S : q < p}) < n}
IsFirst(p, S) == p \in S /\ \A q \in S : p <= q

(* Mutant: a lease whose holder died is never taken over. *)
LeaseNeverRunsOut == lease = "free"

LeaseOpen == lease \in {"free", "expired"}

Go(s, r) == sweep' = [sweep EXCEPT ![s] = r]

(* ClaimSafetySweep for the worker; nothing for the API. *)
Start(s) ==
  /\ sweep[s].pc = "idle"
  /\ IF s = Worker THEN LeaseOpen /\ lease' = "held" /\ orphan' = FALSE /\ UNCHANGED ops
                   ELSE Op /\ UNCHANGED <<lease, orphan>>
  /\ Go(s, [Rest EXCEPT !.pc = "rules"])
  /\ UNCHANGED <<stage, text, editorial, rejects, req, faults>>

ReadRules(s) ==
  /\ sweep[s].pc = "rules"
  /\ Go(s, [sweep[s] EXCEPT !.pc = "list", !.rules = rejects])
  /\ UNCHANGED <<stage, text, editorial, rejects, lease, req, ops, faults, orphan>>

List(s) ==
  /\ sweep[s].pc = "list"
  /\ Go(s, [sweep[s] EXCEPT !.pc = "load", !.ids = Oldest(Eligible, Batch)])
  /\ UNCHANGED <<stage, text, editorial, rejects, lease, req, ops, faults, orphan>>

Unloaded(s) == {p \in sweep[s].ids : sweep[s].seen[p] = Unread}

(* One GetPost per listed id; then the verdicts. *)
Load(s) ==
  /\ sweep[s].pc = "load"
  /\ \/ /\ Unloaded(s) = {}
        /\ Go(s, [sweep[s] EXCEPT !.pc = "judge"])
     \/ \E p \in Post :
          /\ IsFirst(p, Unloaded(s))
          /\ Go(s, [sweep[s] EXCEPT !.seen = [@ EXCEPT ![p] = text[p]]])
  /\ UNCHANGED <<stage, text, editorial, rejects, lease, req, ops, faults, orphan>>

(* Evaluate and UpdatePostAutoApprove, whatever the row holds by now.  The   *)
(* audit string is blank when there are no rules at all.                     *)
Judge(s, p) ==
  /\ sweep[s].pc = "judge"
  /\ IsFirst(p, sweep[s].ids)
  /\ Go(s, [sweep[s] EXCEPT !.ids = @ \ {p}])
  /\ \/ sweep[s].seen[p] \in sweep[s].rules /\ Block(p)
     \/ /\ sweep[s].seen[p] \notin sweep[s].rules
        /\ \E reason \in {"blank", "rules"} :
             /\ reason = "blank" => sweep[s].rules = {}
             /\ Promote(p, reason)
  /\ UNCHANGED <<stage, text, rejects, lease, req, ops, faults, orphan>>

(* A store error or a panic skips the post. *)
JudgeError(s, p) ==
  /\ sweep[s].pc = "judge"
  /\ IsFirst(p, sweep[s].ids)
  /\ Fault
  /\ Go(s, [sweep[s] EXCEPT !.ids = @ \ {p}])
  /\ UNCHANGED <<stage, text, editorial, rejects, lease, req, ops, orphan>>

(* ReleaseSafetySweep, deferred by the worker. *)
Release(s) == lease' = IF s = Worker THEN "free" ELSE lease

Finish(s) ==
  /\ sweep[s].pc = "judge"
  /\ sweep[s].ids = {}
  /\ Go(s, Rest)
  /\ Release(s)
  /\ UNCHANGED <<stage, text, editorial, rejects, req, ops, faults, orphan>>

ReleaseError ==
  /\ sweep[Worker].pc = "judge"
  /\ sweep[Worker].ids = {}
  /\ Fault
  /\ Go(Worker, Rest)
  /\ orphan' = TRUE
  /\ UNCHANGED <<stage, text, editorial, rejects, lease, req, ops>>

(* The rules, the list or a post cannot be read. *)
SweepError(s) ==
  /\ sweep[s].pc \in {"rules", "list", "load"}
  /\ Fault
  /\ Go(s, Rest)
  /\ Release(s)
  /\ UNCHANGED <<stage, text, editorial, rejects, req, ops, orphan>>

(* Two minutes pass over the lease. *)
Expire ==
  /\ lease = "held"
  /\ lease' = "expired"
  /\ UNCHANGED <<stage, text, editorial, rejects, sweep, req, ops, faults, orphan>>

-----------------------------------------------------------------------------
(* Requests.                                                               *)

(* CreatePost, with or without a campaign; a publish time makes it           *)
(* scheduled whatever its editorial state.                                   *)
Create(p) ==
  /\ stage[p] = "absent"
  /\ \A q \in Post : q < p => stage[q] # "absent"
  /\ Op
  /\ \E to \in {"draft", "scheduled"}, t \in Text, e \in Status \cup {"none"},
        required \in BOOLEAN :
       /\ stage' = [stage EXCEPT ![p] = to]
       /\ text' = [text EXCEPT ![p] = t]
       /\ es' = [es EXCEPT ![p] = e]
       /\ needs' = IF required /\ e # "none" THEN needs \cup {p} ELSE needs
  /\ UNCHANGED <<stamped, audit, blocked, rejects, lease, sweep, req, faults, orphan>>

(* AddPostToCampaign: the upsert leaves approved_at and both reasons alone. *)
Attach(p) ==
  /\ stage[p] # "absent"
  /\ Op
  /\ \E e \in Status, required \in BOOLEAN :
       /\ es' = [es EXCEPT ![p] = e]
       /\ needs' = IF required THEN needs \cup {p} ELSE needs \ {p}
  /\ UNCHANGED <<stage, text, stamped, audit, blocked, rejects, lease, sweep, req, faults, orphan>>

(* ApprovePost *)
Approve(p) ==
  /\ es[p] # "none"
  /\ Op
  /\ Promote(p, "manual")
  /\ UNCHANGED <<stage, text, rejects, lease, sweep, req, faults, orphan>>

(* A rule is created, changed or deleted. *)
SetRules ==
  /\ Op
  /\ rejects' \in SUBSET Text
  /\ UNCHANGED <<stage, text, editorial, lease, sweep, req, faults, orphan>>

(* ScheduleDraft: the approval is checked on the row read first. *)
BeginSchedule(p) ==
  /\ stage[p] # "absent"
  /\ req.phase = "none"
  /\ Op
  /\ ~RequiresApproval(es[p], p \in needs, p \in stamped)
  /\ req' = [NoEdit EXCEPT !.phase = "schedule", !.post = p]
  /\ UNCHANGED <<stage, text, editorial, rejects, lease, sweep, faults, orphan>>

EndSchedule ==
  /\ req.phase = "schedule"
  /\ stage' = IF stage[req.post] # "publishing"
                THEN [stage EXCEPT ![req.post] = "scheduled"] ELSE stage
  /\ req' = NoEdit
  /\ UNCHANGED <<text, editorial, rejects, lease, sweep, ops, faults, orphan>>

(* prepareEditableUpdate: approval is checked on the row read first, as the  *)
(* edit is going to change it.                                               *)
BeginEdit(p) ==
  /\ stage[p] # "absent"
  /\ req.phase = "none"
  /\ Op
  /\ \E to \in {"draft", "scheduled"}, t \in Text, steps \in BOOLEAN,
        e \in Status \cup {Keep}, n \in {Keep, "yes", "no"} :
       LET required == IF e = "approved" THEN "no" ELSE n
           status   == IF e = Keep THEN es[p] ELSE e
           approved == e = "approved" \/ p \in stamped
       IN  /\ to = "scheduled" =>
                ~RequiresApproval(status,
                   IF required = Keep THEN p \in needs ELSE required = "yes", approved)
           /\ req' = [phase |-> "write", post |-> p, to |-> to, text |-> t,
                      steps |-> steps, es |-> e, needs |-> required,
                      stamp |-> required = "no" /\ approved]
  /\ UNCHANGED <<stage, text, editorial, rejects, lease, sweep, faults, orphan>>

(* UpdatePostEditable or UpdateThreadEditable.  An edit by steps leaves the  *)
(* editorial fields of the request out.                                      *)
EditWrite ==
  /\ req.phase = "write"
  /\ IF stage[req.post] = "publishing"
       THEN req' = NoEdit /\ UNCHANGED <<stage, text>>
       ELSE /\ stage' = [stage EXCEPT ![req.post] = req.to]
            /\ text' = [text EXCEPT ![req.post] = req.text]
            /\ req' = IF req.steps \/ (req.es = Keep /\ req.needs = Keep) THEN NoEdit
                      ELSE [req EXCEPT !.phase = "meta"]
  /\ UNCHANGED <<editorial, rejects, lease, sweep, ops, faults, orphan>>

(* UpdatePostEditorialMetadata; without a campaign_posts row it does nothing. *)
EditMeta ==
  /\ req.phase = "meta"
  /\ LET p == req.post
     IN  IF es[p] = "none" THEN UNCHANGED <<es, needs, stamped>>
         ELSE /\ es' = IF req.es = Keep THEN es ELSE [es EXCEPT ![p] = req.es]
              /\ needs' = CASE req.needs = "yes" -> needs \cup {p}
                            [] req.needs = "no"  -> needs \ {p}
                            [] OTHER             -> needs
              /\ stamped' = IF req.stamp THEN stamped \cup {p} ELSE stamped
  /\ req' = NoEdit
  /\ UNCHANGED <<stage, text, audit, blocked, rejects, lease, sweep, ops, faults, orphan>>

(* ClaimDuePosts takes a due post that is not held back. *)
Claim(p) ==
  /\ stage[p] = "scheduled"
  /\ ~InReview(p)
  /\ stage' = [stage EXCEPT ![p] = "publishing"]
  /\ UNCHANGED <<text, editorial, rejects, lease, sweep, req, ops, faults, orphan>>

(* The process dies; the lease stays in the settings table. *)
Crash ==
  /\ req.phase # "none" \/ \E s \in Sweeper : sweep[s].pc # "idle"
  /\ Fault
  /\ sweep' = [s \in Sweeper |-> Rest]
  /\ req' = NoEdit
  /\ orphan' = (orphan \/ sweep[Worker].pc # "idle")
  /\ UNCHANGED <<stage, text, editorial, rejects, lease, ops>>

SweepStep(s) ==
  \/ Start(s) \/ ReadRules(s) \/ List(s) \/ Load(s) \/ Finish(s)
  \/ \E p \in Post : Judge(s, p)

Next ==
  \/ \E s \in Sweeper : SweepStep(s) \/ SweepError(s) \/ \E p \in Post : JudgeError(s, p)
  \/ ReleaseError \/ Expire \/ Crash \/ SetRules
  \/ EndSchedule \/ EditWrite \/ EditMeta
  \/ \E p \in Post :
       Create(p) \/ Attach(p) \/ Approve(p) \/ BeginSchedule(p) \/ BeginEdit(p) \/ Claim(p)

Spec == Init /\ [][Next]_vars

(* The worker's sweep ticker keeps ticking and time passes. *)
FairSpec == Spec /\ WF_vars(SweepStep(Worker)) /\ WF_vars(Expire)

-----------------------------------------------------------------------------
(* Properties.                                                             *)

(* The lease is given back on every way out of a sweep (runSafetySweep's     *)
(* deferred release): when the worker is not sweeping, a lease that is still *)
(* taken is left over from a crash or a failed release.                      *)
LeaseReturned == (lease # "free" /\ sweep[Worker].pc = "idle") => orphan

(* No post waits for a verdict for good: a post in review without a verdict  *)
(* gets one or leaves review, however small the batch.  Blocked posts must   *)
(* not take the places of the posts behind them                              *)
(* (ListEligiblePostsForAutoApprove's comment on starvation).                *)
Undecided(p) == InReview(p) /\ audit[p] = "blank" /\ p \notin blocked

UndecidedIsDecided == \A p \in Post : Undecided(p) ~> ~Undecided(p)

(* The worker sweeps again and again, also after it died with the lease.     *)
SweepsGoOn == []<>(sweep[Worker].pc # "idle")
=============================================================================
