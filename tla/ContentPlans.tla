---------------------------- MODULE ContentPlans ----------------------------
(***************************************************************************)
(* Content plans (internal/application/contentplans, internal/db/          *)
(* content_plans.go, content_plan_jobs.go): a plan's items get an idea     *)
(* each, its variants a copy each, written by a generation job the worker  *)
(* claims under a lease; clients edit, reset and cancel meanwhile and turn *)
(* the variants that are ready into posts.                                 *)
(*                                                                         *)
(* A copy is all of what a variant schedules: text, media and time.  A     *)
(* statement or transaction of the store is a step, and so is the load of  *)
(* a plan and the count with the update of a refresh.  Nobody changes the  *)
(* posts made here: that is the subject of Publishing.                     *)
(***************************************************************************)
EXTENDS Naturals, FiniteSets

CONSTANTS
  Plan, NoPlan,
  NumItems,     \* items of a plan
  NumVariants,  \* variants of an item
  Copy, Blank,  \* what a variant may say; nothing yet
  Client,       \* requests at a time
  MaxOps,       \* bound on the requests of a behaviour
  MaxFaults     \* bound on store errors and crashes

ASSUME PlanAssumption ==
  /\ NoPlan \notin Plan
  /\ Blank \notin Copy
  /\ NumItems \in Nat /\ NumVariants \in Nat
  /\ MaxOps \in Nat /\ MaxFaults \in Nat

Item    == 1..NumItems
Variant == Plan \X Item \X (1..NumVariants)
Of(p)        == {v \in Variant : v[1] = p}
OfItem(p, i) == {v \in Of(p) : v[2] = i}

VARIABLES
  plan,    \* content_plans.status
  job,     \* the plan's active job: "none", "pending", "running", or
           \* "expired" (running, and past its lease)
  ideas,   \* the items with an idea
  status,  \* content_plan_variants.status
  copy,    \* the variants' copy
  post,    \* the copy of the post with the variant's idempotency key
  run,     \* the job the worker is running
  req,     \* the requests in progress
  ops, faults

rows == <<plan, job, ideas, status, copy, post>>
vars == <<rows, run, req, ops, faults>>

-----------------------------------------------------------------------------
PlanStatus ==
  {"draft", "queued", "generating", "review", "failed", "partial", "scheduled", "canceled"}
VariantStatus == {"pending", "generating", "ready", "failed", "scheduled"}

(* RunJob: todo is what its load found to generate, and of the item at hand  *)
(* some variants are checked (the job was active) and some are writing.      *)
Run ==
  [pc : {"idle", "load", "item", "idea", "work"}, plan : Plan \cup {NoPlan},
   canceled : BOOLEAN, item : 1..(NumItems + 1), known : SUBSET Item,
   todo : SUBSET Variant, checked : SUBSET Variant, writing : SUBSET Variant,
   ready : BOOLEAN, failed : BOOLEAN]

NoRun ==
  [pc |-> "idle", plan |-> NoPlan, canceled |-> FALSE, item |-> 1, known |-> {},
   todo |-> {}, checked |-> {}, writing |-> {}, ready |-> FALSE, failed |-> FALSE]

(* A request: what it still resets, or the copies it read and still posts.   *)
Request ==
  [pc : {"idle", "items", "variants", "enqueue", "validate", "create", "mark"},
   plan : Plan \cup {NoPlan}, items : SUBSET Item, vs : SUBSET Variant,
   seen : [Variant -> Copy \cup {Blank}], at : SUBSET Variant]

Unseen == [v \in Variant |-> Blank]
NoReq ==
  [pc |-> "idle", plan |-> NoPlan, items |-> {}, vs |-> {}, seen |-> Unseen, at |-> {}]

TypeOK ==
  /\ plan \in [Plan -> PlanStatus]
  /\ job \in [Plan -> {"none", "pending", "running", "expired"}]
  /\ ideas \subseteq Plan \X Item
  /\ status \in [Variant -> VariantStatus]
  /\ copy \in [Variant -> Copy \cup {Blank}]
  /\ post \in [Variant -> Copy \cup {Blank}]
  /\ run \in Run
  /\ run.pc # "idle" => run.plan \in Plan
  /\ run.pc \in {"idea", "work"} => run.item \in Item
  /\ req \in [Client -> Request]
  /\ \A c \in Client : req[c].pc # "idle" => req[c].plan \in Plan
  /\ ops \in Nat /\ faults \in Nat

Init ==
  /\ plan = [p \in Plan |-> "draft"]
  /\ job = [p \in Plan |-> "none"]
  /\ ideas = {}
  /\ status = [v \in Variant |-> "pending"]
  /\ copy = [v \in Variant |-> Blank]
  /\ post = [v \in Variant |-> Blank]
  /\ run = NoRun
  /\ req = [c \in Client |-> NoReq]
  /\ ops = 0 /\ faults = 0

Op    == ops < MaxOps /\ ops' = ops + 1
Fault == faults < MaxFaults /\ faults' = faults + 1

Generatable(v) == status[v] \in {"pending", "failed", "generating"}
Active(p) == job[p] # "none"

(* The status a plan gets from what is scheduled of it.                      *)
ScheduleStatus(p, otherwise) ==
  LET done == {v \in Of(p) : status[v] = "scheduled"}
  IN  IF done = {} THEN otherwise ELSE IF done = Of(p) THEN "scheduled" ELSE "partial"

-----------------------------------------------------------------------------
(* The worker.                                                             *)

(* Mutant: only pending jobs are claimed, a job left by a dead worker never. *)
PendingOnly(p) == job[p] = "pending" /\ \A q \in Plan : job[q] \notin {"running", "expired"}

(* A job whose lease ran out comes first; a pending one waits for a live one. *)
Claimable(p) ==
  \/ job[p] = "expired"
  \/ job[p] = "pending" /\ \A q \in Plan : job[q] \notin {"running", "expired"}

(* ClaimContentPlanJob *)
Claim(p) ==
  /\ run.pc = "idle"
  /\ Claimable(p)
  /\ job' = [job EXCEPT ![p] = "running"]
  /\ plan' = [plan EXCEPT ![p] = "generating"]
  /\ run' = [NoRun EXCEPT !.pc = "load", !.plan = p]
  /\ UNCHANGED <<ideas, status, copy, post, req, ops, faults>>

Load ==
  /\ run.pc = "load"
  /\ run' = [run EXCEPT !.pc = "item",
                        !.known = {i \in Item : <<run.plan, i>> \in ideas},
                        !.todo = {v \in Of(run.plan) : Generatable(v)}]
  /\ UNCHANGED <<rows, req, ops, faults>>

(* Mutant: a job that was canceled meanwhile is finished all the same.       *)
EndJobAnyway(result) ==
  /\ job' = [job EXCEPT ![run.plan] = "none"]
  /\ plan' = [plan EXCEPT ![run.plan] = result]
  /\ run' = NoRun
  /\ UNCHANGED <<ideas, status, copy, post>>

(* Mutant: the end of a failed job is not told to its plan.                  *)
EndJobQuietly(result) ==
  /\ IF run.canceled THEN UNCHANGED <<job, plan>>
     ELSE /\ job' = [job EXCEPT ![run.plan] = "none"]
          /\ plan' = IF result = "failed" THEN plan ELSE [plan EXCEPT ![run.plan] = result]
  /\ run' = NoRun
  /\ UNCHANGED <<ideas, status, copy, post>>

(* FinishContentPlanJob *)
EndJob(result) ==
  /\ IF run.canceled THEN UNCHANGED <<job, plan>>
     ELSE /\ job' = [job EXCEPT ![run.plan] = "none"]
          /\ plan' = [plan EXCEPT ![run.plan] = result]
  /\ run' = NoRun
  /\ UNCHANGED <<ideas, status, copy, post>>

LoadError ==
  /\ run.pc = "load"
  /\ Fault
  /\ EndJob("failed")
  /\ UNCHANGED <<req, ops>>

(* The next item, unless the job is no longer active.                        *)
NextItem ==
  /\ run.pc = "item"
  /\ run.item \in Item
  /\ run' = IF run.canceled THEN NoRun
            ELSE [run EXCEPT !.pc = IF run.item \in run.known THEN "work" ELSE "idea"]
  /\ UNCHANGED <<rows, req, ops, faults>>

WriteIdea ==
  /\ run.pc = "idea"
  /\ ideas' = ideas \cup {<<run.plan, run.item>>}
  /\ run' = [run EXCEPT !.pc = "work"]
  /\ UNCHANGED <<plan, job, status, copy, post, req, ops, faults>>

Here == run.todo \cap OfItem(run.plan, run.item)

(* Without an idea the item's variants fail, whatever they are by now.       *)
NoIdea ==
  /\ run.pc = "idea"
  /\ status' = [v \in Variant |-> IF v \in Here THEN "failed" ELSE status[v]]
  /\ run' = [run EXCEPT !.pc = "item", !.item = @ + 1, !.todo = @ \ Here,
                        !.failed = @ \/ Here # {}]
  /\ UNCHANGED <<plan, job, ideas, copy, post, req, ops, faults>>

(* A goroutine per variant, two at a time (MaxConcurrency).                  *)
Check(v) ==
  /\ run.pc = "work"
  /\ v \in Here
  /\ Cardinality(run.checked \cup run.writing) < 2
  /\ \/ /\ ~run.canceled
        /\ run' = [run EXCEPT !.todo = @ \ {v}, !.checked = @ \cup {v}]
        /\ UNCHANGED faults
     \/ /\ (run.canceled /\ UNCHANGED faults) \/ Fault
        /\ run' = [run EXCEPT !.todo = @ \ {v}]
  /\ UNCHANGED <<rows, req, ops>>

(* MarkContentPlanVariantGenerating *)
Mark(v) ==
  /\ v \in run.checked
  /\ status' = [status EXCEPT ![v] = "generating"]
  /\ run' = [run EXCEPT !.checked = @ \ {v}, !.writing = @ \cup {v}]
  /\ UNCHANGED <<plan, job, ideas, copy, post, req, ops, faults>>

(* CompleteContentPlanVariant *)
Complete(v) ==
  /\ v \in run.writing
  /\ \E c \in Copy : copy' = [copy EXCEPT ![v] = c]
  /\ status' = [status EXCEPT ![v] = "ready"]
  /\ run' = [run EXCEPT !.writing = @ \ {v}, !.ready = TRUE]
  /\ UNCHANGED <<plan, job, ideas, post, req, ops, faults>>

(* FailContentPlanVariant: the generator or a statement before it failed.    *)
Fail(v) ==
  /\ \/ v \in run.writing /\ UNCHANGED faults
     \/ v \in run.checked /\ Fault
  /\ status' = [status EXCEPT ![v] = "failed"]
  /\ run' = [run EXCEPT !.checked = @ \ {v}, !.writing = @ \ {v}, !.failed = TRUE]
  /\ UNCHANGED <<plan, job, ideas, copy, post, req, ops>>

(* Even the failure cannot be recorded, and nobody hears of it.              *)
FailLost(v) ==
  /\ v \in run.checked \cup run.writing
  /\ Fault
  /\ run' = [run EXCEPT !.checked = @ \ {v}, !.writing = @ \ {v}, !.failed = TRUE]
  /\ UNCHANGED <<rows, req, ops>>

ItemDone == run.pc = "work" /\ Here = {} /\ run.checked = {} /\ run.writing = {}

(* RenewContentPlanJob, which fails for a job that is not running.           *)
EndItem ==
  /\ ItemDone
  /\ IF run.canceled
       THEN run' = NoRun /\ UNCHANGED job
       ELSE /\ run' = [run EXCEPT !.pc = "item", !.item = @ + 1]
            /\ job' = [job EXCEPT ![run.plan] = "running"]
  /\ UNCHANGED <<plan, ideas, status, copy, post, req, ops, faults>>

Finish ==
  /\ run.pc = "item"
  /\ run.item \notin Item
  /\ EndJob(IF run.failed /\ ~run.ready THEN "failed" ELSE ScheduleStatus(run.plan, "review"))
  /\ UNCHANGED <<req, ops, faults>>

(* A failing statement of RunJob leaves the job running.                     *)
RunError ==
  /\ run.pc \in {"load", "item", "idea"} \/ ItemDone
  /\ Fault
  /\ run' = NoRun
  /\ UNCHANGED <<rows, req, ops>>

(* Five minutes pass without a renewal.                                      *)
Expire(p) ==
  /\ job[p] = "running"
  /\ job' = [job EXCEPT ![p] = "expired"]
  /\ UNCHANGED <<plan, ideas, status, copy, post, run, req, ops, faults>>

-----------------------------------------------------------------------------
(* Requests.                                                               *)

Put(c, r) == req' = [req EXCEPT ![c] = r]
Done(c)   == Put(c, NoReq)

(* Generate: the plan is checked here and queued by Enqueue. *)
BeginGenerate(c, p) ==
  /\ req[c].pc = "idle"
  /\ Op
  /\ plan[p] = "draft"
  /\ Put(c, [NoReq EXCEPT !.pc = "enqueue", !.plan = p])
  /\ UNCHANGED <<rows, run, faults>>

Reviewable(p) == plan[p] \in {"review", "failed", "partial"}

(* Retry and Regenerate: of single variants, of whole items, or of both. *)
BeginRetry(c, p) ==
  /\ req[c].pc = "idle"
  /\ Op
  /\ Reviewable(p)
  /\ \E vs \in SUBSET Of(p), items \in SUBSET Item :
       /\ vs # {} \/ items # {}
       /\ Put(c, [NoReq EXCEPT !.pc = IF items = {} THEN "variants" ELSE "items",
                               !.plan = p, !.vs = vs, !.items = items])
  /\ UNCHANGED <<rows, run, faults>>

(* UPDATE ... SET text = '', status = 'pending' WHERE status != 'scheduled' *)
Reset(vs) ==
  /\ status' = [v \in Variant |->
                 IF v \in vs /\ status[v] # "scheduled" THEN "pending" ELSE status[v]]
  /\ copy' = [v \in Variant |->
                 IF v \in vs /\ status[v] # "scheduled" THEN Blank ELSE copy[v]]

AllScheduled(vs) == \A v \in vs : status[v] = "scheduled"

(* ResetContentPlanItems: one transaction, undone when it resets no variant. *)
ResetItems(c) ==
  LET p  == req[c].plan
      vs == UNION {OfItem(p, i) : i \in req[c].items}
  IN  /\ req[c].pc = "items"
      /\ IF AllScheduled(vs)
           THEN Done(c) /\ UNCHANGED <<ideas, status, copy>>
           ELSE /\ ideas' = ideas \ ({p} \X req[c].items)
                /\ Reset(vs)
                /\ Put(c, [req[c] EXCEPT !.pc = IF req[c].vs = {} THEN "enqueue"
                                                ELSE "variants"])
      /\ UNCHANGED <<plan, job, post, run, ops, faults>>

(* ResetContentPlanVariants *)
ResetVariants(c) ==
  /\ req[c].pc = "variants"
  /\ IF AllScheduled(req[c].vs)
       THEN Done(c) /\ UNCHANGED <<status, copy>>
       ELSE Reset(req[c].vs) /\ Put(c, [req[c] EXCEPT !.pc = "enqueue"])
  /\ UNCHANGED <<plan, job, ideas, post, run, ops, faults>>

(* EnqueueContentPlanJob: refused while the plan has an active job. *)
Enqueue(c) ==
  LET p == req[c].plan
  IN  /\ req[c].pc = "enqueue"
      /\ IF Active(p) THEN UNCHANGED <<plan, job>>
         ELSE /\ job' = [job EXCEPT ![p] = "pending"]
              /\ plan' = [plan EXCEPT ![p] = "queued"]
      /\ Done(c)
      /\ UNCHANGED <<ideas, status, copy, post, run, ops, faults>>

(* UpdateContentPlanVariant *)
UpdateVariant(v) ==
  /\ status[v] \notin {"scheduled", "generating"}
  /\ Op
  /\ \E c \in Copy : copy' = [copy EXCEPT ![v] = c]
  /\ status' = [status EXCEPT ![v] = "ready"]
  /\ UNCHANGED <<plan, job, ideas, post, run, req, faults>>

(* Mutant: the plan is canceled and its pending job forgotten. *)
CancelPlanOnly(p) ==
  /\ plan[p] \notin {"scheduled", "canceled"}
  /\ Op
  /\ plan' = [plan EXCEPT ![p] = "canceled"]
  /\ job' = [job EXCEPT ![p] = IF @ = "pending" THEN @ ELSE "none"]
  /\ run' = IF run.plan = p THEN [run EXCEPT !.canceled = TRUE] ELSE run
  /\ UNCHANGED <<ideas, status, copy, post, req, faults>>

(* CancelContentPlan, with the plan's active job. *)
Cancel(p) ==
  /\ plan[p] \notin {"scheduled", "canceled"}
  /\ Op
  /\ plan' = [plan EXCEPT ![p] = "canceled"]
  /\ job' = [job EXCEPT ![p] = "none"]
  /\ run' = IF run.plan = p THEN [run EXCEPT !.canceled = TRUE] ELSE run
  /\ UNCHANGED <<ideas, status, copy, post, req, faults>>

(* Schedule, whatever the plan's status: what is ready of the selection is   *)
(* read once.  (No code makes a variant "approved".)                         *)
BeginSchedule(c, p) ==
  /\ req[c].pc = "idle"
  /\ Op
  /\ \E vs \in SUBSET {v \in Of(p) : status[v] = "ready"} :
       Put(c, [NoReq EXCEPT !.pc = "validate", !.plan = p, !.vs = vs,
                            !.seen = [v \in Variant |-> IF v \in vs THEN copy[v] ELSE Blank]])
  /\ UNCHANGED <<rows, run, faults>>

Skip(c, v) == Put(c, [req[c] EXCEPT !.pc = "validate", !.vs = @ \ {v}, !.at = {}])

(* ValidateNewSchedule, which other posts may fail, and so may the post the  *)
(* variant has made: for certain when that has the copy to schedule, else    *)
(* when its text or its time is the same.                                    *)
Validate(c, v) ==
  /\ req[c].pc = "validate"
  /\ v \in req[c].vs
  /\ \/ Skip(c, v)
     \/ /\ post[v] # req[c].seen[v]
        /\ Put(c, [req[c] EXCEPT !.pc = "create", !.at = {v}])
  /\ UNCHANGED <<rows, run, ops, faults>>

(* CreatePost, or the provider's validation before it fails; the post that   *)
(* has the key already is the answer.                                        *)
MakePost(c, v) ==
  /\ req[c].pc = "create"
  /\ v \in req[c].at
  /\ \/ Skip(c, v) /\ UNCHANGED post
     \/ /\ post' = [post EXCEPT ![v] = IF @ = Blank THEN req[c].seen[v] ELSE @]
        /\ Put(c, [req[c] EXCEPT !.pc = "mark"])
  /\ UNCHANGED <<plan, job, ideas, status, copy, run, ops, faults>>

(* MarkContentPlanVariantScheduled; the request ends when it is refused.     *)
MarkScheduled(c, v) ==
  /\ req[c].pc = "mark"
  /\ v \in req[c].at
  /\ IF status[v] = "ready"
       THEN status' = [status EXCEPT ![v] = "scheduled"] /\ Skip(c, v)
       ELSE Done(c) /\ UNCHANGED status
  /\ UNCHANGED <<plan, job, ideas, copy, post, run, ops, faults>>

(* RefreshContentPlanScheduleStatus *)
Refresh(c) ==
  /\ req[c].pc = "validate"
  /\ req[c].vs = {}
  /\ plan' = [plan EXCEPT ![req[c].plan] = ScheduleStatus(req[c].plan, @)]
  /\ Done(c)
  /\ UNCHANGED <<job, ideas, status, copy, post, run, ops, faults>>

(* A store error, or the client went away. *)
GiveUp(c) ==
  /\ req[c].pc # "idle"
  /\ Fault
  /\ Done(c)
  /\ UNCHANGED <<rows, run, ops>>

(* The process dies with the job and the requests. *)
Crash ==
  /\ run.pc # "idle" \/ \E c \in Client : req[c].pc # "idle"
  /\ Fault
  /\ run' = NoRun
  /\ req' = [c \in Client |-> NoReq]
  /\ UNCHANGED <<rows, ops>>

WorkerStep ==
  \/ Load \/ NextItem \/ WriteIdea \/ NoIdea \/ EndItem \/ Finish
  \/ \E p \in Plan : Claim(p)
  \/ \E v \in Variant : Check(v) \/ Mark(v) \/ Complete(v) \/ Fail(v)

WorkerFault == LoadError \/ RunError \/ \E v \in Variant : FailLost(v)

RequestStep(c) ==
  \/ ResetItems(c) \/ ResetVariants(c) \/ Enqueue(c) \/ Refresh(c) \/ GiveUp(c)
  \/ \E p \in Plan : BeginGenerate(c, p) \/ BeginRetry(c, p) \/ BeginSchedule(c, p)
  \/ \E v \in Variant :
       Validate(c, v) \/ MakePost(c, v) \/ MarkScheduled(c, v)

Next ==
  \/ WorkerStep \/ WorkerFault \/ Crash
  \/ \E c \in Client : RequestStep(c)
  \/ \E p \in Plan : Expire(p) \/ Cancel(p)
  \/ \E v \in Variant : UpdateVariant(v)

Spec == Init /\ [][Next]_vars

(* The worker's ticker keeps ticking, and time passes. *)
FairSpec == Spec /\ WF_vars(WorkerStep) /\ \A p \in Plan : WF_vars(Expire(p))

-----------------------------------------------------------------------------
(* Properties.                                                             *)

(* A plan that waits for its job has one: nothing but the job gets it out of *)
(* "queued" and "generating" (Retry and Generate refuse it), so a plan       *)
(* without a job would be stuck.                                             *)
WaitsForAJob == \A p \in Plan : plan[p] \in {"queued", "generating"} => Active(p)

(* A canceled plan has no job left for the worker to take (CancelContentPlan *)
(* ends pending and running jobs), however a retry or a worker races it.     *)
CanceledIsIdle == \A p \in Plan : plan[p] = "canceled" => ~Active(p)

(* The worker works for the active job of its plan until it is canceled: it  *)
(* never goes on for a job that has ended, or for that of a later retry.     *)
RunHasJob == run.pc # "idle" /\ ~run.canceled => Active(run.plan)

(* The worker in flight never takes a plan out of "canceled"                 *)
(* (FinishContentPlanJob leaves a canceled job alone).                       *)
WorkerKeepsCancel ==
  [][WorkerStep \/ WorkerFault =>
       \A p \in Plan : plan[p] = "canceled" => plan'[p] = "canceled"]_vars

(* Generation survives crashes, store errors and requests: a plan that is    *)
(* queued or generating is reviewed, failed or canceled in the end.          *)
GenerationEnds ==
  \A p \in Plan : plan[p] \in {"queued", "generating"}
                    ~> plan[p] \notin {"queued", "generating"}
=============================================================================
