------------------------ MODULE ContentPlans_proofs ------------------------
(***************************************************************************)
(* What ContentPlans keeps for any number of plans, items, variants,       *)
(* copies, clients, requests and faults.  WaitsForAJob and CanceledIsIdle  *)
(* are about plans and jobs only, but a step of the worker keeps them just *)
(* because its job is the plan's active one until it is canceled           *)
(* (RunHasJob): the three are inductive together with the types.           *)
(***************************************************************************)
EXTENDS ContentPlans, TLAPS

USE PlanAssumption

PlanInv == TypeOK /\ WaitsForAJob /\ CanceledIsIdle /\ RunHasJob

(* The types of each part of the state. *)
RowType ==
  /\ plan \in [Plan -> PlanStatus]
  /\ job \in [Plan -> {"none", "pending", "running", "expired"}]
  /\ ideas \subseteq Plan \X Item
  /\ status \in [Variant -> VariantStatus]
  /\ copy \in [Variant -> Copy \cup {Blank}]
  /\ post \in [Variant -> Copy \cup {Blank}]

RunType ==
  /\ run \in Run
  /\ run.pc # "idle" => run.plan \in Plan
  /\ run.pc \in {"idea", "work"} => run.item \in Item

ReqType ==
  /\ req \in [Client -> Request]
  /\ \A c \in Client : req[c].pc # "idle" => req[c].plan \in Plan

JobInv == WaitsForAJob /\ CanceledIsIdle /\ RunHasJob

LEMMA TypeParts == TypeOK <=> RowType /\ RunType /\ ReqType /\ ops \in Nat /\ faults \in Nat
BY DEF TypeOK, RowType, RunType, ReqType

LEMMA TypeNext ==
  RowType' /\ RunType' /\ ReqType' /\ ops' \in Nat /\ faults' \in Nat => TypeOK'
BY DEF TypeOK, RowType, RunType, ReqType

-----------------------------------------------------------------------------
LEMMA Resting ==
  /\ NoRun \in Run /\ NoRun.pc = "idle"
  /\ NoReq \in Request /\ NoReq.pc = "idle"
BY DEF NoRun, Run, NoReq, Request, Unseen

LEMMA InitPlanInv == Init => PlanInv
<1> SUFFICES ASSUME Init PROVE PlanInv
  OBVIOUS
<1>1. RowType
  BY DEF Init, RowType, PlanStatus, VariantStatus
<1>2. RunType /\ ReqType
  BY Resting DEF Init, RunType, ReqType
<1>3. JobInv
  BY Resting DEF Init, JobInv, WaitsForAJob, CanceledIsIdle, RunHasJob, Active
<1> QED
  BY <1>1, <1>2, <1>3, TypeParts DEF Init, PlanInv, JobInv

-----------------------------------------------------------------------------
(* A step of the worker that touches neither plans nor jobs, and stays with  *)
(* its plan or ends, keeps JobInv.                                           *)
LEMMA SamePlan ==
  ASSUME JobInv, UNCHANGED <<plan, job>>,
         \/ run' = NoRun
         \/ /\ run'.plan = run.plan /\ run'.canceled = run.canceled
            /\ run'.pc # "idle" => run.pc # "idle"
  PROVE  JobInv'
BY Resting DEF JobInv, WaitsForAJob, CanceledIsIdle, RunHasJob, Active

(* The end of a job: a canceled one leaves plans and jobs alone. *)
LEMMA EndJobInv ==
  ASSUME TypeOK, JobInv, run.pc # "idle", NEW result \in {"review", "failed", "partial", "scheduled"},
         EndJob(result)
  PROVE  RowType' /\ RunType' /\ JobInv'
         /\ \A p \in Plan : plan[p] = "canceled" => plan'[p] = "canceled"
<1>1. run.plan \in Plan /\ RowType
  BY TypeParts DEF RunType
<1>2. RunType' /\ run' = NoRun
  BY Resting DEF RunType, EndJob
<1>3. CASE run.canceled
  BY <1>1, <1>2, <1>3, SamePlan DEF EndJob, RowType
<1>4. CASE ~run.canceled
  <2>1. /\ job' = [job EXCEPT ![run.plan] = "none"]
        /\ plan' = [plan EXCEPT ![run.plan] = result]
        /\ UNCHANGED <<ideas, status, copy, post>>
    BY <1>4 DEF EndJob
  <2>2. plan[run.plan] # "canceled"
    BY <1>1, <1>4 DEF JobInv, CanceledIsIdle, RunHasJob
  <2>3. RowType'
    BY <1>1, <2>1 DEF RowType, PlanStatus
  <2>4. WaitsForAJob' /\ CanceledIsIdle'
    BY <1>1, <2>1 DEF JobInv, RowType, WaitsForAJob, CanceledIsIdle, Active
  <2>5. RunHasJob'
    BY <1>2, Resting DEF RunHasJob
  <2> QED
    BY <1>1, <1>2, <2>1, <2>2, <2>3, <2>4, <2>5 DEF JobInv, RowType
<1> QED
  BY <1>3, <1>4

LEMMA ScheduleStatusType ==
  ASSUME NEW p, NEW s
  PROVE  ScheduleStatus(p, s) \in {s, "scheduled", "partial"}
BY DEF ScheduleStatus

-----------------------------------------------------------------------------
(* What every step of the worker keeps; the last conjunct is the action      *)
(* property.                                                                 *)
Kept == RowType' /\ RunType' /\ JobInv'
        /\ \A p \in Plan : plan[p] = "canceled" => plan'[p] = "canceled"

(* A step that changes the variants and goes on with the item.               *)
LEMMA VariantStep ==
  ASSUME TypeOK, JobInv, NEW r \in Run, run' = r, r.pc = run.pc, r.plan = run.plan,
         r.canceled = run.canceled, r.item = run.item,
         UNCHANGED <<plan, job, ideas, post>>,
         status' \in [Variant -> VariantStatus], copy' \in [Variant -> Copy \cup {Blank}]
  PROVE  Kept
<1>1. RowType'
  BY TypeParts DEF RowType
<1>2. RunType'
  BY TypeParts DEF RunType
<1>3. JobInv'
  BY SamePlan
<1> QED
  BY <1>1, <1>2, <1>3 DEF Kept

LEMMA ClaimKept ==
  ASSUME TypeOK, JobInv, NEW p \in Plan, Claim(p)
  PROVE  Kept
<1> DEFINE r == [NoRun EXCEPT !.pc = "load", !.plan = p]
<1>1. r \in Run /\ r.pc = "load" /\ r.plan = p /\ r.canceled = FALSE
  BY Resting DEF Run, NoRun
<1>2. run' = r
  BY DEF Claim
<1> HIDE DEF r
<1>3. RowType'
  BY TypeParts DEF Claim, RowType, PlanStatus
<1>4. RunType'
  BY <1>1, <1>2 DEF RunType
<1>5. JobInv'
  BY <1>1, <1>2, TypeParts DEF Claim, JobInv, RowType, WaitsForAJob, CanceledIsIdle, RunHasJob, Active
<1>6. plan[p] # "canceled"
  BY DEF Claim, Claimable, JobInv, CanceledIsIdle, Active
<1>7. \A q \in Plan : plan[q] = "canceled" => plan'[q] = "canceled"
  BY <1>6, TypeParts DEF Claim, RowType
<1> QED
  BY <1>3, <1>4, <1>5, <1>7 DEF Kept

LEMMA LoadKept ==
  ASSUME TypeOK, JobInv, Load
  PROVE  Kept
<1> DEFINE r == [run EXCEPT !.pc = "item",
                            !.known = {i \in Item : <<run.plan, i>> \in ideas},
                            !.todo = {v \in Of(run.plan) : Generatable(v)}]
<1>1. r \in Run /\ r.pc = "item" /\ r.plan = run.plan /\ r.canceled = run.canceled
  BY TypeParts DEF RunType, Run, Of
<1>2. run' = r /\ run.pc # "idle" /\ UNCHANGED <<plan, job, ideas, status, copy, post>>
  BY DEF Load, rows
<1> HIDE DEF r
<1>3. RunType'
  BY <1>1, <1>2, TypeParts DEF RunType
<1> QED
  BY <1>1, <1>2, <1>3, SamePlan, TypeParts DEF Kept, RowType

LEMMA NextItemKept ==
  ASSUME TypeOK, JobInv, NextItem
  PROVE  Kept
<1> DEFINE r == [run EXCEPT !.pc = IF run.item \in run.known THEN "work" ELSE "idea"]
<1>1. r \in Run /\ r.pc # "idle" /\ r.plan = run.plan /\ r.canceled = run.canceled
      /\ r.item = run.item
  BY TypeParts DEF RunType, Run
<1>2. (run' = NoRun \/ run' = r) /\ run.pc = "item" /\ run.item \in Item
      /\ UNCHANGED <<plan, job, ideas, status, copy, post>>
  BY DEF NextItem, rows
<1> HIDE DEF r
<1>3. RunType'
  BY <1>1, <1>2, Resting, TypeParts DEF RunType
<1> QED
  BY <1>1, <1>2, <1>3, SamePlan, TypeParts DEF Kept, RowType

(* The item that follows is still in the range of the loop.                  *)
LEMMA NextIndex == \A i \in Item : i + 1 \in 1..(NumItems + 1)
BY DEF Item

LEMMA IdeaKept ==
  ASSUME TypeOK, JobInv, WriteIdea \/ NoIdea
  PROVE  Kept
<1>1. CASE WriteIdea
  <2> DEFINE r == [run EXCEPT !.pc = "work"]
  <2>1. r \in Run /\ r.pc = "work" /\ r.plan = run.plan /\ r.canceled = run.canceled
        /\ r.item = run.item
    BY TypeParts DEF RunType, Run
  <2>2. run' = r /\ run.pc = "idea" /\ UNCHANGED <<plan, job, status, copy, post>>
        /\ ideas' = ideas \cup {<<run.plan, run.item>>}
    BY <1>1 DEF WriteIdea
  <2> HIDE DEF r
  <2>3. RunType'
    BY <2>1, <2>2, TypeParts DEF RunType
  <2>4. ideas' \subseteq Plan \X Item
    BY <2>2, TypeParts DEF RowType, RunType
  <2> QED
    BY <2>1, <2>2, <2>3, <2>4, SamePlan, TypeParts DEF Kept, RowType
<1>2. CASE NoIdea
  <2> DEFINE r == [run EXCEPT !.pc = "item", !.item = @ + 1, !.todo = @ \ Here,
                              !.failed = @ \/ Here # {}]
  <2>1. run.item \in Item /\ run.pc = "idea" /\ run' = r
        /\ UNCHANGED <<plan, job, ideas, copy, post>>
    BY <1>2, TypeParts DEF NoIdea, RunType
  <2>2. r \in Run /\ r.pc = "item" /\ r.plan = run.plan /\ r.canceled = run.canceled
    BY <2>1, NextIndex, TypeParts DEF RunType, Run
  <2> HIDE DEF r
  <2>3. RunType'
    BY <2>1, <2>2, TypeParts DEF RunType
  <2>4. status' \in [Variant -> VariantStatus]
    BY <1>2, TypeParts DEF NoIdea, RowType, VariantStatus
  <2> QED
    BY <2>1, <2>2, <2>3, <2>4, SamePlan, TypeParts DEF Kept, RowType
<1> QED
  BY <1>1, <1>2

LEMMA CheckKept ==
  ASSUME TypeOK, JobInv, NEW v \in Variant, Check(v)
  PROVE  Kept
<1> DEFINE a == [run EXCEPT !.todo = @ \ {v}, !.checked = @ \cup {v}]
           b == [run EXCEPT !.todo = @ \ {v}]
<1>1. UNCHANGED <<plan, job, ideas, status, copy, post>> /\ (run' = a \/ run' = b)
  BY DEF Check, rows
<1>2. a \in Run /\ a.pc = run.pc /\ a.plan = run.plan /\ a.canceled = run.canceled
      /\ a.item = run.item
  BY TypeParts DEF RunType, Run
<1>3. b \in Run /\ b.pc = run.pc /\ b.plan = run.plan /\ b.canceled = run.canceled
      /\ b.item = run.item
  BY TypeParts DEF RunType, Run
<1> HIDE DEF a, b
<1> QED
  BY <1>1, <1>2, <1>3, VariantStep, TypeParts DEF RowType

LEMMA MarkKept ==
  ASSUME TypeOK, JobInv, NEW v \in Variant, Mark(v)
  PROVE  Kept
<1> DEFINE r == [run EXCEPT !.checked = @ \ {v}, !.writing = @ \cup {v}]
<1>0. run' = r
  BY DEF Mark
<1>1. r \in Run /\ r.pc = run.pc /\ r.plan = run.plan /\ r.canceled = run.canceled
      /\ r.item = run.item
  BY TypeParts DEF RunType, Run
<1> HIDE DEF r
<1>2. status' \in [Variant -> VariantStatus] /\ UNCHANGED <<plan, job, ideas, copy, post>>
  BY TypeParts DEF Mark, RowType, VariantStatus
<1> QED
  BY <1>0, <1>1, <1>2, VariantStep, TypeParts DEF RowType

LEMMA CompleteKept ==
  ASSUME TypeOK, JobInv, NEW v \in Variant, Complete(v)
  PROVE  Kept
<1> DEFINE r == [run EXCEPT !.writing = @ \ {v}, !.ready = TRUE]
<1>0. run' = r
  BY DEF Complete
<1>1. r \in Run /\ r.pc = run.pc /\ r.plan = run.plan /\ r.canceled = run.canceled
      /\ r.item = run.item
  BY TypeParts DEF RunType, Run
<1> HIDE DEF r
<1>2. /\ status' \in [Variant -> VariantStatus] /\ copy' \in [Variant -> Copy \cup {Blank}]
      /\ UNCHANGED <<plan, job, ideas, post>>
  BY TypeParts DEF Complete, RowType, VariantStatus
<1> QED
  BY <1>0, <1>1, <1>2, VariantStep

LEMMA FailKept ==
  ASSUME TypeOK, JobInv, NEW v \in Variant, Fail(v) \/ FailLost(v)
  PROVE  Kept
<1> DEFINE r == [run EXCEPT !.checked = @ \ {v}, !.writing = @ \ {v}, !.failed = TRUE]
<1>0. run' = r
  BY DEF Fail, FailLost
<1>1. r \in Run /\ r.pc = run.pc /\ r.plan = run.plan /\ r.canceled = run.canceled
      /\ r.item = run.item
  BY TypeParts DEF RunType, Run
<1> HIDE DEF r
<1>2. status' \in [Variant -> VariantStatus] /\ UNCHANGED <<plan, job, ideas, copy, post>>
  BY TypeParts DEF Fail, FailLost, RowType, VariantStatus, rows
<1> QED
  BY <1>0, <1>1, <1>2, VariantStep, TypeParts DEF RowType

LEMMA EndItemKept ==
  ASSUME TypeOK, JobInv, EndItem
  PROVE  Kept
<1>1. run.pc = "work" /\ run.item \in Item /\ run.plan \in Plan
      /\ UNCHANGED <<plan, ideas, status, copy, post>>
  BY TypeParts DEF EndItem, ItemDone, RunType
<1>2. CASE run.canceled
  <2>1. run' = NoRun /\ UNCHANGED job
    BY <1>2 DEF EndItem
  <2> QED
    BY <1>1, <2>1, Resting, SamePlan, TypeParts DEF Kept, RowType, RunType
<1>3. CASE ~run.canceled
  <2> DEFINE r == [run EXCEPT !.pc = "item", !.item = @ + 1]
  <2>1. run' = r /\ job' = [job EXCEPT ![run.plan] = "running"]
    BY <1>3 DEF EndItem
  <2>2. r \in Run /\ r.pc = "item" /\ r.plan = run.plan /\ r.canceled = run.canceled
    BY <1>1, NextIndex, TypeParts DEF RunType, Run
  <2> HIDE DEF r
  <2>3. RunType' /\ RowType'
    BY <1>1, <2>1, <2>2, TypeParts DEF RunType, RowType
  <2>4. plan[run.plan] # "canceled"
    BY <1>1, <1>3 DEF JobInv, RunHasJob, CanceledIsIdle
  <2>5. \A p \in Plan : Active(p)' <=> Active(p) \/ p = run.plan
    BY <1>1, <2>1, TypeParts DEF Active, RowType
  <2>6. JobInv'
    BY <1>1, <2>1, <2>2, <2>4, <2>5 DEF JobInv, WaitsForAJob, CanceledIsIdle, RunHasJob
  <2> QED
    BY <1>1, <2>3, <2>6 DEF Kept
<1> QED
  BY <1>2, <1>3

LEMMA FinishKept ==
  ASSUME TypeOK, JobInv, Finish \/ LoadError
  PROVE  Kept
<1>1. CASE Finish
  <2>1. PICK s \in {"review", "failed", "partial", "scheduled"} : EndJob(s)
    BY <1>1, ScheduleStatusType DEF Finish
  <2> QED
    BY <1>1, <2>1, EndJobInv DEF Finish, Kept
<1>2. CASE LoadError
  BY <1>2, EndJobInv DEF LoadError, Kept
<1> QED
  BY <1>1, <1>2

LEMMA RunErrorKept ==
  ASSUME TypeOK, JobInv, RunError
  PROVE  Kept
<1>1. run' = NoRun /\ UNCHANGED <<plan, job, ideas, status, copy, post>>
  BY DEF RunError, rows
<1> QED
  BY <1>1, Resting, SamePlan, TypeParts DEF Kept, RowType, RunType

LEMMA WorkerKept ==
  ASSUME TypeOK, JobInv, WorkerStep \/ WorkerFault
  PROVE  Kept
BY ClaimKept, LoadKept, NextItemKept, IdeaKept, CheckKept, MarkKept, CompleteKept, FailKept,
   EndItemKept, FinishKept, RunErrorKept DEF WorkerStep, WorkerFault

LEMMA WorkerOthers ==
  ASSUME TypeOK, WorkerStep \/ WorkerFault
  PROVE  ReqType' /\ ops' \in Nat /\ faults' \in Nat
<1>1. UNCHANGED <<req, ops>>
  BY DEF WorkerStep, WorkerFault, Load, NextItem, WriteIdea, NoIdea, EndItem, Finish, Claim,
         Check, Mark, Complete, Fail, LoadError, RunError, FailLost
<1>2. faults' = faults \/ faults' = faults + 1
  BY DEF WorkerStep, WorkerFault, Load, NextItem, WriteIdea, NoIdea, EndItem, Finish, Claim,
         Check, Mark, Complete, Fail, LoadError, RunError, FailLost, Fault
<1> QED
  BY <1>1, <1>2, TypeParts DEF ReqType
-----------------------------------------------------------------------------
(* Requests.                                                               *)
LEMMA PutType ==
  ASSUME ReqType, NEW c \in Client, NEW r \in Request, r.pc # "idle" => r.plan \in Plan,
         Put(c, r)
  PROVE  ReqType'
BY DEF ReqType, Put

LEMMA DoneType ==
  ASSUME ReqType, NEW c \in Client, Done(c)
  PROVE  ReqType'
BY PutType, Resting DEF Done

LEMMA SkipType ==
  ASSUME ReqType, NEW c \in Client, NEW v, req[c].pc # "idle", Skip(c, v)
  PROVE  ReqType'
<1> DEFINE r == [req[c] EXCEPT !.pc = "validate", !.vs = @ \ {v}, !.at = {}]
<1>1. r \in Request /\ r.plan = req[c].plan /\ req[c].plan \in Plan
  BY DEF ReqType, Request
<1>2. Put(c, r)
  BY DEF Skip
<1> HIDE DEF r
<1> QED
  BY <1>1, <1>2, PutType

(* A request that leaves plans, jobs and the worker alone keeps JobInv.      *)
LEMMA SameJobs ==
  ASSUME JobInv, UNCHANGED <<plan, job, run>>
  PROVE  JobInv'
BY DEF JobInv, WaitsForAJob, CanceledIsIdle, RunHasJob, Active

LEMMA OpType == ASSUME ops \in Nat, Op PROVE ops' \in Nat
BY DEF Op

LEMMA FaultType == ASSUME faults \in Nat, Fault PROVE faults' \in Nat
BY DEF Fault

(* What every other step keeps. *)
Stays == TypeOK' /\ JobInv'

LEMMA BeginStays ==
  ASSUME TypeOK, JobInv, NEW c \in Client, NEW p \in Plan,
         BeginGenerate(c, p) \/ BeginRetry(c, p) \/ BeginSchedule(c, p)
  PROVE  Stays
<1>1. UNCHANGED <<plan, job, ideas, status, copy, post, run, faults>> /\ Op
  BY DEF BeginGenerate, BeginRetry, BeginSchedule, rows
<1>2. ReqType'
  <2>1. CASE BeginGenerate(c, p)
    <3> DEFINE r == [NoReq EXCEPT !.pc = "enqueue", !.plan = p]
    <3>1. r \in Request /\ r.plan = p
      BY Resting DEF NoReq, Request
    <3>2. Put(c, r)
      BY <2>1 DEF BeginGenerate
    <3> HIDE DEF r
    <3> QED
      BY <3>1, <3>2, PutType, TypeParts
  <2>2. CASE BeginRetry(c, p)
    <3>1. PICK vs \in SUBSET Of(p), items \in SUBSET Item :
            Put(c, [NoReq EXCEPT !.pc = IF items = {} THEN "variants" ELSE "items",
                                 !.plan = p, !.vs = vs, !.items = items])
      BY <2>2 DEF BeginRetry
    <3> DEFINE r == [NoReq EXCEPT !.pc = IF items = {} THEN "variants" ELSE "items",
                                  !.plan = p, !.vs = vs, !.items = items]
    <3>2. r \in Request /\ r.plan = p
      BY Resting DEF NoReq, Request, Of
    <3>3. Put(c, r)
      BY <3>1
    <3> HIDE DEF r
    <3> QED
      BY <3>2, <3>3, PutType, TypeParts
  <2>3. CASE BeginSchedule(c, p)
    <3>1. PICK vs \in SUBSET {v \in Of(p) : status[v] = "ready"} :
            Put(c, [NoReq EXCEPT !.pc = "validate", !.plan = p, !.vs = vs,
                      !.seen = [v \in Variant |-> IF v \in vs THEN copy[v] ELSE Blank]])
      BY <2>3 DEF BeginSchedule
    <3> DEFINE seen == [v \in Variant |-> IF v \in vs THEN copy[v] ELSE Blank]
               r == [NoReq EXCEPT !.pc = "validate", !.plan = p, !.vs = vs, !.seen = seen]
    <3>2. seen \in [Variant -> Copy \cup {Blank}] /\ vs \subseteq Variant
      BY TypeParts DEF RowType, Of
    <3>3. Put(c, r)
      BY <3>1
    <3> HIDE DEF seen
    <3>4. r \in Request /\ r.plan = p
      BY <3>2, Resting DEF NoReq, Request
    <3> HIDE DEF r
    <3> QED
      BY <3>3, <3>4, PutType, TypeParts
  <2> QED
    BY <2>1, <2>2, <2>3
<1> QED
  BY <1>1, <1>2, OpType, SameJobs, TypeParts, TypeNext DEF Stays, RowType, RunType

LEMMA ResetType ==
  ASSUME RowType, NEW vs, Reset(vs)
  PROVE  status' \in [Variant -> VariantStatus] /\ copy' \in [Variant -> Copy \cup {Blank}]
BY DEF RowType, Reset, VariantStatus

(* Going on with a request whose record only changes its phase. *)
LEMMA PhaseType ==
  ASSUME ReqType, NEW c \in Client, req[c].pc # "idle",
         NEW ph \in {"items", "variants", "enqueue", "validate", "create", "mark"},
         Put(c, [req[c] EXCEPT !.pc = ph])
  PROVE  ReqType'
<1> DEFINE r == [req[c] EXCEPT !.pc = ph]
<1>1. r \in Request /\ r.plan = req[c].plan /\ req[c].plan \in Plan
  BY DEF ReqType, Request
<1>2. Put(c, r)
  OBVIOUS
<1> HIDE DEF r
<1> QED
  BY <1>1, <1>2, PutType

LEMMA ResetStays ==
  ASSUME TypeOK, JobInv, NEW c \in Client, ResetItems(c) \/ ResetVariants(c)
  PROVE  Stays
<1>1. UNCHANGED <<plan, job, post, run, ops, faults>> /\ req[c].pc # "idle"
  BY DEF ResetItems, ResetVariants
<1>2. ReqType'
  <2>1. Done(c) \/ \E ph \in {"variants", "enqueue"} : Put(c, [req[c] EXCEPT !.pc = ph])
    BY DEF ResetItems, ResetVariants
  <2> QED
    BY <1>1, <2>1, DoneType, PhaseType, TypeParts
<1>3. ideas' \subseteq Plan \X Item
  BY TypeParts DEF ResetItems, ResetVariants, RowType
<1>4. UNCHANGED <<status, copy>> \/ \E vs : Reset(vs)
  BY DEF ResetItems, ResetVariants
<1>5. status' \in [Variant -> VariantStatus] /\ copy' \in [Variant -> Copy \cup {Blank}]
  BY <1>4, ResetType, TypeParts DEF RowType
<1> QED
  BY <1>1, <1>2, <1>3, <1>5, SameJobs, TypeParts, TypeNext DEF Stays, RowType, RunType

LEMMA EnqueueStays ==
  ASSUME TypeOK, JobInv, NEW c \in Client, Enqueue(c)
  PROVE  Stays
<1> DEFINE p == req[c].plan
<1>1. p \in Plan /\ UNCHANGED <<ideas, status, copy, post, run, ops, faults>>
  BY TypeParts DEF Enqueue, ReqType
<1>2. ReqType'
  BY DoneType, TypeParts DEF Enqueue
<1>3. RowType' /\ JobInv'
  <2>1. CASE Active(p)
    BY <1>1, <2>1, SameJobs, TypeParts DEF Enqueue, RowType
  <2>2. CASE ~Active(p)
    <3>1. job' = [job EXCEPT ![p] = "pending"] /\ plan' = [plan EXCEPT ![p] = "queued"]
      BY <2>2 DEF Enqueue
    <3> HIDE DEF p
    <3>2. RowType'
      BY <1>1, <3>1, TypeParts DEF RowType, PlanStatus
    <3>3. \A q \in Plan : Active(q)' <=> Active(q) \/ q = p
      BY <1>1, <3>1, TypeParts DEF Active, RowType
    <3>4. WaitsForAJob' /\ CanceledIsIdle'
      BY <1>1, <3>1, <3>3, TypeParts DEF JobInv, WaitsForAJob, CanceledIsIdle, RowType
    <3>5. RunHasJob'
      BY <1>1, <3>3, TypeParts DEF JobInv, RunHasJob, RunType
    <3> QED
      BY <3>2, <3>4, <3>5 DEF JobInv
  <2> QED
    BY <2>1, <2>2
<1> QED
  BY <1>1, <1>2, <1>3, TypeParts, TypeNext DEF Stays, RunType

LEMMA UpdateStays ==
  ASSUME TypeOK, JobInv, NEW v \in Variant, UpdateVariant(v)
  PROVE  Stays
<1>1. UNCHANGED <<plan, job, ideas, post, run, req, faults>> /\ Op
  BY DEF UpdateVariant
<1>2. status' \in [Variant -> VariantStatus] /\ copy' \in [Variant -> Copy \cup {Blank}]
  BY TypeParts DEF UpdateVariant, RowType, VariantStatus
<1> QED
  BY <1>1, <1>2, OpType, SameJobs, TypeParts, TypeNext DEF Stays, RowType, RunType, ReqType

LEMMA ScheduleStays ==
  ASSUME TypeOK, JobInv, NEW c \in Client, NEW v \in Variant,
         Validate(c, v) \/ MakePost(c, v) \/ MarkScheduled(c, v)
  PROVE  Stays
<1>1. UNCHANGED <<plan, job, ideas, copy, run, ops, faults>> /\ req[c].pc # "idle"
  BY DEF Validate, MakePost, MarkScheduled, rows
<1>2. ReqType'
  <2>1. CASE Skip(c, v)
    BY <1>1, <2>1, SkipType, TypeParts
  <2>2. CASE Done(c)
    BY <2>2, DoneType, TypeParts
  <2>3. CASE Put(c, [req[c] EXCEPT !.pc = "mark"])
    BY <1>1, <2>3, PhaseType, TypeParts
  <2>4. CASE Put(c, [req[c] EXCEPT !.pc = "create", !.at = {v}])
    <3> DEFINE r == [req[c] EXCEPT !.pc = "create", !.at = {v}]
    <3>1. r \in Request /\ r.plan = req[c].plan /\ req[c].plan \in Plan
      BY <1>1, TypeParts DEF ReqType, Request
    <3>2. Put(c, r)
      BY <2>4
    <3> HIDE DEF r
    <3> QED
      BY <3>1, <3>2, PutType, TypeParts
  <2> QED
    BY <2>1, <2>2, <2>3, <2>4 DEF Validate, MakePost, MarkScheduled
<1>3. status' \in [Variant -> VariantStatus]
  BY TypeParts DEF Validate, MakePost, MarkScheduled, RowType, VariantStatus, rows
<1>4. post' \in [Variant -> Copy \cup {Blank}]
  <2>1. req[c].seen[v] \in Copy \cup {Blank}
    BY TypeParts DEF ReqType, Request
  <2> QED
    BY <2>1, TypeParts DEF Validate, MakePost, MarkScheduled, RowType, rows
<1> QED
  BY <1>1, <1>2, <1>3, <1>4, SameJobs, TypeParts, TypeNext DEF Stays, RowType, RunType

(* A refresh may show a canceled plan as scheduled, never the other way.     *)
LEMMA RefreshStays ==
  ASSUME TypeOK, JobInv, NEW c \in Client, Refresh(c)
  PROVE  Stays
<1> DEFINE p == req[c].plan
           s == ScheduleStatus(p, plan[p])
<1>1. p \in Plan /\ plan' = [plan EXCEPT ![p] = s]
      /\ UNCHANGED <<job, ideas, status, copy, post, run, ops, faults>>
  BY TypeParts DEF Refresh, ReqType
<1>2. s \in {plan[p], "scheduled", "partial"}
  BY ScheduleStatusType
<1>3. ReqType'
  BY DoneType, TypeParts DEF Refresh
<1> HIDE DEF p, s
<1>4. RowType'
  BY <1>1, <1>2, TypeParts DEF RowType, PlanStatus
<1>5. JobInv'
  BY <1>1, <1>2, TypeParts DEF JobInv, WaitsForAJob, CanceledIsIdle, RunHasJob, Active, RowType
<1> QED
  BY <1>1, <1>3, <1>4, <1>5, TypeParts, TypeNext DEF Stays, RunType

LEMMA CancelStays ==
  ASSUME TypeOK, JobInv, NEW p \in Plan, Cancel(p)
  PROVE  Stays
<1> DEFINE r == [run EXCEPT !.canceled = TRUE]
<1>1. r \in Run /\ r.pc = run.pc /\ r.plan = run.plan /\ r.item = run.item
      /\ r.canceled = TRUE
  BY TypeParts DEF RunType, Run
<1>2. plan' = [plan EXCEPT ![p] = "canceled"] /\ job' = [job EXCEPT ![p] = "none"]
      /\ UNCHANGED <<ideas, status, copy, post, req, faults>> /\ Op
  BY DEF Cancel
<1>3. run' = IF run.plan = p THEN r ELSE run
  BY DEF Cancel
<1> HIDE DEF r
<1>4. RowType' /\ RunType' /\ ReqType'
  BY <1>1, <1>2, <1>3, TypeParts DEF RowType, RunType, ReqType, PlanStatus
<1>5. \A q \in Plan : q # p => plan'[q] = plan[q] /\ job'[q] = job[q]
  BY <1>2, TypeParts DEF RowType
<1>6. plan'[p] = "canceled" /\ job'[p] = "none"
  BY <1>2, TypeParts DEF RowType
<1>7. WaitsForAJob' /\ CanceledIsIdle'
  BY <1>5, <1>6 DEF JobInv, WaitsForAJob, CanceledIsIdle, Active
<1>8. RunHasJob'
  BY <1>1, <1>3, <1>5, TypeParts DEF JobInv, RunHasJob, RunType, Active
<1> QED
  BY <1>2, <1>4, <1>7, <1>8, OpType, TypeParts, TypeNext DEF Stays, JobInv

LEMMA EnvironmentStays ==
  ASSUME TypeOK, JobInv, Crash \/ (\E c \in Client : GiveUp(c)) \/ \E p \in Plan : Expire(p)
  PROVE  Stays
<1>1. CASE Crash
  <2>1. UNCHANGED <<plan, job, ideas, status, copy, post, ops>> /\ Fault /\ run' = NoRun
        /\ req' = [c \in Client |-> NoReq]
    BY <1>1 DEF Crash, rows
  <2>2. RunType' /\ ReqType'
    BY <2>1, Resting DEF RunType, ReqType
  <2> QED
    BY <2>1, <2>2, FaultType, SamePlan, TypeParts, TypeNext DEF Stays, RowType
<1>2. ASSUME NEW c \in Client, GiveUp(c) PROVE Stays
  <2>1. UNCHANGED <<plan, job, ideas, status, copy, post, run, ops>> /\ Fault /\ Done(c)
    BY <1>2 DEF GiveUp, rows
  <2> QED
    BY <2>1, FaultType, DoneType, SameJobs, TypeParts, TypeNext DEF Stays, RowType, RunType
<1>3. ASSUME NEW p \in Plan, Expire(p) PROVE Stays
  <2>1. job[p] = "running" /\ job' = [job EXCEPT ![p] = "expired"]
        /\ UNCHANGED <<plan, ideas, status, copy, post, run, req, ops, faults>>
    BY <1>3 DEF Expire
  <2>2. RowType' /\ \A q \in Plan : Active(q)' <=> Active(q)
    BY <2>1, TypeParts DEF RowType, Active
  <2>3. JobInv'
    BY <2>1, <2>2, TypeParts DEF JobInv, WaitsForAJob, CanceledIsIdle, RunHasJob, RunType
  <2> QED
    BY <2>1, <2>2, <2>3, TypeParts, TypeNext DEF Stays, RunType, ReqType
<1> QED
  BY <1>1, <1>2, <1>3

-----------------------------------------------------------------------------
LEMMA StepInv == ASSUME PlanInv, [Next]_vars PROVE PlanInv'
<1> USE DEF PlanInv
<1>0. JobInv
  BY DEF JobInv
<1>1. CASE WorkerStep \/ WorkerFault
  BY <1>0, <1>1, WorkerKept, WorkerOthers, TypeNext DEF Kept, JobInv
<1>2. ASSUME NEW c \in Client, RequestStep(c) PROVE PlanInv'
  BY <1>0, <1>2, ResetStays, EnqueueStays, RefreshStays, BeginStays, ScheduleStays,
     EnvironmentStays DEF RequestStep, Stays, JobInv
<1>3. CASE Crash \/ (\E p \in Plan : Expire(p)) \/ (\E p \in Plan : Cancel(p))
           \/ \E v \in Variant : UpdateVariant(v)
  BY <1>0, <1>3, EnvironmentStays, CancelStays, UpdateStays DEF Stays, JobInv
<1>4. CASE UNCHANGED vars
  BY <1>4 DEF vars, rows, TypeOK, WaitsForAJob, CanceledIsIdle, RunHasJob, Active
<1> QED
  BY <1>1, <1>2, <1>3, <1>4 DEF Next

(* Types, plans, jobs and the worker agree in every reachable state, for any *)
(* number of plans, variants, clients, requests and faults.                  *)
THEOREM PlanInvariance == Spec => []PlanInv
BY InitPlanInv, StepInv, PTL DEF Spec

(* Every reachable state is well typed; the worker's loop stays in range.    *)
THEOREM PlanTypes == Spec => []TypeOK
BY PlanInvariance, PTL DEF PlanInv

(* No plan is stuck in "queued" or "generating" without a job.               *)
THEOREM NoPlanStuck == Spec => []WaitsForAJob
BY PlanInvariance, PTL DEF PlanInv

(* A canceled plan has no job, however a retry or the worker raced it.       *)
THEOREM CanceledHasNoJob == Spec => []CanceledIsIdle
BY PlanInvariance, PTL DEF PlanInv

(* The worker works for the active job until that is canceled.               *)
THEOREM WorkerHasItsJob == Spec => []RunHasJob
BY PlanInvariance, PTL DEF PlanInv

(* The worker never takes a plan out of "canceled".                          *)
THEOREM CancelIsKept == Spec => WorkerKeepsCancel
<1>1. PlanInv /\ [Next]_vars =>
        [WorkerStep \/ WorkerFault =>
           \A p \in Plan : plan[p] = "canceled" => plan'[p] = "canceled"]_vars
  BY WorkerKept DEF PlanInv, JobInv, Kept
<1> QED
  BY <1>1, PlanInvariance, PTL DEF Spec, WorkerKeepsCancel
=============================================================================
