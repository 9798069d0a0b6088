----------------------------- MODULE Publishing -----------------------------
(***************************************************************************)
(* The whole of publishing: the worker's cycle of PublishCycle interleaved *)
(* with the HTTP and MCP requests that create, schedule, edit, cancel and  *)
(* delete posts and handle their dead letters                              *)
(* (internal/application/posts, internal/application/dlq).                 *)
(*                                                                         *)
(* Every request but the creation of a thread writes with one statement or *)
(* transaction.  A creation inserts its segments one transaction at a      *)
(* time, so the worker and other requests see the thread half made.        *)
(***************************************************************************)
EXTENDS PublishCycle

CONSTANTS
  MaxSteps,  \* bound on the segments of a thread
  MaxOps     \* bound on the requests of a behaviour

ASSUME PublishingAssumption ==
  /\ MaxSteps \in Nat \ {0}
  /\ MaxOps \in Nat

VARIABLES
  req,  \* the creation request in progress
  ops   \* requests served so far

vars == <<rows, cycle, req, ops>>

(* A creation: what it inserts (st, sl, hold), how many segments are left,   *)
(* where the next one goes (root, last, at) and createdIDs.                  *)
Request ==
  [phase : {"none", "insert", "rollback"},
   left : Nat, root : Post \cup {NoPost}, last : Post \cup {NoPost},
   at : Nat \ {0}, made : SUBSET Post,
   st : {"draft", "scheduled"}, sl : {"later", "due"}, hold : BOOLEAN]

NoRequest ==
  [phase |-> "none", left |-> 0, root |-> NoPost, last |-> NoPost,
   at |-> 1, made |-> {}, st |-> "draft", sl |-> "later", hold |-> FALSE]

NewRequest(n, st, sl, hold) ==
  [NoRequest EXCEPT !.phase = "insert", !.left = n,
                    !.st = st, !.sl = sl, !.hold = hold]

TypeOK ==
  /\ RowsTypeOK
  /\ CycleTypeOK
  /\ req \in Request
  /\ ops \in Nat

Init ==
  /\ RowsInit
  /\ CycleInit
  /\ req = NoRequest
  /\ ops = 0

Op == ops < MaxOps /\ ops' = ops + 1

(* A draft has no scheduled_at; a publish time may be past already. *)
Plan(st, sl) == st = "draft" => sl = "later"

-----------------------------------------------------------------------------
(* CreateService.Create for one account, after its validations. *)
BeginCreate ==
  /\ req.phase = "none"
  /\ Op
  /\ \E n \in 1..MaxSteps, st \in {"draft", "scheduled"}, sl \in {"later", "due"},
        hold \in BOOLEAN :
       /\ Plan(st, sl)
       /\ req' = NewRequest(n, st, sl, hold)
  /\ UNCHANGED <<rows, cycle>>

(* One CreatePost; the last one answers the request. *)
InsertSegment(p) ==
  /\ req.phase = "insert"
  /\ status[p] = "absent"
  /\ LET r == IF req.root = NoPost THEN p ELSE req.root
     IN  /\ InsertRow(p, r, req.last, req.at, req.st, req.sl, req.hold)
         /\ req' = IF req.left = 1 THEN NoRequest
                   ELSE [req EXCEPT !.left = @ - 1, !.root = r, !.last = p,
                                    !.at = @ + 1, !.made = @ \cup {p}]
  /\ UNCHANGED <<cycle, ops>>

(* CreatePost failed: what was inserted is to be deleted again. *)
InsertError ==
  /\ req.phase = "insert"
  /\ req' = IF req.made = {} THEN NoRequest ELSE [req EXCEPT !.phase = "rollback"]
  /\ UNCHANGED <<rows, cycle, ops>>

(* rollbackCreatedPosts: one DeletePostEditable per id.  It deletes the      *)
(* whole thread, so a later id is no longer there; any error (that one, a    *)
(* step that is on its way, the request's context being cancelled) is        *)
(* collected and the loop goes on.                                           *)
Rollback(p) ==
  /\ req.phase = "rollback"
  /\ p \in req.made
  /\ \/ DeleteRows(p)
     \/ UNCHANGED rows
  /\ req' = IF req.made = {p} THEN NoRequest ELSE [req EXCEPT !.made = @ \ {p}]
  /\ UNCHANGED <<cycle, ops>>

-----------------------------------------------------------------------------
(* Environment assumption: a client edits the steps of a thread only after   *)
(* the request that creates the thread was answered.                         *)
Answered(r) == ~(req.phase = "insert" /\ req.root = r)

Schedule(p) ==
  /\ Exists(p)
  /\ Op
  /\ \E sl \in {"later", "due"} : ScheduleRows(p, sl)
  /\ UNCHANGED <<cycle, req>>

Cancel(p) ==
  /\ Exists(p)
  /\ Op
  /\ CancelRows(p)
  /\ UNCHANGED <<cycle, req>>

Delete(p) ==
  /\ Op
  /\ DeleteRows(p)
  /\ UNCHANGED <<cycle, req>>

EditOne(p) ==
  /\ Op
  /\ \E st \in {"draft", "scheduled"}, sl \in {"later", "due"} :
       Plan(st, sl) /\ EditRow(p, st, sl)
  /\ UNCHANGED <<cycle, req>>

EditThread(p) ==
  /\ Exists(p)
  /\ Answered(root[p])
  /\ Op
  /\ \E n \in 1..MaxSteps : \E line \in [1..n -> Post] :
       \E st \in {"draft", "scheduled"}, sl \in {"later", "due"} :
         Plan(st, sl) /\ RewriteRows(root[p], line, st, sl)
  /\ UNCHANGED <<cycle, req>>

Requeue(p) ==
  /\ Op
  /\ RequeueRow(p)
  /\ UNCHANGED <<cycle, req>>

Discard(p) ==
  /\ Op
  /\ DiscardRow(p)
  /\ UNCHANGED <<cycle, req>>

Review(p) ==
  /\ Op
  /\ ReviewRow(p)
  /\ UNCHANGED <<cycle, req>>

(* The process dies: the worker's memory and the request in progress are     *)
(* lost, the rows stay.                                                      *)
Crash ==
  /\ pc # "idle" \/ req.phase # "none"
  /\ Fault
  /\ Forget
  /\ LoseAnswer
  /\ req' = NoRequest
  /\ UNCHANGED <<rows, aged, sent, said, ops>>

RequestStep ==
  \/ BeginCreate \/ InsertError
  \/ \E p \in Post :
       \/ InsertSegment(p) \/ Rollback(p)
       \/ Schedule(p) \/ Cancel(p) \/ Delete(p)
       \/ EditOne(p) \/ EditThread(p)
       \/ Requeue(p) \/ Discard(p) \/ Review(p)

Next ==
  \/ (WorkerStep \/ FaultStep \/ ClockStep) /\ UNCHANGED <<req, ops>>
  \/ RequestStep
  \/ Crash

Spec == Init /\ [][Next]_vars

(* The worker's ticker keeps ticking and the clock keeps running; clients    *)
(* and faults owe nothing.                                                   *)
Fairness ==
  /\ WF_vars(WorkerStep /\ UNCHANGED <<req, ops>>)
  /\ \A p \in Post :
       /\ WF_vars(Age(p) /\ UNCHANGED <<req, ops>>)
       /\ WF_vars(SlotComes(p) /\ UNCHANGED <<cycle, req, ops>>)
       /\ WF_vars(RetryComes(p) /\ UNCHANGED <<cycle, req, ops>>)

FairSpec == Spec /\ Fairness
-----------------------------------------------------------------------------
(* Properties.                                                             *)

(* A failed post always has a dead letter, so an operator can find it and    *)
(* requeue it: the three places that set 'failed' (RecordPublishFailure,     *)
(* failBlockedThreadDescendantsTx, RecoverStalePublishingPosts) insert one   *)
(* and nothing removes it while the post stays failed.                       *)
FailedHasDeadLetter ==
  \A p \in Post : status[p] = "failed" => dead[p] # "none"

(* Copies are accounted for: a post is on the network once for being         *)
(* published, once more while its outcome is being written, and otherwise    *)
(* only for outcomes that were never recorded.  So a second copy needs a     *)
(* lost answer, a failed MarkPublished, a panic or a crash first; claiming,  *)
(* editing, cancelling and requeueing alone never publish twice.             *)
CopiesAccounted ==
  \A p \in Post :
    sent[p] = lost[p] + (IF status[p] = "published" THEN 1 ELSE 0)
                      + (IF pc = "mark" /\ cur = p THEN 1 ELSE 0)

(* A thread goes out in order: when a step is being published or is          *)
(* published, every earlier step the thread still has is published and has   *)
(* an external id (ClaimDuePosts' EXISTS, across every edit of the thread).  *)
ThreadInOrder ==
  \A p, q \in Post :
    (/\ status[p] \in {"publishing", "published"}
     /\ Exists(q) /\ root[q] = root[p] /\ pos[q] < pos[p])
    => status[q] = "published" /\ q \in ext

(* A follow-up that reaches the network call has its target, whichever       *)
(* platform it is for: the parent and the root are there with an external    *)
(* id, so "parent post external id is missing" is never recorded.            *)
TargetPresent ==
  (pc \in {"publish", "republish"} /\ snap[cur].parent # NoPost)
    => \A t \in Targets : HasTarget(t)

(* A post that can still be published has an attempt left: attempts reach    *)
(* max_attempts only together with 'failed'.                                 *)
AttemptsLeft ==
  \A p \in Post : status[p] \in Status \ {"failed"} => attempts[p] < MaxAttempts

(* The runner never works on stale data: from its load until its outcome is  *)
(* written a claimed post stays in 'publishing', with the text and the place *)
(* in the thread that were loaded.                                           *)
BatchFresh ==
  \A p \in batch : status[p] = "publishing" /\ snap[p] = Load(p)

(* What is on the network is what the row says: the copy that made a post    *)
(* published carries the post's text, and no later request changes it.       *)
PublishedAsWritten ==
  \A p \in Post : status[p] = "published" => sent[p] > 0 /\ said[p] = text[p]

(* Once published, a row is never published again, edited, moved in its      *)
(* thread or deleted, and keeps its external id.                             *)
PublishedIsFinal ==
  [][\A p \in Post : status[p] = "published" =>
       /\ status'[p] = "published"
       /\ text'[p] = text[p] /\ parent'[p] = parent[p]
       /\ (p \in ext') = (p \in ext)]_vars

(* A post leaves 'publishing' only by the outcome the runner writes for it   *)
(* or by the recovery of a row that has been there for five minutes; in      *)
(* particular a step that gives up never knocks out a later step of its      *)
(* thread that is being published (the 'publishing' in                       *)
(* failBlockedThreadDescendantsTx never matches).                            *)
OnlyOutcomeSettles ==
  [][\A p \in Post : (status[p] = "publishing" /\ status'[p] # "publishing") =>
       \/ p = cur /\ pc \in {"mark", "fail", "defer"}
       \/ p \in aged /\ pc = "idle"]_vars

(* No post stays in 'publishing' for good, whatever was lost on the way: the *)
(* runner settles it or RecoverStalePublishingPosts does.                    *)
PublishingSettles ==
  \A p \in Post : (status[p] = "publishing") ~> (status[p] # "publishing")

(* A scheduled post that waits for nothing (its parent is out, it is not in  *)
(* review) is eventually claimed, or edited so that it is no longer that.    *)
ReadyIsClaimed ==
  \A p \in Post :
    (status[p] = "scheduled" /\ ParentReady(p) /\ p \notin review)
    ~> ~(status[p] = "scheduled" /\ ParentReady(p) /\ p \notin review)

(* What docs/architecture.md says of the claim: a post in review is never    *)
(* taken for publishing.                                                     *)
ReviewIsNeverClaimed ==
  [][\A p \in Post : (status[p] = "scheduled" /\ p \in review)
       => status'[p] # "publishing"]_vars

-----------------------------------------------------------------------------
(* Publishing implements Delivery: seen post by post, the rows and the       *)
(* worker do nothing a client of Delivery would not expect.                  *)
StageOf(st) ==
  CASE st = "absent"                 -> "unborn"
    [] st \in {"draft", "canceled"}  -> "shelf"
    [] st = "scheduled"              -> "queue"
    [] st = "publishing"             -> "sending"
    [] st = "published"              -> "delivered"
    [] st = "failed"                 -> "dead"
    [] st = "gone"                   -> "gone"

D == INSTANCE Delivery WITH
       stage    <- [p \in Post |-> StageOf(status[p])],
       copies   <- sent,
       unsure   <- lost,
       receipts <- IF pc = "mark" THEN {cur} ELSE {}

(* The claim, outcome and recovery statements together keep Delivery's       *)
(* promise: a post is taken from the queue by one claim, and leaves the      *)
(* sending stage delivered exactly when a receipt is recorded.               *)
KeepsDeliveryPromise == D!Spec
=============================================================================
