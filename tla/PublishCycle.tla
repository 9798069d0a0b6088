---------------------------- MODULE PublishCycle ----------------------------
(***************************************************************************)
(* The worker's publish cycle (internal/worker/worker.go runOnce and       *)
(* internal/application/publishcycle/runner.go RunOnce): recover stale     *)
(* rows, SELECT due posts, claim them one UPDATE at a time, then for each  *)
(* claimed post call the network and write the outcome.  One goroutine     *)
(* runs it; a crash or a recovered panic drops its memory, never the rows. *)
(*                                                                         *)
(* A fault is a store call that returns an error, an answer of the network *)
(* that is lost after the post went out, a panic or a crash; MaxFaults     *)
(* bounds how many of them a behaviour has.                                *)
(***************************************************************************)
EXTENDS PostRows, FiniteSets

CONSTANTS
  ClaimLimit,  \* the LIMIT of ClaimDuePosts
  MaxFaults    \* bound on the faults of a behaviour

ASSUME CycleAssumption ==
  /\ ClaimLimit \in Nat \ {0}
  /\ MaxFaults \in Nat

VARIABLES
  pc,      \* where the worker goroutine is
  picked,  \* ids of ClaimDuePosts' SELECT still to be claimed
  batch,   \* claimed posts still to be processed, cur included
  cur,     \* the post being published
  snap,    \* the post as GetPost loaded it after its claim
  aged,    \* rows in "publishing" whose updated_at is five minutes old
  sent,    \* history: copies of the post that went out on the network
  lost,    \* history: copies that went out and were never recorded
  said,    \* history: the text revision of the last copy
  faults

worker == <<pc, picked, batch, cur, snap>>
history == <<sent, lost, said>>
cycle  == <<pc, picked, batch, cur, snap, aged, sent, lost, said, faults>>

PC == {"idle", "select", "claim", "load", "next", "publish", "republish",
       "mark", "fail", "defer"}

(* What the runner keeps of a loaded post. *)
Snapshot == [text : Nat, parent : Post \cup {NoPost}, root : Post]
Blank(p) == [text |-> 0, parent |-> NoPost, root |-> p]
Load(p)  == [text |-> text[p], parent |-> parent[p], root |-> root[p]]

CycleTypeOK ==
  /\ pc \in PC
  /\ picked \in SUBSET Post
  /\ batch \in SUBSET Post
  /\ cur \in Post \cup {NoPost}
  /\ snap \in [Post -> Snapshot]
  /\ aged \in SUBSET Post
  /\ sent \in [Post -> Nat]
  /\ lost \in [Post -> Nat]
  /\ said \in [Post -> Nat]
  /\ faults \in Nat

CycleInit ==
  /\ pc = "idle"
  /\ picked = {} /\ batch = {} /\ cur = NoPost
  /\ snap = [p \in Post |-> Blank(p)]
  /\ aged = {}
  /\ sent = [p \in Post |-> 0]
  /\ lost = [p \in Post |-> 0]
  /\ said = [p \in Post |-> 0]
  /\ faults = 0

Fault == faults < MaxFaults /\ faults' = faults + 1

(* The goroutine forgets everything: the end of a tick, an early return of   *)
(* RunOnce, a panic that safeRun recovers, a process that dies.              *)
Forget ==
  /\ pc' = "idle"
  /\ picked' = {} /\ batch' = {} /\ cur' = NoPost
  /\ snap' = [p \in Post |-> Blank(p)]

-----------------------------------------------------------------------------
(* A tick: RecoverStalePublishingPosts, then ClaimDuePosts.  An error of the *)
(* recovery is logged and the cycle goes on.                                 *)
Recover ==
  /\ pc = "idle"
  /\ RecoverRows({p \in aged : status[p] = "publishing"})
  /\ aged' = {}
  /\ pc' = "select"
  /\ UNCHANGED <<picked, batch, cur, snap, history, faults>>

RecoverError ==
  /\ pc = "idle"
  /\ Fault
  /\ pc' = "select"
  /\ UNCHANGED <<rows, picked, batch, cur, snap, aged, history>>

(* The SELECT of ClaimDuePosts: all the claimable posts, or LIMIT of them. *)
Select ==
  /\ pc = "select"
  /\ \E S \in SUBSET {p \in Post : Claimable(p)} :
       /\ \/ S = {p \in Post : Claimable(p)}
          \/ Cardinality(S) = ClaimLimit
       /\ Cardinality(S) <= ClaimLimit
       /\ picked' = S
  /\ pc' = "claim"
  /\ UNCHANGED <<rows, batch, cur, snap, aged, history, faults>>

(* Mutant: the claim's UPDATE trusts the SELECT. *)
ClaimUnchecked(p) ==
  /\ pc = "claim"
  /\ p \in picked
  /\ picked' = picked \ {p}
  /\ ClaimRow(p)
  /\ pc' = "load" /\ cur' = p
  /\ UNCHANGED <<batch, snap, aged, history, faults>>

(* One UPDATE of the claim loop; a row that is no longer scheduled is skipped. *)
Claim(p) ==
  /\ pc = "claim"
  /\ p \in picked
  /\ picked' = picked \ {p}
  /\ \/ /\ status[p] = "scheduled"
        /\ ClaimRow(p)
        /\ pc' = "load" /\ cur' = p
     \/ /\ status[p] # "scheduled"
        /\ UNCHANGED <<rows, pc, cur>>
  /\ UNCHANGED <<batch, snap, aged, history, faults>>

(* The GetPost that follows the UPDATE of the claim loop. *)
LoadClaimed ==
  /\ pc = "load"
  /\ snap' = [snap EXCEPT ![cur] = Load(cur)]
  /\ batch' = batch \cup {cur}
  /\ cur' = NoPost
  /\ pc' = "claim"
  /\ UNCHANGED <<rows, picked, aged, history, faults>>

(* An error anywhere in ClaimDuePosts: it returns no post at all, and the    *)
(* rows it has claimed already stay in "publishing".                         *)
ClaimError ==
  /\ pc \in {"select", "claim", "load"}
  /\ Fault
  /\ Forget
  /\ UNCHANGED <<rows, aged, history>>

ClaimDone ==
  /\ pc = "claim"
  /\ picked = {}
  /\ pc' = "next"
  /\ UNCHANGED <<rows, picked, batch, cur, snap, aged, history, faults>>

-----------------------------------------------------------------------------
(* RunOnce's loop over the claimed posts. *)
Begin(p) ==
  /\ pc = "next"
  /\ p \in batch
  /\ cur' = p
  /\ pc' = "publish"
  /\ UNCHANGED <<rows, picked, batch, snap, aged, history, faults>>

EndTick ==
  /\ pc = "next"
  /\ batch = {}
  /\ Forget
  /\ UNCHANGED <<rows, aged, history, faults>>

(* The post whose external id a follow-up is attached to: its parent on X,   *)
(* the root of the thread on every other platform.                           *)
Targets == {snap[cur].parent, snap[cur].root}

HasTarget(t) == Exists(t) /\ t \in ext

(* Account, provider, credentials, proactive refresh or the target lookup    *)
(* failed before the network was called: the post is not sent.               *)
NotSent ==
  /\ pc = "publish"
  /\ pc' = "fail"
  /\ UNCHANGED <<rows, picked, batch, cur, snap, aged, history, faults>>

CanSend == snap[cur].parent # NoPost => \E t \in Targets : HasTarget(t)

(* A copy of the post is out. *)
Send ==
  /\ CanSend
  /\ sent' = [sent EXCEPT ![cur] = @ + 1]
  /\ said' = [said EXCEPT ![cur] = snap[cur].text]

(* provider.Publish returned without error. *)
PublishOk ==
  /\ pc \in {"publish", "republish"}
  /\ Send
  /\ pc' = "mark"
  /\ UNCHANGED <<rows, picked, batch, cur, snap, aged, lost, faults>>

(* provider.Publish returned an error; after a 401 the credentials are       *)
(* refreshed and the call is repeated once.                                  *)
PublishError ==
  /\ pc \in {"publish", "republish"}
  /\ \/ pc' = "fail"
     \/ pc' = "defer"
     \/ pc = "publish" /\ pc' = "republish"
  /\ UNCHANGED <<rows, picked, batch, cur, snap, aged, history, faults>>

(* The network took the post but the caller saw an error, or dropped it and  *)
(* sent the post in another way (linkedin.go:109).                           *)
AnswerLost ==
  /\ pc \in {"publish", "republish"}
  /\ Fault
  /\ Send
  /\ lost' = [lost EXCEPT ![cur] = @ + 1]
  /\ \/ pc' = "fail"
     \/ pc' = "defer"
     \/ pc = "publish" /\ pc' = "republish"
     \/ UNCHANGED pc
  /\ UNCHANGED <<rows, picked, batch, cur, snap, aged>>

-----------------------------------------------------------------------------
(* The outcome is written and the loop moves on to the next claimed post. *)
NextPost ==
  /\ batch' = batch \ {cur}
  /\ snap' = [snap EXCEPT ![cur] = Blank(cur)]
  /\ cur' = NoPost
  /\ pc' = "next"
  /\ UNCHANGED picked

Mark ==
  /\ pc = "mark"
  /\ \E withId \in BOOLEAN : MarkPublished(cur, withId)
  /\ aged' = aged \ {cur}
  /\ NextPost
  /\ UNCHANGED <<history, faults>>

RecordFailure ==
  /\ pc = "fail"
  /\ \/ RetryRow(cur) /\ aged' = aged \ {cur}
     \/ GiveUpRow(cur) /\ aged' = aged \ ({cur} \cup BlockedBy(cur))
  /\ NextPost
  /\ UNCHANGED <<history, faults>>

Defer ==
  /\ pc = "defer"
  /\ DeferRow(cur)
  /\ aged' = aged \ {cur}
  /\ NextPost
  /\ UNCHANGED <<history, faults>>

(* The answer in hand, if there is one, will never be recorded. *)
LoseAnswer ==
  lost' = [p \in Post |-> IF pc = "mark" /\ p = cur THEN lost[p] + 1 ELSE lost[p]]

(* The write of the outcome failed: the error is logged or dropped and the   *)
(* row stays in "publishing" until a later tick recovers it.                 *)
OutcomeError ==
  /\ pc \in {"mark", "fail", "defer"}
  /\ Fault
  /\ LoseAnswer
  /\ NextPost
  /\ UNCHANGED <<rows, aged, sent, said>>

(* A panic inside the tick: safeRun logs it and the next tick starts afresh. *)
Panic ==
  /\ pc # "idle"
  /\ Fault
  /\ Forget
  /\ LoseAnswer
  /\ UNCHANGED <<rows, aged, sent, said>>

(* Five minutes pass over a row in "publishing". *)
Age(p) ==
  /\ status[p] = "publishing"
  /\ p \notin aged
  /\ aged' = aged \cup {p}
  /\ UNCHANGED <<rows, worker, history, faults>>

WorkerStep ==
  \/ Recover \/ Select \/ LoadClaimed \/ ClaimDone \/ EndTick
  \/ NotSent \/ PublishOk \/ PublishError
  \/ Mark \/ RecordFailure \/ Defer
  \/ \E p \in Post : Claim(p) \/ Begin(p)

FaultStep ==
  RecoverError \/ ClaimError \/ AnswerLost \/ OutcomeError \/ Panic

ClockStep ==
  \E p \in Post :
    \/ Age(p)
    \/ (SlotComes(p) \/ RetryComes(p)) /\ UNCHANGED cycle
=============================================================================
