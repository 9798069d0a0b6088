------------------------------ MODULE PostRows ------------------------------
(***************************************************************************)
(* The rows of the posts, dead_letters and campaign_posts tables that      *)
(* decide what is published and when (internal/db/db.go, dlq.go).          *)
(*                                                                         *)
(* SQLite is opened with one connection, so a statement or a transaction   *)
(* is one step and everything between two of them is an interleaving       *)
(* point.  Every operator that primes the row variables below is the whole *)
(* effect of one such statement or transaction.                            *)
(*                                                                         *)
(* Time is abstracted to what the code compares with the clock: a row's    *)
(* scheduled_at and next_retry_at are in the future or have come due.      *)
(***************************************************************************)
EXTENDS Naturals

CONSTANTS
  Post,        \* the post ids the store can hand out
  NoPost,      \* a NULL parent_post_id
  MaxAttempts  \* posts.max_attempts, the same for every post

ASSUME RowsAssumption ==
  /\ NoPost \notin Post
  /\ MaxAttempts \in Nat \ {0}

VARIABLES
  status,    \* posts.status; "absent" before the INSERT, "gone" after the DELETE
  attempts,  \* posts.attempts
  slot,      \* posts.scheduled_at: "later" or "due"
  retry,     \* posts.next_retry_at: "null", "wait" (in the future) or "due"
  parent,    \* posts.parent_post_id
  root,      \* posts.root_post_id
  pos,       \* posts.thread_position
  text,      \* posts.text, as a revision number
  ext,       \* the posts whose external_id is not blank
  dead,      \* the reason of the post's dead_letters row, or "none"
  review     \* the posts whose campaign_posts row has requires_approval = 1
             \* and editorial_status = 'needs_review'

links == <<parent, root, pos>>
rows  == <<status, attempts, slot, retry, parent, root, pos, text, ext, dead, review>>

-----------------------------------------------------------------------------
Status   == {"absent", "draft", "scheduled", "publishing", "published",
             "failed", "canceled", "gone"}
Editable == {"draft", "scheduled", "failed", "canceled"}
Reason   == {"none", "max_attempts_exceeded", "thread_dependency_failed",
             "stale_publishing_recovered"}

RowsTypeOK ==
  /\ status \in [Post -> Status]
  /\ attempts \in [Post -> 0..MaxAttempts]
  /\ slot \in [Post -> {"later", "due"}]
  /\ retry \in [Post -> {"null", "wait", "due"}]
  /\ parent \in [Post -> Post \cup {NoPost}]
  /\ root \in [Post -> Post]
  /\ pos \in [Post -> Nat \ {0}]
  /\ text \in [Post -> Nat]
  /\ ext \in SUBSET Post
  /\ dead \in [Post -> Reason]
  /\ review \in SUBSET Post

RowsInit ==
  /\ status = [p \in Post |-> "absent"]
  /\ attempts = [p \in Post |-> 0]
  /\ slot = [p \in Post |-> "later"]
  /\ retry = [p \in Post |-> "null"]
  /\ parent = [p \in Post |-> NoPost]
  /\ root = [p \in Post |-> p]
  /\ pos = [p \in Post |-> 1]
  /\ text = [p \in Post |-> 0]
  /\ ext = {}
  /\ dead = [p \in Post |-> "none"]
  /\ review = {}

(* UPDATE ... SET column = value WHERE id IN S *)
Put(column, S, value) == [p \in Post |-> IF p \in S THEN value ELSE column[p]]

Exists(p) == status[p] \notin {"absent", "gone"}

(* WHERE id = r OR root_post_id = r *)
ThreadOf(r) == {p \in Post : Exists(p) /\ (p = r \/ root[p] = r)}

(* Mutant: a row with a next_retry_at is not looked at again. *)
DueOnceOnly(p) == retry[p] = "null" /\ slot[p] = "due"

(* COALESCE(next_retry_at, scheduled_at) <= now *)
Due(p) == IF retry[p] = "null" THEN slot[p] = "due" ELSE retry[p] = "due"

-----------------------------------------------------------------------------
(* The worker's statements.                                                *)

(* Mutant: a follow-up does not wait for its parent. *)
AnyParent(p) == TRUE

ParentReady(p) ==
  \/ parent[p] = NoPost
  \/ status[parent[p]] = "published" /\ parent[p] \in ext

(* The WHERE clause of ClaimDuePosts' SELECT. *)
Claimable(p) ==
  /\ status[p] = "scheduled"
  /\ Due(p)
  /\ ParentReady(p)
  /\ p \notin review

(* ClaimDuePosts' UPDATE ... WHERE id = p AND status = 'scheduled'. *)
ClaimRow(p) ==
  /\ status' = [status EXCEPT ![p] = "publishing"]
  /\ UNCHANGED <<attempts, slot, retry, links, text, ext, dead, review>>

MarkPublished(p, withId) ==
  /\ status' = [status EXCEPT ![p] = "published"]
  /\ retry' = [retry EXCEPT ![p] = "null"]
  /\ ext' = IF withId THEN ext \cup {p} ELSE ext \ {p}
  /\ UNCHANGED <<attempts, slot, links, text, dead, review>>

(* insertDeadLetterTx, once per post of S: WHERE NOT EXISTS keeps an older row. *)
Bury(S, reason) ==
  [p \in Post |-> IF p \in S /\ dead[p] = "none" THEN reason ELSE dead[p]]

(* failBlockedThreadDescendantsTx: the later steps it fails together with p. *)
BlockedBy(p) ==
  {d \in Post : /\ d # p
                /\ root[d] = root[p]
                /\ pos[d] > pos[p]
                /\ status[d] \in {"scheduled", "publishing"}}

(* RecordPublishFailure while attempts remain. *)
RetryRow(p) ==
  /\ attempts[p] + 1 < MaxAttempts
  /\ status' = [status EXCEPT ![p] = "scheduled"]
  /\ attempts' = [attempts EXCEPT ![p] = @ + 1]
  /\ retry' = [retry EXCEPT ![p] = "wait"]
  /\ UNCHANGED <<slot, links, text, ext, dead, review>>

(* RecordPublishFailure at the last attempt. *)
GiveUpRow(p) ==
  /\ attempts[p] + 1 >= MaxAttempts
  /\ status' = Put(status, {p} \cup BlockedBy(p), "failed")
  /\ attempts' = [q \in Post |-> IF q = p THEN attempts[p] + 1
                                 ELSE IF q \in BlockedBy(p) THEN MaxAttempts
                                 ELSE attempts[q]]
  /\ retry' = Put(retry, {p} \cup BlockedBy(p), "null")
  /\ dead' = [q \in Post |-> IF q = p THEN Bury({p}, "max_attempts_exceeded")[q]
                             ELSE Bury(BlockedBy(p), "thread_dependency_failed")[q]]
  /\ UNCHANGED <<slot, links, text, ext, review>>

(* ReschedulePublishWithoutAttempt *)
DeferRow(p) ==
  /\ status' = IF status[p] = "publishing"
                 THEN [status EXCEPT ![p] = "scheduled"] ELSE status
  /\ retry' = IF status[p] = "publishing"
                THEN [retry EXCEPT ![p] = "wait"] ELSE retry
  /\ UNCHANGED <<attempts, slot, links, text, ext, dead, review>>

(* Mutant: recovery forgets the dead letter. *)
RecoverSilently(S) ==
  /\ status' = Put(status, S, "failed")
  /\ retry' = Put(retry, S, "null")
  /\ UNCHANGED <<attempts, slot, links, text, ext, dead, review>>

(* Mutant: recovery skips a row that has a dead letter already. *)
RecoverOnce(S) ==
  LET R == {p \in S : dead[p] = "none"}
  IN  /\ status' = Put(status, R, "failed")
      /\ retry' = Put(retry, R, "null")
      /\ dead' = Bury(R, "stale_publishing_recovered")
      /\ UNCHANGED <<attempts, slot, links, text, ext, review>>

(* RecoverStalePublishingPosts, for the rows S untouched for five minutes. *)
RecoverRows(S) ==
  /\ status' = Put(status, S, "failed")
  /\ retry' = Put(retry, S, "null")
  /\ dead' = Bury(S, "stale_publishing_recovered")
  /\ UNCHANGED <<attempts, slot, links, text, ext, review>>

-----------------------------------------------------------------------------
(* The statements of the HTTP and MCP requests.                            *)

(* Mutant: every follow-up hangs on the root. *)
InsertUnderRoot(p, r, q, n, st, sl, inReview) ==
  /\ status' = [status EXCEPT ![p] = st]
  /\ slot' = [slot EXCEPT ![p] = sl]
  /\ parent' = [parent EXCEPT ![p] = IF q = NoPost THEN NoPost ELSE r]
  /\ root' = [root EXCEPT ![p] = r]
  /\ pos' = [pos EXCEPT ![p] = n]
  /\ review' = IF inReview THEN review \cup {p} ELSE review
  /\ UNCHANGED <<attempts, retry, text, ext, dead>>

(* CreatePost: INSERT INTO posts and campaign_posts. *)
InsertRow(p, r, q, n, st, sl, inReview) ==
  /\ status' = [status EXCEPT ![p] = st]
  /\ slot' = [slot EXCEPT ![p] = sl]
  /\ parent' = [parent EXCEPT ![p] = q]
  /\ root' = [root EXCEPT ![p] = r]
  /\ pos' = [pos EXCEPT ![p] = n]
  /\ review' = IF inReview THEN review \cup {p} ELSE review
  /\ UNCHANGED <<attempts, retry, text, ext, dead>>

(* Mutant: scheduling a draft takes the whole thread along. *)
ScheduleAllRows(p, sl) ==
  LET S == ThreadOf(root[p])
  IN  /\ status' = Put(status, S, "scheduled")
      /\ slot' = Put(slot, S, sl)
      /\ retry' = Put(retry, S, "null")
      /\ attempts' = Put(attempts, S, 0)
      /\ UNCHANGED <<links, text, ext, dead, review>>

(* ScheduleDraftPost: every editable row of the thread. *)
ScheduleRows(p, sl) ==
  LET S == {q \in ThreadOf(root[p]) : status[q] \in Editable}
  IN  /\ S # {}
      /\ status' = Put(status, S, "scheduled")
      /\ slot' = Put(slot, S, sl)
      /\ retry' = Put(retry, S, "null")
      /\ attempts' = Put(attempts, S, 0)
      /\ UNCHANGED <<links, text, ext, dead, review>>

(* CancelPost: every scheduled row of the thread. *)
CancelRows(p) ==
  LET S == {q \in ThreadOf(root[p]) : status[q] = "scheduled"}
  IN  /\ S # {}
      /\ status' = Put(status, S, "canceled")
      /\ UNCHANGED <<attempts, slot, retry, links, text, ext, dead, review>>

(* Mutant: a post on its way can still be edited. *)
EditAnyRow(p, st, sl) ==
  /\ status[p] \in Editable \cup {"publishing"}
  /\ status' = [status EXCEPT ![p] = st]
  /\ slot' = [slot EXCEPT ![p] = sl]
  /\ retry' = [retry EXCEPT ![p] = "null"]
  /\ attempts' = [attempts EXCEPT ![p] = 0]
  /\ text' = [text EXCEPT ![p] = @ + 1]
  /\ UNCHANGED <<links, ext, dead, review>>

(* UpdatePostEditable: one row, whatever its place in the thread. *)
EditRow(p, st, sl) ==
  /\ status[p] \in Editable
  /\ status' = [status EXCEPT ![p] = st]
  /\ slot' = [slot EXCEPT ![p] = sl]
  /\ retry' = [retry EXCEPT ![p] = "null"]
  /\ attempts' = [attempts EXCEPT ![p] = 0]
  /\ text' = [text EXCEPT ![p] = @ + 1]
  /\ UNCHANGED <<links, ext, dead, review>>

(* Deleting posts: their dead letters and campaign rows go with them. *)
EraseRows(S) ==
  /\ status' = Put(status, S, "gone")
  /\ attempts' = Put(attempts, S, 0)
  /\ slot' = Put(slot, S, "later")
  /\ retry' = Put(retry, S, "null")
  /\ dead' = Put(dead, S, "none")
  /\ ext' = ext \ S
  /\ review' = review \ S
  /\ UNCHANGED <<links, text>>

(* Mutant: only a published step protects its thread. *)
DeletableUnlessPublished(r) == \A q \in ThreadOf(r) : status[q] # "published"

(* Mutant: only a step on its way protects its thread. *)
DeletableUnlessSending(r) == \A q \in ThreadOf(r) : status[q] # "publishing"

Deletable(r) == \A q \in ThreadOf(r) : status[q] \in Editable

(* DeletePostEditable: the whole thread or nothing. *)
DeleteRows(p) ==
  /\ Exists(p)
  /\ Deletable(root[p])
  /\ EraseRows(ThreadOf(root[p]))

(* UpdateThreadEditable's orderedIDs: the first rows of the thread, by       *)
(* thread_position, followed by the steps to insert; the rows a shorter      *)
(* edit has no step for are dropped.                                         *)
Rewrites(r, line) ==
  LET T    == ThreadOf(r)
      Kept == {i \in DOMAIN line : line[i] \in T}
  IN  /\ \A i, j \in DOMAIN line : line[i] = line[j] => i = j
      /\ \A i \in DOMAIN line : line[i] \in T \/ status[line[i]] = "absent"
      /\ \A i, j \in DOMAIN line :
           (i < j /\ j \in Kept) => i \in Kept /\ pos[line[i]] < pos[line[j]]
      /\ \A q \in T : (\A i \in DOMAIN line : line[i] # q)
           => \A i \in DOMAIN line : i \in Kept /\ pos[line[i]] < pos[q]

(* UpdateThreadEditable: all rows editable, the root row still there. *)
RewriteRows(r, line, st, sl) ==
  LET New  == {line[i] : i \in DOMAIN line}
      Lost == ThreadOf(r) \ New
      At(q) == CHOOSE i \in DOMAIN line : line[i] = q
  IN  /\ Exists(r)
      /\ Deletable(r)
      /\ Rewrites(r, line)
      /\ status' = [q \in Post |-> IF q \in New THEN st
                                   ELSE IF q \in Lost THEN "gone" ELSE status[q]]
      /\ slot' = [q \in Post |-> IF q \in New THEN sl
                                 ELSE IF q \in Lost THEN "later" ELSE slot[q]]
      /\ retry' = Put(retry, New \cup Lost, "null")
      /\ attempts' = Put(attempts, New \cup Lost, 0)
      /\ parent' = [q \in Post |-> IF q \notin New THEN parent[q]
                                   ELSE IF At(q) = 1 THEN NoPost ELSE line[At(q) - 1]]
      /\ root' = Put(root, New, line[1])
      /\ pos' = [q \in Post |-> IF q \in New THEN At(q) ELSE pos[q]]
      /\ text' = [q \in Post |-> IF q \in New THEN text[q] + 1 ELSE text[q]]
      /\ dead' = Put(dead, Lost, "none")
      /\ ext' = ext \ Lost
      /\ review' = review \ Lost

(* RequeueDeadLetter *)
RequeueRow(p) ==
  /\ dead[p] # "none"
  /\ status[p] = "failed"
  /\ status' = [status EXCEPT ![p] = "scheduled"]
  /\ attempts' = [attempts EXCEPT ![p] = 0]
  /\ retry' = [retry EXCEPT ![p] = "null"]
  /\ dead' = [dead EXCEPT ![p] = "none"]
  /\ UNCHANGED <<slot, links, text, ext, review>>

(* DeleteDeadLetter: the entry and its failed post, not the rest of the thread. *)
DiscardRow(p) ==
  /\ dead[p] # "none"
  /\ status[p] = "failed"
  /\ EraseRows({p})

(* A campaign_posts statement: AddPostToCampaign, ApprovePost,               *)
(* UpdatePostEditorialMetadata or the safety sweep moves a post into or out  *)
(* of the state ClaimDuePosts excludes.                                      *)
ReviewRow(p) ==
  /\ Exists(p)
  /\ review' = IF p \in review THEN review \ {p} ELSE review \cup {p}
  /\ UNCHANGED <<status, attempts, slot, retry, links, text, ext, dead>>

(* The clock reaches scheduled_at or next_retry_at of a row that is waiting. *)
SlotComes(p) ==
  /\ status[p] \in {"scheduled", "failed"}
  /\ slot[p] = "later"
  /\ slot' = [slot EXCEPT ![p] = "due"]
  /\ UNCHANGED <<status, attempts, retry, links, text, ext, dead, review>>

RetryComes(p) ==
  /\ status[p] = "scheduled"
  /\ retry[p] = "wait"
  /\ retry' = [retry EXCEPT ![p] = "due"]
  /\ UNCHANGED <<status, attempts, slot, links, text, ext, dead, review>>
=============================================================================
