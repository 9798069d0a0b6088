---------------------------- MODULE ThreadCreate ----------------------------
(***************************************************************************)
(* Creating posts with an idempotency key (internal/application/posts/     *)
(* create.go, CreatePost in internal/db/db.go): a thread per account, one  *)
(* transaction per segment, each under a key scoped by account and         *)
(* position, and a rollback by deletion when a segment fails.  Requests    *)
(* with the same key are repetitions of one another and may overlap.       *)
(*                                                                         *)
(* The database has one connection (SetMaxOpenConns(1)).  It is held here  *)
(* only where a transaction stays open across steps; every other statement *)
(* or transaction takes and returns it within its step.                    *)
(***************************************************************************)
EXTENDS Naturals

CONSTANTS
  Request, NoOne,
  Key, NoKey,
  NumAccounts,  \* accounts a request names
  NumSteps,     \* segments of its thread
  MaxOps,       \* bound on deletions by clients
  MaxFaults     \* bound on store errors

ASSUME CreateAssumption ==
  /\ NoOne \notin Request
  /\ NoKey \notin Key
  /\ NumAccounts \in Nat \ {0} /\ NumSteps \in Nat \ {0}
  /\ MaxOps \in Nat /\ MaxFaults \in Nat

Account == 1..NumAccounts
Step    == 1..NumSteps
Row     == Request \X Account \X Step  \* by the request that inserts it
NoRow   == <<NoOne, 0, 0>>

VARIABLES
  state,  \* the rows: "queued" is any status in which a post can be deleted
  root,   \* posts.root_post_id
  prev,   \* posts.parent_post_id
  key,    \* the requests' keys
  req,    \* the requests
  conn,   \* the request whose open transaction holds the connection
  ops, faults

posts == <<state, root, prev>>
vars  == <<posts, key, req, conn, ops, faults>>

-----------------------------------------------------------------------------
(* The locals of Create: where it is, rootPostID, previousPostID, createdIDs *)
(* and the posts to answer with.                                             *)
Locals ==
  [pc : {"new", "account", "list", "find", "insert", "stuck", "rollback",
         "answered", "failed", "gone"},
   account : Account, step : Step, root : Row \cup {NoRow}, prev : Row \cup {NoRow},
   made : SUBSET Row, items : SUBSET Row]

Fresh ==
  [pc |-> "new", account |-> 1, step |-> 1, root |-> NoRow, prev |-> NoRow,
   made |-> {}, items |-> {}]

TypeOK ==
  /\ state \in [Row -> {"none", "queued", "out", "gone"}]
  /\ root \in [Row -> Row]
  /\ prev \in [Row -> Row \cup {NoRow}]
  /\ key \in [Request -> Key \cup {NoKey}]
  /\ req \in [Request -> Locals]
  /\ \A r \in Request : req[r].pc = "new" <=> key[r] = NoKey
  /\ conn \in Request \cup {NoOne}
  /\ ops \in Nat /\ faults \in Nat

Init ==
  /\ state = [p \in Row |-> "none"]
  /\ root = [p \in Row |-> p]
  /\ prev = [p \in Row |-> NoRow]
  /\ key = [r \in Request |-> NoKey]
  /\ req = [r \in Request |-> Fresh]
  /\ conn = NoOne
  /\ ops = 0 /\ faults = 0

Op    == ops < MaxOps /\ ops' = ops + 1
Fault == faults < MaxFaults /\ faults' = faults + 1

Present(p) == state[p] \in {"queued", "out"}

(* GetPostByIdempotencyKey, with the key scoped by account and position. *)
Holders(k, a, s) ==
  {p \in Row : Present(p) /\ key[p[1]] = k /\ p[2] = a /\ p[3] = s}

(* ListThreadPosts: WHERE id = r OR root_post_id = r *)
ThreadOf(r) == {p \in Row : Present(p) /\ (p = r \/ root[p] = r)}

Put(r, l) == req' = [req EXCEPT ![r] = l]

(* A statement of request r at control point pc: the connection is free. *)
At(r, pc) == req[r].pc = pc /\ conn = NoOne

-----------------------------------------------------------------------------
(* The request, after its validations. *)
Begin(r) ==
  /\ req[r].pc = "new"
  /\ \E k \in Key : key' = [key EXCEPT ![r] = k]
  /\ Put(r, [Fresh EXCEPT !.pc = "account"])
  /\ UNCHANGED <<posts, conn, ops, faults>>

Ended(pc) == [Fresh EXCEPT !.pc = pc]

(* The answer of a request that served all its accounts. *)
Answer(l) == [Ended("answered") EXCEPT !.items = l.items]

(* Mutant: rootPostID is declared outside the loop over the accounts. *)
NextAccountSameRoot(l) ==
  IF l.account = NumAccounts THEN Answer(l)
  ELSE [l EXCEPT !.pc = "account", !.account = @ + 1, !.step = 1, !.prev = NoRow]

NextAccount(l) ==
  IF l.account = NumAccounts THEN Answer(l)
  ELSE [l EXCEPT !.pc = "account", !.account = @ + 1, !.step = 1,
                 !.root = NoRow, !.prev = NoRow]

(* A thread whose first step has the key already is the answer for its account. *)
FindThread(r) ==
  /\ At(r, "account")
  /\ LET l == req[r]
         H == Holders(key[r], l.account, 1)
     IN  \/ H = {} /\ Put(r, [l EXCEPT !.pc = "find"])
         \/ \E p \in H : Put(r, [l EXCEPT !.pc = "list", !.root = root[p]])
  /\ UNCHANGED <<posts, key, conn, ops, faults>>

ListThread(r) ==
  /\ At(r, "list")
  /\ Put(r, NextAccount([req[r] EXCEPT !.items = @ \cup ThreadOf(req[r].root)]))
  /\ UNCHANGED <<posts, key, conn, ops, faults>>

(* What Create does with the post p that CreatePost returned. *)
Continue(l, p) ==
  LET m == [l EXCEPT !.pc = "find", !.root = IF l.step = 1 THEN p ELSE @,
                     !.prev = p, !.items = @ \cup {p}]
  IN  IF l.step = NumSteps THEN NextAccount(m) ELSE [m EXCEPT !.step = @ + 1]

(* CreatePost looks the key up first. *)
FindStep(r) ==
  /\ At(r, "find")
  /\ LET l == req[r]
         H == Holders(key[r], l.account, l.step)
     IN  \/ H = {} /\ Put(r, [l EXCEPT !.pc = "insert"])
         \/ \E p \in H : Put(r, Continue(l, p))
  /\ UNCHANGED <<posts, key, conn, ops, faults>>

(* The row request r inserts now. *)
NewRow(r) == <<r, req[r].account, req[r].step>>

InsertRow(r) ==
  LET p == NewRow(r)
  IN  /\ state' = [state EXCEPT ![p] = "queued"]
      /\ root' = [root EXCEPT ![p] = IF req[r].root = NoRow THEN p ELSE req[r].root]
      /\ prev' = [prev EXCEPT ![p] = IF req[r].step = 1 THEN NoRow ELSE req[r].prev]

(* Mutant: there is no index, the lookups are trusted. *)
Anyone(r) == TRUE

(* The unique index on the key. *)
Unique(r) == Holders(key[r], req[r].account, req[r].step) = {}

Insert(r) ==
  /\ At(r, "insert")
  /\ Unique(r)
  /\ InsertRow(r)
  /\ Put(r, Continue([req[r] EXCEPT !.made = @ \cup {NewRow(r)}], NewRow(r)))
  /\ UNCHANGED <<key, conn, ops, faults>>

(* The INSERT is refused, and CreatePost looks the post up before it ends    *)
(* its transaction: it waits for the connection that it holds itself.        *)
Refused(r) ==
  /\ At(r, "insert")
  /\ ~Unique(r)
  /\ Put(r, [req[r] EXCEPT !.pc = "stuck"])
  /\ conn' = r
  /\ UNCHANGED <<posts, key, ops, faults>>

(* CreatePost fails before the transaction commits, or after it in its       *)
(* closing GetPost; in the second case the new row is not in createdIDs.     *)
CreateError(r) ==
  /\ req[r].pc \in {"find", "insert"} /\ conn = NoOne
  /\ Fault
  /\ \/ UNCHANGED posts
     \/ req[r].pc = "insert" /\ Unique(r) /\ InsertRow(r)
  /\ Put(r, IF req[r].made = {} THEN Ended("failed") ELSE [req[r] EXCEPT !.pc = "rollback"])
  /\ UNCHANGED <<key, conn, ops>>

(* An error outside CreatePost, a post deleted between ListThreadPosts' list  *)
(* and its GetPost included: nothing is rolled back.                         *)
LookupError(r) ==
  /\ req[r].pc \in {"account", "list"} /\ conn = NoOne
  /\ Fault
  /\ Put(r, Ended("failed"))
  /\ UNCHANGED <<posts, key, conn, ops>>

Deletable(r) == \A p \in ThreadOf(r) : state[p] = "queued"

(* DeletePostEditable: the whole thread of p. *)
DeleteThread(p) ==
  /\ Present(p)
  /\ Deletable(root[p])
  /\ state' = [q \in Row |-> IF q \in ThreadOf(root[p]) THEN "gone" ELSE state[q]]

(* Mutant: a post that cannot be deleted is tried again. *)
RollbackRetrying(r) ==
  /\ At(r, "rollback")
  /\ \E p \in req[r].made :
       /\ DeleteThread(p)
       /\ Put(r, IF req[r].made = {p} THEN Ended("failed")
                 ELSE [req[r] EXCEPT !.made = @ \ {p}])
  /\ UNCHANGED <<root, prev, key, conn, ops, faults>>

(* rollbackCreatedPosts: any error (the post is gone or out, a step of its   *)
(* thread is on its way) is collected and the loop goes on.                  *)
Rollback(r) ==
  /\ At(r, "rollback")
  /\ \E p \in req[r].made :
       /\ DeleteThread(p) \/ UNCHANGED state
       /\ Put(r, IF req[r].made = {p} THEN Ended("failed")
                 ELSE [req[r] EXCEPT !.made = @ \ {p}])
  /\ UNCHANGED <<root, prev, key, conn, ops, faults>>

Over(r) == req[r].pc \in {"answered", "failed", "gone"}

(* The client goes away and the request's context ends: the next statement   *)
(* fails, and so do those of the rollback; an open transaction is rolled     *)
(* back.  A process that dies does the same to all its requests.             *)
Disconnect(r) ==
  /\ req[r].pc # "new" /\ ~Over(r)
  /\ Put(r, Ended("gone"))
  /\ conn' = IF conn = r THEN NoOne ELSE conn
  /\ UNCHANGED <<posts, key, ops, faults>>

-----------------------------------------------------------------------------
(* Everybody else.                                                         *)

(* A client deletes a thread. *)
Delete(p) ==
  /\ conn = NoOne
  /\ Op
  /\ DeleteThread(p)
  /\ UNCHANGED <<root, prev, key, req, conn, faults>>

(* DeleteDeadLetter of a step that failed. *)
Discard(p) ==
  /\ conn = NoOne
  /\ Op
  /\ state[p] = "queued"
  /\ state' = [state EXCEPT ![p] = "gone"]
  /\ UNCHANGED <<root, prev, key, req, conn, faults>>

(* The worker publishes a step whose parent is out.  A post on its way that  *)
(* is not published in the end counts as queued all along.                   *)
Publish(p) ==
  /\ conn = NoOne
  /\ state[p] = "queued"
  /\ prev[p] # NoRow => state[prev[p]] = "out"
  /\ state' = [state EXCEPT ![p] = "out"]
  /\ UNCHANGED <<root, prev, key, req, conn, ops, faults>>

RequestStep(r) ==
  FindThread(r) \/ ListThread(r) \/ FindStep(r) \/ Insert(r) \/ Refused(r) \/ Rollback(r)

Next ==
  \/ \E r \in Request :
       Begin(r) \/ RequestStep(r) \/ CreateError(r) \/ LookupError(r) \/ Disconnect(r)
  \/ \E p \in Row : Delete(p) \/ Discard(p) \/ Publish(p)

Spec == Init /\ [][Next]_vars

(* The server serves its requests. *)
ServerSpec == Spec /\ \A r \in Request : WF_vars(RequestStep(r))

(* And a client that hears nothing goes away in the end. *)
FairSpec == ServerSpec /\ \A r \in Request : WF_vars(Disconnect(r) /\ req[r].pc = "stuck")

-----------------------------------------------------------------------------
(* Properties.                                                             *)

(* However repetitions overlap, fail, are rolled back or deleted, there is   *)
(* one post per key, account and step.                                       *)
OnePostPerKey ==
  \A p, q \in Row :
    (Present(p) /\ Present(q) /\ key[p[1]] = key[q[1]] /\ p[2] = q[2] /\ p[3] = q[3])
    => p = q

(* A thread made by overlapping repetitions holds together: whichever        *)
(* request inserted it, a step follows the step before it and leads to a     *)
(* first step, of its own key and account.                                   *)
StepFollowsStep ==
  \A p \in Row : Present(p) =>
    /\ p[3] = 1 => prev[p] = NoRow /\ root[p] = p
    /\ p[3] > 1 => /\ prev[p][2] = p[2] /\ prev[p][3] + 1 = p[3]
                   /\ root[p][2] = p[2] /\ root[p][3] = 1
                   /\ key[prev[p][1]] = key[p[1]] /\ key[root[p][1]] = key[p[1]]
                   /\ state[prev[p]] # "none" /\ state[root[p]] # "none"

(* Every request comes to an end.                                            *)
RequestsEnd == \A r \in Request : req[r].pc # "new" ~> Over(r)
=============================================================================
