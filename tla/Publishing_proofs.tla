------------------------- MODULE Publishing_proofs -------------------------
(***************************************************************************)
(* Proofs about Publishing, for every number of posts, every max_attempts, *)
(* claim limit, thread length, and every number of faults and requests.    *)
(*                                                                         *)
(* IInv (module PublishingInvariant) is inductive.  Most steps touch only  *)
(* the status columns: lemma Frame says once what such a step keeps.  The  *)
(* steps that change the shape of a thread (InsertSegment, EditThread) and *)
(* the one that widens what the worker holds (Select) are proved apart.    *)
(***************************************************************************)
EXTENDS PublishingInvariant, TLAPS

USE RowsAssumption, CycleAssumption, PublishingAssumption

-----------------------------------------------------------------------------
(* The initial state. *)
LEMMA InitIInv == Init => IInv
<1> SUFFICES ASSUME Init PROVE IInv
  OBVIOUS
<1> USE DEF Init, RowsInit, CycleInit
<1>1. TypeOK
  <2>1. RowsTypeOK
    BY DEF RowsTypeOK, Status, Reason
  <2>2. CycleTypeOK
    BY DEF CycleTypeOK, PC, Snapshot, Blank
  <2>3. req \in Request
    BY DEF Request, NoRequest
  <2> QED
    BY <2>1, <2>2, <2>3 DEF TypeOK
<1>2. \A p \in Post : status[p] = "absent"
  OBVIOUS
<1>3. Shape /\ ReadyInv /\ ExtPublished
  BY <1>2 DEF Shape, RootsOK, ParentsOK, PositionsOK, ReadyInv, Active, Exists, ExtPublished
<1>4. ReqInv
  BY DEF ReqInv, NoRequest
<1>5. WorkInv
  BY DEF WorkInv, Processing
<1>6. AttemptsLeft /\ FailedHasDeadLetter /\ CopiesAccounted /\ PublishedAsWritten
  BY DEF AttemptsLeft, FailedHasDeadLetter, CopiesAccounted, PublishedAsWritten
<1> QED
  BY <1>1, <1>3, <1>4, <1>5, <1>6 DEF IInv

-----------------------------------------------------------------------------
(* A step that keeps the links, creates no row, loses nothing that is out    *)
(* and takes nothing more into the worker's hands keeps the shape of the     *)
(* threads, the creation's place in its thread and the readiness of what the *)
(* worker holds.                                                             *)
LEMMA Frame ==
  ASSUME TypeOK, Shape, ReqInv, ReadyInv,
         parent' = parent, root' = root, pos' = pos,
         \A p \in Post : Exists(p)' => Exists(p),
         \A p \in Post : status[p] # "absent" => status'[p] # "absent",
         \A p \in Post : Out(p) => Out(p)',
         \A p \in Post : Active(p)' => Active(p),
         req' = req \/ ReqInv'
  PROVE  Shape' /\ ReqInv' /\ ReadyInv'
<1> USE DEF TypeOK, RowsTypeOK
<1>1. RootsOK'
  BY DEF Shape, RootsOK
<1>2. ParentsOK'
  BY DEF Shape, ParentsOK
<1>3. PositionsOK'
  BY DEF Shape, PositionsOK
<1>4. ReqInv'
  <2>1. CASE req' = req
    BY <2>1 DEF ReqInv, Request
  <2> QED
    BY <2>1
<1>5. ReadyInv'
  <2> SUFFICES ASSUME NEW p \in Post, Active(p)' PROVE Ready(p)'
    BY DEF ReadyInv
  <2>1. Ready(p)
    BY DEF ReadyInv
  <2>2. Exists(p)
    BY DEF Active
  <2>3. (parent[p] # NoPost => Out(parent[p]) /\ Out(root[p]))'
    BY <2>1 DEF Ready
  <2>4. ASSUME NEW q \in Post, Exists(q)', root'[q] = root'[p], pos'[q] < pos'[p]
        PROVE  Out(q)'
    BY <2>1, <2>4 DEF Ready
  <2> QED
    BY <2>3, <2>4 DEF Ready
<1> QED
  BY <1>1, <1>2, <1>3, <1>4, <1>5 DEF Shape
(* A step that leaves every row alone keeps what is said of the rows. *)
LEMMA RowsFrame ==
  ASSUME IInv, UNCHANGED rows, picked' \subseteq picked,
         req' = req \/ req'.phase # "insert"
  PROVE  /\ RowsTypeOK' /\ Shape' /\ ReqInv' /\ ReadyInv' /\ ExtPublished'
         /\ AttemptsLeft' /\ FailedHasDeadLetter'
<1> USE DEF rows
<1>1. RowsTypeOK' /\ ExtPublished' /\ AttemptsLeft' /\ FailedHasDeadLetter'
  BY DEF IInv, TypeOK, RowsTypeOK, ExtPublished, AttemptsLeft, FailedHasDeadLetter
<1>2. Shape' /\ ReqInv' /\ ReadyInv'
  <2>1. \A p \in Post : Exists(p)' => Exists(p)
    BY DEF Exists
  <2>2. \A p \in Post : Out(p) => Out(p)'
    BY DEF Out
  <2>3. \A p \in Post : Active(p)' => Active(p)
    BY DEF Active, Exists
  <2>4. req' = req \/ ReqInv'
    BY DEF ReqInv
  <2> QED
    BY <2>1, <2>2, <2>3, <2>4, Frame DEF IInv
<1> QED
  BY <1>1, <1>2

-----------------------------------------------------------------------------
(* The goroutine drops its memory: ends of ticks, errors, panics, crashes. *)
LEMMA ForgetStep ==
  ASSUME IInv, Forget, UNCHANGED <<rows, aged, sent, said>>,
         LoseAnswer,
         faults' \in Nat, ops' \in Nat, req' \in Request,
         req' = req \/ req'.phase # "insert"
  PROVE  IInv'
<1> USE DEF Forget, IInv
<1>1. /\ RowsTypeOK' /\ Shape' /\ ReqInv' /\ ReadyInv' /\ ExtPublished'
      /\ AttemptsLeft' /\ FailedHasDeadLetter'
  BY RowsFrame
<1>0. sent \in [Post -> Nat] /\ lost \in [Post -> Nat]
  BY DEF TypeOK, CycleTypeOK
<1>6. lost' \in [Post -> Nat]
  BY <1>0 DEF LoseAnswer
<1>2. CycleTypeOK'
  <2>1. snap' \in [Post -> Snapshot]
    BY DEF Snapshot, Blank
  <2>2. pc' \in PC
    BY DEF PC
  <2> QED
    BY <1>0, <1>6, <2>1, <2>2 DEF TypeOK, CycleTypeOK
<1>3. WorkInv'
  BY DEF WorkInv, Processing, rows
<1>4. CopiesAccounted'
  <2> SUFFICES ASSUME NEW p \in Post
               PROVE  sent'[p] = lost'[p] + (IF status'[p] = "published" THEN 1 ELSE 0)
    BY <1>0, <1>6 DEF CopiesAccounted
  <2>1. sent \in [Post -> Nat] /\ lost \in [Post -> Nat]
    BY <1>0
  <2>2. sent[p] = lost[p] + (IF status[p] = "published" THEN 1 ELSE 0)
                          + (IF pc = "mark" /\ cur = p THEN 1 ELSE 0)
    BY DEF CopiesAccounted
  <2>3. CASE pc = "mark" /\ cur = p
    BY <2>1, <2>2, <2>3 DEF rows, LoseAnswer
  <2>4. CASE ~(pc = "mark" /\ cur = p)
    BY <2>1, <2>2, <2>4 DEF rows, LoseAnswer
  <2> QED
    BY <2>3, <2>4
<1>5. PublishedAsWritten'
  BY DEF PublishedAsWritten, rows
<1> QED
  BY <1>1, <1>2, <1>3, <1>4, <1>5 DEF TypeOK

(* Control steps of the goroutine that write neither rows nor history. *)
LEMMA ControlStep ==
  ASSUME IInv, UNCHANGED <<rows, aged, history, req, ops>>,
         \/ RecoverError \/ LoadClaimed \/ ClaimDone \/ NotSent \/ PublishError
         \/ \E p \in Post : Begin(p)
  PROVE  IInv'
<1> USE DEF IInv, history
<1>1. picked' \subseteq picked
  BY DEF RecoverError, LoadClaimed, ClaimDone, NotSent, PublishError, Begin
<1>2. /\ RowsTypeOK' /\ Shape' /\ ReqInv' /\ ReadyInv' /\ ExtPublished'
      /\ AttemptsLeft' /\ FailedHasDeadLetter'
  BY <1>1, RowsFrame
<1>3. PublishedAsWritten'
  BY DEF PublishedAsWritten, rows
<1>4. pc # "mark" /\ pc' # "mark"
  BY DEF RecoverError, LoadClaimed, ClaimDone, NotSent, PublishError, Begin
<1>5. CopiesAccounted'
  BY <1>4 DEF CopiesAccounted, rows
<1> USE DEF TypeOK, CycleTypeOK, RowsTypeOK, WorkInv, Processing, PC
<1>6. CASE RecoverError
  BY <1>2, <1>3, <1>5, <1>6 DEF RecoverError, Fault, rows, Load
<1>7. CASE LoadClaimed
  <2>1. Load(cur) \in Snapshot
    BY <1>7 DEF LoadClaimed, Load, Snapshot
  <2>2. cur \in Post
    BY <1>7 DEF LoadClaimed
  <2> QED
    BY <1>2, <1>3, <1>5, <1>7, <2>1, <2>2 DEF LoadClaimed, rows, Load
<1>8. CASE ClaimDone
  BY <1>2, <1>3, <1>5, <1>8 DEF ClaimDone, rows, Load
<1>9. CASE NotSent
  BY <1>2, <1>3, <1>5, <1>9 DEF NotSent, rows, Load
<1>10. CASE PublishError
  BY <1>2, <1>3, <1>5, <1>10 DEF PublishError, rows, Load
<1>11. ASSUME NEW p \in Post, Begin(p) PROVE IInv'
  BY <1>2, <1>3, <1>5, <1>11 DEF Begin, rows, Load
<1> QED
  BY <1>6, <1>7, <1>8, <1>9, <1>10, <1>11

-----------------------------------------------------------------------------
(* A request writes its rows.  It leaves the rows the worker holds and the   *)
(* published ones alone, so nothing said of the worker is disturbed.         *)
LEMMA RowStep ==
  ASSUME IInv, UNCHANGED cycle, UNCHANGED links, TypeOK',
         AttemptsLeft', FailedHasDeadLetter',
         \A p \in Post : Exists(p)' => Exists(p),
         \A p \in Post : status[p] # "absent" => status'[p] # "absent",
         \A p \in Post : status[p] \in {"publishing", "published"} =>
           status'[p] = status[p] /\ text'[p] = text[p],
         \A p \in Post : status'[p] \in {"publishing", "published"} =>
           status'[p] = status[p],
         ext' \subseteq ext,
         \A p \in ext : status[p] = "published" => p \in ext',
         req' = req \/ ReqInv'
  PROVE  IInv'
<1> USE DEF IInv, cycle, links
<1>1. Shape' /\ ReqInv' /\ ReadyInv'
  <2>1. \A p \in Post : Out(p) => Out(p)'
    BY DEF Out
  <2>2. \A p \in Post : Active(p)' => Active(p)
    BY DEF Active
  <2> QED
    BY <2>1, <2>2, Frame
<1>2. ExtPublished'
  BY DEF ExtPublished, TypeOK, RowsTypeOK
<1>3. WorkInv'
  <2>1. batch \subseteq Post /\ snap \in [Post -> Snapshot]
    BY DEF TypeOK, CycleTypeOK
  <2>2. \A p \in batch : (status[p] = "publishing" /\ snap[p] = Load(p))'
    BY <2>1 DEF WorkInv, Load
  <2>3. aged \subseteq {p \in Post : status[p] = "publishing"}'
    BY DEF WorkInv
  <2>4. \A p \in picked' : status'[p] # "absent"
    BY DEF WorkInv, TypeOK, CycleTypeOK
  <2> QED
    BY <2>1, <2>2, <2>3, <2>4 DEF WorkInv
<1>4. CopiesAccounted'
  <2>1. \A p \in Post : status'[p] = "published" <=> status[p] = "published"
    OBVIOUS
  <2> QED
    BY <2>1 DEF CopiesAccounted
<1>5. PublishedAsWritten'
  BY DEF PublishedAsWritten
<1> QED
  BY <1>1, <1>2, <1>3, <1>4, <1>5

LEMMA BeginCreateStep ==
  ASSUME IInv, BeginCreate PROVE IInv'
<1> USE DEF IInv, BeginCreate, rows, cycle, links
<1>1. TypeOK'
  <2>1. PICK n \in 1..MaxSteps, st \in {"draft", "scheduled"},
             sl \in {"later", "due"}, hold \in BOOLEAN :
          /\ Plan(st, sl)
          /\ req' = NewRequest(n, st, sl, hold)
    OBVIOUS
  <2>2. req' \in Request
    <3>1. req' = [phase |-> "insert", left |-> n, root |-> NoPost, last |-> NoPost,
                  at |-> 1, made |-> {}, st |-> st, sl |-> sl, hold |-> hold]
      BY <2>1 DEF NewRequest, NoRequest
    <3>2. n \in Nat /\ {} \in SUBSET Post
      OBVIOUS
    <3> QED
      BY <3>1, <3>2 DEF Request
  <2>3. ops' \in Nat
    BY DEF Op, TypeOK
  <2>4. RowsTypeOK' /\ CycleTypeOK'
    BY DEF TypeOK, RowsTypeOK, CycleTypeOK
  <2> QED
    BY <2>2, <2>3, <2>4 DEF TypeOK
<1>2. ReqInv'
  BY DEF ReqInv, NewRequest, NoRequest
<1>3. AttemptsLeft' /\ FailedHasDeadLetter'
  BY DEF AttemptsLeft, FailedHasDeadLetter
<1> QED
  BY <1>1, <1>2, <1>3, RowStep DEF Exists, ExtPublished

LEMMA InsertErrorStep ==
  ASSUME IInv, InsertError PROVE IInv'
<1> USE DEF IInv, InsertError, rows, cycle, links
<1>1. req' \in Request /\ req'.phase # "insert"
  BY DEF TypeOK, Request, NoRequest
<1>2. TypeOK'
  BY <1>1 DEF TypeOK, RowsTypeOK, CycleTypeOK
<1>3. ReqInv'
  BY <1>1 DEF ReqInv
<1>4. AttemptsLeft' /\ FailedHasDeadLetter'
  BY DEF AttemptsLeft, FailedHasDeadLetter
<1> QED
  BY <1>2, <1>3, <1>4, RowStep DEF Exists, ExtPublished

(* Deleting editable rows. *)
LEMMA EraseStep ==
  ASSUME IInv, UNCHANGED cycle, NEW S \in SUBSET Post, EraseRows(S),
         \A p \in S : status[p] \in Editable,
         ops' \in Nat, req' \in Request, req' = req \/ ReqInv'
  PROVE  IInv'
<1> USE DEF IInv, EraseRows, Put, links, Editable
<1>1. TypeOK'
  BY DEF TypeOK, RowsTypeOK, CycleTypeOK, cycle, Status, Reason
<1>2. AttemptsLeft' /\ FailedHasDeadLetter'
  BY DEF AttemptsLeft, FailedHasDeadLetter, Status
<1>3. \A p \in Post : p \in S => status'[p] = "gone"
  OBVIOUS
<1>4. \A p \in Post : p \notin S => status'[p] = status[p]
  OBVIOUS
<1> QED
  BY <1>1, <1>2, <1>3, <1>4, RowStep DEF Exists, ExtPublished

LEMMA RollbackStep ==
  ASSUME IInv, NEW p \in Post, Rollback(p) PROVE IInv'
<1> USE DEF Rollback
<1>1. req' \in Request /\ req'.phase # "insert"
  BY DEF IInv, TypeOK, Request, NoRequest
<1>2. ReqInv'
  BY <1>1 DEF ReqInv
<1>3. ops' \in Nat
  BY DEF IInv, TypeOK
<1>4. CASE DeleteRows(p)
  BY <1>1, <1>2, <1>3, <1>4, EraseStep DEF DeleteRows, Deletable, ThreadOf
<1>5. CASE UNCHANGED rows
  <2> USE DEF rows, cycle, links
  <2>1. TypeOK'
    BY <1>1, <1>3, <1>5 DEF IInv, TypeOK, RowsTypeOK, CycleTypeOK
  <2>2. AttemptsLeft' /\ FailedHasDeadLetter'
    BY <1>5 DEF IInv, AttemptsLeft, FailedHasDeadLetter
  <2> QED
    BY <1>2, <1>5, <2>1, <2>2, RowStep DEF Exists, IInv, ExtPublished
<1> QED
  BY <1>4, <1>5

LEMMA DeleteStep ==
  ASSUME IInv, NEW p \in Post, Delete(p) \/ Discard(p) PROVE IInv'
<1>1. UNCHANGED cycle /\ req' = req /\ ops' \in Nat /\ req' \in Request
  BY DEF Delete, Discard, Op, IInv, TypeOK
<1>2. CASE Delete(p)
  BY <1>1, <1>2, EraseStep DEF Delete, DeleteRows, Deletable, ThreadOf
<1>3. CASE Discard(p)
  BY <1>1, <1>3, EraseStep DEF Discard, DiscardRow, Editable
<1> QED
  BY <1>2, <1>3

(* Scheduling, cancelling, editing one row, requeueing and reviewing. *)
LEMMA TouchStep ==
  ASSUME IInv, NEW p \in Post,
         Schedule(p) \/ Cancel(p) \/ EditOne(p) \/ Requeue(p) \/ Review(p)
  PROVE  IInv'
<1> USE DEF IInv, links, Editable
<1>1. UNCHANGED cycle /\ req' = req /\ ops' \in Nat /\ req' \in Request
  BY DEF Schedule, Cancel, EditOne, Requeue, Review, Op, TypeOK
<1> USE DEF TypeOK, RowsTypeOK
<1>2. CycleTypeOK'
  BY <1>1 DEF CycleTypeOK, cycle
<1>3. CASE Schedule(p)
  <2>1. PICK sl \in {"later", "due"} : ScheduleRows(p, sl)
    BY <1>3 DEF Schedule
  <2>2. TypeOK'
    BY <1>1, <1>2, <2>1 DEF ScheduleRows, Put, Status
  <2>3. AttemptsLeft' /\ FailedHasDeadLetter'
    BY <2>1 DEF ScheduleRows, Put, AttemptsLeft, FailedHasDeadLetter, Status
  <2> QED
    BY <1>1, <2>1, <2>2, <2>3, RowStep DEF ScheduleRows, Put, ThreadOf, Exists, ExtPublished
<1>4. CASE Cancel(p)
  <2>1. CancelRows(p)
    BY <1>4 DEF Cancel
  <2>2. TypeOK'
    BY <1>1, <1>2, <2>1 DEF CancelRows, Put, Status
  <2>3. AttemptsLeft' /\ FailedHasDeadLetter'
    BY <2>1 DEF CancelRows, Put, AttemptsLeft, FailedHasDeadLetter, Status
  <2> QED
    BY <1>1, <2>1, <2>2, <2>3, RowStep DEF CancelRows, Put, ThreadOf, Exists, ExtPublished
<1>5. CASE EditOne(p)
  <2>1. PICK st \in {"draft", "scheduled"}, sl \in {"later", "due"} : EditRow(p, st, sl)
    BY <1>5 DEF EditOne
  <2>2. TypeOK'
    BY <1>1, <1>2, <2>1 DEF EditRow, Status
  <2>3. AttemptsLeft' /\ FailedHasDeadLetter'
    BY <2>1 DEF EditRow, AttemptsLeft, FailedHasDeadLetter, Status
  <2> QED
    BY <1>1, <2>1, <2>2, <2>3, RowStep DEF EditRow, Exists, ExtPublished
<1>6. CASE Requeue(p)
  <2>1. RequeueRow(p)
    BY <1>6 DEF Requeue
  <2>2. TypeOK'
    BY <1>1, <1>2, <2>1 DEF RequeueRow, Status, Reason
  <2>3. AttemptsLeft' /\ FailedHasDeadLetter'
    BY <2>1 DEF RequeueRow, AttemptsLeft, FailedHasDeadLetter, Status
  <2> QED
    BY <1>1, <2>1, <2>2, <2>3, RowStep DEF RequeueRow, Exists, ExtPublished
<1>7. CASE Review(p)
  <2>1. ReviewRow(p)
    BY <1>7 DEF Review
  <2>2. TypeOK'
    BY <1>1, <1>2, <2>1 DEF ReviewRow
  <2>3. AttemptsLeft' /\ FailedHasDeadLetter'
    BY <2>1 DEF ReviewRow, AttemptsLeft, FailedHasDeadLetter
  <2> QED
    BY <1>1, <2>1, <2>2, <2>3, RowStep DEF ReviewRow, Exists, ExtPublished
<1> QED
  BY <1>3, <1>4, <1>5, <1>6, <1>7

(* The clock. *)
LEMMA ClockSteps ==
  ASSUME IInv, NEW p \in Post, UNCHANGED <<req, ops>>,
         Age(p) \/ ((SlotComes(p) \/ RetryComes(p)) /\ UNCHANGED cycle)
  PROVE  IInv'
<1> USE DEF IInv, links, TypeOK, RowsTypeOK
<1>1. CASE Age(p)
  <2> USE <1>1 DEF Age, history, worker, rows
  <2>1. /\ RowsTypeOK' /\ Shape' /\ ReqInv' /\ ReadyInv' /\ ExtPublished'
        /\ AttemptsLeft' /\ FailedHasDeadLetter'
    BY RowsFrame
  <2>2. CycleTypeOK' /\ WorkInv'
    BY DEF CycleTypeOK, WorkInv, Load
  <2>3. CopiesAccounted' /\ PublishedAsWritten'
    BY DEF CopiesAccounted, PublishedAsWritten
  <2> QED
    BY <2>1, <2>2, <2>3
<1>2. CASE (SlotComes(p) \/ RetryComes(p)) /\ UNCHANGED cycle
  <2>1. CycleTypeOK'
    BY <1>2 DEF CycleTypeOK, cycle
  <2>2. TypeOK'
    BY <1>2, <2>1 DEF SlotComes, RetryComes
  <2>3. AttemptsLeft' /\ FailedHasDeadLetter'
    BY <1>2 DEF SlotComes, RetryComes, AttemptsLeft, FailedHasDeadLetter
  <2> QED
    BY <1>2, <2>2, <2>3, RowStep DEF SlotComes, RetryComes, Exists, ExtPublished
<1> QED
  BY <1>1, <1>2

-----------------------------------------------------------------------------
(* The worker's steps that write rows. *)

(* Claiming: the row was ready when it was selected and still is. *)
LEMMA ClaimStep ==
  ASSUME IInv, NEW p \in Post, Claim(p), UNCHANGED <<req, ops>> PROVE IInv'
<1> USE DEF Claim, IInv, links, history
<1>1. CASE status[p] = "scheduled"
  <2> USE <1>1 DEF ClaimRow
  <2>1. TypeOK'
    BY DEF TypeOK, RowsTypeOK, CycleTypeOK, PC, Status
  <2>2. Shape' /\ ReqInv' /\ ReadyInv'
    <3>1. \A q \in Post : (Exists(q)' <=> Exists(q)) /\ (Out(q) => Out(q)')
      BY DEF TypeOK, RowsTypeOK, Exists, Out
    <3>2. \A q \in Post : Active(q)' => Active(q)
      BY DEF TypeOK, RowsTypeOK, Active, Exists
    <3>3. \A q \in Post : status[q] # "absent" => status'[q] # "absent"
      BY DEF TypeOK, RowsTypeOK
    <3> QED
      BY <3>1, <3>2, <3>3, Frame
  <2>3. ExtPublished' /\ AttemptsLeft' /\ FailedHasDeadLetter'
    BY DEF ExtPublished, AttemptsLeft, FailedHasDeadLetter, TypeOK, RowsTypeOK, Status
  <2>4. WorkInv'
    <3>1. p \notin batch /\ batch \subseteq Post /\ aged \subseteq Post
      BY DEF WorkInv, TypeOK, CycleTypeOK
    <3>2. \A q \in batch : (status[q] = "publishing" /\ snap[q] = Load(q))'
      BY <3>1 DEF WorkInv, Load, TypeOK, RowsTypeOK
    <3>3. aged' \subseteq {q \in Post : status[q] = "publishing"}'
      BY <3>1 DEF WorkInv, TypeOK, RowsTypeOK
    <3>4. status'[p] = "publishing"
      BY DEF TypeOK, RowsTypeOK
    <3>5. \A q \in picked' : status'[q] # "absent"
      BY DEF WorkInv, TypeOK, RowsTypeOK, CycleTypeOK
    <3> QED
      BY <3>1, <3>2, <3>3, <3>4, <3>5 DEF WorkInv, Processing
  <2>5. CopiesAccounted' /\ PublishedAsWritten'
    BY DEF CopiesAccounted, PublishedAsWritten, TypeOK, RowsTypeOK
  <2> QED
    BY <2>1, <2>2, <2>3, <2>4, <2>5
<1>2. CASE status[p] # "scheduled"
  <2> USE <1>2
  <2>1. UNCHANGED rows /\ UNCHANGED <<pc, cur>>
    OBVIOUS
  <2>2. /\ RowsTypeOK' /\ Shape' /\ ReqInv' /\ ReadyInv' /\ ExtPublished'
        /\ AttemptsLeft' /\ FailedHasDeadLetter'
    BY <2>1, RowsFrame
  <2>3. CycleTypeOK' /\ WorkInv'
    BY <2>1 DEF TypeOK, CycleTypeOK, WorkInv, Processing, Load, rows
  <2>4. CopiesAccounted' /\ PublishedAsWritten'
    BY <2>1 DEF CopiesAccounted, PublishedAsWritten, rows
  <2> QED
    BY <2>1, <2>2, <2>3, <2>4 DEF TypeOK
<1> QED
  BY <1>1, <1>2

(* Selecting: a claimable row is ready, because the chain of parents is the  *)
(* thread and its last link is published. *)
LEMMA SelectStep ==
  ASSUME IInv, Select, UNCHANGED <<req, ops>> PROVE IInv'
<1> USE DEF Select, IInv, links, history, rows
<1>1. PICK S \in SUBSET {p \in Post : Claimable(p)} : picked' = S
  OBVIOUS
<1>2. \A p \in S : Ready(p)
  <2> SUFFICES ASSUME NEW p \in S PROVE Ready(p)
    OBVIOUS
  <2>1. p \in Post /\ Exists(p) /\ ParentReady(p)
    BY <1>1 DEF Claimable, Exists
  <2>2. CASE parent[p] = NoPost
    <3>1. pos[p] = 1
      BY <2>1, <2>2 DEF Shape, ParentsOK
    <3> QED
      BY <2>2, <3>1 DEF Ready, TypeOK, RowsTypeOK
  <2>3. CASE parent[p] # NoPost
    <3> DEFINE q == parent[p]
    <3>1. q \in Post /\ Out(q) /\ Exists(q)
      BY <2>1, <2>3 DEF ParentReady, Out, Exists, TypeOK, RowsTypeOK
    <3>2. root[q] = root[p] /\ pos[p] = pos[q] + 1
      BY <2>1, <2>3, <3>1 DEF Shape, ParentsOK
    <3>3. Ready(q)
      BY <3>1 DEF ReadyInv, Active, Out
    <3>4. Out(root[p])
      <4>1. CASE parent[q] = NoPost
        BY <4>1, <3>1, <3>2 DEF Shape, ParentsOK
      <4>2. CASE parent[q] # NoPost
        BY <4>2, <3>2, <3>3 DEF Ready
      <4> QED
        BY <4>1, <4>2
    <3>5. ASSUME NEW r \in Post, Exists(r), root[r] = root[p], pos[r] < pos[p]
          PROVE  Out(r)
      <4>1. pos[r] \in Nat /\ pos[q] \in Nat /\ pos[p] \in Nat
        BY <2>1, <3>1 DEF TypeOK, RowsTypeOK
      <4>2. CASE pos[r] < pos[q]
        BY <4>2, <3>2, <3>3, <3>5 DEF Ready
      <4>3. CASE pos[r] = pos[q]
        BY <4>3, <3>1, <3>2, <3>5 DEF Shape, PositionsOK
      <4> QED
        BY <4>1, <4>2, <4>3, <3>2, <3>5
    <3> QED
      BY <3>1, <3>4, <3>5 DEF Ready
  <2> QED
    BY <2>2, <2>3
<1>3. TypeOK'
  BY <1>1 DEF TypeOK, RowsTypeOK, CycleTypeOK, PC
<1>4. Shape' /\ ReqInv'
  BY DEF Shape, RootsOK, ParentsOK, PositionsOK, ReqInv, Exists
<1>5. ReadyInv'
  <2> SUFFICES ASSUME NEW p \in Post, Active(p)' PROVE Ready(p)'
    BY DEF ReadyInv
  <2>1. Ready(p)
    BY <1>1, <1>2 DEF ReadyInv, Active, Exists
  <2> QED
    BY <2>1 DEF Ready, Out, Exists
<1>6. ExtPublished' /\ AttemptsLeft' /\ FailedHasDeadLetter'
  BY DEF ExtPublished, AttemptsLeft, FailedHasDeadLetter
<1>7. WorkInv'
  <2>1. \A p \in picked' : status'[p] # "absent"
    BY <1>1 DEF Claimable
  <2> QED
    BY <2>1 DEF WorkInv, Processing, Load
<1>8. CopiesAccounted' /\ PublishedAsWritten'
  BY DEF CopiesAccounted, PublishedAsWritten
<1> QED
  BY <1>3, <1>4, <1>5, <1>6, <1>7, <1>8

(* The network call. *)
LEMMA SendStep ==
  ASSUME IInv, PublishOk \/ AnswerLost, UNCHANGED <<req, ops>> PROVE IInv'
<1> USE DEF IInv, Send
<1>1. UNCHANGED rows /\ UNCHANGED <<picked, batch, cur, snap, aged>>
  BY DEF PublishOk, AnswerLost
<1>2. /\ pc \in Processing /\ pc # "mark"
      /\ pc' \in {"publish", "mark", "fail", "defer", "republish"}
  BY DEF PublishOk, AnswerLost, Processing
<1>3. cur \in Post /\ cur \in batch /\ status[cur] = "publishing"
  BY <1>2 DEF WorkInv, TypeOK, CycleTypeOK
<1>4. /\ sent \in [Post -> Nat] /\ lost \in [Post -> Nat] /\ said \in [Post -> Nat]
      /\ snap[cur].text \in Nat
  BY <1>3 DEF TypeOK, CycleTypeOK, Snapshot
<1>5. /\ sent' = [sent EXCEPT ![cur] = @ + 1]
      /\ said' = [said EXCEPT ![cur] = snap[cur].text]
  BY DEF PublishOk, AnswerLost
<1>6. \/ pc' = "mark" /\ lost' = lost
      \/ pc' # "mark" /\ lost' = [lost EXCEPT ![cur] = @ + 1]
  BY DEF PublishOk, AnswerLost
<1>7. faults' \in Nat
  BY DEF PublishOk, AnswerLost, Fault, TypeOK, CycleTypeOK
<1>8. /\ RowsTypeOK' /\ Shape' /\ ReqInv' /\ ReadyInv' /\ ExtPublished'
      /\ AttemptsLeft' /\ FailedHasDeadLetter'
  BY <1>1, RowsFrame
<1>9. CycleTypeOK'
  <2>1. sent' \in [Post -> Nat] /\ said' \in [Post -> Nat]
    BY <1>3, <1>4, <1>5
  <2>2. lost' \in [Post -> Nat]
    BY <1>3, <1>4, <1>6
  <2>3. pc' \in PC
    BY <1>2 DEF PC
  <2> QED
    BY <1>1, <1>7, <2>1, <2>2, <2>3 DEF TypeOK, CycleTypeOK
<1>10. WorkInv'
  BY <1>1, <1>2, <1>3, <1>4, <1>5 DEF WorkInv, Processing, rows, Load
<1>11. CopiesAccounted'
  <2> SUFFICES ASSUME NEW p \in Post
      PROVE sent'[p] = lost'[p] + (IF status'[p] = "published" THEN 1 ELSE 0)
                                + (IF pc' = "mark" /\ cur' = p THEN 1 ELSE 0)
    BY DEF CopiesAccounted
  <2>1. sent[p] = lost[p] + (IF status[p] = "published" THEN 1 ELSE 0)
    BY <1>2, <1>4 DEF CopiesAccounted
  <2>2. CASE p = cur
    BY <1>1, <1>3, <1>4, <1>5, <1>6, <2>1, <2>2 DEF rows
  <2>3. CASE p # cur
    BY <1>1, <1>3, <1>4, <1>5, <1>6, <2>1, <2>3 DEF rows
  <2> QED
    BY <2>2, <2>3
<1>12. PublishedAsWritten'
  BY <1>1, <1>3, <1>4, <1>5 DEF PublishedAsWritten, rows
<1> QED
  BY <1>1, <1>8, <1>9, <1>10, <1>11, <1>12 DEF TypeOK

-----------------------------------------------------------------------------
(* The outcome of the post in hand.  It is in the batch, so its row is in    *)
(* 'publishing' and no other post of the batch is touched.                   *)
LEMMA NextPostWork ==
  ASSUME TypeOK, WorkInv, NextPost, pc \in Processing, UNCHANGED links,
         \A q \in batch : q # cur => status'[q] = status[q] /\ text'[q] = text[q],
         aged' \subseteq {q \in Post : status[q] = "publishing"}'
  PROVE  /\ WorkInv'
         /\ cur \in Post /\ status[cur] = "publishing"
         /\ batch' \in SUBSET Post /\ snap' \in [Post -> Snapshot]
         /\ cur' = NoPost /\ pc' = "next" /\ picked' = picked
<1> USE DEF NextPost, links
<1>1. cur \in batch /\ batch \subseteq Post /\ picked = {}
  BY DEF WorkInv, TypeOK, CycleTypeOK, Processing
<1>2. cur \in Post /\ status[cur] = "publishing"
  BY <1>1 DEF WorkInv
<1>3. snap \in [Post -> Snapshot] /\ Blank(cur) \in Snapshot
  BY <1>2 DEF TypeOK, CycleTypeOK, Blank, Snapshot
<1>4. \A q \in batch' : (status[q] = "publishing" /\ snap[q] = Load(q))'
  BY <1>1, <1>2, <1>3 DEF WorkInv, Load
<1> QED
  BY <1>1, <1>2, <1>3, <1>4 DEF WorkInv, Processing

LEMMA MarkStep ==
  ASSUME IInv, Mark, UNCHANGED <<req, ops>> PROVE IInv'
<1> USE DEF Mark, IInv, MarkPublished, links, history
<1>1. pc = "mark" /\ pc \in Processing
  BY DEF Processing
<1>2. cur \in batch /\ cur \in Post /\ status[cur] = "publishing" /\ said[cur] = snap[cur].text
  BY <1>1 DEF WorkInv, TypeOK, CycleTypeOK
<1>3. /\ status' = [status EXCEPT ![cur] = "published"]
      /\ ext' = ext \cup {cur} \/ ext' = ext \ {cur}
  OBVIOUS
<1>4. aged' \subseteq {q \in Post : status[q] = "publishing"}'
  BY <1>2, <1>3 DEF WorkInv, TypeOK, RowsTypeOK
<1>5. /\ WorkInv'
      /\ batch' \in SUBSET Post /\ snap' \in [Post -> Snapshot]
      /\ cur' = NoPost /\ pc' = "next" /\ picked' = picked
  BY <1>1, <1>2, <1>3, <1>4, NextPostWork DEF TypeOK, RowsTypeOK, CycleTypeOK
<1>6. TypeOK'
  <2>1. RowsTypeOK'
    BY <1>2, <1>3 DEF TypeOK, RowsTypeOK, Status
  <2> QED
    BY <1>5, <2>1 DEF TypeOK, CycleTypeOK, PC
<1>7. Shape' /\ ReqInv' /\ ReadyInv'
  <2>1. \A q \in Post : (Exists(q)' <=> Exists(q)) /\ (Out(q) => Out(q)')
    BY <1>2, <1>3 DEF TypeOK, RowsTypeOK, Exists, Out
  <2>2. \A q \in Post : Active(q)' => Active(q)
    BY <1>2, <1>3, <1>5 DEF TypeOK, RowsTypeOK, Active, Exists
  <2>3. \A q \in Post : status[q] # "absent" => status'[q] # "absent"
    BY <1>2, <1>3 DEF TypeOK, RowsTypeOK
  <2> QED
    BY <2>1, <2>2, <2>3, Frame
<1>8. ExtPublished' /\ AttemptsLeft' /\ FailedHasDeadLetter'
  BY <1>2, <1>3 DEF ExtPublished, AttemptsLeft, FailedHasDeadLetter, TypeOK, RowsTypeOK, Status
<1>9. CopiesAccounted'
  <2>3. sent' \in [Post -> Nat] /\ lost' \in [Post -> Nat] /\ pc' # "mark"
    BY <1>5, <1>6 DEF TypeOK, CycleTypeOK
  <2> SUFFICES ASSUME NEW p \in Post
      PROVE sent'[p] = lost'[p] + (IF status'[p] = "published" THEN 1 ELSE 0)
    BY <2>3 DEF CopiesAccounted
  <2>1. sent[p] \in Nat /\ lost[p] \in Nat
    BY DEF TypeOK, CycleTypeOK
  <2>2. CASE p = cur
    BY <1>1, <1>2, <1>3, <2>1, <2>2 DEF CopiesAccounted, TypeOK, RowsTypeOK
  <2>4. CASE p # cur
    BY <1>1, <1>2, <1>3, <2>1, <2>4 DEF CopiesAccounted, TypeOK, RowsTypeOK
  <2> QED
    BY <2>2, <2>4
<1>10. PublishedAsWritten'
  <2>1. said[cur] = text[cur]
    <3>1. snap[cur] = Load(cur)
      BY <1>2 DEF WorkInv
    <3> QED
      BY <1>2, <3>1 DEF Load
  <2>2. sent[cur] > 0
    BY <1>1, <1>2 DEF CopiesAccounted, TypeOK, CycleTypeOK
  <2> QED
    BY <1>2, <1>3, <2>1, <2>2 DEF PublishedAsWritten, TypeOK, RowsTypeOK
<1> QED
  BY <1>5, <1>6, <1>7, <1>8, <1>9, <1>10

(* Putting the post in hand back in the queue. *)
LEMMA BackToQueue ==
  ASSUME IInv, pc \in Processing, pc # "mark", NextPost,
         UNCHANGED <<req, ops, history, faults, links, text, ext, slot, dead, review>>,
         status' = [status EXCEPT ![cur] = "scheduled"],
         retry' \in [Post -> {"null", "wait", "due"}],
         attempts' \in [Post -> 0..MaxAttempts],
         \A p \in Post : attempts'[p] = attempts[p] \/ attempts'[p] < MaxAttempts,
         aged' = aged \ {cur}
  PROVE  IInv'
<1> USE DEF IInv, links, history
<1>1. cur \in batch /\ cur \in Post /\ status[cur] = "publishing"
  BY DEF WorkInv, TypeOK, CycleTypeOK
<1>2. aged' \subseteq {q \in Post : status[q] = "publishing"}'
  BY <1>1 DEF WorkInv, TypeOK, RowsTypeOK
<1>3. /\ WorkInv'
      /\ batch' \in SUBSET Post /\ snap' \in [Post -> Snapshot]
      /\ cur' = NoPost /\ pc' = "next" /\ picked' = picked
  BY <1>1, <1>2, NextPostWork DEF TypeOK, RowsTypeOK, CycleTypeOK
<1>4. TypeOK'
  <2>1. RowsTypeOK'
    BY <1>1 DEF TypeOK, RowsTypeOK, Status
  <2> QED
    BY <1>3, <2>1 DEF TypeOK, CycleTypeOK, PC
<1>5. Shape' /\ ReqInv' /\ ReadyInv'
  <2>1. \A q \in Post : (Exists(q)' <=> Exists(q)) /\ (Out(q) => Out(q)')
    BY <1>1 DEF TypeOK, RowsTypeOK, Exists, Out
  <2>2. \A q \in Post : Active(q)' => Active(q)
    BY <1>1, <1>3 DEF TypeOK, RowsTypeOK, Active, Exists
  <2>3. \A q \in Post : status[q] # "absent" => status'[q] # "absent"
    BY <1>1 DEF TypeOK, RowsTypeOK
  <2> QED
    BY <2>1, <2>2, <2>3, Frame
<1>6. ExtPublished' /\ FailedHasDeadLetter'
  BY <1>1 DEF ExtPublished, FailedHasDeadLetter, TypeOK, RowsTypeOK
<1>7. \A q \in Post : (status[q] = "published") <=> (status'[q] = "published")
  BY <1>1 DEF TypeOK, RowsTypeOK
<1>8. CopiesAccounted' /\ PublishedAsWritten'
  BY <1>3, <1>7 DEF CopiesAccounted, PublishedAsWritten
<1>9. AttemptsLeft'
  BY <1>1 DEF AttemptsLeft, TypeOK, RowsTypeOK, Status
<1> QED
  BY <1>3, <1>4, <1>5, <1>6, <1>8, <1>9

(* A step that giving up knocks out is never one that is being published: it *)
(* would have needed the post in hand to be published.                       *)
LEMMA BlockedAreQueued ==
  ASSUME IInv, pc = "fail" PROVE \A d \in BlockedBy(cur) : d \in Post /\ status[d] = "scheduled"
<1>1. cur \in Post /\ status[cur] = "publishing"
  BY DEF IInv, Processing, WorkInv, TypeOK, CycleTypeOK
<1> SUFFICES ASSUME NEW d \in BlockedBy(cur) PROVE d \in Post /\ status[d] # "publishing"
  BY DEF BlockedBy
<1>2. d \in Post /\ root[d] = root[cur] /\ pos[cur] < pos[d]
  BY <1>1 DEF BlockedBy, IInv, TypeOK, RowsTypeOK
<1>3. ASSUME status[d] = "publishing" PROVE FALSE
  <2>1. Ready(d)
    BY <1>2, <1>3 DEF IInv, ReadyInv, Active, Exists
  <2> QED
    BY <1>1, <1>2, <2>1 DEF Ready, Out, Exists
<1> QED
  BY <1>2, <1>3

(* Giving up fails the post in hand and the scheduled steps behind it. *)
LEMMA GiveUpStep ==
  ASSUME IInv, pc = "fail", GiveUpRow(cur), aged' = aged \ ({cur} \cup BlockedBy(cur)),
         NextPost, UNCHANGED <<history, faults, req, ops>>
  PROVE  IInv'
<1> USE DEF IInv, GiveUpRow, links, history
<1>1. pc \in Processing /\ cur \in batch /\ cur \in Post /\ status[cur] = "publishing"
  BY DEF Processing, WorkInv, TypeOK, CycleTypeOK
<1>2. \A d \in BlockedBy(cur) : d \in Post /\ status[d] = "scheduled"
  BY BlockedAreQueued
<1> DEFINE S == {cur} \cup BlockedBy(cur)
<1> HIDE DEF S
<1>3. /\ \A q \in Post : q \in S => status'[q] = "failed"
      /\ \A q \in Post : q \notin S => status'[q] = status[q]
      /\ S \subseteq Post /\ cur \in S
      /\ \A q \in S : status[q] \in {"scheduled", "publishing"}
      /\ \A q \in S : q # cur => status[q] = "scheduled"
  BY <1>1, <1>2 DEF S, Put
<1>4. /\ WorkInv'
      /\ batch' \in SUBSET Post /\ snap' \in [Post -> Snapshot]
      /\ cur' = NoPost /\ pc' = "next" /\ picked' = picked
  <2>1. aged' = aged \ S
    BY DEF S
  <2>2. aged' \subseteq {q \in Post : status[q] = "publishing"}'
    BY <1>3, <2>1 DEF WorkInv
  <2>3. \A q \in batch : q # cur => status'[q] = status[q] /\ text'[q] = text[q]
    BY <1>3 DEF WorkInv, TypeOK, CycleTypeOK
  <2> QED
    BY <1>1, <2>2, <2>3, NextPostWork
<1>5. TypeOK'
  <2>1. attempts[cur] + 1 \in 0..MaxAttempts
    BY <1>1 DEF AttemptsLeft, Status, TypeOK, RowsTypeOK
  <2>2. attempts' \in [Post -> 0..MaxAttempts]
    BY <2>1 DEF TypeOK, RowsTypeOK
  <2>3. status' \in [Post -> Status] /\ retry' \in [Post -> {"null", "wait", "due"}]
    BY DEF TypeOK, RowsTypeOK, Put, Status
  <2>4. dead' \in [Post -> Reason]
    BY DEF TypeOK, RowsTypeOK, Bury, Reason
  <2>5. RowsTypeOK'
    BY <2>2, <2>3, <2>4 DEF TypeOK, RowsTypeOK
  <2> QED
    BY <1>4, <2>5 DEF TypeOK, CycleTypeOK, PC
<1>6. Shape' /\ ReqInv' /\ ReadyInv'
  <2>1. \A q \in Post : (Exists(q)' <=> Exists(q)) /\ (Out(q) => Out(q)')
    BY <1>3 DEF Exists, Out
  <2>2. \A q \in Post : Active(q)' => Active(q)
    BY <1>3, <1>4 DEF Active, Exists
  <2>3. \A q \in Post : status[q] # "absent" => status'[q] # "absent"
    BY <1>3
  <2> QED
    BY <2>1, <2>2, <2>3, Frame
<1>7. ExtPublished' /\ AttemptsLeft'
  <2>1. \A q \in Post : q \notin S => attempts'[q] = attempts[q]
    BY DEF S
  <2> QED
    BY <1>3, <2>1 DEF ExtPublished, AttemptsLeft, TypeOK, RowsTypeOK
<1>8. FailedHasDeadLetter'
  <2>1. \A q \in Post : q \in S => dead'[q] # "none"
    BY DEF S, Bury
  <2>2. \A q \in Post : q \notin S => dead'[q] = dead[q]
    BY DEF S, Bury
  <2> QED
    <3>1. \A q \in Post : q \notin S => (status'[q] = "failed" => dead'[q] # "none")
      BY <1>3, <2>2 DEF FailedHasDeadLetter
    <3> HIDE DEF GiveUpRow
    <3> QED
      BY <2>1, <3>1 DEF FailedHasDeadLetter
<1>9. \A q \in Post : (status[q] = "published") <=> (status'[q] = "published")
  BY <1>3
<1>10. CopiesAccounted' /\ PublishedAsWritten'
  BY <1>4, <1>9 DEF CopiesAccounted, PublishedAsWritten
<1> QED
  BY <1>4, <1>5, <1>6, <1>7, <1>8, <1>10

LEMMA OutcomeStep ==
  ASSUME IInv, RecordFailure \/ Defer, UNCHANGED <<req, ops>> PROVE IInv'
<1> USE DEF links, history
<1>1. pc \in Processing /\ pc # "mark"
  BY DEF RecordFailure, Defer, Processing
<1>2. cur \in Post /\ status[cur] = "publishing"
  BY <1>1 DEF IInv, WorkInv, TypeOK, CycleTypeOK
<1>3. CASE RecordFailure /\ RetryRow(cur) /\ aged' = aged \ {cur}
  BY <1>1, <1>2, <1>3, BackToQueue DEF RecordFailure, RetryRow, IInv, TypeOK, RowsTypeOK
<1>4. CASE RecordFailure /\ GiveUpRow(cur) /\ aged' = aged \ ({cur} \cup BlockedBy(cur))
  BY <1>4, GiveUpStep DEF RecordFailure
<1>5. CASE Defer
  BY <1>1, <1>2, <1>5, BackToQueue DEF Defer, DeferRow, IInv, TypeOK, RowsTypeOK
<1> QED
  BY <1>3, <1>4, <1>5 DEF RecordFailure

LEMMA OutcomeErrorStep ==
  ASSUME IInv, OutcomeError, UNCHANGED <<req, ops>> PROVE IInv'
<1> USE DEF OutcomeError, IInv
<1>1. pc \in Processing
  BY DEF Processing
<1>2. picked' = picked /\ UNCHANGED rows
  BY DEF NextPost
<1>3. /\ RowsTypeOK' /\ Shape' /\ ReqInv' /\ ReadyInv' /\ ExtPublished'
      /\ AttemptsLeft' /\ FailedHasDeadLetter'
  BY <1>2, RowsFrame
<1>4. /\ WorkInv' /\ cur \in Post
      /\ batch' \in SUBSET Post /\ snap' \in [Post -> Snapshot]
      /\ cur' = NoPost /\ pc' = "next"
  BY <1>1, <1>2, NextPostWork DEF rows, links, WorkInv
<1>5. sent \in [Post -> Nat] /\ lost \in [Post -> Nat] /\ faults \in Nat
  BY DEF TypeOK, CycleTypeOK
<1>6. lost' \in [Post -> Nat]
  BY <1>5 DEF LoseAnswer
<1>7. CycleTypeOK'
  BY <1>2, <1>4, <1>5, <1>6 DEF Fault, TypeOK, CycleTypeOK, PC
<1>8. CopiesAccounted'
  <2> SUFFICES ASSUME NEW p \in Post
      PROVE sent'[p] = lost'[p] + (IF status'[p] = "published" THEN 1 ELSE 0)
    BY <1>4, <1>5, <1>6 DEF CopiesAccounted
  <2>1. CASE pc = "mark" /\ p = cur
    BY <1>2, <1>5, <2>1 DEF CopiesAccounted, LoseAnswer, rows
  <2>2. CASE ~(pc = "mark" /\ p = cur)
    BY <1>2, <1>5, <2>2 DEF CopiesAccounted, LoseAnswer, rows
  <2> QED
    BY <2>1, <2>2
<1>9. PublishedAsWritten'
  BY <1>2 DEF PublishedAsWritten, rows
<1> QED
  BY <1>3, <1>4, <1>7, <1>8, <1>9 DEF TypeOK

(* Recovery fails rows the runner has lost track of. *)
LEMMA RecoverStep ==
  ASSUME IInv, Recover, UNCHANGED <<req, ops>> PROVE IInv'
<1> USE DEF Recover, IInv, RecoverRows, links, history
<1> DEFINE S == {p \in aged : status[p] = "publishing"}
<1>1. S \subseteq Post
  BY DEF TypeOK, CycleTypeOK
<1> HIDE DEF S
<1>2. /\ \A q \in Post : q \in S => status'[q] = "failed" /\ status[q] = "publishing"
      /\ \A q \in Post : q \notin S => status'[q] = status[q]
  BY DEF S, Put
<1>3. TypeOK'
  <2>1. RowsTypeOK'
    BY DEF TypeOK, RowsTypeOK, Put, Bury, Status, Reason
  <2> QED
    BY <2>1 DEF TypeOK, CycleTypeOK, PC
<1>4. Shape' /\ ReqInv' /\ ReadyInv'
  <2>1. \A q \in Post : (Exists(q)' <=> Exists(q)) /\ (Out(q) => Out(q)')
    BY <1>2 DEF Exists, Out
  <2>2. \A q \in Post : Active(q)' => Active(q)
    BY <1>2 DEF Active, Exists
  <2>3. \A q \in Post : status[q] # "absent" => status'[q] # "absent"
    BY <1>2
  <2> QED
    BY <2>1, <2>2, <2>3, Frame
<1>5. ExtPublished' /\ AttemptsLeft'
  BY <1>2 DEF ExtPublished, AttemptsLeft, Status, TypeOK, RowsTypeOK
<1>6. FailedHasDeadLetter'
  BY <1>2 DEF FailedHasDeadLetter, Bury, S
<1>7. WorkInv'
  BY DEF WorkInv, Processing
<1>8. \A q \in Post : (status[q] = "published") <=> (status'[q] = "published")
  BY <1>2
<1>9. CopiesAccounted' /\ PublishedAsWritten'
  BY <1>8 DEF CopiesAccounted, PublishedAsWritten
<1> QED
  BY <1>3, <1>4, <1>5, <1>6, <1>7, <1>9

-----------------------------------------------------------------------------
(* Threads change shape. *)

(* CreatePost appends one row behind all the rows its thread has. *)
LEMMA InsertStep ==
  ASSUME IInv, NEW p \in Post, InsertSegment(p) PROVE IInv'
<1> USE DEF IInv, links
<1>0. PICK r \in Post : r = IF req.root = NoPost THEN p ELSE req.root
  BY DEF InsertSegment, TypeOK, Request
<1>1. /\ req.phase = "insert" /\ status[p] = "absent"
      /\ InsertRow(p, r, req.last, req.at, req.st, req.sl, req.hold)
      /\ req' = IF req.left = 1 THEN NoRequest
                ELSE [req EXCEPT !.left = @ - 1, !.root = r, !.last = p,
                                 !.at = @ + 1, !.made = @ \cup {p}]
      /\ UNCHANGED cycle /\ ops' = ops
  BY <1>0 DEF InsertSegment
<1>2. /\ req.left \in Nat \ {0} /\ req.root \in Post \cup {NoPost}
      /\ req.last \in Post \cup {NoPost} /\ req.at \in Nat \ {0}
      /\ req.made \in SUBSET Post /\ req.st \in {"draft", "scheduled"}
      /\ req.sl \in {"later", "due"} /\ req.hold \in BOOLEAN /\ req \in Request
  BY <1>1 DEF TypeOK, Request, ReqInv
<1>4. /\ status' = [status EXCEPT ![p] = req.st]
      /\ slot' = [slot EXCEPT ![p] = req.sl]
      /\ parent' = [parent EXCEPT ![p] = req.last]
      /\ root' = [root EXCEPT ![p] = r]
      /\ pos' = [pos EXCEPT ![p] = req.at]
      /\ review' \in {review, review \cup {p}}
      /\ UNCHANGED <<attempts, retry, text, ext, dead>>
  BY <1>1 DEF InsertRow
<1>5. /\ status \in [Post -> Status] /\ slot \in [Post -> {"later", "due"}]
      /\ parent \in [Post -> Post \cup {NoPost}] /\ root \in [Post -> Post]
      /\ pos \in [Post -> Nat \ {0}]
  BY DEF TypeOK, RowsTypeOK
<1>6. /\ \A q \in Post : q # p => /\ status'[q] = status[q] /\ parent'[q] = parent[q]
                                  /\ root'[q] = root[q] /\ pos'[q] = pos[q]
      /\ status'[p] = req.st /\ parent'[p] = req.last /\ root'[p] = r /\ pos'[p] = req.at
  BY <1>4, <1>5
<1>7. /\ \A q \in Post : q # p => (Exists(q)' <=> Exists(q)) /\ (Out(q)' <=> Out(q))
      /\ Exists(p)' /\ ~Exists(p) /\ ~Out(p)
  BY <1>1, <1>2, <1>4, <1>6 DEF Exists, Out
<1>12. ASSUME NEW q \in Post, Exists(q), root[q] = r, q # p
       PROVE  pos[q] < req.at
  <2>1. CASE req.root = NoPost
    BY <1>0, <1>1, <1>12, <2>1 DEF Shape, RootsOK
  <2>2. CASE req.root # NoPost
    BY <1>0, <1>1, <1>12, <2>2 DEF ReqInv
  <2> QED
    BY <2>1, <2>2
<1>8. TypeOK'
  <2>1. RowsTypeOK'
    BY <1>2, <1>4 DEF TypeOK, RowsTypeOK, Status
  <2>2. CycleTypeOK'
    BY <1>1 DEF TypeOK, CycleTypeOK, cycle
  <2>3. NoRequest \in Request
    BY DEF NoRequest, Request
  <2>4. ASSUME req.left # 1
        PROVE  [req EXCEPT !.left = @ - 1, !.root = r, !.last = p,
                           !.at = @ + 1, !.made = @ \cup {p}] \in Request
    <3>1. req.left - 1 \in Nat /\ req.at + 1 \in Nat \ {0} /\ req.made \cup {p} \in SUBSET Post
      BY <1>2, <2>4
    <3> QED
      BY <1>2, <3>1 DEF Request
  <2>5. req' \in Request
    BY <1>1, <2>3, <2>4
  <2> QED
    BY <1>1, <2>1, <2>2, <2>5 DEF TypeOK
<1>9. Shape'
  <2>1. RootsOK'
    <3> SUFFICES ASSUME NEW q \in Post, Exists(q)'
                 PROVE  /\ status'[root'[q]] # "absent"
                        /\ Exists(root[q])' =>
                             root'[root'[q]] = root'[q] /\ parent'[root'[q]] = NoPost
      BY DEF RootsOK
    <3>1. CASE q = p /\ req.root = NoPost
      BY <1>0, <1>1, <1>2, <1>6, <3>1 DEF ReqInv
    <3>2. CASE q = p /\ req.root # NoPost
      BY <1>0, <1>1, <1>2, <1>6, <1>7, <3>2 DEF ReqInv
    <3>3. CASE q # p
      BY <1>1, <1>5, <1>6, <1>7, <3>3 DEF Shape, RootsOK
    <3> QED
      BY <3>1, <3>2, <3>3
  <2>2. ParentsOK'
    <3> SUFFICES ASSUME NEW q \in Post, Exists(q)'
                 PROVE  /\ parent'[q] = NoPost => root'[q] = q /\ pos'[q] = 1
                        /\ parent'[q] # NoPost =>
                             /\ status'[parent'[q]] # "absent"
                             /\ Exists(parent[q])' => /\ root'[parent'[q]] = root'[q]
                                                      /\ pos'[q] = pos'[parent'[q]] + 1
      BY DEF ParentsOK
    <3>1. CASE q = p
      BY <1>0, <1>1, <1>2, <1>6, <1>7, <3>1 DEF ReqInv
    <3>2. CASE q # p
      BY <1>1, <1>5, <1>6, <1>7, <3>2 DEF Shape, ParentsOK
    <3> QED
      BY <3>1, <3>2
  <2>3. PositionsOK'
    BY <1>2, <1>5, <1>6, <1>7, <1>12 DEF Shape, PositionsOK
  <2> QED
    BY <2>1, <2>2, <2>3 DEF Shape
<1>10. ReqInv'
  <2>1. CASE req.left = 1
    BY <1>1, <2>1 DEF ReqInv, NoRequest
  <2>2. CASE req.left # 1
    <3>1. req' = [req EXCEPT !.left = @ - 1, !.root = r, !.last = p,
                             !.at = @ + 1, !.made = @ \cup {p}]
      BY <1>1, <2>2
    <3>2. /\ req'.phase = "insert" /\ req'.left = req.left - 1 /\ req'.root = r
          /\ req'.last = p /\ req'.at = req.at + 1
      BY <1>1, <1>2, <3>1 DEF Request
    <3>3. status'[r] # "absent" /\ status'[p] # "absent"
      BY <1>0, <1>1, <1>2, <1>6 DEF ReqInv
    <3>4. Exists(r)' => root'[r] = r /\ parent'[r] = NoPost
      <4>1. CASE req.root = NoPost
        BY <1>0, <1>1, <1>6, <4>1 DEF ReqInv
      <4>2. CASE req.root # NoPost
        <5>1. r = req.root /\ r \in Post /\ r # p
          BY <1>0, <1>1, <1>2, <4>2 DEF ReqInv
        <5>2. Exists(r) => root[r] = r /\ parent[r] = NoPost
          BY <1>1, <4>2, <5>1 DEF ReqInv
        <5> QED
          BY <1>6, <1>7, <5>1, <5>2
      <4> QED
        BY <4>1, <4>2
    <3>5. \A q \in Post : (Exists(q)' /\ root'[q] = r) => pos'[q] < req.at + 1
      <4> SUFFICES ASSUME NEW q \in Post, Exists(q)', root'[q] = r
                   PROVE  pos'[q] < req.at + 1
        OBVIOUS
      <4>1. CASE q = p
        BY <1>2, <1>6, <4>1
      <4>2. CASE q # p /\ req.root = NoPost
        BY <1>0, <1>1, <1>5, <1>6, <1>7, <4>2 DEF Shape, RootsOK
      <4>3. CASE q # p /\ req.root # NoPost
        BY <1>0, <1>1, <1>2, <1>5, <1>6, <1>7, <4>3 DEF ReqInv
      <4> QED
        BY <4>1, <4>2, <4>3
    <3>6. req.left - 1 > 0 /\ req.at + 1 > 1
      BY <1>2, <2>2
    <3>7. root'[p] = r /\ pos'[p] + 1 = req.at + 1
      BY <1>6
    <3>8. r # NoPost /\ p # NoPost
      OBVIOUS
    <3> QED
      BY <3>2, <3>3, <3>4, <3>5, <3>6, <3>7, <3>8 DEF ReqInv, Exists
  <2> QED
    BY <2>1, <2>2
<1>11. ReadyInv'
  <2> SUFFICES ASSUME NEW q \in Post, Active(q)' PROVE Ready(q)'
    BY DEF ReadyInv
  <2>1. q # p /\ Active(q) /\ Exists(q)
    BY <1>1, <1>2, <1>6, <1>7 DEF Active, cycle, WorkInv
  <2>2. Ready(q)
    BY <2>1 DEF ReadyInv
  <2>3. parent'[q] # NoPost => Out(parent[q])' /\ Out(root[q])'
    <3>1. parent[q] # p
      BY <1>1, <1>5, <2>1 DEF Shape, ParentsOK
    <3>2. root[q] # p
      BY <1>1, <1>5, <2>1 DEF Shape, RootsOK
    <3> QED
      BY <1>5, <1>6, <1>7, <2>1, <2>2, <3>1, <3>2 DEF Ready
  <2>4. ASSUME NEW s \in Post, Exists(s)', root'[s] = root'[q], pos'[s] < pos'[q]
        PROVE  Out(s)'
    <3>1. s # p
      BY <1>2, <1>5, <1>6, <1>12, <2>1, <2>4
    <3> QED
      BY <1>6, <1>7, <2>1, <2>2, <2>4, <3>1 DEF Ready
  <2> QED
    BY <2>3, <2>4 DEF Ready
<1>13. ExtPublished' /\ AttemptsLeft' /\ FailedHasDeadLetter'
  <2>1. \A q \in Post : status'[q] \in {"published", "failed"} <=> status[q] \in {"published", "failed"}
    BY <1>1, <1>2, <1>6
  <2>2. attempts[p] < MaxAttempts
    BY <1>1 DEF AttemptsLeft, Status
  <2> QED
    BY <1>1, <1>2, <1>4, <1>6, <2>1, <2>2 DEF ExtPublished, AttemptsLeft, FailedHasDeadLetter, Status
<1>14. WorkInv'
  <2>1. p \notin batch /\ p \notin aged /\ batch \subseteq Post /\ aged \subseteq Post
    BY <1>1 DEF WorkInv, TypeOK, CycleTypeOK
  <2>2. \A q \in batch : (status[q] = "publishing" /\ snap[q] = Load(q))'
    BY <1>1, <1>4, <1>6, <2>1 DEF WorkInv, Load, cycle
  <2>3. aged' \subseteq {q \in Post : status[q] = "publishing"}'
    BY <1>1, <1>6, <2>1 DEF WorkInv, cycle
  <2>4. \A q \in picked' : status'[q] # "absent"
    BY <1>1, <1>2, <1>6 DEF WorkInv, TypeOK, CycleTypeOK, cycle
  <2>5. pc' = "load" => cur' \in Post /\ status'[cur'] = "publishing" /\ cur' \notin batch'
    BY <1>1, <1>6 DEF WorkInv, cycle
  <2> QED
    BY <1>1, <2>2, <2>3, <2>4, <2>5 DEF WorkInv, cycle, Processing
<1>15. CopiesAccounted' /\ PublishedAsWritten'
  <2>1. \A q \in Post : (status[q] = "published") <=> (status'[q] = "published")
    BY <1>1, <1>2, <1>6
  <2> QED
    BY <1>1, <1>4, <2>1 DEF CopiesAccounted, PublishedAsWritten, cycle
<1> QED
  BY <1>8, <1>9, <1>10, <1>11, <1>13, <1>14, <1>15

(* UpdateThreadEditable rewrites a whole thread around its root. *)
LEMMA EditThreadStep ==
  ASSUME IInv, NEW p \in Post, EditThread(p) PROVE IInv'
<1> USE DEF IInv, links
<1>1. PICK r \in Post : r = root[p]
  BY DEF TypeOK, RowsTypeOK
<1>35. PICK n \in 1..MaxSteps :
         \E line \in [1..n -> Post] : \E st \in {"draft", "scheduled"}, sl \in {"later", "due"} :
           RewriteRows(r, line, st, sl)
  BY <1>1 DEF EditThread
<1>2. PICK line \in [1..n -> Post], st \in {"draft", "scheduled"}, sl \in {"later", "due"} :
        RewriteRows(r, line, st, sl)
  BY <1>35
<1>3. UNCHANGED cycle /\ req' = req /\ ops' \in Nat /\ ~(req.phase = "insert" /\ req.root = r)
  BY <1>1 DEF EditThread, Op, Answered, TypeOK
<1> DEFINE New  == {line[i] : i \in DOMAIN line}
           At(q) == CHOOSE i \in DOMAIN line : line[i] = q
<1>4. PICK T \in SUBSET Post : T = ThreadOf(r)
  BY DEF ThreadOf
<1>5. PICK Lost \in SUBSET Post : Lost = T \ New
  OBVIOUS
<1>6. /\ status' = [q \in Post |-> IF q \in New THEN st
                                   ELSE IF q \in Lost THEN "gone" ELSE status[q]]
      /\ slot' = [q \in Post |-> IF q \in New THEN sl
                                 ELSE IF q \in Lost THEN "later" ELSE slot[q]]
      /\ retry' = Put(retry, New \cup Lost, "null")
      /\ attempts' = Put(attempts, New \cup Lost, 0)
      /\ parent' = [q \in Post |-> IF q \notin New THEN parent[q]
                                   ELSE IF At(q) = 1 THEN NoPost ELSE line[At(q) - 1]]
      /\ root' = Put(root, New, line[1])
      /\ pos' = [q \in Post |-> IF q \in New THEN At(q) ELSE pos[q]]
      /\ text' = [q \in Post |-> IF q \in New THEN text[q] + 1 ELSE text[q]]
      /\ dead' = Put(dead, Lost, "none")
      /\ ext' = ext \ Lost
      /\ review' = review \ Lost
  BY <1>2, <1>4, <1>5 DEF RewriteRows
<1>7. /\ Exists(r)
      /\ \A q \in T : status[q] \in Editable
      /\ \A i, j \in 1..n : line[i] = line[j] => i = j
      /\ \A i \in 1..n : line[i] \in T \/ status[line[i]] = "absent"
      /\ \A i, j \in 1..n : (i < j /\ line[j] \in T) => pos[line[i]] < pos[line[j]]
      /\ \A q \in T : (\A i \in 1..n : line[i] # q) => \A i \in 1..n : pos[line[i]] < pos[q]
  BY <1>2, <1>4 DEF RewriteRows, Deletable, Rewrites
<1>8. root[r] = r /\ parent[r] = NoPost /\ pos[r] = 1
  <2>1. Exists(p) /\ Exists(r) /\ root[p] = r
    BY <1>1, <1>7 DEF EditThread
  <2> QED
    BY <2>1 DEF Shape, RootsOK, ParentsOK
<1>9. T = {q \in Post : Exists(q) /\ root[q] = r}
  BY <1>4, <1>8 DEF ThreadOf
<1>10. r = line[1] /\ n \in Nat /\ 1 \in 1..n /\ line[1] \in Post
  <2>1. n \in Nat /\ 1 \in 1..n /\ r \in T
    BY <1>7, <1>8, <1>9
  <2>2. \A q \in Post : pos[q] \in Nat /\ pos[q] >= 1
    BY DEF TypeOK, RowsTypeOK
  <2>3. \E i \in 1..n : line[i] = r
    BY <1>7, <1>8, <2>1, <2>2
  <2> QED
    BY <1>7, <1>8, <2>1, <2>2, <2>3
<1>11. \A i \in 1..n : /\ line[i] \in Post /\ line[i] \in New
                       /\ At(line[i]) = i /\ i \in Nat \ {0}
                       /\ i # 1 => i - 1 \in 1..n
  BY <1>7, <1>10
<1>12. \A q \in New : \E i \in 1..n : q = line[i]
  OBVIOUS
<1>13. \A i \in 1..n : /\ status'[line[i]] = st /\ root'[line[i]] = r
                       /\ pos'[line[i]] = i
                       /\ parent'[line[i]] = IF i = 1 THEN NoPost ELSE line[i - 1]
  BY <1>6, <1>10, <1>11 DEF Put
<1>14. PICK N \in SUBSET Post : N = New
  <2>1. New \subseteq Post
    BY <1>11, <1>12
  <2> HIDE DEF New
  <2> QED
    BY <2>1
<1>15. \A q \in Post : q \notin N =>
         /\ status'[q] = IF q \in Lost THEN "gone" ELSE status[q]
         /\ root'[q] = root[q] /\ parent'[q] = parent[q] /\ pos'[q] = pos[q]
         /\ text'[q] = text[q]
  BY <1>6, <1>14 DEF Put
<1>16. /\ \A q \in N : (q \in T \/ status[q] = "absent") /\ status'[q] = st /\ root'[q] = r
       /\ r \in N /\ N \cap Lost = {} /\ T \subseteq N \cup Lost /\ Lost \subseteq T
  BY <1>5, <1>7, <1>10, <1>11, <1>12, <1>13, <1>14
<1> HIDE DEF New, At
<1>17. \A q \in Post : Exists(q)' <=> (q \in N \/ (Exists(q) /\ q \notin T))
  BY <1>5, <1>9, <1>14, <1>15, <1>16 DEF Exists
<1>18. \A q \in Post : status[q] # "absent" => status'[q] # "absent"
  BY <1>15, <1>16
<1>19. TypeOK'
  <2>1. status' \in [Post -> Status] /\ slot' \in [Post -> {"later", "due"}]
    BY <1>6 DEF TypeOK, RowsTypeOK, Status
  <2>2. attempts' \in [Post -> 0..MaxAttempts] /\ retry' \in [Post -> {"null", "wait", "due"}]
    BY <1>6 DEF TypeOK, RowsTypeOK, Put
  <2>3. \A q \in Post : /\ parent'[q] \in Post \cup {NoPost} /\ root'[q] \in Post
                        /\ pos'[q] \in Nat \ {0}
    <3> SUFFICES ASSUME NEW q \in Post
                 PROVE  /\ parent'[q] \in Post \cup {NoPost} /\ root'[q] \in Post
                        /\ pos'[q] \in Nat \ {0}
      OBVIOUS
    <3>1. CASE q \in N
      <4>1. PICK i \in 1..n : q = line[i]
        BY <1>12, <1>14, <3>1
      <4>2. i # 1 => line[i - 1] \in Post
        BY <1>11
      <4> QED
        BY <1>11, <1>13, <4>1, <4>2
    <3>2. CASE q \notin N
      BY <1>15, <3>2 DEF TypeOK, RowsTypeOK
    <3> QED
      BY <3>1, <3>2
  <2>4. DOMAIN parent' = Post /\ DOMAIN root' = Post /\ DOMAIN pos' = Post
    BY <1>6 DEF Put
  <2>5. /\ parent' = [q \in Post |-> parent'[q]] /\ root' = [q \in Post |-> root'[q]]
        /\ pos' = [q \in Post |-> pos'[q]]
    BY <1>6 DEF Put
  <2>6. /\ parent' \in [Post -> Post \cup {NoPost}] /\ root' \in [Post -> Post]
        /\ pos' \in [Post -> Nat \ {0}]
    BY <2>3, <2>5
  <2>7. text' \in [Post -> Nat] /\ dead' \in [Post -> Reason]
    BY <1>6 DEF TypeOK, RowsTypeOK, Put, Reason
  <2>8. ext' \in SUBSET Post /\ review' \in SUBSET Post
    BY <1>6 DEF TypeOK, RowsTypeOK
  <2>9. CycleTypeOK' /\ req' \in Request
    BY <1>3 DEF TypeOK, CycleTypeOK, cycle
  <2> QED
    BY <1>3, <2>1, <2>2, <2>6, <2>7, <2>8, <2>9 DEF TypeOK, RowsTypeOK
<1>20. \A q \in Post : root[q] \in Post
  BY DEF TypeOK, RowsTypeOK
(* The other threads stay what they are. *)
<1>21. ASSUME NEW q \in Post, Exists(q), q \notin T
       PROVE  /\ q \notin N /\ root[q] # r
              /\ status'[q] = status[q] /\ root'[q] = root[q] /\ parent'[q] = parent[q]
              /\ pos'[q] = pos[q] /\ text'[q] = text[q]
  BY <1>5, <1>9, <1>15, <1>16, <1>21 DEF Exists
<1>22. RootsOK'
  <2> SUFFICES ASSUME NEW q \in Post, Exists(q)'
               PROVE  /\ status'[root'[q]] # "absent"
                      /\ Exists(root[q])' =>
                           root'[root'[q]] = root'[q] /\ parent'[root'[q]] = NoPost
    BY DEF RootsOK
  <2>1. CASE q \in N
    BY <1>10, <1>13, <1>16, <2>1 DEF Status
  <2>2. CASE q \notin N
    <3>1. Exists(q) /\ q \notin T
      BY <1>17, <2>2
    <3>2. root'[q] = root[q] /\ root[q] # r /\ status[root[q]] # "absent"
      BY <1>21, <3>1 DEF Shape, RootsOK
    <3>3. ASSUME Exists(root[q])'
          PROVE  root'[root[q]] = root[q] /\ parent'[root[q]] = NoPost
      <4>1. Exists(root[q])
        BY <1>16, <1>17, <1>20, <3>2, <3>3, <1>9
      <4>2. root[root[q]] = root[q] /\ parent[root[q]] = NoPost
        BY <3>1, <4>1 DEF Shape, RootsOK
      <4>3. root[q] \notin T
        BY <1>9, <3>2, <4>2
      <4> QED
        BY <1>20, <1>21, <4>1, <4>2, <4>3
    <3> QED
      BY <1>18, <1>20, <3>2, <3>3
  <2> QED
    BY <2>1, <2>2
<1>23. ParentsOK'
  <2> SUFFICES ASSUME NEW q \in Post, Exists(q)'
               PROVE  /\ parent'[q] = NoPost => root'[q] = q /\ pos'[q] = 1
                      /\ parent'[q] # NoPost =>
                           /\ status'[parent'[q]] # "absent"
                           /\ Exists(parent[q])' => /\ root'[parent'[q]] = root'[q]
                                                    /\ pos'[q] = pos'[parent'[q]] + 1
    BY DEF ParentsOK
  <2>1. CASE q \in N
    <3>1. PICK i \in 1..n : q = line[i]
      BY <1>12, <1>14, <2>1
    <3>2. CASE i = 1
      BY <1>10, <1>13, <3>1, <3>2
    <3>3. CASE i # 1
      <4>1. i - 1 \in 1..n /\ i \in Nat /\ line[i - 1] \in Post
        BY <1>11, <3>3
      <4>2. parent'[q] = line[i - 1] /\ root'[q] = r /\ pos'[q] = i
        BY <1>13, <3>1, <3>3
      <4>3. status'[line[i - 1]] = st /\ root'[line[i - 1]] = r /\ pos'[line[i - 1]] = i - 1
        BY <1>13, <4>1
      <4> QED
        BY <4>1, <4>2, <4>3
    <3> QED
      BY <3>2, <3>3
  <2>2. CASE q \notin N
    <3>1. Exists(q) /\ q \notin T
      BY <1>17, <2>2
    <3>2. /\ root'[q] = root[q] /\ parent'[q] = parent[q] /\ pos'[q] = pos[q] /\ root[q] # r
      BY <1>21, <3>1
    <3>3. parent[q] = NoPost => root[q] = q /\ pos[q] = 1
      BY <3>1 DEF Shape, ParentsOK
    <3>4. ASSUME parent[q] # NoPost
          PROVE  /\ parent[q] \in Post /\ status[parent[q]] # "absent"
                 /\ Exists(parent[q]) => root[parent[q]] = root[q] /\ pos[q] = pos[parent[q]] + 1
      BY <3>1, <3>4 DEF Shape, ParentsOK, TypeOK, RowsTypeOK
    <3>5. ASSUME parent[q] # NoPost, Exists(parent[q])'
          PROVE  root'[parent[q]] = root[q] /\ pos[q] = pos'[parent[q]] + 1
      <4>1. Exists(parent[q]) \/ parent[q] \in N
        BY <1>17, <3>2, <3>4, <3>5
      <4>2. Exists(parent[q]) /\ parent[q] \notin T
        BY <1>9, <1>16, <3>2, <3>4, <3>5, <4>1
      <4> QED
        BY <1>21, <3>4, <3>5, <4>2
    <3> QED
      BY <1>18, <3>2, <3>3, <3>4, <3>5
  <2> QED
    BY <2>1, <2>2
<1>24. PositionsOK'
  <2> SUFFICES ASSUME NEW q \in Post, NEW s \in Post, Exists(q)', Exists(s)',
                      root'[q] = root'[s], pos'[q] = pos'[s]
               PROVE  q = s
    BY DEF PositionsOK
  <2>1. CASE q \in N /\ s \in N
    BY <1>12, <1>13, <1>14, <2>1
  <2>2. CASE q \in N /\ s \notin N
    BY <1>16, <1>17, <1>21, <2>2
  <2>3. CASE q \notin N /\ s \in N
    BY <1>16, <1>17, <1>21, <2>3
  <2>4. CASE q \notin N /\ s \notin N
    BY <1>17, <1>21, <2>4 DEF Shape, PositionsOK
  <2> QED
    BY <2>1, <2>2, <2>3, <2>4
<1>25. ReqInv'
  <2>1. CASE req.phase # "insert" \/ req.root = NoPost
    BY <1>3, <2>1 DEF ReqInv
  <2>2. CASE req.phase = "insert" /\ req.root # NoPost
    <3>1. /\ req.root \in Post /\ req.root # r /\ req.last \in Post /\ req.last # NoPost
          /\ status[req.root] # "absent" /\ status[req.last] # "absent"
      BY <1>3, <2>2 DEF ReqInv, TypeOK, Request
    <3>2. Exists(req.root) => req.root \notin T
      BY <1>9, <2>2, <3>1 DEF ReqInv
    <3>3. Exists(req.last) => req.last \notin T
      BY <1>9, <2>2, <3>1 DEF ReqInv
    <3>4. ASSUME NEW q \in Post, q = req.root, Exists(q)'
          PROVE  root'[q] = q /\ parent'[q] = NoPost
      <4>1. Exists(q) /\ q \notin T
        BY <1>16, <1>17, <3>1, <3>2, <3>4, <1>9
      <4> QED
        BY <1>21, <2>2, <3>4, <4>1 DEF ReqInv
    <3>5. ASSUME NEW q \in Post, q = req.last, Exists(q)'
          PROVE  root'[q] = req.root /\ pos'[q] + 1 = req.at
      <4>1. Exists(q) /\ q \notin T
        BY <1>16, <1>17, <3>1, <3>3, <3>5, <1>9
      <4> QED
        BY <1>21, <2>2, <3>5, <4>1 DEF ReqInv
    <3>6. ASSUME NEW q \in Post, Exists(q)', root'[q] = req.root
          PROVE  pos'[q] < req.at
      <4>1. Exists(q) /\ q \notin T
        BY <1>16, <1>17, <3>1, <3>6
      <4> QED
        BY <1>21, <2>2, <3>6, <4>1 DEF ReqInv
    <3>7. /\ Exists(req.root)' => root'[req'.root] = req'.root /\ parent'[req'.root] = NoPost
          /\ Exists(req.last)' => root'[req'.last] = req'.root /\ pos'[req'.last] + 1 = req'.at
      <4>1. req'.root = req.root /\ req'.last = req.last /\ req'.at = req.at
        BY <1>3
      <4> QED
        BY <3>1, <3>4, <3>5, <4>1 DEF Exists
    <3> QED
      BY <1>3, <1>18, <2>2, <3>1, <3>6, <3>7 DEF ReqInv
  <2> QED
    BY <2>1, <2>2
<1>26. \A q \in Post : Out(q) => q \notin T /\ q \notin N /\ Out(q)'
  <2> SUFFICES ASSUME NEW q \in Post, Out(q) PROVE q \notin T /\ q \notin N /\ Out(q)'
    OBVIOUS
  <2>1. q \notin T /\ q \notin N /\ Exists(q)
    BY <1>7, <1>16 DEF Out, Editable, Exists
  <2> QED
    BY <1>5, <1>6, <1>21, <2>1 DEF Out
<1>27. ReadyInv'
  <2> SUFFICES ASSUME NEW q \in Post, Active(q)' PROVE Ready(q)'
    BY DEF ReadyInv
  <2>1. CASE q \in N
    <3>1. q \in picked /\ status[q] # "absent"
      BY <1>3, <1>16, <2>1 DEF Active, cycle, WorkInv
    <3>2. q \in T /\ Exists(q) /\ root[q] = r
      BY <1>9, <1>16, <2>1, <3>1
    <3>3. Ready(q)
      BY <3>1, <3>2 DEF ReadyInv, Active
    <3>4. q = r
      <4>1. ~Out(r)
        BY <1>7, <1>8, <1>9, <1>26
      <4>2. ~(pos[r] < pos[q])
        BY <1>7, <1>8, <3>2, <3>3, <4>1 DEF Ready
      <4>3. pos[q] = 1
        BY <1>8, <4>2 DEF TypeOK, RowsTypeOK
      <4> QED
        BY <1>7, <1>8, <3>2, <4>3 DEF Shape, PositionsOK
    <3>5. parent'[q] = NoPost /\ pos'[q] = 1
      BY <1>10, <1>13, <3>4
    <3>6. \A s \in Post : pos'[s] \in Nat \ {0}
      BY <1>19 DEF TypeOK, RowsTypeOK
    <3> QED
      BY <3>5, <3>6 DEF Ready
  <2>2. CASE q \notin N
    <3>1. Exists(q) /\ q \notin T
      BY <1>17, <2>2 DEF Active
    <3>2. /\ root'[q] = root[q] /\ parent'[q] = parent[q] /\ pos'[q] = pos[q]
          /\ root[q] # r /\ status'[q] = status[q]
      BY <1>21, <3>1
    <3>3. Ready(q)
      BY <1>3, <3>1, <3>2 DEF ReadyInv, Active, cycle
    <3>4. parent[q] \in Post \cup {NoPost} /\ root[q] \in Post
      BY DEF TypeOK, RowsTypeOK
    <3>5. parent'[q] # NoPost => Out(parent[q])' /\ Out(root[q])'
      <4> SUFFICES ASSUME parent[q] # NoPost PROVE Out(parent[q])' /\ Out(root[q])'
        BY <3>2
      <4>1. PICK a \in Post, b \in Post : a = parent[q] /\ b = root[q]
        BY <3>4
      <4>2. Out(a) /\ Out(b)
        BY <3>3, <4>1 DEF Ready
      <4>3. Out(a)' /\ Out(b)'
        BY <1>26, <4>2
      <4> QED
        BY <3>2, <4>1, <4>3 DEF Out
    <3>6. ASSUME NEW s \in Post, Exists(s)', root'[s] = root'[q], pos'[s] < pos'[q]
          PROVE  Out(s)'
      <4>1. Exists(s) /\ s \notin T
        BY <1>16, <1>17, <3>2, <3>6
      <4>2. root[s] = root[q] /\ pos[s] < pos[q]
        BY <1>21, <3>2, <3>6, <4>1
      <4> QED
        BY <1>26, <3>3, <4>1, <4>2 DEF Ready
    <3> QED
      BY <3>5, <3>6 DEF Ready
  <2> QED
    BY <2>1, <2>2
<1>28. \A q \in Post : status'[q] \in {"publishing", "published", "failed"} =>
                         /\ status'[q] = status[q] /\ q \notin N /\ q \notin Lost
                         /\ text'[q] = text[q]
  BY <1>15, <1>16
<1>29. \A q \in Post : status[q] \in {"publishing", "published"} =>
                         /\ status'[q] = status[q] /\ text'[q] = text[q]
                         /\ parent'[q] = parent[q] /\ root'[q] = root[q]
  <2> SUFFICES ASSUME NEW q \in Post, status[q] \in {"publishing", "published"}
               PROVE Exists(q) /\ q \notin T
    BY <1>21
  <2> QED
    BY <1>7 DEF Exists, Editable
<1>30. ExtPublished'
  BY <1>6, <1>29 DEF ExtPublished, TypeOK, RowsTypeOK
<1>31. AttemptsLeft'
  <2>1. \A q \in N \cup Lost : attempts'[q] = 0
    BY <1>6, <1>14 DEF Put
  <2>2. \A q \in Post : q \notin N \cup Lost => attempts'[q] = attempts[q] /\ status'[q] = status[q]
    BY <1>6, <1>14, <1>15 DEF Put
  <2> QED
    BY <2>1, <2>2 DEF AttemptsLeft
<1>32. FailedHasDeadLetter'
  <2>1. \A q \in Post : q \notin Lost => dead'[q] = dead[q]
    BY <1>6 DEF Put
  <2> QED
    BY <1>28, <2>1 DEF FailedHasDeadLetter
<1>33. WorkInv'
  <2>1. batch \subseteq Post /\ picked \subseteq Post /\ aged \subseteq Post
    BY DEF TypeOK, CycleTypeOK
  <2>2. \A q \in batch : (status[q] = "publishing" /\ snap[q] = Load(q))'
    BY <1>3, <1>29, <2>1 DEF WorkInv, Load, cycle
  <2>3. aged' \subseteq {q \in Post : status[q] = "publishing"}'
    BY <1>3, <1>29, <2>1 DEF WorkInv, cycle
  <2>4. \A q \in picked' : status'[q] # "absent"
    BY <1>3, <1>18, <2>1 DEF WorkInv, cycle
  <2>5. pc' = "load" => cur' \in Post /\ status'[cur'] = "publishing" /\ cur' \notin batch'
    BY <1>3, <1>29 DEF WorkInv, cycle
  <2> QED
    BY <1>3, <2>2, <2>3, <2>4, <2>5 DEF WorkInv, cycle, Processing
<1>34. CopiesAccounted' /\ PublishedAsWritten'
  <2>1. \A q \in Post : (status[q] = "published") <=> (status'[q] = "published")
    BY <1>28, <1>29
  <2> QED
    BY <1>3, <1>29, <2>1 DEF CopiesAccounted, PublishedAsWritten, cycle
<1> QED
  BY <1>19, <1>22, <1>23, <1>24, <1>25, <1>27, <1>30, <1>31, <1>32, <1>33, <1>34 DEF Shape

-----------------------------------------------------------------------------
(* IInv is inductive. *)
LEMMA NextIInv == IInv /\ [Next]_vars => IInv'
<1> SUFFICES ASSUME IInv, [Next]_vars PROVE IInv'
  OBVIOUS
<1>1. /\ faults \in Nat /\ ops \in Nat /\ req \in Request
      /\ NoRequest \in Request /\ NoRequest.phase # "insert"
  BY DEF IInv, TypeOK, CycleTypeOK, Request, NoRequest
<1>2. ASSUME WorkerStep, UNCHANGED <<req, ops>> PROVE IInv'
  <2>1. CASE EndTick
    <3>1. LoseAnswer
      BY <2>1 DEF EndTick, LoseAnswer, history, IInv, TypeOK, CycleTypeOK
    <3> QED
      BY <1>1, <1>2, <2>1, <3>1, ForgetStep DEF EndTick, history
  <2>2. CASE LoadClaimed \/ ClaimDone \/ NotSent \/ PublishError
    BY <1>2, <2>2, ControlStep
       DEF LoadClaimed, ClaimDone, NotSent, PublishError
  <2>3. ASSUME NEW p \in Post, Begin(p) PROVE IInv'
    BY <1>2, <2>3, ControlStep DEF Begin
  <2>4. ASSUME NEW p \in Post, Claim(p) PROVE IInv'
    BY <1>2, <2>4, ClaimStep
  <2>5. CASE Recover
    BY <1>2, <2>5, RecoverStep
  <2>6. CASE Select
    BY <1>2, <2>6, SelectStep
  <2>7. CASE PublishOk
    BY <1>2, <2>7, SendStep
  <2>8. CASE Mark
    BY <1>2, <2>8, MarkStep
  <2>9. CASE RecordFailure \/ Defer
    BY <1>2, <2>9, OutcomeStep
  <2> QED
    BY <1>2, <2>1, <2>2, <2>3, <2>4, <2>5, <2>6, <2>7, <2>8, <2>9 DEF WorkerStep
<1>3. ASSUME FaultStep, UNCHANGED <<req, ops>> PROVE IInv'
  <2>1. CASE RecoverError
    BY <1>3, <2>1, ControlStep DEF RecoverError
  <2>2. CASE ClaimError
    <3>1. LoseAnswer
      BY <2>2 DEF ClaimError, LoseAnswer, history, IInv, TypeOK, CycleTypeOK
    <3> QED
      BY <1>1, <1>3, <2>2, <3>1, ForgetStep DEF ClaimError, history, Fault
  <2>3. CASE AnswerLost
    BY <1>3, <2>3, SendStep
  <2>4. CASE OutcomeError
    BY <1>3, <2>4, OutcomeErrorStep
  <2>5. CASE Panic
    BY <1>1, <1>3, <2>5, ForgetStep DEF Panic, Fault
  <2> QED
    BY <1>3, <2>1, <2>2, <2>3, <2>4, <2>5 DEF FaultStep
<1>4. ASSUME ClockStep, UNCHANGED <<req, ops>> PROVE IInv'
  BY <1>4, ClockSteps DEF ClockStep
<1>5. CASE RequestStep
  <2>1. CASE BeginCreate
    BY <2>1, BeginCreateStep
  <2>2. CASE InsertError
    BY <2>2, InsertErrorStep
  <2>3. ASSUME NEW p \in Post, InsertSegment(p) PROVE IInv'
    BY <2>3, InsertStep
  <2>4. ASSUME NEW p \in Post, Rollback(p) PROVE IInv'
    BY <2>4, RollbackStep
  <2>5. ASSUME NEW p \in Post,
               Schedule(p) \/ Cancel(p) \/ EditOne(p) \/ Requeue(p) \/ Review(p)
        PROVE  IInv'
    BY <2>5, TouchStep
  <2>6. ASSUME NEW p \in Post, Delete(p) \/ Discard(p) PROVE IInv'
    BY <2>6, DeleteStep
  <2>7. ASSUME NEW p \in Post, EditThread(p) PROVE IInv'
    BY <2>7, EditThreadStep
  <2> QED
    BY <1>5, <2>1, <2>2, <2>3, <2>4, <2>5, <2>6, <2>7 DEF RequestStep
<1>6. CASE Crash
  BY <1>1, <1>6, ForgetStep DEF Crash, Fault
<1>7. CASE UNCHANGED vars
  <2> USE <1>7 DEF vars, cycle, rows
  <2>1. /\ RowsTypeOK' /\ Shape' /\ ReqInv' /\ ReadyInv' /\ ExtPublished'
        /\ AttemptsLeft' /\ FailedHasDeadLetter'
    BY RowsFrame
  <2>2. TypeOK' /\ WorkInv'
    BY <2>1 DEF IInv, TypeOK, CycleTypeOK, WorkInv, Load
  <2>3. CopiesAccounted' /\ PublishedAsWritten'
    BY DEF IInv, CopiesAccounted, PublishedAsWritten
  <2> QED
    BY <2>1, <2>2, <2>3 DEF IInv
<1> QED
  BY <1>2, <1>3, <1>4, <1>5, <1>6, <1>7 DEF Next

(* The invariant holds of every reachable state. *)
THEOREM Invariance == Spec => []IInv
  BY InitIInv, NextIInv, PTL DEF Spec

(* Every variable keeps its type: attempts never exceed max_attempts, the    *)
(* worker only ever holds posts. *)
THEOREM TypeCorrect == Spec => []TypeOK
<1>1. IInv => TypeOK
  BY DEF IInv
<1> QED
  BY <1>1, Invariance, PTL

(* A failed post can always be found in the dead-letter queue. *)
THEOREM FailedIsListed == Spec => []FailedHasDeadLetter
<1>1. IInv => FailedHasDeadLetter
  BY DEF IInv
<1> QED
  BY <1>1, Invariance, PTL

(* No post is published twice unless an outcome was lost in between. *)
THEOREM NoCopyUnaccounted == Spec => []CopiesAccounted
<1>1. IInv => CopiesAccounted
  BY DEF IInv
<1> QED
  BY <1>1, Invariance, PTL

(* A post that may still be published has an attempt left. *)
THEOREM AttemptsRemain == Spec => []AttemptsLeft
<1>1. IInv => AttemptsLeft
  BY DEF IInv
<1> QED
  BY <1>1, Invariance, PTL

(* What is published is what the row says. *)
THEOREM PublishedText == Spec => []PublishedAsWritten
<1>1. IInv => PublishedAsWritten
  BY DEF IInv
<1> QED
  BY <1>1, Invariance, PTL

(* The runner's copies of the claimed posts are never stale. *)
THEOREM NeverStale == Spec => []BatchFresh
<1>1. IInv => BatchFresh
  BY DEF IInv, WorkInv, BatchFresh
<1> QED
  BY <1>1, Invariance, PTL

(* Threads go out in order, whatever is edited, requeued or deleted while    *)
(* the worker runs. *)
THEOREM ThreadsInOrder == Spec => []ThreadInOrder
<1>1. IInv => ThreadInOrder
  <2> SUFFICES ASSUME IInv, NEW p \in Post, NEW q \in Post,
                      status[p] \in {"publishing", "published"},
                      Exists(q), root[q] = root[p], pos[q] < pos[p]
               PROVE  status[q] = "published" /\ q \in ext
    BY DEF ThreadInOrder
  <2>1. Ready(p)
    BY DEF IInv, ReadyInv, Active, Exists
  <2> QED
    BY <2>1 DEF Ready, Out
<1> QED
  BY <1>1, Invariance, PTL

(* A follow-up never reaches the network without the post it follows. *)
THEOREM TargetsPresent == Spec => []TargetPresent
<1>1. IInv => TargetPresent
  <2> SUFFICES ASSUME IInv, pc \in {"publish", "republish"}, snap[cur].parent # NoPost
               PROVE  \A t \in Targets : HasTarget(t)
    BY DEF TargetPresent
  <2>1. cur \in Post /\ status[cur] = "publishing" /\ snap[cur] = Load(cur)
    BY DEF IInv, WorkInv, TypeOK, CycleTypeOK, Processing
  <2>2. Ready(cur)
    BY <2>1 DEF IInv, ReadyInv, Active, Exists
  <2>3. Out(parent[cur]) /\ Out(root[cur])
    BY <2>1, <2>2 DEF Ready, Load
  <2> QED
    BY <2>1, <2>3 DEF Targets, Load, HasTarget, Exists, Out
<1> QED
  BY <1>1, Invariance, PTL

-----------------------------------------------------------------------------
(* What a request may do to a row, whatever the request: rows the worker     *)
(* holds or has published are out of its reach. *)
Authored ==
  /\ UNCHANGED cycle
  /\ \A p \in Post :
       \/ status'[p] = status[p]
       \/ /\ status[p] \in {"absent", "draft", "canceled", "scheduled", "failed"}
          /\ status'[p] \in {"draft", "canceled", "scheduled", "gone"}
  /\ \A p \in Post : status[p] = "published" =>
       /\ text'[p] = text[p] /\ parent'[p] = parent[p]
       /\ (p \in ext') = (p \in ext)

LEMMA RequestAuthors ==
  ASSUME IInv, RequestStep PROVE Authored
<1> USE DEF links, Authored
<1>0. RowsTypeOK
  BY DEF IInv, TypeOK
<1>1. CASE BeginCreate \/ InsertError
  BY <1>1 DEF BeginCreate, InsertError, rows
<1>2. ASSUME NEW S \in SUBSET Post, EraseRows(S), UNCHANGED cycle,
             \A q \in S : status[q] \in Editable
      PROVE  Authored
  BY <1>0, <1>2 DEF EraseRows, Put, Editable, RowsTypeOK
<1>3. ASSUME NEW p \in Post, DeleteRows(p), UNCHANGED cycle PROVE Authored
  BY <1>2, <1>3 DEF DeleteRows, Deletable, ThreadOf
<1>4. ASSUME NEW p \in Post, Rollback(p) PROVE Authored
  <2>1. CASE DeleteRows(p)
    BY <1>3, <1>4, <2>1 DEF Rollback
  <2>2. CASE UNCHANGED rows
    BY <1>4, <2>2 DEF Rollback, rows
  <2> QED
    BY <1>4, <2>1, <2>2 DEF Rollback
<1>5. ASSUME NEW p \in Post, Delete(p) PROVE Authored
  BY <1>3, <1>5 DEF Delete
<1>6. ASSUME NEW p \in Post, Discard(p) PROVE Authored
  BY <1>2, <1>6 DEF Discard, DiscardRow, Editable
<1>7. ASSUME NEW p \in Post, InsertSegment(p) PROVE Authored
  <2>1. req.st \in {"draft", "scheduled"}
    BY DEF IInv, TypeOK, Request
  <2> QED
    BY <1>0, <1>7, <2>1 DEF InsertSegment, InsertRow, RowsTypeOK
<1>8. ASSUME NEW p \in Post, Schedule(p) PROVE Authored
  BY <1>0, <1>8 DEF Schedule, ScheduleRows, Put, Editable, RowsTypeOK
<1>9. ASSUME NEW p \in Post, Cancel(p) PROVE Authored
  BY <1>0, <1>9 DEF Cancel, CancelRows, Put, RowsTypeOK
<1>10. ASSUME NEW p \in Post, EditOne(p) PROVE Authored
  BY <1>0, <1>10 DEF EditOne, EditRow, Editable, RowsTypeOK
<1>11. ASSUME NEW p \in Post, Requeue(p) \/ Review(p) PROVE Authored
  BY <1>0, <1>11 DEF Requeue, RequeueRow, Review, ReviewRow, RowsTypeOK
<1>12. ASSUME NEW p \in Post, EditThread(p) PROVE Authored
  <2>1. PICK n \in 1..MaxSteps :
          \E line \in [1..n -> Post] :
            \E st \in {"draft", "scheduled"}, sl \in {"later", "due"} :
              RewriteRows(root[p], line, st, sl)
    BY <1>12 DEF EditThread
  <2>2. PICK line \in [1..n -> Post], st \in {"draft", "scheduled"}, sl \in {"later", "due"} :
          RewriteRows(root[p], line, st, sl)
    BY <2>1
  <2>3. PICK T \in SUBSET Post : T = ThreadOf(root[p])
    BY DEF ThreadOf
  <2> DEFINE New == {line[i] : i \in DOMAIN line}
  <2>4. /\ \A q \in T : status[q] \in Editable
        /\ \A q \in New : q \in T \/ status[q] = "absent"
    BY <2>2, <2>3 DEF RewriteRows, Deletable, Rewrites
  <2>5. /\ status' = [q \in Post |-> IF q \in New THEN st
                                     ELSE IF q \in T \ New THEN "gone" ELSE status[q]]
        /\ text' = [q \in Post |-> IF q \in New THEN text[q] + 1 ELSE text[q]]
        /\ \A q \in Post : q \notin New => parent'[q] = parent[q]
        /\ ext' = ext \ (T \ New)
    BY <2>2, <2>3 DEF RewriteRows
  <2>6. UNCHANGED cycle
    BY <1>12 DEF EditThread
  <2> HIDE DEF New
  <2> QED
    BY <2>4, <2>5, <2>6 DEF Editable
<1> QED
  BY <1>1, <1>4, <1>5, <1>6, <1>7, <1>8, <1>9, <1>10, <1>11, <1>12 DEF RequestStep

(* What a step does to one row. *)
Kept(p) ==
  /\ status[p] = "published" =>
       /\ status'[p] = "published"
       /\ text'[p] = text[p] /\ parent'[p] = parent[p]
       /\ (p \in ext') = (p \in ext)
  /\ (status[p] = "publishing" /\ status'[p] # "publishing") =>
       \/ p = cur /\ pc \in {"mark", "fail", "defer"}
       \/ p \in aged /\ pc = "idle"

LEMMA NextKeeps ==
  ASSUME IInv, [Next]_vars, NEW p \in Post PROVE Kept(p)
<1>0. RowsTypeOK
  BY DEF IInv, TypeOK
<1>1. ASSUME UNCHANGED rows PROVE Kept(p)
  BY <1>1 DEF rows, Kept
<1>2. ASSUME pc \in {"mark", "fail", "defer"} PROVE cur \in Post /\ status[cur] = "publishing"
  BY <1>2 DEF IInv, WorkInv, TypeOK, CycleTypeOK, Processing
<1>3. ASSUME WorkerStep PROVE Kept(p)
  <2>1. CASE Select \/ LoadClaimed \/ ClaimDone \/ EndTick \/ NotSent \/ PublishOk \/ PublishError
    BY <1>1, <2>1 DEF Select, LoadClaimed, ClaimDone, EndTick, NotSent, PublishOk, PublishError
  <2>2. ASSUME NEW q \in Post, Begin(q) PROVE Kept(p)
    BY <1>1, <2>2 DEF Begin
  <2>3. ASSUME NEW q \in Post, Claim(q) PROVE Kept(p)
    <3>1. CASE status[q] = "scheduled" /\ ClaimRow(q)
      BY <1>0, <3>1 DEF ClaimRow, links, Kept, RowsTypeOK
    <3>2. CASE UNCHANGED rows
      BY <1>1, <3>2
    <3> QED
      BY <2>3, <3>1, <3>2 DEF Claim
  <2>4. CASE Recover
    BY <1>0, <2>4 DEF Recover, RecoverRows, Put, links, Kept, RowsTypeOK
  <2>5. CASE Mark
    BY <1>0, <1>2, <2>5 DEF Mark, MarkPublished, links, Kept, RowsTypeOK
  <2>6. CASE RecordFailure
    <3>1. CASE RetryRow(cur)
      BY <1>0, <1>2, <2>6, <3>1 DEF RecordFailure, RetryRow, links, Kept, RowsTypeOK
    <3>2. CASE GiveUpRow(cur)
      <4>1. pc = "fail" /\ status[cur] = "publishing"
        BY <1>2, <2>6 DEF RecordFailure
      <4>2. \A d \in BlockedBy(cur) : status[d] = "scheduled"
        BY <4>1, BlockedAreQueued
      <4> QED
        BY <3>2, <4>1, <4>2 DEF GiveUpRow, Put, links, Kept
    <3> QED
      BY <2>6, <3>1, <3>2 DEF RecordFailure
  <2>7. CASE Defer
    BY <1>0, <1>2, <2>7 DEF Defer, DeferRow, links, Kept, RowsTypeOK
  <2> QED
    BY <1>3, <2>1, <2>2, <2>3, <2>4, <2>5, <2>6, <2>7 DEF WorkerStep
<1>4. ASSUME FaultStep \/ Crash \/ UNCHANGED vars PROVE Kept(p)
  BY <1>1, <1>4
     DEF FaultStep, RecoverError, ClaimError, AnswerLost, OutcomeError, Panic, Crash, vars, rows
<1>5. ASSUME ClockStep PROVE Kept(p)
  BY <1>5 DEF ClockStep, Age, SlotComes, RetryComes, rows, links, Kept
<1>6. ASSUME RequestStep PROVE Kept(p)
  BY <1>6, RequestAuthors DEF Authored, Kept
<1> QED
  BY <1>3, <1>4, <1>5, <1>6 DEF Next

(* A published row is final. *)
THEOREM PublishedStays == Spec => PublishedIsFinal
<1>1. IInv /\ [Next]_vars =>
        [\A p \in Post : status[p] = "published" =>
           /\ status'[p] = "published"
           /\ text'[p] = text[p] /\ parent'[p] = parent[p]
           /\ (p \in ext') = (p \in ext)]_vars
  BY NextKeeps DEF Kept
<1> QED
  BY <1>1, Invariance, PTL DEF Spec, PublishedIsFinal

(* Nothing but its own outcome or its recovery takes a post out of           *)
(* 'publishing'. *)
THEOREM SettledByOutcome == Spec => OnlyOutcomeSettles
<1>1. IInv /\ [Next]_vars =>
        [\A p \in Post : (status[p] = "publishing" /\ status'[p] # "publishing") =>
           \/ p = cur /\ pc \in {"mark", "fail", "defer"}
           \/ p \in aged /\ pc = "idle"]_vars
  BY NextKeeps DEF Kept
<1> QED
  BY <1>1, Invariance, PTL DEF Spec, OnlyOutcomeSettles

-----------------------------------------------------------------------------
(* Publishing implements Delivery.  The state of Delivery, as the refinement *)
(* mapping of Publishing computes it. *)
stageBar == [p \in Post |-> StageOf(status[p])]
receiptsBar == IF pc = "mark" THEN {cur} ELSE {}

LEMMA Stages ==
  \A s \in Status :
    /\ StageOf(s) \in D!Stage
    /\ s = "absent" <=> StageOf(s) = "unborn"
    /\ s \in {"draft", "canceled"} <=> StageOf(s) = "shelf"
    /\ s = "scheduled" <=> StageOf(s) = "queue"
    /\ s = "publishing" <=> StageOf(s) = "sending"
    /\ s = "published" <=> StageOf(s) = "delivered"
    /\ s = "failed" <=> StageOf(s) = "dead"
    /\ s = "gone" <=> StageOf(s) = "gone"
  BY DEF Status, StageOf, D!Stage

(* A step that moves no row to another stage and sends nothing is a stutter. *)
LEMMA Stutter ==
  ASSUME UNCHANGED <<status, sent, lost>>, pc = "mark" <=> pc' = "mark",
         pc = "mark" => cur' = cur
  PROVE  UNCHANGED D!dvars
  BY DEF D!dvars

LEMMA RequestRefines ==
  ASSUME IInv, RequestStep PROVE D!Author
<1>1. Authored
  BY RequestAuthors
<1>2. status \in [Post -> Status] /\ status' \in [Post -> Status]
  <2>1. IInv'
    BY NextIInv DEF Next
  <2> QED
    BY <2>1 DEF IInv, TypeOK, RowsTypeOK
<1>3. UNCHANGED <<sent, lost, pc, cur>>
  BY <1>1 DEF Authored, cycle
<1>4. ASSUME NEW p \in Post, StageOf(status'[p]) # StageOf(status[p])
      PROVE  /\ StageOf(status[p]) \in {"unborn", "shelf", "queue", "dead"}
             /\ StageOf(status'[p]) \in {"shelf", "queue", "gone"}
  <2>1. status[p] \in Status /\ status'[p] \in Status /\ status'[p] # status[p]
    BY <1>2, <1>4
  <2> QED
    BY <1>1, <2>1, Stages DEF Authored
<1>5. \A p \in Post : StageOf(status'[p]) \in D!Stage
  BY <1>2, Stages
<1> QED
  BY <1>3, <1>4, <1>5 DEF D!Author

(* The outcome of the post in hand. *)
LEMMA OutcomeRefines ==
  ASSUME IInv, Mark \/ RecordFailure \/ Defer PROVE D!Next
<1>1. cur \in Post /\ status[cur] = "publishing" /\ status \in [Post -> Status]
  BY DEF IInv, WorkInv, TypeOK, CycleTypeOK, RowsTypeOK, Processing, Mark, RecordFailure, Defer
<1>2. pc' = "next" /\ UNCHANGED <<sent, lost>>
  BY DEF Mark, RecordFailure, Defer, NextPost, history
<1>3. StageOf(status[cur]) = "sending"
  BY <1>1, Stages
<1>9. StageOf("scheduled") = "queue" /\ StageOf("published") = "delivered"
  BY DEF StageOf
<1>4. CASE Mark
  <2>1. stageBar' = [stageBar EXCEPT ![cur] = "delivered"]
    BY <1>1, <1>4, <1>9 DEF Mark, MarkPublished, stageBar
  <2>2. pc = "mark"
    BY <1>4 DEF Mark
  <2>3. D!Deliver(cur)
    BY <1>1, <1>2, <1>3, <2>1, <2>2 DEF D!Deliver, stageBar
  <2> QED
    BY <1>1, <2>3 DEF D!Next
<1>5. ASSUME status' = [status EXCEPT ![cur] = "scheduled"], pc # "mark"
      PROVE  D!Next
  <2>1. stageBar' = [stageBar EXCEPT ![cur] = "queue"]
    BY <1>1, <1>5, <1>9 DEF stageBar
  <2>2. D!Return(cur)
    BY <1>1, <1>2, <1>3, <1>5, <2>1 DEF D!Return, stageBar
  <2> QED
    BY <1>1, <2>2 DEF D!Next
<1>6. CASE RecordFailure /\ RetryRow(cur)
  BY <1>5, <1>6 DEF RecordFailure, RetryRow
<1>7. CASE Defer
  BY <1>1, <1>5, <1>7 DEF Defer, DeferRow
<1>8. CASE RecordFailure /\ GiveUpRow(cur)
  <2>1. pc = "fail"
    BY <1>8 DEF RecordFailure
  <2>2. \A d \in BlockedBy(cur) : d \in Post /\ status[d] = "scheduled"
    BY <2>1, BlockedAreQueued
  <2> DEFINE S == {cur} \cup BlockedBy(cur)
  <2>3. S \in SUBSET Post /\ cur \in S /\ \A p \in S : status[p] \in {"publishing", "scheduled"}
    BY <1>1, <2>2
  <2>4. status' = [p \in Post |-> IF p \in S THEN "failed" ELSE status[p]]
    BY <1>8 DEF GiveUpRow, Put
  <2> HIDE DEF S
  <2>5. \A p \in S : StageOf(status[p]) \in {"sending", "queue"}
    BY <2>3, Stages DEF Status
  <2>6. stageBar' = [p \in Post |-> IF p \in S THEN "dead" ELSE StageOf(status[p])]
    BY <2>4, Stages DEF stageBar, Status
  <2>7. D!GiveUp(S)
    BY <1>2, <1>3, <2>1, <2>3, <2>5, <2>6 DEF D!GiveUp, stageBar
  <2> QED
    BY <2>3, <2>7 DEF D!Next
<1> QED
  BY <1>4, <1>6, <1>7, <1>8 DEF RecordFailure

(* The network call, and answers that get lost. *)
LEMMA SendRefines ==
  ASSUME IInv, PublishOk \/ AnswerLost PROVE D!Next
<1>1. pc \in Processing /\ pc # "mark" /\ UNCHANGED <<status, cur>>
  BY DEF PublishOk, AnswerLost, Processing, rows
<1>2. cur \in Post /\ StageOf(status[cur]) = "sending"
  <2>1. cur \in Post /\ status[cur] = "publishing"
    BY <1>1 DEF IInv, WorkInv, TypeOK, CycleTypeOK
  <2> QED
    BY <2>1, Stages DEF Status
<1>3. sent' = [sent EXCEPT ![cur] = @ + 1]
  BY DEF PublishOk, AnswerLost, Send
<1>4. CASE PublishOk
  <2>1. pc' = "mark" /\ lost' = lost
    BY <1>4 DEF PublishOk
  <2>2. D!Emit(cur)
    BY <1>1, <1>2, <1>3, <2>1 DEF D!Emit
  <2> QED
    BY <1>2, <2>2 DEF D!Next
<1>5. CASE AnswerLost
  <2>1. pc' # "mark" /\ lost' = [lost EXCEPT ![cur] = @ + 1]
    BY <1>5 DEF AnswerLost
  <2>2. D!EmitUnheard(cur)
    BY <1>1, <1>2, <1>3, <2>1 DEF D!EmitUnheard
  <2> QED
    BY <1>2, <2>2 DEF D!Next
<1> QED
  BY <1>4, <1>5

LEMMA LossRefines ==
  ASSUME IInv, LoseAnswer, UNCHANGED <<status, sent>>, pc' # "mark"
  PROVE  [D!Next]_(D!dvars)
<1>1. lost \in [Post -> Nat]
  BY DEF IInv, TypeOK, CycleTypeOK
<1>2. CASE pc = "mark"
  <2>1. cur \in Post
    BY <1>2 DEF IInv, WorkInv, TypeOK, CycleTypeOK, Processing
  <2>2. lost' = [lost EXCEPT ![cur] = @ + 1]
    BY <1>1, <1>2, <2>1 DEF LoseAnswer
  <2>3. D!LoseReceipt(cur)
    BY <1>2, <2>1, <2>2 DEF D!LoseReceipt
  <2> QED
    BY <2>1, <2>3 DEF D!Next
<1>3. CASE pc # "mark"
  <2>1. lost' = lost
    BY <1>1, <1>3 DEF LoseAnswer
  <2> QED
    BY <1>3, <2>1, Stutter
<1> QED
  BY <1>2, <1>3

LEMMA RecoverRefines ==
  ASSUME IInv, Recover PROVE [D!Next]_(D!dvars)
<1> DEFINE S == {p \in aged : status[p] = "publishing"}
<1>1. /\ pc = "idle" /\ pc' = "select" /\ UNCHANGED <<sent, lost>>
      /\ status' = [p \in Post |-> IF p \in S THEN "failed" ELSE status[p]]
  BY DEF Recover, RecoverRows, Put, history
<1>2. S \in SUBSET Post /\ \A p \in S : status[p] = "publishing"
  BY DEF IInv, TypeOK, CycleTypeOK
<1> HIDE DEF S
<1>3. CASE S = {}
  <2>1. status' = status
    BY <1>1, <1>3 DEF IInv, TypeOK, RowsTypeOK
  <2> QED
    BY <1>1, <2>1, Stutter
<1>4. CASE S # {}
  <2>1. \A p \in S : StageOf(status[p]) = "sending"
    BY <1>2, Stages DEF Status
  <2>2. stageBar' = [p \in Post |-> IF p \in S THEN "dead" ELSE StageOf(status[p])]
    BY <1>1, Stages DEF stageBar, Status
  <2>3. D!GiveUp(S)
    BY <1>1, <1>2, <1>4, <2>1, <2>2 DEF D!GiveUp, stageBar
  <2> QED
    BY <1>2, <2>3 DEF D!Next
<1> QED
  BY <1>3, <1>4

LEMMA NextRefines ==
  ASSUME IInv, [Next]_vars PROVE [D!Next]_(D!dvars)
<1>1. ASSUME WorkerStep PROVE [D!Next]_(D!dvars)
  <2>1. CASE Select \/ LoadClaimed \/ ClaimDone \/ EndTick \/ NotSent \/ PublishError
    BY <2>1, Stutter
       DEF Select, LoadClaimed, ClaimDone, EndTick, NotSent, PublishError, Forget, rows, history
  <2>2. ASSUME NEW p \in Post, Begin(p) PROVE [D!Next]_(D!dvars)
    BY <2>2, Stutter DEF Begin, rows, history
  <2>3. ASSUME NEW p \in Post, Claim(p) PROVE [D!Next]_(D!dvars)
    <3>1. CASE status[p] = "scheduled"
      <4>1. /\ status \in [Post -> Status] /\ status' = [status EXCEPT ![p] = "publishing"]
            /\ pc = "claim" /\ pc' = "load" /\ UNCHANGED <<sent, lost>>
        BY <2>3, <3>1 DEF Claim, ClaimRow, history, IInv, TypeOK, RowsTypeOK
      <4>2. StageOf("scheduled") = "queue" /\ StageOf("publishing") = "sending"
        BY DEF StageOf
      <4>3. D!Take(p)
        BY <3>1, <4>1, <4>2 DEF D!Take
      <4> QED
        BY <4>3 DEF D!Next
    <3>2. CASE status[p] # "scheduled"
      BY <2>3, <3>2, Stutter DEF Claim, rows, history
    <3> QED
      BY <3>1, <3>2
  <2>4. CASE Recover
    BY <2>4, RecoverRefines
  <2>5. CASE PublishOk
    BY <2>5, SendRefines
  <2>6. CASE Mark \/ RecordFailure \/ Defer
    BY <2>6, OutcomeRefines
  <2> QED
    BY <1>1, <2>1, <2>2, <2>3, <2>4, <2>5, <2>6 DEF WorkerStep
<1>2. ASSUME FaultStep PROVE [D!Next]_(D!dvars)
  <2>1. CASE RecoverError \/ ClaimError
    BY <2>1, Stutter DEF RecoverError, ClaimError, Forget, rows, history
  <2>2. CASE AnswerLost
    BY <2>2, SendRefines
  <2>3. CASE OutcomeError \/ Panic
    BY <2>3, LossRefines DEF OutcomeError, Panic, Forget, NextPost, rows
  <2> QED
    BY <1>2, <2>1, <2>2, <2>3 DEF FaultStep
<1>3. ASSUME ClockStep PROVE [D!Next]_(D!dvars)
  BY <1>3, Stutter
     DEF ClockStep, Age, SlotComes, RetryComes, cycle, rows, history, worker, links
<1>4. ASSUME RequestStep PROVE [D!Next]_(D!dvars)
  BY <1>4, RequestRefines DEF D!Next
<1>5. ASSUME Crash PROVE [D!Next]_(D!dvars)
  BY <1>5, LossRefines DEF Crash, Forget, rows
<1>6. ASSUME UNCHANGED vars PROVE [D!Next]_(D!dvars)
  BY <1>6, Stutter DEF vars, rows, cycle
<1> QED
  BY <1>1, <1>2, <1>3, <1>4, <1>5, <1>6 DEF Next

(* Publishing implements Delivery: what a client sees of a post is the        *)
(* simple life cycle of Delivery, whatever threads, retries, recoveries and   *)
(* crashes happen underneath. *)
THEOREM ImplementsDelivery == Spec => KeepsDeliveryPromise
<1>1. Init => D!Init
  <2>1. StageOf("absent") = "unborn"
    BY DEF StageOf
  <2> QED
    BY <2>1 DEF Init, RowsInit, CycleInit, D!Init
<1>2. IInv /\ [Next]_vars => [D!Next]_(D!dvars)
  BY NextRefines
<1> QED
  BY <1>1, <1>2, Invariance, PTL DEF Spec, KeepsDeliveryPromise, D!Spec
=============================================================================
