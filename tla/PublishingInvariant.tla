------------------------ MODULE PublishingInvariant ------------------------
(***************************************************************************)
(* The inductive invariant behind the safety properties of Publishing.     *)
(*                                                                         *)
(* FailedHasDeadLetter, CopiesAccounted and the others are not inductive:  *)
(* they hold because threads are well formed (Shape), because whatever the *)
(* worker has picked or claimed had its way clear and nothing can block it *)
(* again (ReadyInv), and because the rows of the batch are out of reach of *)
(* every request (WorkInv).                                                *)
(***************************************************************************)
EXTENDS Publishing

(* Threads.  Every row leads to its root; a row without a parent is its      *)
(* thread's root; a parent that still exists is the step before; positions   *)
(* are distinct; a reference may dangle but never points at an unused id.    *)
RootsOK ==
  \A p \in Post : Exists(p) =>
    /\ status[root[p]] # "absent"
    /\ Exists(root[p]) => root[root[p]] = root[p] /\ parent[root[p]] = NoPost

ParentsOK ==
  \A p \in Post : Exists(p) =>
    /\ parent[p] = NoPost => root[p] = p /\ pos[p] = 1
    /\ parent[p] # NoPost =>
         /\ status[parent[p]] # "absent"
         /\ Exists(parent[p]) => root[parent[p]] = root[p] /\ pos[p] = pos[parent[p]] + 1

PositionsOK ==
  \A p, q \in Post :
    (Exists(p) /\ Exists(q) /\ root[p] = root[q] /\ pos[p] = pos[q]) => p = q

Shape == RootsOK /\ ParentsOK /\ PositionsOK

(* The creation in progress appends behind everything its thread has. *)
ReqInv ==
  req.phase = "insert" =>
    /\ req.left > 0
    /\ req.root = NoPost <=> req.last = NoPost
    /\ req.root = NoPost => req.at = 1
    /\ req.root # NoPost =>
         /\ req.at > 1
         /\ status[req.root] # "absent" /\ status[req.last] # "absent"
         /\ Exists(req.root) => root[req.root] = req.root /\ parent[req.root] = NoPost
         /\ Exists(req.last) => root[req.last] = req.root /\ pos[req.last] + 1 = req.at
         /\ \A q \in Post : (Exists(q) /\ root[q] = req.root) => pos[q] < req.at

(* A row the worker has selected, claimed or published. *)
Active(p) == Exists(p) /\ (p \in picked \/ status[p] \in {"publishing", "published"})

Out(p) == status[p] = "published" /\ p \in ext

(* Nothing of the thread is missing before p. *)
Ready(p) ==
  /\ parent[p] # NoPost => Out(parent[p]) /\ Out(root[p])
  /\ \A q \in Post : (Exists(q) /\ root[q] = root[p] /\ pos[q] < pos[p]) => Out(q)

ReadyInv == \A p \in Post : Active(p) => Ready(p)

ExtPublished == \A p \in ext : status[p] = "published"

(* What the goroutine holds at each of its control points. *)
Processing == {"publish", "republish", "mark", "fail", "defer"}

WorkInv ==
  /\ \A p \in batch : status[p] = "publishing" /\ snap[p] = Load(p)
  /\ aged \subseteq {p \in Post : status[p] = "publishing"}
  /\ pc \in {"idle", "select"} => batch = {}
  /\ pc \notin {"claim", "load"} => picked = {}
  /\ \A p \in picked : status[p] # "absent"
  /\ pc \in Processing => cur \in batch
  /\ pc = "load" => cur \in Post /\ status[cur] = "publishing" /\ cur \notin batch
  /\ pc = "mark" => said[cur] = snap[cur].text

IInv ==
  /\ TypeOK
  /\ Shape
  /\ ReqInv
  /\ ReadyInv
  /\ ExtPublished
  /\ WorkInv
  /\ AttemptsLeft
  /\ FailedHasDeadLetter
  /\ CopiesAccounted
  /\ PublishedAsWritten
=============================================================================
