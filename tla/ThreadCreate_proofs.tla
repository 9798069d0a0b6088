------------------------ MODULE ThreadCreate_proofs ------------------------
(***************************************************************************)
(* Proofs about ThreadCreate, for any number of requests, keys, accounts,  *)
(* segments, deletions and errors.                                         *)
(*                                                                         *)
(* OnePostPerKey is kept by the unique index.  StepFollowsStep is not      *)
(* inductive alone: a request in progress hangs its next segment on the    *)
(* rows it remembers, so the invariant says what these are (Chain), that   *)
(* the memory is wiped between accounts, and that a request that has not   *)
(* begun has no rows.                                                      *)
(***************************************************************************)
EXTENDS ThreadCreate, TLAPS

(* What a request knows before it looks for or inserts the step l.step, of   *)
(* the statuses st and the keys ks.                                          *)
Chain(l, k, st, ks) ==
  /\ l.step = 1 => l.root = NoRow
  /\ l.step > 1 =>
       /\ l.prev \in Row /\ l.prev[2] = l.account /\ l.prev[3] + 1 = l.step
       /\ ks[l.prev[1]] = k /\ st[l.prev] # "none"
       /\ l.root \in Row /\ l.root[2] = l.account /\ l.root[3] = 1
       /\ ks[l.root[1]] = k /\ st[l.root] # "none"

LocalOK(l, k, st, ks) ==
  /\ l.pc = "account" => l.step = 1 /\ l.root = NoRow
  /\ l.pc \in {"find", "insert"} => Chain(l, k, st, ks)

LocalInv == \A r \in Request : LocalOK(req[r], key[r], state, key)
NewInv   == \A p \in Row : key[p[1]] = NoKey => state[p] = "none"

CreateInv == TypeOK /\ OnePostPerKey /\ StepFollowsStep /\ LocalInv /\ NewInv

-----------------------------------------------------------------------------
(* What a row is, and that NoRow is none. *)
LEMMA RowParts ==
  /\ \A p \in Row : p[1] \in Request /\ p[2] \in Account /\ p[3] \in Step
  /\ NoRow \notin Row
  /\ 1 \in Account /\ 1 \in Step
  /\ \A r \in Request, a \in Account, s \in Step : <<r, a, s>> \in Row
BY CreateAssumption DEF Row, NoRow, Account, Step

LEMMA FreshType == Fresh \in Locals /\ \A pc \in {"answered", "failed", "gone"} :
                     Ended(pc) \in Locals /\ Ended(pc).pc = pc
BY RowParts DEF Fresh, Locals, Ended

LEMMA InitCreateInv == Init => CreateInv
<1> SUFFICES ASSUME Init PROVE CreateInv
    OBVIOUS
<1>1. TypeOK
  BY FreshType, CreateAssumption DEF Init, TypeOK, Fresh
<1>2. OnePostPerKey /\ StepFollowsStep
  BY DEF Init, OnePostPerKey, StepFollowsStep, Present
<1>3. LocalInv /\ NewInv
  BY DEF Init, LocalInv, LocalOK, NewInv, Fresh
<1> QED  BY <1>1, <1>2, <1>3 DEF CreateInv

-----------------------------------------------------------------------------
(* No row appears, and at most the request r moves on. *)
LEMMA OldRowsStep ==
  ASSUME CreateInv, UNCHANGED <<root, prev, key>>,
         state' \in [Row -> {"none", "queued", "out", "gone"}],
         \A p \in Row : /\ state'[p] = "none" <=> state[p] = "none"
                        /\ Present(p)' => Present(p),
         NEW r \in Request, NEW l \in Locals, Put(r, l),
         l.pc = "new" <=> key[r] = NoKey, LocalOK(l, key[r], state, key),
         conn' \in Request \cup {NoOne}, ops' \in Nat, faults' \in Nat
  PROVE  CreateInv'
<1>1. /\ req' = [req EXCEPT ![r] = l] /\ req \in [Request -> Locals]
      /\ root' = root /\ prev' = prev /\ key' = key
  BY DEF Put, CreateInv, TypeOK
<1>2. TypeOK'
  BY <1>1 DEF CreateInv, TypeOK
<1>3. OnePostPerKey'
  BY <1>1 DEF CreateInv, OnePostPerKey
<1>4. StepFollowsStep'
  <2>1. \A p \in Row : p[3] > 1 /\ prev[p][3] + 1 = p[3] => prev[p] \in Row
    BY RowParts DEF CreateInv, TypeOK, NoRow, Step
  <2> QED  BY <1>1, <2>1 DEF CreateInv, TypeOK, StepFollowsStep
<1>5. LocalInv'
  <2> SUFFICES ASSUME NEW s \in Request PROVE LocalOK(req[s], key[s], state, key)'
      BY DEF LocalInv
  <2>1. LocalOK(req'[s], key[s], state, key)
    BY <1>1 DEF CreateInv, LocalInv
  <2>2. Chain(req'[s], key[s], state, key) => Chain(req'[s], key[s], state', key)
    BY DEF Chain
  <2> QED  BY <1>1, <2>1, <2>2 DEF LocalOK
<1>6. NewInv'
  BY <1>1 DEF CreateInv, NewInv
<1> QED  BY <1>2, <1>3, <1>4, <1>5, <1>6 DEF CreateInv

(* A request moves on and no row changes. *)
LEMMA QuietStep ==
  ASSUME CreateInv, UNCHANGED <<posts, key>>,
         NEW r \in Request, NEW l \in Locals, Put(r, l),
         key[r] # NoKey, l.pc # "new", LocalOK(l, key[r], state, key),
         conn' \in Request \cup {NoOne}, ops' \in Nat, faults' \in Nat
  PROVE  CreateInv'
<1>1. state' = state /\ root' = root /\ prev' = prev /\ key' = key
      /\ state \in [Row -> {"none", "queued", "out", "gone"}]
  BY DEF posts, CreateInv, TypeOK
<1>2. \A p \in Row : Present(p)' => Present(p)
  BY <1>1 DEF Present
<1> QED  BY <1>1, <1>2, OldRowsStep

(* What is known of a request that has begun. *)
LEMMA Running ==
  ASSUME CreateInv, NEW r \in Request, req[r].pc # "new"
  PROVE  /\ req[r] \in Locals /\ key[r] # NoKey /\ LocalOK(req[r], key[r], state, key)
         /\ conn \in Request \cup {NoOne} /\ ops \in Nat /\ faults \in Nat
BY DEF CreateInv, TypeOK, LocalInv

LEMMA NextAccountOK ==
  ASSUME NEW l \in Locals, NEW k, NEW st, NEW ks
  PROVE  /\ NextAccount(l) \in Locals /\ NextAccount(l).pc \in {"account", "answered"}
         /\ LocalOK(NextAccount(l), k, st, ks)
<1>1. CASE l.account = NumAccounts
  <2>1. Answer(l) \in Locals /\ Answer(l).pc = "answered"
    BY FreshType DEF Answer, Locals, Ended, Fresh
  <2> QED  BY <1>1, <2>1 DEF NextAccount, LocalOK
<1>2. CASE l.account # NumAccounts
  <2>1. l.account + 1 \in Account  BY <1>2, CreateAssumption DEF Locals, Account
  <2> DEFINE m == [l EXCEPT !.pc = "account", !.account = @ + 1, !.step = 1,
                            !.root = NoRow, !.prev = NoRow]
  <2>2. m \in Locals /\ m.pc = "account" /\ m.step = 1 /\ m.root = NoRow
    BY <2>1, RowParts DEF Locals
  <2>3. NextAccount(l) = m  BY <1>2 DEF NextAccount
  <2> HIDE DEF m
  <2> QED  BY <2>2, <2>3 DEF LocalOK
<1> QED  BY <1>1, <1>2

(* Going on behind a row of the step at hand. *)
LEMMA ContinueOK ==
  ASSUME NEW l \in Locals, NEW p \in Row, NEW k, NEW st, NEW ks, Chain(l, k, st, ks),
         p[2] = l.account, p[3] = l.step, ks[p[1]] = k, st[p] # "none"
  PROVE  /\ Continue(l, p) \in Locals /\ Continue(l, p).pc # "new"
         /\ LocalOK(Continue(l, p), k, st, ks)
<1> DEFINE m == [l EXCEPT !.pc = "find", !.root = IF l.step = 1 THEN p ELSE @,
                          !.prev = p, !.items = @ \cup {p}]
           n == [m EXCEPT !.step = @ + 1]
<1>1. m \in Locals  BY DEF Locals
<1>2. CASE l.step = NumSteps
  <2>1. Continue(l, p) = NextAccount(m)  BY <1>2 DEF Continue
  <2> HIDE DEF m
  <2> QED  BY <1>1, <2>1, NextAccountOK
<1>3. CASE l.step # NumSteps
  <2>1. l.step \in 1..NumSteps /\ l.step + 1 \in Step /\ l.step + 1 > 1
    BY <1>3, CreateAssumption DEF Locals, Step
  <2>2. /\ n \in Locals /\ n.pc = "find" /\ n.step = l.step + 1 /\ n.prev = p
        /\ n.account = l.account /\ n.root = IF l.step = 1 THEN p ELSE l.root
    BY <1>1, <2>1 DEF Locals
  <2>3. Continue(l, p) = n  BY <1>3 DEF Continue
  <2> HIDE DEF n
  <2>4. Chain(n, k, st, ks)
    <3>1. CASE l.step = 1  BY <2>1, <2>2, <3>1 DEF Chain
    <3>2. CASE l.step > 1  BY <2>1, <2>2, <3>2 DEF Chain
    <3> QED  BY <2>1, <3>1, <3>2
  <2> QED  BY <2>2, <2>3, <2>4 DEF LocalOK
<1> QED  BY <1>2, <1>3

-----------------------------------------------------------------------------
(* The steps of a request.                                                 *)

(* Rows of other requests are all a request that begins finds. *)
LEMMA BeginStep ==
  ASSUME CreateInv, NEW r \in Request, Begin(r)
  PROVE  CreateInv'
<1> DEFINE l == [Fresh EXCEPT !.pc = "account"]
<1>1. PICK k \in Key : key' = [key EXCEPT ![r] = k]
  BY DEF Begin
<1>2. /\ req' = [req EXCEPT ![r] = l] /\ req \in [Request -> Locals]
      /\ state' = state /\ root' = root /\ prev' = prev /\ conn' = conn
      /\ ops' = ops /\ faults' = faults /\ key[r] = NoKey /\ req[r].pc = "new"
  BY DEF Begin, Put, posts, CreateInv, TypeOK
<1>3. l \in Locals /\ l.pc = "account" /\ l.step = 1 /\ l.root = NoRow
  BY FreshType DEF Locals, Fresh
<1> HIDE DEF l
<1>4. \A p \in Row : state[p] # "none" => p[1] # r /\ key'[p[1]] = key[p[1]]
  BY <1>1, <1>2, RowParts DEF CreateInv, NewInv, TypeOK
<1>5. TypeOK'
  BY <1>1, <1>2, <1>3, CreateAssumption DEF CreateInv, TypeOK
<1>6. OnePostPerKey'
  BY <1>2, <1>4 DEF CreateInv, OnePostPerKey, Present
<1>7. StepFollowsStep'
  <2>1. \A p \in Row : p[3] > 1 /\ prev[p][3] + 1 = p[3] => prev[p] \in Row
    BY RowParts DEF CreateInv, TypeOK, NoRow, Step
  <2> QED  BY <1>2, <1>4, <2>1 DEF CreateInv, TypeOK, StepFollowsStep, Present
<1>8. LocalInv'
  <2> SUFFICES ASSUME NEW s \in Request PROVE LocalOK(req[s], key[s], state, key)'
      BY DEF LocalInv
  <2>1. CASE s = r  BY <1>1, <1>2, <1>3, <2>1 DEF LocalOK
  <2>2. CASE s # r
    <3>1. req'[s] = req[s] /\ key'[s] = key[s] /\ LocalOK(req[s], key[s], state, key)
      BY <1>1, <1>2, <2>2 DEF CreateInv, LocalInv, TypeOK
    <3>2. Chain(req[s], key[s], state, key) => Chain(req[s], key[s], state, key')
      BY <1>4 DEF Chain
    <3> QED  BY <1>2, <3>1, <3>2 DEF LocalOK
  <2> QED  BY <2>1, <2>2
<1>9. NewInv'
  BY <1>1, <1>2, <1>4 DEF CreateInv, NewInv, TypeOK
<1> QED  BY <1>5, <1>6, <1>7, <1>8, <1>9 DEF CreateInv

LEMMA FindThreadStep ==
  ASSUME CreateInv, NEW r \in Request, FindThread(r)
  PROVE  CreateInv'
<1> DEFINE l == req[r]
           H == Holders(key[r], l.account, 1)
<1>1. /\ l \in Locals /\ key[r] # NoKey /\ l.step = 1 /\ l.root = NoRow
      /\ conn' \in Request \cup {NoOne} /\ ops' \in Nat /\ faults' \in Nat
      /\ UNCHANGED <<posts, key>>
  BY Running DEF FindThread, At, LocalOK
<1>2. \/ Put(r, [l EXCEPT !.pc = "find"])
      \/ \E p \in H : Put(r, [l EXCEPT !.pc = "list", !.root = root[p]])
  BY DEF FindThread
<1>3. CASE Put(r, [l EXCEPT !.pc = "find"])
  <2> DEFINE m == [l EXCEPT !.pc = "find"]
  <2>1. m \in Locals /\ m.pc = "find" /\ m.step = 1 /\ m.root = NoRow
    BY <1>1 DEF Locals
  <2>2. LocalOK(m, key[r], state, key)  BY <2>1 DEF LocalOK, Chain
  <2> HIDE DEF m, l
  <2> QED  BY <1>1, <1>3, <2>1, <2>2, QuietStep DEF m
<1>4. ASSUME NEW p \in H, Put(r, [l EXCEPT !.pc = "list", !.root = root[p]])
      PROVE  CreateInv'
  <2> DEFINE m == [l EXCEPT !.pc = "list", !.root = root[p]]
  <2>1. root[p] \in Row  BY DEF H, Holders, CreateInv, TypeOK
  <2>2. m \in Locals /\ m.pc = "list"
    BY <1>1, <2>1 DEF Locals
  <2>3. LocalOK(m, key[r], state, key)  BY <2>2 DEF LocalOK
  <2> HIDE DEF m, l
  <2> QED  BY <1>1, <1>4, <2>2, <2>3, QuietStep DEF m
<1> QED  BY <1>2, <1>3, <1>4

LEMMA ListThreadStep ==
  ASSUME CreateInv, NEW r \in Request, ListThread(r)
  PROVE  CreateInv'
<1> DEFINE m == [req[r] EXCEPT !.items = @ \cup ThreadOf(req[r].root)]
<1>1. /\ req[r] \in Locals /\ key[r] # NoKey /\ Put(r, NextAccount(m))
      /\ conn' \in Request \cup {NoOne} /\ ops' \in Nat /\ faults' \in Nat
      /\ UNCHANGED <<posts, key>>
  BY Running DEF ListThread, At
<1>2. m \in Locals  BY <1>1 DEF Locals, ThreadOf
<1> HIDE DEF m
<1> QED  BY <1>1, <1>2, NextAccountOK, QuietStep

LEMMA FindStepStep ==
  ASSUME CreateInv, NEW r \in Request, FindStep(r)
  PROVE  CreateInv'
<1> DEFINE l == req[r]
           H == Holders(key[r], l.account, l.step)
<1>1. /\ l \in Locals /\ key[r] # NoKey /\ Chain(l, key[r], state, key)
      /\ conn' \in Request \cup {NoOne} /\ ops' \in Nat /\ faults' \in Nat
      /\ UNCHANGED <<posts, key>>
  BY Running DEF FindStep, At, LocalOK
<1>2. \/ Put(r, [l EXCEPT !.pc = "insert"])
      \/ \E p \in H : Put(r, Continue(l, p))
  BY DEF FindStep
<1>3. CASE Put(r, [l EXCEPT !.pc = "insert"])
  <2> DEFINE m == [l EXCEPT !.pc = "insert"]
  <2>1. /\ m \in Locals /\ m.pc = "insert" /\ m.step = l.step /\ m.account = l.account
        /\ m.root = l.root /\ m.prev = l.prev
    BY <1>1 DEF Locals
  <2>2. LocalOK(m, key[r], state, key)  BY <1>1, <2>1 DEF LocalOK, Chain
  <2> HIDE DEF m, l
  <2> QED  BY <1>1, <1>3, <2>1, <2>2, QuietStep DEF m
<1>4. ASSUME NEW p \in H, Put(r, Continue(l, p))
      PROVE  CreateInv'
  <2>1. /\ p \in Row /\ p[2] = l.account /\ p[3] = l.step /\ key[p[1]] = key[r]
        /\ state[p] # "none"
    BY DEF H, Holders, Present
  <2> HIDE DEF l
  <2> QED  BY <1>1, <1>4, <2>1, ContinueOK, QuietStep
<1> QED  BY <1>2, <1>3, <1>4

(* A row is inserted, and its request goes on. *)
LEMMA InsertRowStep ==
  ASSUME CreateInv, NEW r \in Request, req[r].pc = "insert", Unique(r), InsertRow(r),
         NEW l \in Locals, Put(r, l), UNCHANGED <<key, conn, ops>>, faults' \in Nat,
         l.pc # "new", LocalOK(l, key[r], state', key)
  PROVE  CreateInv'
<1> DEFINE p == NewRow(r)
           a == req[r].account
           s == req[r].step
<1>1. /\ req[r] \in Locals /\ key[r] # NoKey /\ Chain(req[r], key[r], state, key)
  BY Running DEF LocalOK
<1>2. p \in Row /\ p[1] = r /\ p[2] = a /\ p[3] = s /\ a \in Account /\ s \in Step
  BY <1>1, RowParts DEF NewRow, Locals
<1>3. /\ state \in [Row -> {"none", "queued", "out", "gone"}] /\ root \in [Row -> Row]
      /\ prev \in [Row -> Row \cup {NoRow}] /\ req \in [Request -> Locals]
      /\ conn' = conn /\ key' = key
  BY DEF CreateInv, TypeOK
<1>4. /\ state' = [state EXCEPT ![p] = "queued"]
      /\ root' = [root EXCEPT ![p] = IF req[r].root = NoRow THEN p ELSE req[r].root]
      /\ prev' = [prev EXCEPT ![p] = IF req[r].step = 1 THEN NoRow ELSE req[r].prev]
      /\ req' = [req EXCEPT ![r] = l]
  BY DEF InsertRow, Put
<1>5. \A q \in Row : Present(q) /\ key[q[1]] = key[r] => ~(q[2] = a /\ q[3] = s)
  BY DEF Unique, Holders
<1> HIDE DEF p, a, s
<1>6. /\ req[r].root \in Row \cup {NoRow} /\ req[r].prev \in Row \cup {NoRow}
      /\ \A q \in Row : q # p => state'[q] = state[q] /\ root'[q] = root[q] /\ prev'[q] = prev[q]
      /\ state'[p] = "queued"
      /\ \A q \in Row : state[q] # "none" => state'[q] # "none"
  BY <1>1, <1>2, <1>3, <1>4 DEF Locals
<1>7. TypeOK'
  BY <1>1, <1>2, <1>3, <1>4, <1>6 DEF CreateInv, TypeOK
<1>8. OnePostPerKey'
  <2> SUFFICES ASSUME NEW q \in Row, NEW t \in Row, Present(q)', Present(t)',
                      key[q[1]] = key[t[1]], q[2] = t[2], q[3] = t[3]
               PROVE  q = t
      BY <1>3 DEF OnePostPerKey
  <2>1. CASE q = p \/ t = p
    BY <1>2, <1>5, <1>6, <2>1 DEF Present
  <2>2. CASE q # p /\ t # p
    BY <1>6, <2>2 DEF CreateInv, OnePostPerKey, Present
  <2> QED  BY <2>1, <2>2
<1>9. StepFollowsStep'
  <2> SUFFICES ASSUME NEW q \in Row, Present(q)'
               PROVE  /\ q[3] = 1 => prev'[q] = NoRow /\ root'[q] = q
                      /\ q[3] > 1 => /\ prev'[q][2] = q[2] /\ prev'[q][3] + 1 = q[3]
                                     /\ root'[q][2] = q[2] /\ root'[q][3] = 1
                                     /\ key[prev'[q][1]] = key[q[1]]
                                     /\ key[root'[q][1]] = key[q[1]]
                                     /\ state'[prev'[q]] # "none" /\ state'[root'[q]] # "none"
      BY <1>3 DEF StepFollowsStep
  <2>1. CASE q = p
    <3>1. CASE s = 1
      BY <1>1, <1>2, <1>3, <1>4, <2>1, <3>1 DEF Chain, s
    <3>2. CASE s > 1
      <4>1. /\ root'[p] = req[r].root /\ prev'[p] = req[r].prev
        BY <1>1, <1>2, <1>3, <1>4, <3>2, RowParts DEF Chain, s
      <4> QED  BY <1>1, <1>2, <1>6, <2>1, <3>2, <4>1 DEF Chain, s, a
    <3> QED  BY <1>2, <2>1, <3>1, <3>2 DEF Step
  <2>2. CASE q # p
    <3>1. Present(q) /\ root'[q] = root[q] /\ prev'[q] = prev[q]
      BY <1>6, <2>2 DEF Present
    <3>2. q[3] > 1 => prev[q] \in Row /\ root[q] \in Row
      BY <1>3, <3>1, RowParts DEF CreateInv, StepFollowsStep, NoRow, Step
    <3> QED  BY <1>6, <3>1, <3>2 DEF CreateInv, StepFollowsStep
  <2> QED  BY <2>1, <2>2
<1>10. LocalInv'
  <2> SUFFICES ASSUME NEW q \in Request PROVE LocalOK(req[q], key[q], state, key)'
      BY DEF LocalInv
  <2>1. CASE q = r  BY <1>3, <1>4, <2>1
  <2>2. CASE q # r
    <3>1. req'[q] = req[q] /\ LocalOK(req[q], key[q], state, key)
      BY <1>3, <1>4, <2>2 DEF CreateInv, LocalInv
    <3>2. Chain(req[q], key[q], state, key) => Chain(req[q], key[q], state', key)
      BY <1>6 DEF Chain
    <3> QED  BY <1>3, <3>1, <3>2 DEF LocalOK
  <2> QED  BY <2>1, <2>2
<1>11. NewInv'
  BY <1>1, <1>2, <1>3, <1>6 DEF CreateInv, NewInv
<1> QED  BY <1>7, <1>8, <1>9, <1>10, <1>11 DEF CreateInv

LEMMA InsertStep ==
  ASSUME CreateInv, NEW r \in Request, Insert(r)
  PROVE  CreateInv'
<1> DEFINE l == [req[r] EXCEPT !.made = @ \cup {NewRow(r)}]
           p == NewRow(r)
<1>1. /\ req[r] \in Locals /\ key[r] # NoKey /\ Chain(req[r], key[r], state, key)
      /\ Unique(r) /\ InsertRow(r) /\ Put(r, Continue(l, p)) /\ req[r].pc = "insert"
      /\ UNCHANGED <<key, conn, ops>> /\ faults' \in Nat
      /\ state \in [Row -> {"none", "queued", "out", "gone"}]
  BY Running DEF Insert, At, LocalOK, CreateInv, TypeOK
<1>2. p \in Row /\ p[1] = r /\ p[2] = req[r].account /\ p[3] = req[r].step
  BY <1>1, RowParts DEF NewRow, Locals
<1>3. /\ l \in Locals /\ l.account = req[r].account /\ l.step = req[r].step
      /\ l.root = req[r].root /\ l.prev = req[r].prev
  BY <1>1, <1>2 DEF Locals
<1>4. /\ state'[p] = "queued"
      /\ \A q \in Row : state[q] # "none" => state'[q] # "none"
  BY <1>1, <1>2 DEF InsertRow
<1> HIDE DEF l, p
<1>5. Chain(l, key[r], state', key)
  BY <1>1, <1>3, <1>4 DEF Chain
<1>6. /\ Continue(l, p) \in Locals /\ Continue(l, p).pc # "new"
      /\ LocalOK(Continue(l, p), key[r], state', key)
  BY <1>2, <1>3, <1>4, <1>5, ContinueOK
<1> QED  BY <1>1, <1>6, InsertRowStep

(* The ways in which a request ends or stops: of its locals only the control *)
(* point, and what it made or answers with, matter no more.                  *)
LEMMA Parked ==
  ASSUME CreateInv, NEW r \in Request, req[r].pc # "new", NEW st,
         NEW l, \/ \E pc \in {"answered", "failed", "gone"} : l = Ended(pc)
                \/ \E pc \in {"stuck", "rollback"} : l = [req[r] EXCEPT !.pc = pc]
                \/ \E d \in SUBSET Row : /\ req[r].pc = "rollback"
                                         /\ l = [req[r] EXCEPT !.made = @ \ d]
  PROVE  l \in Locals /\ l.pc # "new" /\ LocalOK(l, key[r], st, key)
<1>1. l \in Locals /\ l.pc \in {"answered", "failed", "gone", "stuck", "rollback"}
  <2>1. req[r] \in Locals  BY DEF CreateInv, TypeOK
  <2>2. ASSUME NEW pc \in {"answered", "failed", "gone"}, l = Ended(pc)
        PROVE  l \in Locals /\ l.pc \in {"answered", "failed", "gone", "stuck", "rollback"}
    BY <2>2, FreshType
  <2>3. ASSUME NEW pc \in {"stuck", "rollback"}, l = [req[r] EXCEPT !.pc = pc]
        PROVE  l \in Locals /\ l.pc \in {"answered", "failed", "gone", "stuck", "rollback"}
    BY <2>1, <2>3 DEF Locals
  <2>4. ASSUME NEW d \in SUBSET Row, req[r].pc = "rollback", l = [req[r] EXCEPT !.made = @ \ d]
        PROVE  l \in Locals /\ l.pc \in {"answered", "failed", "gone", "stuck", "rollback"}
    BY <2>1, <2>4 DEF Locals
  <2> QED  BY <2>2, <2>3, <2>4
<1> QED  BY <1>1 DEF LocalOK

LEMMA RefusedStep ==
  ASSUME CreateInv, NEW r \in Request, Refused(r)
  PROVE  CreateInv'
<1> DEFINE l == [req[r] EXCEPT !.pc = "stuck"]
<1>1. /\ UNCHANGED <<posts, key>> /\ Put(r, l) /\ key[r] # NoKey /\ req[r].pc # "new"
      /\ conn' \in Request \cup {NoOne} /\ ops' \in Nat /\ faults' \in Nat
  BY Running DEF Refused, At
<1>2. l \in Locals /\ l.pc # "new" /\ LocalOK(l, key[r], state, key)
  BY <1>1, Parked
<1> HIDE DEF l
<1> QED  BY <1>1, <1>2, QuietStep

LEMMA LookupErrorStep ==
  ASSUME CreateInv, NEW r \in Request, LookupError(r)
  PROVE  CreateInv'
<1>1. /\ UNCHANGED <<posts, key>> /\ Put(r, Ended("failed")) /\ key[r] # NoKey
      /\ req[r].pc # "new"
      /\ conn' \in Request \cup {NoOne} /\ ops' \in Nat /\ faults' \in Nat
  BY Running DEF LookupError, Fault
<1>2. /\ Ended("failed") \in Locals /\ Ended("failed").pc # "new"
      /\ LocalOK(Ended("failed"), key[r], state, key)
  BY <1>1, Parked
<1> QED  BY <1>1, <1>2, QuietStep

LEMMA DisconnectStep ==
  ASSUME CreateInv, NEW r \in Request, Disconnect(r)
  PROVE  CreateInv'
<1>1. /\ UNCHANGED <<posts, key>> /\ Put(r, Ended("gone")) /\ key[r] # NoKey
      /\ req[r].pc # "new"
      /\ conn' \in Request \cup {NoOne} /\ ops' \in Nat /\ faults' \in Nat
  BY Running DEF Disconnect
<1>2. /\ Ended("gone") \in Locals /\ Ended("gone").pc # "new"
      /\ LocalOK(Ended("gone"), key[r], state, key)
  BY <1>1, Parked
<1> QED  BY <1>1, <1>2, QuietStep

LEMMA CreateErrorStep ==
  ASSUME CreateInv, NEW r \in Request, CreateError(r)
  PROVE  CreateInv'
<1> DEFINE l == IF req[r].made = {} THEN Ended("failed") ELSE [req[r] EXCEPT !.pc = "rollback"]
<1>1. /\ Put(r, l) /\ key[r] # NoKey /\ req[r].pc # "new" /\ UNCHANGED <<key, conn, ops>>
      /\ conn \in Request \cup {NoOne} /\ ops \in Nat /\ faults' \in Nat
      /\ \/ UNCHANGED posts
         \/ req[r].pc = "insert" /\ Unique(r) /\ InsertRow(r)
  BY Running DEF CreateError, Fault
<1>2. /\ l \in Locals /\ l.pc # "new"
      /\ LocalOK(l, key[r], state, key) /\ LocalOK(l, key[r], state', key)
  <2>1. CASE req[r].made = {}  BY <1>1, <2>1, Parked
  <2>2. CASE req[r].made # {}  BY <1>1, <2>2, Parked
  <2> QED  BY <2>1, <2>2
<1> HIDE DEF l
<1>3. CASE UNCHANGED posts
  BY <1>1, <1>2, <1>3, QuietStep
<1>4. CASE req[r].pc = "insert" /\ Unique(r) /\ InsertRow(r)
  BY <1>1, <1>2, <1>4, InsertRowStep
<1> QED  BY <1>1, <1>3, <1>4

-----------------------------------------------------------------------------
(* The steps in which rows are deleted or published.                       *)

(* What a thread deletion does to the rows. *)
LEMMA DeleteRows ==
  ASSUME CreateInv, NEW p \in Row, DeleteThread(p)
  PROVE  /\ state' \in [Row -> {"none", "queued", "out", "gone"}]
         /\ \A q \in Row : /\ state'[q] = "none" <=> state[q] = "none"
                           /\ Present(q)' => Present(q)
<1>1. state \in [Row -> {"none", "queued", "out", "gone"}]
  BY DEF CreateInv, TypeOK
<1>2. /\ state' = [q \in Row |-> IF q \in ThreadOf(root[p]) THEN "gone" ELSE state[q]]
      /\ \A q \in ThreadOf(root[p]) : state[q] # "none"
  BY DEF DeleteThread, ThreadOf, Present
<1> QED  BY <1>1, <1>2 DEF Present

LEMMA RollbackStep ==
  ASSUME CreateInv, NEW r \in Request, Rollback(r)
  PROVE  CreateInv'
<1>1. PICK p \in req[r].made :
        /\ DeleteThread(p) \/ UNCHANGED state
        /\ Put(r, IF req[r].made = {p} THEN Ended("failed")
                  ELSE [req[r] EXCEPT !.made = @ \ {p}])
  BY DEF Rollback
<1> DEFINE l == IF req[r].made = {p} THEN Ended("failed") ELSE [req[r] EXCEPT !.made = @ \ {p}]
<1>2. /\ UNCHANGED <<root, prev, key>> /\ req[r] \in Locals /\ key[r] # NoKey
      /\ req[r].pc = "rollback"
      /\ conn' \in Request \cup {NoOne} /\ ops' \in Nat /\ faults' \in Nat
      /\ state \in [Row -> {"none", "queued", "out", "gone"}]
  BY Running DEF Rollback, At, CreateInv, TypeOK
<1>3. p \in Row  BY <1>2 DEF Locals
<1>4. l \in Locals /\ l.pc # "new" /\ LocalOK(l, key[r], state, key)
  <2>1. CASE req[r].made = {p}  BY <1>2, <2>1, Parked
  <2>2. CASE req[r].made # {p}
    <3>1. {p} \in SUBSET Row  BY <1>3
    <3> QED  BY <1>2, <2>2, <3>1, Parked
  <2> QED  BY <2>1, <2>2
<1>5. /\ state' \in [Row -> {"none", "queued", "out", "gone"}]
      /\ \A q \in Row : /\ state'[q] = "none" <=> state[q] = "none"
                        /\ Present(q)' => Present(q)
  <2>1. CASE DeleteThread(p)  BY <1>3, <2>1, DeleteRows
  <2>2. CASE UNCHANGED state  BY <1>2, <2>2 DEF Present
  <2> QED  BY <1>1, <2>1, <2>2
<1>6. Put(r, l)  BY <1>1
<1> HIDE DEF l
<1> QED  BY <1>2, <1>4, <1>5, <1>6, OldRowsStep

(* Nobody's request moves. *)
LEMMA OthersStep ==
  ASSUME CreateInv, NEW p \in Row, Delete(p) \/ Discard(p) \/ Publish(p)
  PROVE  CreateInv'
<1> DEFINE r == p[1]
<1>1. r \in Request  BY RowParts
<1>2. /\ req[r] \in Locals /\ LocalOK(req[r], key[r], state, key) /\ Put(r, req[r])
      /\ req[r].pc = "new" <=> key[r] = NoKey
  BY <1>1 DEF CreateInv, TypeOK, LocalInv, Delete, Discard, Publish, Put
<1>3. /\ UNCHANGED <<root, prev, key>>
      /\ conn' \in Request \cup {NoOne} /\ ops' \in Nat /\ faults' \in Nat
  BY DEF Delete, Discard, Publish, Op, CreateInv, TypeOK
<1>4. /\ state' \in [Row -> {"none", "queued", "out", "gone"}]
      /\ \A q \in Row : /\ state'[q] = "none" <=> state[q] = "none"
                        /\ Present(q)' => Present(q)
  <2>1. CASE Delete(p)  BY <2>1, DeleteRows DEF Delete
  <2>2. CASE Discard(p) \/ Publish(p)
    BY <2>2 DEF Discard, Publish, CreateInv, TypeOK, Present
  <2> QED  BY <2>1, <2>2
<1> HIDE DEF r
<1> QED  BY <1>1, <1>2, <1>3, <1>4, OldRowsStep

-----------------------------------------------------------------------------
LEMMA CreateStep ==
  ASSUME CreateInv, [Next]_vars
  PROVE  CreateInv'
<1>1. ASSUME NEW r \in Request, RequestStep(r)
      PROVE  CreateInv'
  BY <1>1, FindThreadStep, ListThreadStep, FindStepStep, InsertStep, RefusedStep,
     RollbackStep DEF RequestStep
<1>2. CASE UNCHANGED vars
  BY <1>2 DEF vars, posts, CreateInv, TypeOK, OnePostPerKey, StepFollowsStep, LocalInv,
              LocalOK, Chain, NewInv, Present
<1> QED  BY <1>1, <1>2, BeginStep, CreateErrorStep, LookupErrorStep, DisconnectStep,
            OthersStep DEF Next

(* The invariant holds of every state. *)
THEOREM CreateInvariance == Spec => []CreateInv
BY InitCreateInv, CreateStep, PTL DEF Spec

(* Every state is well typed, the loops over accounts and segments included. *)
THEOREM CreateTypes == Spec => []TypeOK
<1>1. CreateInv => TypeOK  BY DEF CreateInv
<1> QED  BY <1>1, CreateInvariance, PTL

(* However many repetitions of a request overlap, fail and are rolled back,  *)
(* no two posts have the key of one account and segment.                     *)
THEOREM NoSecondPost == Spec => []OnePostPerKey
<1>1. CreateInv => OnePostPerKey  BY DEF CreateInv
<1> QED  BY <1>1, CreateInvariance, PTL

(* A thread that several repetitions have inserted the segments of is one:   *)
(* each follows a segment before it, of its key and account, to a first one. *)
THEOREM ThreadsHoldTogether == Spec => []StepFollowsStep
<1>1. CreateInv => StepFollowsStep  BY DEF CreateInv
<1> QED  BY <1>1, CreateInvariance, PTL
=============================================================================
