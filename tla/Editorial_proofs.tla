--------------------------- MODULE Editorial_proofs ---------------------------
(***************************************************************************)
(* What the editorial side keeps: the campaigns with their drafts, and the *)
(* gate that judges the drafts.                                            *)
(*                                                                         *)
(* Campaigns is proved for any number of posts, requests, accounts,        *)
(* campaigns, texts, slots, windows and faults.  Its properties are about  *)
(* the tables and do not hold inductively: CampaignsInv says what each     *)
(* request in progress knows of the posts it has read.                     *)
(*                                                                         *)
(* SafetyGate is proved for any number of posts, texts, API sweeps, batch  *)
(* size, requests and faults, as the instance Gate: its definitions and    *)
(* those of Campaigns have names in common.  The two specifications are    *)
(* not composed here, every theorem is about one of them.                  *)
(***************************************************************************)
EXTENDS Campaigns, CampaignPosts, FiniteSetTheorems, SequenceTheorems, TLAPS

USE CampaignsAssumption

(* Seq by another name: a step that only says a request is one need not know *)
(* what a list is, and the provers are lost when they do.                    *)
ListOf(S) == Seq(S)

(* A request, whatever it is doing. *)
Requests ==
  [op : {"none", "update", "schedule", "edit", "create", "plan", "drafts"},
   at : {"idle", "write", "post", "campaign", "ids", "posts", "check", "generate", "insert"},
   campaign : Campaign \cup {NoCampaign}, was : Status, asked : Status \cup {Own},
   todo : ListOf(Post), slot : Slot \cup {Kept}, text : Text \cup {Own}, ids : SUBSET Post,
   cur : Edit, ready : ListOf(Edit), keyed : BOOLEAN, left : ListOf(Account \X Item),
   got : ListOf((Account \X Item) \X Post), late : BOOLEAN]

Rescheduling(q) == q.op \in {"schedule", "edit"}

(* Where a request can be, and what it has in hand there. *)
Shape(q) ==
  /\ q.op = "none" => q.at = "idle"
  /\ q.op = "update" => q.at = "write" /\ q.campaign \in Campaign
  /\ Rescheduling(q) =>
       /\ q.at \in {"post", "campaign", "ids", "posts", "write"}
       /\ q.at # "write" => Len(q.todo) > 0
       /\ q.at = "write" => Len(q.ready) > 0
       /\ q.at \in {"campaign", "ids", "posts"} => q.cur.post # 0 /\ q.cur.slot # 0
  /\ q.op = "schedule" => q.slot \notin {0, Kept} /\ q.text = Own
                          /\ \A i \in DOMAIN q.ready : q.ready[i].slot # 0
  /\ q.op = "create" => q.at \in {"check", "insert"} /\ q.cur.missed = Post
  /\ q.op = "plan" => q.at \in {"ids", "posts", "check", "insert"} /\ q.cur.post = 0
  /\ q.op = "drafts" =>
       /\ q.at \in {"generate", "check", "insert"} /\ Len(q.left) > 0
       /\ q.at # "generate" => q.cur.account = Head(q.left)[1] /\ q.cur.slot = 0
  /\ q.op # "drafts" => ~q.keyed
  /\ q.late => /\ q.at \in {"campaign", "ids", "posts", "check"}
               /\ Rescheduling(q) => q.at = "campaign"

(* The posts P, the campaigns C and the blind pairs B are arguments: most    *)
(* lemmas are about a table before and after a statement.                    *)
There(P, p) == P[p].stage \notin {"absent", "gone"}

(* What a check has against q, for an edit that gives a time. *)
Near(P, e, q) ==
  /\ P[q].account = e.account /\ P[q].slot # 0
  /\ \/ Distance(P[q].slot, e.slot) <= Apart
     \/ Distance(P[q].slot, e.slot) <= Recent /\ P[q].text = e.text

(* The check of e passed over no post but those changed since, and those to  *)
(* be looked at.                                                             *)
Cleared(P, e, ids) ==
  \A q \in Post \ (e.missed \cup ids) : q # e.post /\ There(P, q) => ~Near(P, e, q)

(* The edit is of a post that was read, and has not changed unseen. *)
Read(P, e, op) ==
  /\ e.post # 0 /\ P[e.post].stage # "absent" /\ e.account = P[e.post].account
  /\ op = "schedule" /\ e.post \notin e.missed => e.text = P[e.post].text

Checks(P, q) ==
  /\ Rescheduling(q) =>
       /\ q.at \in {"campaign", "ids", "posts"} => Read(P, q.cur, q.op)
       /\ \A i \in DOMAIN q.ready :
            Read(P, q.ready[i], q.op) /\ (q.ready[i].slot # 0 => Cleared(P, q.ready[i], {}))
  /\ q.op \in {"schedule", "edit", "plan"} /\ q.at = "posts" => Cleared(P, q.cur, q.ids)
  /\ q.op = "plan" /\ q.at \in {"check", "insert"} => Cleared(P, q.cur, {})

(* The drafts answered so far. *)
Answers(P, q) ==
  \A i \in DOMAIN q.got :
    P[q.got[i][2]].stage # "absent"
    /\ <<P[q.got[i][2]].account, P[q.got[i][2]].item>> = q.got[i][1]

Late(C, q) == q.late => q.campaign \in Campaign /\ C[q.campaign] = "archived"

RequestOK(P, C, q) == q \in Requests /\ Shape(q) /\ Checks(P, q) /\ Answers(P, q) /\ Late(C, q)

Close(P, p, q) ==
  /\ P[p].account = P[q].account
  /\ \/ Distance(P[p].slot, P[q].slot) <= Apart
     \/ Distance(P[p].slot, P[q].slot) <= Recent /\ P[p].text = P[q].text

PostsOK(P, B) ==
  /\ P \in [Post -> Posts] /\ B \subseteq SUBSET Post
  /\ \A p \in Post :
       /\ P[p].stage = "scheduled" => P[p].slot # 0
       /\ P[p].key # NoKey => P[p].key = <<P[p].account, P[p].item>>
  /\ \A p, q \in Post : p # q =>
       /\ There(P, p) /\ There(P, q) /\ P[p].key # NoKey => P[p].key # P[q].key
       /\ P[p].stage = "scheduled" /\ P[q].stage = "scheduled" /\ Close(P, p, q) => {p, q} \in B

CampaignsInv ==
  /\ campaign \in [Campaign -> Status]
  /\ PostsOK(post, blind)
  /\ req \in [Request -> Requests]
  /\ \A r \in Request : RequestOK(post, campaign, req[r])
  /\ ops \in 0..MaxOps /\ faults \in 0..MaxFaults

-----------------------------------------------------------------------------
LEMMA NoEditFacts ==
  /\ NoEdit \in Edit /\ NoEdit.post = 0 /\ NoEdit.slot = 0 /\ NoEdit.missed = {}
  /\ NoEdit.account = Own /\ NoEdit.text = Own
BY DEF NoEdit, Edit, Slot

LEMMA IdleFacts ==
  /\ Idle \in Requests /\ Idle.op = "none" /\ Idle.at = "idle" /\ ~Idle.keyed /\ ~Idle.late
  /\ Idle.got = <<>> /\ Idle.ready = <<>> /\ Idle.left = <<>> /\ Idle.cur = NoEdit
  /\ Idle.campaign = NoCampaign /\ Idle.was = "active" /\ Idle.asked = Own /\ Idle.todo = <<>>
  /\ Idle.slot = 0 /\ Idle.text = Own /\ Idle.ids = {}
BY NoEditFacts DEF Idle, Requests, ListOf, Slot, Status

LEMMA IdleOK ==
  ASSUME NEW P, NEW C
  PROVE  RequestOK(P, C, Idle)
BY IdleFacts DEF RequestOK, Shape, Checks, Answers, Late, Rescheduling

(* What a change of p does to a request that has checked edits. *)
Aged(q, p) ==
  [q EXCEPT !.cur = Overtaken(@, p), !.ready = [i \in DOMAIN @ |-> Overtaken(@[i], p)]]

LEMMA OvertakenFields ==
  ASSUME NEW e \in Edit, NEW p \in Post
  PROVE  LET n == Overtaken(e, p)
         IN  /\ n \in Edit /\ n.post = e.post /\ n.account = e.account
             /\ n.text = e.text /\ n.slot = e.slot /\ n.missed = e.missed \cup {p}
BY DEF Overtaken, Edit

LEMMA TouchedIsAged ==
  ASSUME NEW rest \in [Request -> Requests], NEW p, NEW r \in Request
  PROVE  Touched(p, rest)[r] = IF rest[r].op \in {"schedule", "edit", "plan"}
                               THEN Aged(rest[r], p) ELSE rest[r]
BY DEF Touched, Aged

LEMMA AgedFields ==
  ASSUME NEW q \in Requests, NEW p \in Post
  PROVE  LET n == Aged(q, p)
         IN  /\ n \in Requests
             /\ n.op = q.op /\ n.at = q.at /\ n.campaign = q.campaign /\ n.todo = q.todo
             /\ n.slot = q.slot /\ n.text = q.text /\ n.ids = q.ids /\ n.keyed = q.keyed
             /\ n.left = q.left /\ n.got = q.got /\ n.late = q.late
             /\ n.cur.post = q.cur.post /\ n.cur.account = q.cur.account
             /\ n.cur.text = q.cur.text /\ n.cur.slot = q.cur.slot
             /\ n.cur.missed = q.cur.missed \cup {p}
             /\ DOMAIN n.ready = DOMAIN q.ready /\ Len(n.ready) = Len(q.ready)
             /\ \A i \in DOMAIN q.ready :
                  /\ n.ready[i].post = q.ready[i].post /\ n.ready[i].account = q.ready[i].account
                  /\ n.ready[i].text = q.ready[i].text /\ n.ready[i].slot = q.ready[i].slot
                  /\ n.ready[i].missed = q.ready[i].missed \cup {p}
<1> DEFINE c == Overtaken(q.cur, p)
           s == [i \in DOMAIN q.ready |-> Overtaken(q.ready[i], p)]
<1>1. Aged(q, p) = [q EXCEPT !.cur = c, !.ready = s]
  BY DEF Aged
<1>2. /\ q.cur \in Edit /\ q.ready \in Seq(Edit)
      /\ \A i \in DOMAIN q.ready : q.ready[i] \in Edit
  BY DEF Requests, ListOf
<1>3. /\ c \in Edit /\ c.post = q.cur.post /\ c.account = q.cur.account
      /\ c.text = q.cur.text /\ c.slot = q.cur.slot /\ c.missed = q.cur.missed \cup {p}
  BY <1>2, OvertakenFields
<1>4. \A i \in DOMAIN q.ready :
        /\ s[i] \in Edit
        /\ s[i].post = q.ready[i].post /\ s[i].account = q.ready[i].account
        /\ s[i].text = q.ready[i].text /\ s[i].slot = q.ready[i].slot
        /\ s[i].missed = q.ready[i].missed \cup {p}
  BY <1>2, OvertakenFields
<1>5. s \in Seq(Edit) /\ DOMAIN s = DOMAIN q.ready /\ Len(s) = Len(q.ready)
  BY <1>2, <1>4
<1> HIDE DEF c, s
<1>6. Aged(q, p) \in Requests
  <2>1. s \in ListOf(Edit)
    BY <1>5 DEF ListOf
  <2> QED
    BY <1>1, <1>3, <2>1, ZenonT(60) DEF Requests
<1>7. /\ Aged(q, p).cur = c /\ Aged(q, p).ready = s
      /\ Aged(q, p).op = q.op /\ Aged(q, p).at = q.at /\ Aged(q, p).campaign = q.campaign
      /\ Aged(q, p).todo = q.todo /\ Aged(q, p).slot = q.slot
  BY <1>1 DEF Requests
<1>8. /\ Aged(q, p).text = q.text /\ Aged(q, p).ids = q.ids /\ Aged(q, p).keyed = q.keyed
      /\ Aged(q, p).left = q.left /\ Aged(q, p).got = q.got /\ Aged(q, p).late = q.late
  BY <1>1 DEF Requests
<1> QED
  BY <1>3, <1>4, <1>5, <1>6, <1>7, <1>8

LEMMA GotPosts ==
  ASSUME NEW q \in Requests, NEW i \in DOMAIN q.got
  PROVE  q.got[i][2] \in Post /\ q.got[i][1] \in Account \X Item
<1>1. q.got \in Seq((Account \X Item) \X Post)
  BY DEF Requests, ListOf
<1>2. q.got[i] \in (Account \X Item) \X Post
  BY <1>1
<1> QED
  BY <1>2

(* A statement has changed the one post p: it has not brought it back to     *)
(* where it was absent, nor given it to another account.                     *)
Rewritten(P, Q, p) ==
  /\ \A x \in Post : x # p => Q[x] = P[x]
  /\ P[p].stage # "absent" =>
       Q[p].stage # "absent" /\ Q[p].account = P[p].account /\ Q[p].item = P[p].item

LEMMA RewrittenAnswers ==
  ASSUME NEW P, NEW Q, NEW p \in Post, Rewritten(P, Q, p),
         NEW q \in Requests, NEW n, n.got = q.got, Answers(P, q)
  PROVE  Answers(Q, n)
<1> SUFFICES ASSUME NEW i \in DOMAIN q.got
             PROVE  /\ Q[q.got[i][2]].stage # "absent"
                    /\ <<Q[q.got[i][2]].account, Q[q.got[i][2]].item>> = q.got[i][1]
  BY DEF Answers
<1>1. q.got[i][2] \in Post
  BY GotPosts
<1>2. /\ P[q.got[i][2]].stage # "absent"
      /\ <<P[q.got[i][2]].account, P[q.got[i][2]].item>> = q.got[i][1]
  BY DEF Answers
<1> QED
  BY <1>1, <1>2 DEF Rewritten

LEMMA AgedOK ==
  ASSUME NEW P, NEW Q, NEW C, NEW p \in Post, Rewritten(P, Q, p),
         NEW q, RequestOK(P, C, q), q.op \in {"schedule", "edit", "plan"}
  PROVE  RequestOK(Q, C, Aged(q, p))
<1> DEFINE n == Aged(q, p)
<1>1. q \in Requests /\ Shape(q) /\ Checks(P, q) /\ Answers(P, q) /\ Late(C, q)
  BY DEF RequestOK
<1>2. /\ n \in Requests
      /\ n.op = q.op /\ n.at = q.at /\ n.campaign = q.campaign /\ n.todo = q.todo
      /\ n.slot = q.slot /\ n.text = q.text /\ n.ids = q.ids /\ n.keyed = q.keyed
      /\ n.left = q.left /\ n.got = q.got /\ n.late = q.late
      /\ n.cur.post = q.cur.post /\ n.cur.account = q.cur.account
      /\ n.cur.text = q.cur.text /\ n.cur.slot = q.cur.slot
      /\ n.cur.missed = q.cur.missed \cup {p}
      /\ DOMAIN n.ready = DOMAIN q.ready /\ Len(n.ready) = Len(q.ready)
      /\ \A i \in DOMAIN q.ready :
           /\ n.ready[i].post = q.ready[i].post /\ n.ready[i].account = q.ready[i].account
           /\ n.ready[i].text = q.ready[i].text /\ n.ready[i].slot = q.ready[i].slot
           /\ n.ready[i].missed = q.ready[i].missed \cup {p}
  BY <1>1, AgedFields
<1> HIDE DEF n
<1>3. Shape(n)
  BY <1>1, <1>2 DEF Shape, Rescheduling
<1>4. Late(C, n)
  BY <1>1, <1>2 DEF Late
<1>5. Answers(Q, n)
  BY <1>1, <1>2, RewrittenAnswers
<1>6. ASSUME NEW e, NEW f, NEW op, f.post = e.post, f.account = e.account, f.text = e.text,
             f.slot = e.slot, f.missed = e.missed \cup {p}, e.post \in Post \cup {0}
      PROVE  /\ Read(P, e, op) => Read(Q, f, op)
             /\ \A ids : Cleared(P, e, ids) => Cleared(Q, f, ids)
  <2>1. Read(P, e, op) => Read(Q, f, op)
    BY <1>6 DEF Read, Rewritten
  <2>2. \A ids : Cleared(P, e, ids) => Cleared(Q, f, ids)
    BY <1>6 DEF Cleared, Rewritten, Near, There
  <2> QED
    BY <2>1, <2>2
<1>7. q.cur.post \in Post \cup {0} /\ \A i \in DOMAIN q.ready : q.ready[i].post \in Post \cup {0}
  <2>1. q.cur \in Edit /\ q.ready \in Seq(Edit)
    BY <1>1 DEF Requests, ListOf
  <2>2. \A i \in DOMAIN q.ready : q.ready[i] \in Edit
    BY <2>1
  <2> QED
    BY <2>1, <2>2 DEF Edit
<1>8. /\ Read(P, q.cur, q.op) => Read(Q, n.cur, n.op)
      /\ \A ids : Cleared(P, q.cur, ids) => Cleared(Q, n.cur, ids)
  BY <1>2, <1>6, <1>7
<1>9. \A i \in DOMAIN q.ready :
        /\ Read(P, q.ready[i], q.op) => Read(Q, n.ready[i], n.op)
        /\ Cleared(P, q.ready[i], {}) => Cleared(Q, n.ready[i], {})
  BY <1>2, <1>6, <1>7
<1>10. Checks(Q, n)
  BY <1>1, <1>2, <1>8, <1>9 DEF Checks, Rescheduling
<1> QED
  BY <1>2, <1>3, <1>4, <1>5, <1>10 DEF RequestOK, n

LEMMA UntouchedOK ==
  ASSUME NEW P, NEW Q, NEW C, NEW p \in Post, Rewritten(P, Q, p),
         NEW q, RequestOK(P, C, q), q.op \notin {"schedule", "edit", "plan"}
  PROVE  RequestOK(Q, C, q)
BY RewrittenAnswers DEF RequestOK, Checks, Rescheduling

(* Posts have been moved on, or put in a campaign. *)
Moved(P, Q) ==
  \A x \in Post :
    /\ Q[x].account = P[x].account /\ Q[x].text = P[x].text /\ Q[x].slot = P[x].slot
    /\ Q[x].key = P[x].key /\ Q[x].item = P[x].item
    /\ Q[x].stage = "absent" <=> P[x].stage = "absent"
    /\ There(Q, x) => There(P, x)
    /\ Q[x].stage = "scheduled" => P[x].stage = "scheduled"

LEMMA EditPosts ==
  ASSUME NEW q \in Requests
  PROVE  /\ q.cur \in Edit /\ q.cur.post \in Post \cup {0}
         /\ \A i \in DOMAIN q.ready : q.ready[i] \in Edit /\ q.ready[i].post \in Post \cup {0}
<1>1. q.cur \in Edit /\ q.ready \in Seq(Edit)
  BY DEF Requests, ListOf
<1>2. \A i \in DOMAIN q.ready : q.ready[i] \in Edit
  BY <1>1
<1> QED
  BY <1>1, <1>2 DEF Edit

LEMMA MovedOK ==
  ASSUME NEW P, NEW Q, NEW C, Moved(P, Q), NEW q, RequestOK(P, C, q)
  PROVE  RequestOK(Q, C, q)
<1>1. q \in Requests /\ Shape(q) /\ Checks(P, q) /\ Answers(P, q) /\ Late(C, q)
  BY DEF RequestOK
<1>2. Answers(Q, q)
  <2> SUFFICES ASSUME NEW i \in DOMAIN q.got
               PROVE  /\ Q[q.got[i][2]].stage # "absent"
                      /\ <<Q[q.got[i][2]].account, Q[q.got[i][2]].item>> = q.got[i][1]
    BY DEF Answers
  <2> QED
    BY <1>1, GotPosts DEF Answers, Moved
<1>3. ASSUME NEW e, e.post \in Post \cup {0}
      PROVE  /\ \A op : Read(P, e, op) => Read(Q, e, op)
             /\ \A ids : Cleared(P, e, ids) => Cleared(Q, e, ids)
  <2>1. \A op : Read(P, e, op) => Read(Q, e, op)
    BY <1>3 DEF Read, Moved
  <2>2. \A ids : Cleared(P, e, ids) => Cleared(Q, e, ids)
    BY <1>3 DEF Cleared, Moved, Near
  <2> QED
    BY <2>1, <2>2
<1>4. q.cur.post \in Post \cup {0} /\ \A i \in DOMAIN q.ready : q.ready[i].post \in Post \cup {0}
  BY <1>1, EditPosts
<1>5. Checks(Q, q)
  BY <1>1, <1>3, <1>4 DEF Checks
<1> QED
  BY <1>1, <1>2, <1>5 DEF RequestOK

LEMMA DistanceSymmetric ==
  ASSUME NEW s \in Int, NEW t \in Int
  PROVE  Distance(s, t) = Distance(t, s) /\ Distance(s, t) \in Nat
BY DEF Distance

LEMMA CloseSymmetric ==
  ASSUME NEW P \in [Post -> Posts], NEW p \in Post, NEW q \in Post, Close(P, p, q)
  PROVE  Close(P, q, p)
<1>1. P[p].slot \in Int /\ P[q].slot \in Int
  BY DEF Posts, Slot
<1>2. Distance(P[p].slot, P[q].slot) = Distance(P[q].slot, P[p].slot)
  BY <1>1, DistanceSymmetric
<1> QED
  BY <1>2 DEF Close

LEMMA PostsMoved ==
  ASSUME NEW P, NEW Q \in [Post -> Posts], NEW B, PostsOK(P, B), Moved(P, Q)
  PROVE  PostsOK(Q, B)
<1>1. Q \in [Post -> Posts] /\ B \subseteq SUBSET Post
  BY DEF PostsOK
<1>2. \A p \in Post : /\ Q[p].stage = "scheduled" => Q[p].slot # 0
                      /\ Q[p].key # NoKey => Q[p].key = <<Q[p].account, Q[p].item>>
  BY DEF PostsOK, Moved
<1>3. ASSUME NEW p \in Post, NEW q \in Post, p # q
      PROVE  /\ There(Q, p) /\ There(Q, q) /\ Q[p].key # NoKey => Q[p].key # Q[q].key
             /\ Q[p].stage = "scheduled" /\ Q[q].stage = "scheduled" /\ Close(Q, p, q)
                => {p, q} \in B
  <2>1. Close(Q, p, q) => Close(P, p, q)
    BY DEF Moved, Close
  <2>2. There(Q, p) /\ There(Q, q) /\ Q[p].key # NoKey => Q[p].key # Q[q].key
    <3>1. /\ There(Q, p) => There(P, p)
          /\ There(Q, q) => There(P, q)
          /\ Q[p].key = P[p].key /\ Q[q].key = P[q].key
      BY DEF Moved
    <3>2. There(P, p) /\ There(P, q) /\ P[p].key # NoKey => P[p].key # P[q].key
      BY <1>3 DEF PostsOK
    <3> QED
      BY <3>1, <3>2
  <2>3. Q[p].stage = "scheduled" /\ Q[q].stage = "scheduled"
        => P[p].stage = "scheduled" /\ P[q].stage = "scheduled"
    BY DEF Moved
  <2>4. P[p].stage = "scheduled" /\ P[q].stage = "scheduled" /\ Close(P, p, q) => {p, q} \in B
    BY <1>3 DEF PostsOK
  <2> QED
    BY <2>1, <2>2, <2>3, <2>4
<1> QED
  BY <1>1, <1>2, <1>3 DEF PostsOK

(* What a statement that gives p its values owes the others. *)
LEMMA PostsRewritten ==
  ASSUME NEW P, NEW Q \in [Post -> Posts], NEW B, NEW D \in SUBSET SUBSET Post,
         NEW p \in Post, PostsOK(P, B), Rewritten(P, Q, p),
         Q[p].stage = "scheduled" => Q[p].slot # 0,
         Q[p].key # NoKey => Q[p].key = <<Q[p].account, Q[p].item>>,
         Q[p].key # NoKey => \A x \in Post : x # p /\ There(P, x) => P[x].key # Q[p].key,
         \A pair \in B : p \notin pair => pair \in D,
         \A x \in Post : x # p /\ Q[p].stage = "scheduled" /\ P[x].stage = "scheduled"
                         /\ Close(Q, p, x) => {p, x} \in D
  PROVE  PostsOK(Q, D)
<1>1. \A x \in Post : /\ Q[x].stage = "scheduled" => Q[x].slot # 0
                      /\ Q[x].key # NoKey => Q[x].key = <<Q[x].account, Q[x].item>>
  BY DEF PostsOK, Rewritten
<1>2. ASSUME NEW x \in Post, NEW y \in Post, x # y,
             There(Q, x), There(Q, y), Q[x].key # NoKey
      PROVE  Q[x].key # Q[y].key
  <2>1. CASE x = p
    BY <1>2, <2>1 DEF Rewritten, There
  <2>2. CASE y = p
    BY <1>2, <2>2 DEF Rewritten, There
  <2>3. CASE x # p /\ y # p
    BY <1>2, <2>3 DEF Rewritten, There, PostsOK
  <2> QED
    BY <2>1, <2>2, <2>3
<1>3. ASSUME NEW x \in Post, NEW y \in Post, x # y,
             Q[x].stage = "scheduled", Q[y].stage = "scheduled", Close(Q, x, y)
      PROVE  {x, y} \in D
  <2>1. CASE x = p
    BY <1>3, <2>1 DEF Rewritten
  <2>2. CASE y = p
    <3>1. Close(Q, p, x) /\ P[x].stage = "scheduled"
      BY <1>3, <2>2, CloseSymmetric DEF Rewritten
    <3>2. {p, x} \in D
      BY <1>3, <2>2, <3>1
    <3>3. {p, x} = {x, y}
      BY <2>2
    <3> QED
      BY <3>2, <3>3
  <2>3. CASE x # p /\ y # p
    <3>1. Q[x] = P[x] /\ Q[y] = P[y]
      BY <2>3 DEF Rewritten
    <3>2. Close(P, x, y)
      BY <1>3, <3>1 DEF Close
    <3>3. {x, y} \in B
      BY <1>3, <3>1, <3>2 DEF PostsOK
    <3> QED
      BY <2>3, <3>3
  <2> QED
    BY <2>1, <2>2, <2>3
<1> QED
  BY <1>1, <1>2, <1>3 DEF PostsOK

LEMMA UnseenPairs ==
  ASSUME NEW p \in Post, NEW missed \in SUBSET Post, blind \subseteq SUBSET Post
  PROVE  /\ Unseen(p, missed) \in SUBSET SUBSET Post
         /\ \A pair \in blind : p \notin pair => pair \in Unseen(p, missed)
         /\ \A x \in Post : x # p /\ (p \in missed \/ x \in missed) => {p, x} \in Unseen(p, missed)
BY DEF Unseen

(* What a check has cleared is not close. *)
LEMMA ClearedApart ==
  ASSUME NEW P, NEW Q, NEW e, NEW p, NEW x \in Post, Cleared(P, e, {}),
         x # e.post, x \notin e.missed, P[x].stage = "scheduled", P[x].slot # 0, Q[x] = P[x],
         Q[p].account = e.account, Q[p].slot = e.slot, Q[p].text = e.text,
         e.slot \in Int, P[x].slot \in Int
  PROVE  ~Close(Q, p, x)
<1>1. ~Near(P, e, x)
  BY DEF Cleared, There
<1>2. Distance(e.slot, P[x].slot) = Distance(P[x].slot, e.slot)
  BY DistanceSymmetric
<1> QED
  BY <1>1, <1>2 DEF Near, Close

-----------------------------------------------------------------------------
(* A step of a request that changes no table. *)
LEMMA SetInv ==
  ASSUME CampaignsInv, NEW r \in Request, NEW n, Set(r, n), RequestOK(post, campaign, n),
         UNCHANGED <<campaign, post, blind>>, ops' \in 0..MaxOps, faults' \in 0..MaxFaults
  PROVE  CampaignsInv'
<1>1. n \in Requests
  BY DEF RequestOK
<1>2. /\ req' \in [Request -> Requests] /\ req'[r] = n
      /\ \A o \in Request : o # r => req'[o] = req[o]
  BY <1>1 DEF CampaignsInv, Set
<1>3. \A o \in Request : RequestOK(post', campaign', req'[o])
  BY <1>2 DEF CampaignsInv
<1>4. campaign' \in [Campaign -> Status] /\ PostsOK(post', blind')
  BY DEF CampaignsInv
<1> QED
  BY <1>2, <1>3, <1>4 DEF CampaignsInv

LEMMA EndsInv ==
  ASSUME CampaignsInv, NEW r \in Request, Ends(r),
         UNCHANGED <<campaign, post, blind>>, ops' \in 0..MaxOps, faults' \in 0..MaxFaults
  PROVE  CampaignsInv'
BY SetInv, IdleOK DEF Ends

LEMMA Counters ==
  ASSUME CampaignsInv
  PROVE  /\ ops \in 0..MaxOps /\ faults \in 0..MaxFaults
         /\ ops < MaxOps /\ ops' = ops + 1 => ops' \in 0..MaxOps
         /\ faults < MaxFaults /\ faults' = faults + 1 => faults' \in 0..MaxFaults
         /\ UNCHANGED ops => ops' \in 0..MaxOps
         /\ UNCHANGED faults => faults' \in 0..MaxFaults
BY DEF CampaignsInv

(* A step of a request that changes one post. *)
LEMMA RewriteInv ==
  ASSUME CampaignsInv, NEW p \in Post, NEW rest \in [Request -> Requests],
         Rewritten(post, post', p), PostsOK(post', blind'), req' = Touched(p, rest),
         \A r \in Request :
           \/ RequestOK(post, campaign, rest[r])
           \/ /\ rest[r].op \notin {"schedule", "edit", "plan"}
              /\ RequestOK(post', campaign, rest[r]),
         UNCHANGED <<campaign, ops, faults>>
  PROVE  CampaignsInv'
<1>1. ASSUME NEW r \in Request
      PROVE  RequestOK(post', campaign', req'[r])
  <2>1. CASE rest[r].op \in {"schedule", "edit", "plan"}
    <3>1. req'[r] = Aged(rest[r], p) /\ RequestOK(post, campaign, rest[r])
      BY <2>1, TouchedIsAged
    <3>2. RequestOK(post', campaign, Aged(rest[r], p))
      BY <2>1, <3>1, AgedOK
    <3> QED
      BY <3>1, <3>2
  <2>2. CASE rest[r].op \notin {"schedule", "edit", "plan"}
    <3>1. req'[r] = rest[r]
      BY <2>2, TouchedIsAged
    <3>2. RequestOK(post', campaign, rest[r])
      BY <2>2, UntouchedOK
    <3> QED
      BY <3>1, <3>2
  <2> QED
    BY <2>1, <2>2
<1>2. req' \in [Request -> Requests]
  <2>1. \A r \in Request : req'[r] \in Requests
    BY <1>1 DEF RequestOK
  <2>2. req' = [r \in Request |-> req'[r]]
    BY DEF Touched
  <2> QED
    BY <2>1, <2>2
<1>3. campaign' \in [Campaign -> Status] /\ ops' \in 0..MaxOps /\ faults' \in 0..MaxFaults
  BY DEF CampaignsInv
<1> QED
  BY <1>1, <1>2, <1>3 DEF CampaignsInv

-----------------------------------------------------------------------------
(* Requests begin. *)
LEMMA BeginsInv ==
  ASSUME CampaignsInv, NEW r \in Request, NEW n, Begins(r, n), RequestOK(post, campaign, n),
         UNCHANGED <<campaign, post, blind, faults>>
  PROVE  CampaignsInv'
BY SetInv, Counters DEF Begins

LEMMA BeginUpdateInv ==
  ASSUME CampaignsInv, NEW r \in Request, NEW c \in Campaign, NEW asked \in Status \cup {Own},
         BeginUpdate(r, c, asked)
  PROVE  CampaignsInv'
<1> DEFINE n == [Idle EXCEPT !.op = "update", !.at = "write", !.campaign = c,
                             !.was = campaign[c], !.asked = asked]
<1>1. campaign[c] \in Status
  BY DEF CampaignsInv
<1>2. /\ n \in Requests /\ n.op = "update" /\ n.at = "write" /\ n.campaign = c
      /\ n.ready = <<>> /\ n.got = <<>> /\ ~n.keyed /\ ~n.late
  <2>1. Idle \in Requests
    BY IdleFacts
  <2>2. n \in Requests
    BY <1>1, <2>1 DEF Requests
  <2> QED
    BY <2>1, <2>2, IdleFacts DEF Requests
<1>3. Begins(r, n) /\ UNCHANGED <<campaign, post, blind, faults>>
  BY DEF BeginUpdate
<1> HIDE DEF n
<1>4. RequestOK(post, campaign, n)
  BY <1>2 DEF RequestOK, Shape, Checks, Answers, Late, Rescheduling
<1> QED
  BY <1>3, <1>4, BeginsInv

LEMMA BeginScheduleInv ==
  ASSUME CampaignsInv, NEW r \in Request, NEW p \in Post, NEW s \in Slot \ {0},
         BeginSchedule(r, p, s)
  PROVE  CampaignsInv'
<1> DEFINE n == [Idle EXCEPT !.op = "schedule", !.at = "post", !.todo = <<p>>, !.slot = s]
<1>1. <<p>> \in ListOf(Post) /\ Len(<<p>>) > 0
  BY DEF ListOf
<1>2. /\ n \in Requests /\ n.op = "schedule" /\ n.at = "post" /\ n.todo = <<p>> /\ n.slot = s
      /\ n.text = Own /\ n.ready = <<>> /\ n.got = <<>> /\ ~n.keyed /\ ~n.late
  <2>1. Idle \in Requests
    BY IdleFacts
  <2>2. n \in Requests
    BY <1>1, <2>1 DEF Requests
  <2> QED
    BY <2>1, <2>2, IdleFacts DEF Requests
<1>3. Begins(r, n) /\ UNCHANGED <<campaign, post, blind, faults>>
  BY DEF BeginSchedule
<1>4. s # 0 /\ s # Kept
  BY DEF Slot, Kept
<1> HIDE DEF n
<1>5. RequestOK(post, campaign, n)
  BY <1>1, <1>2, <1>4 DEF RequestOK, Shape, Checks, Answers, Late, Rescheduling
<1> QED
  BY <1>3, <1>5, BeginsInv

LEMMA TodoType ==
  ASSUME NEW todo \in Todo
  PROVE  todo \in Seq(Post) /\ Len(todo) > 0
<1>1. PICK n \in {1, 2} : todo \in [1..n -> Known]
  BY DEF Todo
<1>2. todo \in [1..n -> Post]
  BY <1>1 DEF Known
<1>3. todo \in Seq(Post) /\ Len(todo) = n
  BY <1>2
<1> QED
  BY <1>3

LEMMA BeginEditInv ==
  ASSUME CampaignsInv, NEW r \in Request, NEW todo \in Todo, NEW s \in Slot \cup {Kept},
         NEW t \in Text, BeginEdit(r, todo, s, t)
  PROVE  CampaignsInv'
<1> DEFINE n == [Idle EXCEPT !.op = "edit", !.at = "post", !.todo = todo, !.slot = s, !.text = t]
<1>1. todo \in ListOf(Post) /\ Len(todo) > 0
  BY TodoType DEF ListOf
<1>2. /\ n \in Requests /\ n.op = "edit" /\ n.at = "post" /\ n.todo = todo
      /\ n.ready = <<>> /\ n.got = <<>> /\ ~n.keyed /\ ~n.late
  <2>1. Idle \in Requests
    BY IdleFacts
  <2>2. n \in Requests
    BY <1>1, <2>1 DEF Requests
  <2> QED
    BY <2>1, <2>2, IdleFacts DEF Requests
<1>3. Begins(r, n) /\ UNCHANGED <<campaign, post, blind, faults>>
  BY DEF BeginEdit
<1> HIDE DEF n
<1>4. RequestOK(post, campaign, n)
  BY <1>1, <1>2 DEF RequestOK, Shape, Checks, Answers, Late, Rescheduling
<1> QED
  BY <1>3, <1>4, BeginsInv

LEMMA ArchivedIs ==
  ASSUME NEW c \in Campaign \cup {NoCampaign}
  PROVE  Archived(c) \in BOOLEAN /\ (Archived(c) => c \in Campaign /\ campaign[c] = "archived")
BY DEF Archived

LEMMA BeginCreateInv ==
  ASSUME CampaignsInv, NEW r \in Request, NEW a \in Account, NEW c \in Campaign \cup {NoCampaign},
         NEW t \in Text, NEW s \in Slot, BeginCreate(r, a, c, t, s)
  PROVE  CampaignsInv'
<1> DEFINE e == [post |-> 0, account |-> a, text |-> t, slot |-> s, missed |-> Post]
           n == [Idle EXCEPT !.op = "create", !.at = "check", !.campaign = c,
                             !.late = Archived(c), !.cur = e]
<1>1. e \in Edit /\ e.missed = Post
  BY DEF Edit
<1>2. Begins(r, n) /\ UNCHANGED <<campaign, post, blind, faults>>
  BY DEF BeginCreate
<1> HIDE DEF e
<1>3. /\ n \in Requests /\ n.op = "create" /\ n.at = "check" /\ n.campaign = c /\ n.cur = e
      /\ n.ready = <<>> /\ n.got = <<>> /\ ~n.keyed /\ n.late = Archived(c)
  <2>1. Idle \in Requests /\ Archived(c) \in BOOLEAN
    BY IdleFacts, ArchivedIs
  <2>2. n \in Requests
    BY <1>1, <2>1, ZenonT(60) DEF Requests
  <2> QED
    BY <2>1, <2>2, IdleFacts DEF Requests
<1> HIDE DEF n
<1>4. RequestOK(post, campaign, n)
  BY <1>1, <1>3, ArchivedIs DEF RequestOK, Shape, Checks, Answers, Late, Rescheduling
<1> QED
  BY <1>2, <1>4, BeginsInv

LEMMA BeginPlanInv ==
  ASSUME CampaignsInv, NEW r \in Request, NEW a \in Account, NEW c \in Campaign \cup {NoCampaign},
         NEW t \in Text, NEW s \in Slot, BeginPlan(r, a, c, t, s)
  PROVE  CampaignsInv'
<1> DEFINE e == [NoEdit EXCEPT !.account = a, !.text = t, !.slot = s]
           n == [Idle EXCEPT !.op = "plan", !.at = "ids", !.campaign = c,
                             !.late = Archived(c), !.cur = e]
<1>1. e \in Edit /\ e.post = 0
  BY NoEditFacts DEF Edit
<1>2. Begins(r, n) /\ UNCHANGED <<campaign, post, blind, faults>>
  BY DEF BeginPlan
<1> HIDE DEF e
<1>3. /\ n \in Requests /\ n.op = "plan" /\ n.at = "ids" /\ n.campaign = c /\ n.cur = e
      /\ n.ready = <<>> /\ n.got = <<>> /\ ~n.keyed /\ n.late = Archived(c)
  <2>1. Idle \in Requests /\ Archived(c) \in BOOLEAN
    BY IdleFacts, ArchivedIs
  <2>2. n \in Requests
    BY <1>1, <2>1, ZenonT(60) DEF Requests
  <2> QED
    BY <2>1, <2>2, IdleFacts DEF Requests
<1> HIDE DEF n
<1>4. RequestOK(post, campaign, n)
  BY <1>1, <1>3, ArchivedIs DEF RequestOK, Shape, Checks, Answers, Late, Rescheduling
<1> QED
  BY <1>2, <1>4, BeginsInv

LEMMA ItemsType ==
  ASSUME NEW items \in Items
  PROVE  items \in Seq(Item) /\ Len(items) = 2
<1>1. ASSUME items = Variants(2)
      PROVE  items \in Seq(Item) /\ Len(items) = 2
  BY <1>1 DEF Variants, Item
<1>2. ASSUME items = Planned(1, 2, 1)
      PROVE  items \in Seq(Item) /\ Len(items) = 2
  <2>1. Days(1) = 1 /\ PerDay(2, 1) = 2
    BY DEF Days, PerDay
  <2>2. items = [i \in 1..2 |-> [day |-> ((i - 1) \div 2) + 1, slot |-> (((i - 1) % 2) % 1) + 1]]
    BY <1>2, <2>1 DEF Planned
  <2>3. \A i \in 1..2 : (i - 1) \div 2 = 0 /\ ((i - 1) % 2) % 1 = 0
    OBVIOUS
  <2>4. \A i \in 1..2 : items[i] \in Item
    BY <2>2, <2>3 DEF Item
  <2> QED
    BY <2>2, <2>4
<1> QED
  BY <1>1, <1>2 DEF Items

LEMMA DraftsType ==
  ASSUME NEW accounts \in Seq(Account), accounts # <<>>, NEW items \in Seq(Item), Len(items) = 2
  PROVE  /\ Drafts(accounts, items) \in Seq(Account \X Item)
         /\ Len(Drafts(accounts, items)) > 0
<1> DEFINE n == Len(accounts)
           D == [i \in 1..(n * 2) |->
                  <<accounts[((i - 1) \div 2) + 1], items[((i - 1) % 2) + 1]>>]
<1>1. Drafts(accounts, items) = D
  BY DEF Drafts
<1>2. n \in Nat \ {0}
  BY EmptySeq
<1>3. \A i \in 1..(n * 2) : ((i - 1) \div 2) + 1 \in 1..n /\ ((i - 1) % 2) + 1 \in 1..2
  BY <1>2
<1>4. \A i \in 1..(n * 2) : D[i] \in Account \X Item
  <2> SUFFICES ASSUME NEW i \in 1..(n * 2)
               PROVE  D[i] \in Account \X Item
    OBVIOUS
  <2>1. /\ accounts[((i - 1) \div 2) + 1] \in Account
        /\ items[((i - 1) % 2) + 1] \in Item
    BY <1>3, ElementOfSeq
  <2> QED
    BY <2>1
<1>5. n * 2 \in Nat /\ n * 2 > 0
  BY <1>2
<1>6. D \in Seq(Account \X Item) /\ Len(D) = n * 2
  BY <1>4, <1>5
<1> QED
  BY <1>1, <1>5, <1>6

LEMMA BeginDraftsInv ==
  ASSUME CampaignsInv, NEW r \in Request, NEW c \in Campaign, NEW accounts \in SetToSeqs(Account),
         NEW items \in Items, NEW keyed \in BOOLEAN, BeginDrafts(r, c, accounts, items, keyed)
  PROVE  CampaignsInv'
<1> DEFINE d == Drafts(accounts, items)
           n == [Idle EXCEPT !.op = "drafts", !.at = "generate", !.campaign = c,
                             !.keyed = keyed, !.left = d]
<1>1. Cardinality(Account) \in Nat
  BY FS_CardinalityType
<1>2. accounts \in [1..Cardinality(Account) -> Account]
  BY DEF SetToSeqs
<1>3. accounts \in Seq(Account)
  BY <1>1, <1>2
<1>4. Begins(r, n) /\ accounts # <<>> /\ UNCHANGED <<campaign, post, blind, faults>>
  BY DEF BeginDrafts
<1>5. d \in Seq(Account \X Item) /\ Len(d) > 0
  BY <1>3, <1>4, ItemsType, DraftsType
<1> HIDE DEF d
<1>6. n \in Requests
  <2>1. Idle \in Requests /\ d \in ListOf(Account \X Item)
    BY <1>5, IdleFacts DEF ListOf
  <2> QED
    BY <2>1, ZenonT(60) DEF Requests
<1>7. /\ n.op = "drafts" /\ n.at = "generate" /\ n.campaign = c /\ n.left = d
      /\ n.ready = <<>> /\ n.got = <<>> /\ ~n.late
  BY IdleFacts DEF Requests
<1> HIDE DEF n
<1>8. RequestOK(post, campaign, n)
  BY <1>5, <1>6, <1>7 DEF RequestOK, Shape, Checks, Answers, Late, Rescheduling
<1> QED
  BY <1>4, <1>8, BeginsInv

-----------------------------------------------------------------------------
(* The guardrails. *)
LEMMA RequestFacts ==
  ASSUME CampaignsInv, NEW r \in Request
  PROVE  /\ RequestOK(post, campaign, req[r]) /\ req[r] \in Requests
         /\ post \in [Post -> Posts] /\ campaign \in [Campaign -> Status]
         /\ blind \subseteq SUBSET Post /\ PostsOK(post, blind)
BY DEF CampaignsInv, RequestOK, PostsOK

LEMMA TailFacts ==
  ASSUME NEW S, NEW s \in Seq(S), Len(s) > 0
  PROVE  /\ Head(s) \in S /\ Head(s) = s[1] /\ 1 \in DOMAIN s
         /\ Tail(s) \in Seq(S) /\ Len(s) \in Nat /\ Len(Tail(s)) = Len(s) - 1
         /\ \A i \in DOMAIN Tail(s) : i + 1 \in DOMAIN s /\ Tail(s)[i] = s[i + 1]
<1>1. s # <<>>
  OBVIOUS
<1>2. Head(s) \in S /\ Tail(s) \in Seq(S) /\ Len(Tail(s)) = Len(s) - 1
  BY <1>1, HeadTailProperties
<1>3. \A i \in 1..Len(Tail(s)) : Tail(s)[i] = s[i + 1]
  BY <1>1, HeadTailProperties
<1>4. DOMAIN Tail(s) = 1..Len(Tail(s)) /\ DOMAIN s = 1..Len(s) /\ Len(s) \in Nat
  BY <1>2, LenProperties
<1> QED
  BY <1>2, <1>3, <1>4

LEMMA PassedOK ==
  ASSUME NEW P, NEW C, NEW q, RequestOK(P, C, q), Rescheduling(q), q.at \in {"post", "posts"},
         NEW e \in Edit, Read(P, e, q.op), e.slot # 0 => Cleared(P, e, {}),
         q.op = "schedule" => e.slot # 0
  PROVE  RequestOK(P, C, Passed(q, e))
<1> DEFINE n == Passed(q, e)
<1>1. q \in Requests /\ Shape(q) /\ Checks(P, q) /\ Answers(P, q) /\ Late(C, q)
  BY DEF RequestOK
<1>2. /\ q.todo \in Seq(Post) /\ Len(q.todo) > 0 /\ q.ready \in Seq(Edit) /\ ~q.late
  BY <1>1 DEF Requests, ListOf, Shape
<1>3. /\ Append(q.ready, e) \in Seq(Edit) /\ Len(Append(q.ready, e)) > 0
      /\ \A i \in DOMAIN Append(q.ready, e) :
           \/ i \in DOMAIN q.ready /\ Append(q.ready, e)[i] = q.ready[i]
           \/ Append(q.ready, e)[i] = e
  BY <1>2
<1>4. /\ Tail(q.todo) \in Seq(Post)
      /\ Len(q.todo) # 1 => Len(Tail(q.todo)) > 0
  <2> DEFINE todo == q.todo
  <2>1. todo \in Seq(Post) /\ Len(todo) > 0
    BY <1>2
  <2> HIDE DEF todo
  <2>2. Tail(todo) \in Seq(Post) /\ Len(todo) \in Nat /\ Len(Tail(todo)) = Len(todo) - 1
    BY <2>1, TailFacts
  <2>3. Len(todo) # 1 => Len(Tail(todo)) > 0
    BY <2>1, <2>2
  <2> QED
    BY <2>2, <2>3 DEF todo
<1>5. n \in Requests
  <2> DEFINE at == IF Len(q.todo) = 1 THEN "write" ELSE "post"
             todo == Tail(q.todo)
             ready == Append(q.ready, e)
  <2>1. at \in {"write", "post"} /\ todo \in Seq(Post) /\ ready \in Seq(Edit)
    BY <1>3, <1>4
  <2>2. n = [q EXCEPT !.ready = ready, !.todo = todo, !.cur = NoEdit, !.ids = {}, !.at = at]
    BY DEF Passed
  <2> HIDE DEF at, todo, ready, n
  <2>3. todo \in ListOf(Post) /\ ready \in ListOf(Edit) /\ NoEdit \in Edit
    BY <2>1, NoEditFacts DEF ListOf
  <2> QED
    BY <1>1, <2>1, <2>2, <2>3 DEF Requests
<1>6. /\ n.op = q.op /\ n.at = (IF Len(q.todo) = 1 THEN "write" ELSE "post")
      /\ n.ready = Append(q.ready, e) /\ n.todo = Tail(q.todo) /\ n.got = q.got
      /\ n.keyed = q.keyed /\ n.late = q.late /\ n.slot = q.slot /\ n.text = q.text
  BY <1>1 DEF Passed, Requests
<1> HIDE DEF n
<1>7. Shape(n)
  BY <1>1, <1>2, <1>3, <1>4, <1>6 DEF Shape, Rescheduling
<1>8. Checks(P, n)
  <2>1. n.at \notin {"campaign", "ids", "posts"} /\ n.op # "plan"
    BY <1>6 DEF Rescheduling
  <2>2. ASSUME NEW i \in DOMAIN n.ready
        PROVE  Read(P, n.ready[i], n.op) /\ (n.ready[i].slot # 0 => Cleared(P, n.ready[i], {}))
    <3>1. CASE i \in DOMAIN q.ready /\ n.ready[i] = q.ready[i]
      BY <1>1, <1>6, <3>1 DEF Checks
    <3>2. CASE n.ready[i] = e
      BY <1>6, <3>2
    <3> QED
      BY <1>3, <1>6, <3>1, <3>2
  <2> QED
    BY <2>1, <2>2 DEF Checks
<1>9. Answers(P, n) /\ Late(C, n)
  BY <1>1, <1>2, <1>6 DEF Answers, Late
<1> QED
  BY <1>5, <1>7, <1>8, <1>9 DEF RequestOK, n

LEMMA ReadPostInv ==
  ASSUME CampaignsInv, NEW r \in Request, ReadPost(r)
  PROVE  CampaignsInv'
<1> DEFINE q == req[r]
           p == Head(q.todo)
           s == EditedSlot(p, q.slot)
           e == [NoEdit EXCEPT !.post = p, !.account = post[p].account, !.slot = s,
                   !.text = IF q.text = Own THEN post[p].text ELSE q.text]
           c == post[p].campaign
           late == q.late \/ Archived(c)
           n == [q EXCEPT !.at = "campaign", !.cur = e, !.campaign = c, !.late = late]
<1>1. /\ q.at = "post"
      /\ \/ ~Exists(p) /\ Ends(r)
         \/ Exists(p) /\ s = 0 /\ Set(r, Passed(q, e))
         \/ Exists(p) /\ s # 0 /\ Set(r, n)
      /\ UNCHANGED <<campaign, post, blind, ops, faults>>
  BY DEF ReadPost
<1>2. /\ RequestOK(post, campaign, q) /\ q \in Requests /\ post \in [Post -> Posts]
      /\ Shape(q) /\ Checks(post, q) /\ Answers(post, q) /\ Late(campaign, q)
  BY RequestFacts DEF RequestOK
<1>3. Rescheduling(q) /\ ~q.late /\ q.todo \in Seq(Post) /\ Len(q.todo) > 0
  BY <1>1, <1>2 DEF Shape, Requests, ListOf, Rescheduling
<1>4. p \in Post
  BY <1>3
<1>5. /\ post[p] \in Posts /\ post[p].account \in Account \cup {Own}
      /\ post[p].text \in Text \cup {Own} /\ post[p].slot \in Slot
      /\ post[p].campaign \in Campaign \cup {NoCampaign}
  BY <1>2, <1>4 DEF Posts
<1>6. s \in Slot /\ (q.op = "schedule" => s # 0 /\ q.text = Own)
  BY <1>2, <1>5 DEF EditedSlot, Requests, Shape
<1>7. q.text \in Text \cup {Own}
  BY <1>2 DEF Requests
<1> HIDE DEF p, s, q
<1>8. /\ e \in Edit /\ e.post = p /\ e.account = post[p].account /\ e.slot = s
      /\ e.text = (IF q.text = Own THEN post[p].text ELSE q.text)
  BY <1>4, <1>5, <1>6, <1>7, NoEditFacts DEF Edit
<1>9. /\ c \in Campaign \cup {NoCampaign} /\ late \in BOOLEAN
      /\ late => c \in Campaign /\ campaign[c] = "archived"
  BY <1>3, <1>5, ArchivedIs
<1>10. p # 0
  BY <1>4 DEF Post
<1> HIDE DEF e, c, late
<1>11. Exists(p) => Read(post, e, q.op)
  BY <1>6, <1>8, <1>10 DEF Read, Exists
<1>12. n \in Requests /\ n.late = late
  <2>1. q \in Requests
    BY <1>2
  <2>2. e \in Edit /\ c \in Campaign \cup {NoCampaign} /\ late \in BOOLEAN
    BY <1>8, <1>9
  <2>3. n \in Requests
    BY <2>1, <2>2, ZenonT(60) DEF Requests
  <2>4. n.late = late
    BY <2>1 DEF Requests
  <2> QED
    BY <2>3, <2>4
<1>13. /\ n.op = q.op /\ n.at = "campaign" /\ n.cur = e /\ n.todo = q.todo /\ n.campaign = c
       /\ n.ready = q.ready /\ n.got = q.got /\ n.keyed = q.keyed /\ n.slot = q.slot
       /\ n.text = q.text
  BY <1>2 DEF Requests
<1> HIDE DEF n
<1>14. ASSUME Exists(p), s # 0
       PROVE  RequestOK(post, campaign, n)
  <2>1. Shape(n)
    BY <1>2, <1>3, <1>8, <1>10, <1>13, <1>14 DEF Shape, Rescheduling
  <2>2. Checks(post, n)
    BY <1>2, <1>3, <1>11, <1>13, <1>14 DEF Checks, Rescheduling
  <2>3. Answers(post, n) /\ Late(campaign, n)
    BY <1>2, <1>9, <1>12, <1>13 DEF Answers, Late
  <2> QED
    BY <1>12, <2>1, <2>2, <2>3 DEF RequestOK
<1>15. ASSUME Exists(p), s = 0
       PROVE  RequestOK(post, campaign, Passed(q, e))
  BY <1>1, <1>2, <1>3, <1>6, <1>8, <1>11, <1>15, PassedOK
<1> QED
  BY <1>1, <1>14, <1>15, SetInv, EndsInv, Counters DEF q

(* A check goes on: the campaign, the ids, a post. *)
LEMMA RecheckedOK ==
  ASSUME NEW P, NEW C, NEW q, RequestOK(P, C, q), q.op \in {"schedule", "edit", "plan"},
         q.at \in {"campaign", "ids", "posts"}, Rescheduling(q) => ~q.late,
         NEW n \in Requests, n.at \in {"ids", "posts"},
         n.op = q.op, n.campaign = q.campaign, n.todo = q.todo, n.slot = q.slot, n.text = q.text,
         n.ready = q.ready, n.keyed = q.keyed, n.left = q.left, n.got = q.got, n.late = q.late,
         n.cur.post = q.cur.post, n.cur.account = q.cur.account, n.cur.text = q.cur.text,
         n.cur.slot = q.cur.slot,
         q.cur.post \in q.cur.missed => q.cur.post \in n.cur.missed,
         n.at = "posts" => Cleared(P, n.cur, n.ids)
  PROVE  RequestOK(P, C, n)
<1>1. q \in Requests /\ Shape(q) /\ Checks(P, q) /\ Answers(P, q) /\ Late(C, q)
  BY DEF RequestOK
<1>2. Shape(n)
  BY <1>1 DEF Shape, Rescheduling
<1>3. Read(P, q.cur, q.op) => Read(P, n.cur, n.op)
  BY DEF Read
<1>4. Checks(P, n)
  BY <1>1, <1>3 DEF Checks, Rescheduling
<1>5. Answers(P, n) /\ Late(C, n)
  BY <1>1 DEF Answers, Late
<1> QED
  BY <1>2, <1>4, <1>5 DEF RequestOK

LEMMA CheckCampaignInv ==
  ASSUME CampaignsInv, NEW r \in Request, CheckCampaign(r)
  PROVE  CampaignsInv'
<1> DEFINE q == req[r]
           n == [q EXCEPT !.at = "ids"]
<1>1. /\ q.at = "campaign"
      /\ Ends(r) \/ (~Archived(q.campaign) /\ Set(r, n))
      /\ UNCHANGED <<campaign, post, blind, ops, faults>>
  BY DEF CheckCampaign
<1>2. RequestOK(post, campaign, q) /\ q \in Requests /\ Shape(q) /\ Late(campaign, q)
  BY RequestFacts DEF RequestOK
<1> HIDE DEF q
<1>3. /\ q.op \in {"schedule", "edit", "plan"}
      /\ ~Archived(q.campaign) => ~q.late
  BY <1>1, <1>2 DEF Shape, Requests, Rescheduling, Late, Archived
<1>4. n \in Requests
  BY <1>2 DEF Requests
<1>5. /\ n.at = "ids" /\ n.op = q.op /\ n.campaign = q.campaign /\ n.todo = q.todo
      /\ n.slot = q.slot /\ n.text = q.text /\ n.ready = q.ready /\ n.keyed = q.keyed
  BY <1>2 DEF Requests
<1>6. n.left = q.left /\ n.got = q.got /\ n.late = q.late /\ n.cur = q.cur
  BY <1>2 DEF Requests
<1> HIDE DEF n
<1>7. ~Archived(q.campaign) => RequestOK(post, campaign, n)
  BY <1>1, <1>2, <1>3, <1>4, <1>5, <1>6, RecheckedOK
<1> QED
  BY <1>1, <1>7, SetInv, EndsInv, Counters DEF q

LEMMA ListIdsInv ==
  ASSUME CampaignsInv, NEW r \in Request, ListIds(r)
  PROVE  CampaignsInv'
<1> DEFINE q == req[r]
           c == [q.cur EXCEPT !.missed = @ \cap {q.cur.post}]
           n == [q EXCEPT !.at = "posts", !.ids = Listed(q.cur.slot), !.cur = c]
<1>1. /\ q.at = "ids" /\ Set(r, n)
      /\ UNCHANGED <<campaign, post, blind, ops, faults>>
  BY DEF ListIds
<1>2. /\ RequestOK(post, campaign, q) /\ q \in Requests /\ Shape(q)
      /\ q.cur \in Edit /\ post \in [Post -> Posts]
  BY RequestFacts, EditPosts DEF RequestOK
<1> HIDE DEF q
<1>3. q.op \in {"schedule", "edit", "plan"} /\ (Rescheduling(q) => ~q.late)
  BY <1>1, <1>2 DEF Shape, Requests, Rescheduling
<1>4. /\ c \in Edit /\ c.post = q.cur.post /\ c.account = q.cur.account
      /\ c.text = q.cur.text /\ c.slot = q.cur.slot
      /\ c.missed = q.cur.missed \cap {q.cur.post}
  BY <1>2 DEF Edit
<1> HIDE DEF c
<1>5. Listed(q.cur.slot) \in SUBSET Post
  BY DEF Listed
<1>6. n \in Requests
  BY <1>2, <1>4, <1>5 DEF Requests
<1>7. /\ n.at = "posts" /\ n.op = q.op /\ n.campaign = q.campaign /\ n.todo = q.todo
      /\ n.slot = q.slot /\ n.text = q.text /\ n.ready = q.ready /\ n.keyed = q.keyed
  BY <1>2 DEF Requests
<1>8. /\ n.left = q.left /\ n.got = q.got /\ n.late = q.late /\ n.cur = c
      /\ n.ids = Listed(q.cur.slot)
  BY <1>2 DEF Requests
<1>9. Cleared(post, c, Listed(q.cur.slot))
  <2> SUFFICES ASSUME NEW x \in Post, x \notin Listed(q.cur.slot), There(post, x)
               PROVE  ~Near(post, c, x)
    BY DEF Cleared
  <2>1. post[x].slot \in Int /\ c.slot \in Int
    BY <1>2, <1>4 DEF Posts, Slot, Edit
  <2>2. post[x].slot = 0 \/ ~(Distance(post[x].slot, c.slot) <= Recent)
    BY <1>4 DEF Listed, Exists, There
  <2>3. Distance(post[x].slot, c.slot) \in Int
    BY <2>1 DEF Distance
  <2> QED
    BY <2>2, <2>3 DEF Near
<1> HIDE DEF n
<1>10. RequestOK(post, campaign, n)
  BY <1>1, <1>2, <1>3, <1>4, <1>6, <1>7, <1>8, <1>9, RecheckedOK
<1> QED
  BY <1>1, <1>10, SetInv, Counters

LEMMA LoadPostInv ==
  ASSUME CampaignsInv, NEW r \in Request, LoadPost(r)
  PROVE  CampaignsInv'
<1> DEFINE q == req[r]
           Ready == [q EXCEPT !.at = "check"]
           C(p) == [q.cur EXCEPT !.missed = @ \ ({p} \ {q.cur.post})]
           N(p) == [q EXCEPT !.ids = @ \ {p}, !.cur = C(p)]
<1>1. /\ q.at = "posts"
      /\ \/ q.ids = {} /\ q.op = "plan" /\ Set(r, Ready)
         \/ q.ids = {} /\ q.op # "plan" /\ Set(r, Passed(q, q.cur))
         \/ \E p \in q.ids : Ends(r)
         \/ \E p \in q.ids : Exists(p) /\ ~Clashes(q.cur, p) /\ Set(r, N(p))
      /\ UNCHANGED <<campaign, post, blind, ops, faults>>
  BY DEF LoadPost
<1>2. /\ RequestOK(post, campaign, q) /\ q \in Requests /\ Shape(q) /\ Checks(post, q)
      /\ Answers(post, q) /\ Late(campaign, q) /\ q.cur \in Edit /\ post \in [Post -> Posts]
  BY RequestFacts, EditPosts DEF RequestOK
<1>3. UNCHANGED <<campaign, post, blind>> /\ ops' \in 0..MaxOps /\ faults' \in 0..MaxFaults
  BY <1>1, Counters
<1> HIDE DEF q
<1>4. q.op \in {"schedule", "edit", "plan"} /\ (Rescheduling(q) => ~q.late)
      /\ Cleared(post, q.cur, q.ids) /\ q.ids \subseteq Post
  BY <1>1, <1>2 DEF Shape, Requests, Rescheduling, Checks
<1>5. CASE q.ids = {} /\ q.op = "plan" /\ Set(r, Ready)
  <2>1. Ready \in Requests
    BY <1>2 DEF Requests
  <2>2. /\ Ready.at = "check" /\ Ready.op = q.op /\ Ready.campaign = q.campaign
        /\ Ready.ready = q.ready /\ Ready.keyed = q.keyed /\ Ready.got = q.got
        /\ Ready.late = q.late /\ Ready.cur = q.cur
    BY <1>2 DEF Requests
  <2> HIDE DEF Ready
  <2>3. RequestOK(post, campaign, Ready)
    BY <1>2, <1>4, <1>5, <2>1, <2>2 DEF RequestOK, Shape, Checks, Answers, Late, Rescheduling
  <2> QED
    BY <1>3, <1>5, <2>3, SetInv
<1>6. CASE q.ids = {} /\ q.op # "plan" /\ Set(r, Passed(q, q.cur))
  <2>1. Rescheduling(q) /\ q.cur.slot # 0 /\ Read(post, q.cur, q.op)
    BY <1>1, <1>2, <1>4, <1>6 DEF Shape, Checks, Rescheduling
  <2>2. RequestOK(post, campaign, Passed(q, q.cur))
    BY <1>1, <1>2, <1>4, <1>6, <2>1, PassedOK
  <2> QED
    BY <1>3, <1>6, <2>2, SetInv
<1>7. CASE Ends(r)
  BY <1>3, <1>7, EndsInv
<1>8. ASSUME NEW p \in q.ids, Exists(p), ~Clashes(q.cur, p), Set(r, N(p))
      PROVE  CampaignsInv'
  <2> DEFINE c == C(p)
             n == N(p)
  <2>1. p \in Post
    BY <1>4
  <2>2. /\ c \in Edit /\ c.post = q.cur.post /\ c.account = q.cur.account
        /\ c.text = q.cur.text /\ c.slot = q.cur.slot
        /\ c.missed = q.cur.missed \ ({p} \ {q.cur.post})
    BY <1>2 DEF Edit
  <2> HIDE DEF c, C
  <2>3. n = [q EXCEPT !.ids = @ \ {p}, !.cur = c]
    BY DEF c
  <2> HIDE DEF n, N
  <2>4. n \in Requests
    BY <1>2, <2>2, <2>3 DEF Requests
  <2>5. /\ n.at = "posts" /\ n.op = q.op /\ n.campaign = q.campaign /\ n.todo = q.todo
        /\ n.slot = q.slot /\ n.text = q.text /\ n.ready = q.ready /\ n.keyed = q.keyed
    BY <1>1, <1>2, <2>3 DEF Requests
  <2>6. /\ n.left = q.left /\ n.got = q.got /\ n.late = q.late /\ n.cur = c
        /\ n.ids = q.ids \ {p}
    BY <1>2, <2>3 DEF Requests
  <2>7. Cleared(post, c, q.ids \ {p})
    <3> SUFFICES ASSUME NEW x \in Post, x \notin c.missed, x \notin q.ids \ {p}, x # c.post,
                        There(post, x)
                 PROVE  ~Near(post, c, x)
      BY DEF Cleared
    <3>1. CASE x = p
      BY <1>8, <2>2, <3>1 DEF Near, Clashes
    <3>2. CASE x # p
      <4>1. ~Near(post, q.cur, x)
        BY <1>4, <2>2, <3>2 DEF Cleared
      <4> QED
        BY <2>2, <4>1 DEF Near
    <3> QED
      BY <3>1, <3>2
  <2>8. RequestOK(post, campaign, n)
    BY <1>1, <1>2, <1>4, <2>2, <2>4, <2>5, <2>6, <2>7, RecheckedOK
  <2>9. Set(r, n)
    BY <1>8 DEF n
  <2> QED
    BY <1>3, <2>8, <2>9, SetInv
<1> QED
  BY <1>1, <1>5, <1>6, <1>7, <1>8

LEMMA EditableThere ==
  ASSUME NEW p \in Post, Editable(p)
  PROVE  There(post, p) /\ post[p].stage # "absent" /\ Exists(p)
BY DEF Editable, There, Exists

LEMMA WriteInv ==
  ASSUME CampaignsInv, NEW r \in Request, Write(r)
  PROVE  CampaignsInv'
<1> DEFINE q == req[r]
           e == Head(q.ready)
           p == e.post
           next == IF Len(q.ready) = 1 THEN Idle ELSE [q EXCEPT !.ready = Tail(@)]
           rest == [req EXCEPT ![r] = next]
           row == [post[p] EXCEPT !.stage = IF e.slot = 0 THEN "draft" ELSE "scheduled",
                                  !.slot = e.slot,
                                  !.text = IF q.op = "edit" THEN e.text ELSE @]
<1>1. /\ q.at = "write" /\ q.op \in {"schedule", "edit"}
      /\ \/ ~Editable(p) /\ Ends(r) /\ UNCHANGED <<post, blind>>
         \/ /\ Editable(p) /\ post' = [post EXCEPT ![p] = row]
            /\ blind' = Unseen(p, e.missed) /\ req' = Touched(p, rest)
      /\ UNCHANGED <<campaign, ops, faults>>
  BY DEF Write
<1>2. /\ RequestOK(post, campaign, q) /\ q \in Requests /\ Shape(q) /\ Checks(post, q)
      /\ Answers(post, q) /\ Late(campaign, q) /\ PostsOK(post, blind)
      /\ post \in [Post -> Posts] /\ blind \subseteq SUBSET Post
  BY RequestFacts DEF RequestOK
<1>3. req \in [Request -> Requests] /\ \A o \in Request : RequestOK(post, campaign, req[o])
  BY DEF CampaignsInv
<1>4. CASE ~Editable(p) /\ Ends(r) /\ UNCHANGED <<post, blind>>
  BY <1>1, <1>4, EndsInv, Counters
<1>5. CASE /\ Editable(p) /\ post' = [post EXCEPT ![p] = row]
           /\ blind' = Unseen(p, e.missed) /\ req' = Touched(p, rest)
  <2>1. q.ready \in Seq(Edit) /\ Len(q.ready) > 0
    BY <1>1, <1>2 DEF Requests, ListOf, Shape, Rescheduling
  <2>2. /\ e \in Edit /\ 1 \in DOMAIN q.ready /\ e = q.ready[1]
        /\ Tail(q.ready) \in Seq(Edit)
        /\ Len(q.ready) # 1 => Len(Tail(q.ready)) > 0
        /\ \A i \in DOMAIN Tail(q.ready) :
             i + 1 \in DOMAIN q.ready /\ Tail(q.ready)[i] = q.ready[i + 1]
    <3> DEFINE ready == q.ready
    <3>1. ready \in Seq(Edit) /\ Len(ready) > 0
      BY <2>1
    <3> HIDE DEF ready
    <3>2. /\ Head(ready) \in Edit /\ Head(ready) = ready[1] /\ 1 \in DOMAIN ready
          /\ Tail(ready) \in Seq(Edit) /\ Len(ready) \in Nat /\ Len(Tail(ready)) = Len(ready) - 1
          /\ \A i \in DOMAIN Tail(ready) : i + 1 \in DOMAIN ready /\ Tail(ready)[i] = ready[i + 1]
      BY <3>1, TailFacts
    <3>3. Len(ready) # 1 => Len(Tail(ready)) > 0
      BY <3>1, <3>2
    <3> QED
      BY <3>2, <3>3 DEF ready
  <2> HIDE DEF q, e
  <2>3. Read(post, e, q.op) /\ (e.slot # 0 => Cleared(post, e, {}))
    BY <1>1, <1>2, <2>2 DEF Checks, Rescheduling
  <2>4. /\ p \in Post /\ e.slot \in Slot /\ e.text \in Text \cup {Own} /\ e.missed \in SUBSET Post
        /\ e.account = post[p].account
    BY <2>2, <2>3 DEF Edit, Read
  <2> HIDE DEF p
  <2>5. post[p] \in Posts
    BY <1>2, <2>4
  <2>6. /\ row \in Posts /\ row.stage = (IF e.slot = 0 THEN "draft" ELSE "scheduled")
        /\ row.slot = e.slot /\ row.text = (IF q.op = "edit" THEN e.text ELSE post[p].text)
        /\ row.account = post[p].account /\ row.key = post[p].key /\ row.item = post[p].item
    BY <2>4, <2>5 DEF Posts
  <2> HIDE DEF row
  <2>7. /\ post' \in [Post -> Posts] /\ post'[p] = row
        /\ \A x \in Post : x # p => post'[x] = post[x]
    BY <1>2, <1>5, <2>4, <2>6
  <2>8. There(post, p) /\ post[p].stage # "absent"
    BY <1>5, <2>4, EditableThere
  <2>9. Rewritten(post, post', p)
    BY <2>6, <2>7, <2>8 DEF Rewritten
  <2>10. /\ blind' \in SUBSET SUBSET Post
         /\ \A pair \in blind : p \notin pair => pair \in blind'
         /\ \A x \in Post : x # p /\ (p \in e.missed \/ x \in e.missed) => {p, x} \in blind'
    <3> DEFINE missed == e.missed
    <3>1. missed \in SUBSET Post
      BY <2>4
    <3> HIDE DEF missed
    <3>2. /\ Unseen(p, missed) \in SUBSET SUBSET Post
          /\ \A pair \in blind : p \notin pair => pair \in Unseen(p, missed)
          /\ \A x \in Post : x # p /\ (p \in missed \/ x \in missed) => {p, x} \in Unseen(p, missed)
      BY <1>2, <2>4, <3>1, UnseenPairs
    <3> QED
      BY <1>5, <3>2 DEF missed
  <2>11. ASSUME NEW x \in Post, x # p, post'[p].stage = "scheduled", post[x].stage = "scheduled",
                Close(post', p, x)
         PROVE  {p, x} \in blind'
    <3>1. CASE p \in e.missed \/ x \in e.missed
      BY <2>10, <2>11, <3>1
    <3>2. CASE p \notin e.missed /\ x \notin e.missed
      <4>1. e.slot # 0
        BY <2>6, <2>7, <2>11
      <4>2. post'[p].text = e.text
        <5>1. q.op = "schedule" => e.text = post[p].text
          BY <2>3, <3>2 DEF Read, p
        <5> QED
          BY <1>1, <2>6, <2>7, <5>1
      <4>3. post[x].slot # 0 /\ post[x].slot \in Int /\ e.slot \in Int
        BY <1>2, <2>4, <2>11 DEF PostsOK, Posts, Slot
      <4>4. /\ post'[p].account = e.account /\ post'[p].slot = e.slot /\ post'[x] = post[x]
            /\ x # e.post
        BY <2>4, <2>6, <2>7, <2>11 DEF p
      <4>5. ~Close(post', p, x)
        BY <2>3, <2>11, <3>2, <4>1, <4>2, <4>3, <4>4, ClearedApart
      <4> QED
        BY <2>11, <4>5
    <3> QED
      BY <3>1, <3>2
  <2>12. PostsOK(post', blind')
    <3>1. post'[p].stage = "scheduled" => post'[p].slot # 0
      BY <2>6, <2>7
    <3>2. post'[p].key # NoKey => post'[p].key = <<post'[p].account, post'[p].item>>
      BY <1>2, <2>4, <2>6, <2>7 DEF PostsOK
    <3>3. post'[p].key # NoKey
          => \A x \in Post : x # p /\ There(post, x) => post[x].key # post'[p].key
      BY <1>2, <2>4, <2>6, <2>7, <2>8 DEF PostsOK
    <3> QED
      BY <1>2, <2>4, <2>7, <2>9, <2>10, <2>11, <3>1, <3>2, <3>3, PostsRewritten
  <2>13. next \in Requests /\ RequestOK(post, campaign, next)
    <3>1. CASE Len(q.ready) = 1
      BY <3>1, IdleOK, IdleFacts
    <3>2. CASE Len(q.ready) # 1
      <4> DEFINE n == [q EXCEPT !.ready = Tail(@)]
      <4>1. n \in Requests
        <5>1. q \in Requests /\ Tail(q.ready) \in ListOf(Edit)
          BY <1>2, <2>2 DEF ListOf
        <5> QED
          BY <5>1 DEF Requests
      <4>2. /\ n.op = q.op /\ n.at = q.at /\ n.slot = q.slot /\ n.text = q.text
            /\ n.ready = Tail(q.ready) /\ n.keyed = q.keyed /\ n.got = q.got /\ n.late = q.late
        BY <1>2 DEF Requests
      <4> HIDE DEF n
      <4>3. Shape(n)
        BY <1>1, <1>2, <2>2, <3>2, <4>2 DEF Shape, Rescheduling
      <4>4. Checks(post, n)
        BY <1>1, <1>2, <2>2, <4>2 DEF Checks, Rescheduling
      <4>5. Answers(post, n) /\ Late(campaign, n)
        BY <1>1, <1>2, <4>2 DEF Answers, Late, Shape, Rescheduling
      <4>6. RequestOK(post, campaign, n)
        BY <4>1, <4>3, <4>4, <4>5 DEF RequestOK
      <4>7. next = n
        BY <3>2 DEF n
      <4> QED
        BY <4>1, <4>6, <4>7
    <3> QED
      BY <3>1, <3>2
  <2> HIDE DEF next
  <2>14. /\ rest \in [Request -> Requests]
         /\ \A o \in Request : RequestOK(post, campaign, rest[o])
    BY <1>3, <2>13
  <2> HIDE DEF rest
  <2> QED
    BY <1>1, <1>5, <2>4, <2>9, <2>12, <2>14, RewriteInv
<1> QED
  BY <1>1, <1>4, <1>5

-----------------------------------------------------------------------------
(* New posts. *)
LEMMA GenerateInv ==
  ASSUME CampaignsInv, NEW r \in Request, Generate(r)
  PROVE  CampaignsInv'
<1> DEFINE q == req[r]
           late == Archived(q.campaign)
           E(t) == [NoEdit EXCEPT !.account = Head(q.left)[1], !.text = t]
           N(t) == [q EXCEPT !.at = "check", !.late = late, !.cur = E(t)]
<1>1. /\ q.at = "generate"
      /\ \/ (\E t \in Text : Set(r, N(t))) /\ UNCHANGED faults
         \/ faults < MaxFaults /\ faults' = faults + 1 /\ Ends(r)
      /\ UNCHANGED <<campaign, post, blind, ops>>
  BY DEF Generate
<1>2. /\ RequestOK(post, campaign, q) /\ q \in Requests /\ Shape(q) /\ Answers(post, q)
  BY RequestFacts DEF RequestOK
<1>3. UNCHANGED <<campaign, post, blind>> /\ ops' \in 0..MaxOps /\ faults' \in 0..MaxFaults
  BY <1>1, Counters
<1> HIDE DEF q
<1>4. q.op = "drafts" /\ q.left \in Seq(Account \X Item) /\ Len(q.left) > 0
      /\ q.campaign \in Campaign \cup {NoCampaign}
  BY <1>1, <1>2 DEF Shape, Requests, ListOf, Rescheduling
<1>5. Head(q.left) \in Account \X Item
  BY <1>4, TailFacts
<1>6. late \in BOOLEAN /\ (late => q.campaign \in Campaign /\ campaign[q.campaign] = "archived")
  BY <1>4, ArchivedIs
<1> HIDE DEF late
<1>7. ASSUME NEW t \in Text, Set(r, N(t))
      PROVE  CampaignsInv'
  <2> DEFINE e == E(t)
             n == [q EXCEPT !.at = "check", !.late = late, !.cur = e]
  <2>1. Set(r, n)
    BY <1>7
  <2>2. /\ e \in Edit /\ e.account = Head(q.left)[1] /\ e.slot = 0
    BY <1>5, NoEditFacts DEF Edit
  <2> HIDE DEF e, E, N
  <2>3. n \in Requests /\ n.late = late
    <3>1. q \in Requests /\ late \in BOOLEAN /\ e \in Edit
      BY <1>2, <1>6, <2>2
    <3>2. n \in Requests
      BY <3>1, ZenonT(60) DEF Requests
    <3> QED
      BY <3>1, <3>2 DEF Requests
  <2>4. /\ n.op = q.op /\ n.at = "check" /\ n.cur = e /\ n.left = q.left /\ n.got = q.got
        /\ n.campaign = q.campaign
    BY <1>2 DEF Requests
  <2> HIDE DEF n
  <2>5. Shape(n)
    BY <1>4, <2>2, <2>4 DEF Shape, Rescheduling
  <2>6. Checks(post, n)
    BY <1>4, <2>4 DEF Checks, Rescheduling
  <2>7. Answers(post, n) /\ Late(campaign, n)
    BY <1>2, <1>6, <2>3, <2>4 DEF Answers, Late
  <2>8. RequestOK(post, campaign, n)
    BY <2>3, <2>5, <2>6, <2>7 DEF RequestOK
  <2> QED
    BY <1>3, <2>1, <2>8, SetInv
<1> QED
  BY <1>1, <1>3, <1>7, EndsInv

LEMMA CheckNewInv ==
  ASSUME CampaignsInv, NEW r \in Request, CheckNew(r)
  PROVE  CampaignsInv'
<1> DEFINE q == req[r]
           n == [q EXCEPT !.at = "insert"]
<1>1. /\ q.at = "check"
      /\ Ends(r) \/ (~Archived(q.campaign) /\ Set(r, n))
      /\ UNCHANGED <<campaign, post, blind, ops, faults>>
  BY DEF CheckNew
<1>2. /\ RequestOK(post, campaign, q) /\ q \in Requests /\ Shape(q) /\ Late(campaign, q)
      /\ Checks(post, q) /\ Answers(post, q)
  BY RequestFacts DEF RequestOK
<1> HIDE DEF q
<1>3. /\ q.op \in {"create", "plan", "drafts"}
      /\ ~Archived(q.campaign) => ~q.late
  BY <1>1, <1>2 DEF Shape, Requests, Rescheduling, Late, Archived
<1>4. n \in Requests
  BY <1>2 DEF Requests
<1>5. /\ n.at = "insert" /\ n.op = q.op /\ n.campaign = q.campaign /\ n.left = q.left
      /\ n.got = q.got /\ n.late = q.late /\ n.cur = q.cur /\ n.keyed = q.keyed
  BY <1>2 DEF Requests
<1> HIDE DEF n
<1>6. ASSUME ~Archived(q.campaign)
      PROVE  RequestOK(post, campaign, n)
  <2>1. Shape(n)
    BY <1>1, <1>2, <1>3, <1>5, <1>6 DEF Shape, Rescheduling
  <2>2. Checks(post, n)
    BY <1>1, <1>2, <1>3, <1>5 DEF Checks, Rescheduling
  <2>3. Answers(post, n) /\ Late(campaign, n)
    BY <1>2, <1>5 DEF Answers, Late
  <2> QED
    BY <1>4, <2>1, <2>2, <2>3 DEF RequestOK
<1> QED
  BY <1>1, <1>6, SetInv, EndsInv, Counters DEF q

LEMMA PairIsAKey ==
  ASSUME NEW x \in Account \X Item
  PROVE  x # NoKey
<1>1. PICK a \in Account, i \in Item : x = <<a, i>>
  OBVIOUS
<1>2. Len(<<a, i>>) = 2 /\ Len(<<>>) = 0
  OBVIOUS
<1> QED
  BY <1>1, <1>2 DEF NoKey

(* The drafts go on with the next one. *)
LEMMA AnsweredOK ==
  ASSUME NEW P, NEW C, NEW q \in Requests, Shape(q), q.at = "insert", Answers(P, q),
         NEW p \in Post,
         q.op = "drafts" =>
           P[p].stage # "absent" /\ <<P[p].account, P[p].item>> = Head(q.left)
  PROVE  /\ Answered(q, p) \in Requests /\ RequestOK(P, C, Answered(q, p))
         /\ Answered(q, p).op \in {"none", "drafts"}
<1>1. CASE q.op # "drafts" \/ Len(q.left) = 1
  BY <1>1, IdleOK, IdleFacts DEF Answered
<1>2. CASE q.op = "drafts" /\ Len(q.left) # 1
  <2> DEFINE left == Tail(q.left)
             got == Append(q.got, <<Head(q.left), p>>)
             n == [q EXCEPT !.at = "generate", !.left = left, !.got = got, !.late = FALSE,
                            !.cur = NoEdit]
  <2>1. q.left \in Seq(Account \X Item) /\ Len(q.left) > 0
        /\ q.got \in Seq((Account \X Item) \X Post)
    BY <1>2 DEF Requests, ListOf, Shape
  <2>2. /\ Head(q.left) \in Account \X Item
        /\ left \in Seq(Account \X Item) /\ Len(left) > 0
    <3> DEFINE s == q.left
    <3>1. s \in Seq(Account \X Item) /\ Len(s) > 0
      BY <2>1
    <3> HIDE DEF s
    <3>2. /\ Head(s) \in Account \X Item /\ Tail(s) \in Seq(Account \X Item)
          /\ Len(s) \in Nat /\ Len(Tail(s)) = Len(s) - 1
      BY <3>1, TailFacts
    <3>3. Len(s) # 1 => Len(Tail(s)) > 0
      BY <3>1, <3>2
    <3> QED
      BY <1>2, <3>2, <3>3 DEF s
  <2>3. /\ got \in Seq((Account \X Item) \X Post)
        /\ \A i \in DOMAIN got :
             \/ i \in DOMAIN q.got /\ got[i] = q.got[i]
             \/ got[i] = <<Head(q.left), p>>
    BY <2>1, <2>2
  <2> HIDE DEF left, got
  <2>4. n \in Requests
    <3>1. left \in ListOf(Account \X Item) /\ got \in ListOf((Account \X Item) \X Post)
      BY <2>2, <2>3 DEF ListOf
    <3> QED
      BY <3>1, NoEditFacts, ZenonT(60) DEF Requests
  <2>5. /\ n.op = "drafts" /\ n.at = "generate" /\ n.left = left /\ n.got = got /\ ~n.late
    BY <1>2 DEF Requests
  <2>6. n = Answered(q, p)
    BY <1>2 DEF Answered, left, got
  <2> HIDE DEF n
  <2>7. Answers(P, n)
    <3> SUFFICES ASSUME NEW i \in DOMAIN got
                 PROVE  /\ P[got[i][2]].stage # "absent"
                        /\ <<P[got[i][2]].account, P[got[i][2]].item>> = got[i][1]
      BY <2>5 DEF Answers
    <3>1. CASE i \in DOMAIN q.got /\ got[i] = q.got[i]
      BY <3>1 DEF Answers
    <3>2. CASE got[i] = <<Head(q.left), p>>
      BY <1>2, <3>2
    <3> QED
      BY <2>3, <3>1, <3>2
  <2>8. Shape(n) /\ Checks(P, n) /\ Late(C, n)
    BY <2>2, <2>5 DEF Shape, Checks, Late, Rescheduling
  <2> QED
    BY <2>4, <2>5, <2>6, <2>7, <2>8 DEF RequestOK
<1> QED
  BY <1>1, <1>2

LEMMA InsertInv ==
  ASSUME CampaignsInv, NEW r \in Request, Insert(r)
  PROVE  CampaignsInv'
<1> DEFINE q == req[r]
           item == IF q.op = "drafts" THEN Head(q.left)[2] ELSE NoItem
           row == [stage |-> IF q.cur.slot = 0 THEN "draft" ELSE "scheduled",
                   account |-> q.cur.account, campaign |-> q.campaign, text |-> q.cur.text,
                   slot |-> q.cur.slot, key |-> Key(q), item |-> item]
<1>1. /\ q.at = "insert" /\ UNCHANGED <<campaign, ops, faults>>
      /\ \/ \E p \in Holder(q) : Set(r, Answered(q, p)) /\ UNCHANGED <<post, blind>>
         \/ /\ Holder(q) = {}
            /\ \E p \in Post :
                 /\ post[p].stage = "absent" /\ post' = [post EXCEPT ![p] = row]
                 /\ blind' = Unseen(p, q.cur.missed)
                 /\ req' = Touched(p, [req EXCEPT ![r] = Answered(q, p)])
  BY DEF Insert
<1>2. /\ RequestOK(post, campaign, q) /\ q \in Requests /\ Shape(q) /\ Checks(post, q)
      /\ Answers(post, q) /\ Late(campaign, q) /\ PostsOK(post, blind)
      /\ post \in [Post -> Posts] /\ blind \subseteq SUBSET Post
  BY RequestFacts DEF RequestOK
<1>3. req \in [Request -> Requests] /\ \A o \in Request : RequestOK(post, campaign, req[o])
  BY DEF CampaignsInv
<1>4. UNCHANGED <<campaign>> /\ ops' \in 0..MaxOps /\ faults' \in 0..MaxFaults
  BY <1>1, Counters
<1> HIDE DEF q
<1>5. /\ q.op \in {"create", "plan", "drafts"} /\ q.cur \in Edit
      /\ q.campaign \in Campaign \cup {NoCampaign} /\ q.keyed \in BOOLEAN
  BY <1>1, <1>2 DEF Shape, Requests, Rescheduling
<1>6. q.op # "drafts" => ~q.keyed
  BY <1>2 DEF Shape
<1>7. ASSUME q.op = "drafts"
      PROVE  /\ Head(q.left) \in Account \X Item /\ q.cur.account = Head(q.left)[1]
             /\ q.cur.slot = 0 /\ DraftKey(q) = Head(q.left)
  <2>1. /\ q.left \in Seq(Account \X Item) /\ Len(q.left) > 0
        /\ q.cur.account = Head(q.left)[1] /\ q.cur.slot = 0
    BY <1>1, <1>2, <1>7 DEF Shape, Requests, ListOf
  <2>2. Head(q.left) \in Account \X Item
    BY <2>1, TailFacts
  <2> QED
    BY <2>1, <2>2 DEF DraftKey
<1>8. ASSUME NEW p \in Holder(q), Set(r, Answered(q, p)), UNCHANGED <<post, blind>>
      PROVE  CampaignsInv'
  <2>1. p \in Post /\ Exists(p) /\ q.op = "drafts" /\ post[p].key = DraftKey(q)
    BY <1>6, <1>8 DEF Holder
  <2>2. post[p].stage # "absent"
    BY <2>1 DEF Exists
  <2>3. Head(q.left) \in Account \X Item /\ post[p].key = Head(q.left)
    BY <1>7, <2>1
  <2>4. post[p].key # NoKey
    BY <2>3, PairIsAKey
  <2>5. <<post[p].account, post[p].item>> = Head(q.left)
    BY <1>2, <2>1, <2>3, <2>4 DEF PostsOK
  <2>6. RequestOK(post, campaign, Answered(q, p))
    BY <1>1, <1>2, <2>1, <2>2, <2>5, AnsweredOK
  <2> QED
    BY <1>4, <1>8, <2>6, SetInv
<1>9. ASSUME Holder(q) = {}, NEW p \in Post, post[p].stage = "absent",
             post' = [post EXCEPT ![p] = row], blind' = Unseen(p, q.cur.missed),
             req' = Touched(p, [req EXCEPT ![r] = Answered(q, p)])
      PROVE  CampaignsInv'
  <2> DEFINE rest == [req EXCEPT ![r] = Answered(q, p)]
  <2>1. item \in Item
    BY <1>7 DEF NoItem, Item
  <2>2. Key(q) \in {NoKey} \cup (Account \X Item)
    BY <1>6, <1>7 DEF Key
  <2>3. /\ q.cur.account \in Account \cup {Own} /\ q.cur.text \in Text \cup {Own}
        /\ q.cur.slot \in Slot /\ q.cur.missed \in SUBSET Post
    BY <1>5 DEF Edit
  <2>4. Key(q) # NoKey => q.op = "drafts" /\ q.keyed /\ Key(q) = <<q.cur.account, item>>
    BY <1>6, <1>7 DEF Key, DraftKey
  <2> HIDE DEF item
  <2>5. row \in Posts
    BY <1>5, <2>1, <2>2, <2>3 DEF Posts
  <2>6. /\ row.stage = (IF q.cur.slot = 0 THEN "draft" ELSE "scheduled") /\ row.slot = q.cur.slot
        /\ row.account = q.cur.account /\ row.text = q.cur.text /\ row.key = Key(q)
        /\ row.item = item
    OBVIOUS
  <2> HIDE DEF row
  <2>7. /\ post' \in [Post -> Posts] /\ post'[p] = row
        /\ \A x \in Post : x # p => post'[x] = post[x]
    BY <1>2, <1>9, <2>5
  <2>8. Rewritten(post, post', p)
    BY <1>9, <2>7 DEF Rewritten
  <2>9. /\ blind' \in SUBSET SUBSET Post
        /\ \A pair \in blind : p \notin pair => pair \in blind'
        /\ \A x \in Post : x # p /\ (p \in q.cur.missed \/ x \in q.cur.missed) => {p, x} \in blind'
    <3> DEFINE missed == q.cur.missed
    <3>1. missed \in SUBSET Post
      BY <2>3
    <3> HIDE DEF missed
    <3>2. /\ Unseen(p, missed) \in SUBSET SUBSET Post
          /\ \A pair \in blind : p \notin pair => pair \in Unseen(p, missed)
          /\ \A x \in Post : x # p /\ (p \in missed \/ x \in missed) => {p, x} \in Unseen(p, missed)
      BY <1>2, <3>1, UnseenPairs
    <3> QED
      BY <1>9, <3>2 DEF missed
  <2>10. ASSUME NEW x \in Post, x # p, post'[p].stage = "scheduled", post[x].stage = "scheduled",
                Close(post', p, x)
         PROVE  {p, x} \in blind'
    <3>1. CASE p \in q.cur.missed \/ x \in q.cur.missed
      BY <2>9, <2>10, <3>1
    <3>2. CASE p \notin q.cur.missed /\ x \notin q.cur.missed
      <4>1. q.cur.slot # 0
        BY <2>6, <2>7, <2>10
      <4>2. q.op = "plan"
        BY <1>2, <1>5, <1>7, <3>2, <4>1 DEF Shape
      <4>3. q.cur.post = 0 /\ Cleared(post, q.cur, {})
        BY <1>1, <1>2, <4>2 DEF Shape, Checks
      <4>4. post[x].slot # 0 /\ post[x].slot \in Int /\ q.cur.slot \in Int
        BY <1>2, <2>3, <2>10 DEF PostsOK, Posts, Slot
      <4>5. /\ post'[p].account = q.cur.account /\ post'[p].slot = q.cur.slot
            /\ post'[p].text = q.cur.text /\ post'[x] = post[x] /\ x # q.cur.post
        BY <2>6, <2>7, <2>10, <4>3 DEF Post
      <4>6. ~Close(post', p, x)
        BY <2>10, <3>2, <4>3, <4>4, <4>5, ClearedApart
      <4> QED
        BY <2>10, <4>6
    <3> QED
      BY <3>1, <3>2
  <2>11. PostsOK(post', blind')
    <3>1. post'[p].stage = "scheduled" => post'[p].slot # 0
      BY <2>6, <2>7
    <3>2. post'[p].key # NoKey => post'[p].key = <<post'[p].account, post'[p].item>>
      BY <2>4, <2>6, <2>7
    <3>3. post'[p].key # NoKey
          => \A x \in Post : x # p /\ There(post, x) => post[x].key # post'[p].key
      BY <1>9, <2>4, <2>6, <2>7 DEF Holder, Exists, There, Key
    <3> QED
      BY <1>2, <2>7, <2>8, <2>9, <2>10, <3>1, <3>2, <3>3, PostsRewritten
  <2>12. Answers(post', q)
    BY <1>2, <2>8, RewrittenAnswers
  <2>13. q.op = "drafts" =>
           post'[p].stage # "absent" /\ <<post'[p].account, post'[p].item>> = Head(q.left)
    BY <1>7, <2>6, <2>7 DEF item
  <2>14. /\ Answered(q, p) \in Requests /\ RequestOK(post', campaign, Answered(q, p))
         /\ Answered(q, p).op \in {"none", "drafts"}
    BY <1>1, <1>2, <2>12, <2>13, AnsweredOK
  <2>15. /\ rest \in [Request -> Requests]
         /\ \A o \in Request :
              \/ RequestOK(post, campaign, rest[o])
              \/ /\ rest[o].op \notin {"schedule", "edit", "plan"}
                 /\ RequestOK(post', campaign, rest[o])
    BY <1>3, <2>14
  <2>16. req' = Touched(p, rest)
    BY <1>9
  <2> HIDE DEF rest
  <2> QED
    BY <1>1, <2>8, <2>11, <2>15, <2>16, RewriteInv
<1> QED
  BY <1>1, <1>8, <1>9

-----------------------------------------------------------------------------
(* Campaigns, and posts that move on. *)
LEMMA LateAgainOK ==
  ASSUME NEW P, NEW C, NEW D, NEW q, RequestOK(P, C, q), NEW b \in BOOLEAN,
         b => q.late, b => Late(D, q)
  PROVE  RequestOK(P, D, [q EXCEPT !.late = b])
<1> DEFINE n == [q EXCEPT !.late = b]
<1>1. q \in Requests /\ Shape(q) /\ Checks(P, q) /\ Answers(P, q)
  BY DEF RequestOK
<1>2. n \in Requests /\ n.late = b
  BY <1>1 DEF Requests
<1>3. /\ n.op = q.op /\ n.at = q.at /\ n.campaign = q.campaign /\ n.todo = q.todo
      /\ n.slot = q.slot /\ n.text = q.text /\ n.ids = q.ids
  BY <1>1 DEF Requests
<1>4. /\ n.ready = q.ready /\ n.cur = q.cur /\ n.keyed = q.keyed /\ n.left = q.left
      /\ n.got = q.got
  BY <1>1 DEF Requests
<1> HIDE DEF n
<1>5. Shape(n)
  <2>1. n.late => q.late
    BY <1>2
  <2> QED
    BY <1>1, <1>3, <1>4, <2>1 DEF Shape, Rescheduling
<1>6. Checks(P, n) /\ Answers(P, n)
  BY <1>1, <1>3, <1>4 DEF Checks, Answers, Rescheduling
<1>7. Late(D, n)
  BY <1>2, <1>3 DEF Late
<1> QED
  BY <1>2, <1>5, <1>6, <1>7 DEF RequestOK, n

LEMMA WriteCampaignInv ==
  ASSUME CampaignsInv, NEW r \in Request, WriteCampaign(r)
  PROVE  CampaignsInv'
<1> DEFINE q == req[r]
           c == q.campaign
           new == NewStatus(q)
<1>1. /\ q.op = "update" /\ campaign' = [campaign EXCEPT ![c] = new]
      /\ req' = [o \in Request |->
           IF o = r THEN Idle
           ELSE [req[o] EXCEPT !.late = @ /\ (req[o].campaign = c => new = "archived")]]
      /\ UNCHANGED <<post, blind, ops, faults>>
  BY DEF WriteCampaign
<1>2. /\ q \in Requests /\ Shape(q) /\ campaign \in [Campaign -> Status] /\ PostsOK(post, blind)
      /\ req \in [Request -> Requests] /\ \A o \in Request : RequestOK(post, campaign, req[o])
  BY DEF CampaignsInv, RequestOK
<1> HIDE DEF q
<1>3. c \in Campaign
  BY <1>1, <1>2 DEF Shape
<1>4. new \in Status
  BY <1>2 DEF NewStatus, Requests
<1> HIDE DEF c, new
<1>5. /\ campaign' \in [Campaign -> Status] /\ campaign'[c] = new
      /\ \A d \in Campaign : d # c => campaign'[d] = campaign[d]
  BY <1>1, <1>2, <1>3, <1>4
<1>6. ASSUME NEW o \in Request
      PROVE  RequestOK(post, campaign', req'[o])
  <2>1. CASE o = r
    BY <1>1, <2>1, IdleOK
  <2>2. CASE o # r
    <3> DEFINE b == req[o].late /\ (req[o].campaign = c => new = "archived")
    <3>1. b \in BOOLEAN /\ (b => req[o].late)
      BY <1>2 DEF Requests
    <3>2. req'[o] = [req[o] EXCEPT !.late = b]
      BY <1>1, <2>2
    <3>3. b => Late(campaign', req[o])
      <4>1. Late(campaign, req[o])
        BY <1>2 DEF RequestOK
      <4> QED
        BY <1>5, <4>1 DEF Late
    <3> HIDE DEF b
    <3>4. RequestOK(post, campaign', [req[o] EXCEPT !.late = b])
      BY <1>2, <3>1, <3>3, LateAgainOK
    <3> QED
      BY <3>2, <3>4
  <2> QED
    BY <2>1, <2>2
<1>7. req' \in [Request -> Requests]
  <2>1. \A o \in Request : req'[o] \in Requests
    BY <1>6 DEF RequestOK
  <2>2. req' = [o \in Request |-> req'[o]]
    BY <1>1
  <2> QED
    BY <2>1, <2>2
<1>8. UNCHANGED <<post, blind>> /\ ops' \in 0..MaxOps /\ faults' \in 0..MaxFaults
  BY <1>1, Counters
<1> QED
  BY <1>2, <1>5, <1>6, <1>7, <1>8 DEF CampaignsInv

(* One post goes on, or to a campaign. *)
LEMMA MovingInv ==
  ASSUME CampaignsInv, Moved(post, post'), post' \in [Post -> Posts],
         UNCHANGED <<campaign, req, blind, faults>>, ops' \in 0..MaxOps
  PROVE  CampaignsInv'
<1>1. \A r \in Request : RequestOK(post, campaign, req[r])
  BY DEF CampaignsInv
<1>2. \A r \in Request : RequestOK(post', campaign, req[r])
  BY <1>1, MovedOK
<1>3. PostsOK(post', blind)
  BY PostsMoved DEF CampaignsInv
<1> QED
  BY <1>2, <1>3 DEF CampaignsInv

LEMMA MovesInv ==
  ASSUME CampaignsInv, NEW p \in Post, Cancel(p) \/ Delete(p) \/ Publish(p)
  PROVE  CampaignsInv'
<1> DEFINE Outcome == {"canceled", "gone", "published", "failed"}
<1>1. PICK to \in Outcome :
        /\ post[p].stage \in {"draft", "scheduled", "failed", "canceled"}
        /\ post' = [post EXCEPT ![p].stage = to]
        /\ UNCHANGED <<campaign, req, blind, faults>>
  <2>1. CASE Cancel(p)
    BY <2>1 DEF Cancel, Moves
  <2>2. CASE Delete(p)
    BY <2>2 DEF Delete, Moves, Editable
  <2>3. CASE Publish(p)
    BY <2>3 DEF Publish, Moves
  <2> QED
    BY <2>1, <2>2, <2>3
<1>2. ops' \in 0..MaxOps
  BY Counters DEF Cancel, Delete, Publish
<1>3. post \in [Post -> Posts]
  BY DEF CampaignsInv, PostsOK
<1> DEFINE row == [post[p] EXCEPT !.stage = to]
<1>4. /\ row \in Posts /\ row.stage = to /\ row.account = post[p].account
      /\ row.text = post[p].text /\ row.slot = post[p].slot /\ row.key = post[p].key
      /\ row.item = post[p].item
  BY <1>3 DEF Posts
<1>5. post' = [post EXCEPT ![p] = row]
  BY <1>1
<1> HIDE DEF row
<1>6. /\ post' \in [Post -> Posts] /\ post'[p] = row
      /\ \A x \in Post : x # p => post'[x] = post[x]
  BY <1>3, <1>4, <1>5
<1>7. Moved(post, post')
  <2> SUFFICES ASSUME NEW x \in Post
               PROVE  /\ post'[x].account = post[x].account /\ post'[x].text = post[x].text
                      /\ post'[x].slot = post[x].slot /\ post'[x].key = post[x].key
                      /\ post'[x].item = post[x].item
                      /\ post'[x].stage = "absent" <=> post[x].stage = "absent"
                      /\ There(post', x) => There(post, x)
                      /\ post'[x].stage = "scheduled" => post[x].stage = "scheduled"
    BY DEF Moved
  <2>1. CASE x = p
    BY <1>1, <1>4, <1>6, <2>1 DEF There
  <2>2. CASE x # p
    BY <1>6, <2>2 DEF There
  <2> QED
    BY <2>1, <2>2
<1> QED
  BY <1>1, <1>2, <1>6, <1>7, MovingInv

LEMMA AttachInv ==
  ASSUME CampaignsInv, NEW p \in Post, NEW c \in Campaign, Attach(p, c)
  PROVE  CampaignsInv'
<1> DEFINE row == [post[p] EXCEPT !.campaign = c]
<1>1. /\ post' = [post EXCEPT ![p] = row] /\ UNCHANGED <<campaign, req, blind, faults>>
      /\ ops' \in 0..MaxOps
  BY Counters DEF Attach
<1>2. post \in [Post -> Posts]
  BY DEF CampaignsInv, PostsOK
<1>3. /\ row \in Posts /\ row.stage = post[p].stage /\ row.account = post[p].account
      /\ row.text = post[p].text /\ row.slot = post[p].slot /\ row.key = post[p].key
      /\ row.item = post[p].item
  BY <1>2 DEF Posts
<1> HIDE DEF row
<1>4. /\ post' \in [Post -> Posts] /\ post'[p] = row
      /\ \A x \in Post : x # p => post'[x] = post[x]
  BY <1>1, <1>2, <1>3
<1>5. Moved(post, post')
  BY <1>3, <1>4 DEF Moved, There
<1> QED
  BY <1>1, <1>4, <1>5, MovingInv

-----------------------------------------------------------------------------
LEMMA InitCampaignsInv ==
  ASSUME Init
  PROVE  CampaignsInv
<1>1. PICK a \in [1..NumDrafts -> Account], c \in [1..NumDrafts -> Campaign \cup {NoCampaign}],
           t \in [1..NumDrafts -> Text], n \in 0..NumDrafts :
        post = [p \in Post |-> IF p > n THEN NoPost ELSE Draft(a[p], c[p], t[p])]
  BY DEF Init
<1>2. /\ NoPost \in Posts /\ NoPost.stage = "absent" /\ NoPost.key = NoKey
  BY DEF NoPost, Posts, NoItem, Item, Slot
<1>3. ASSUME NEW x \in Account, NEW y \in Campaign \cup {NoCampaign}, NEW z \in Text
      PROVE  /\ Draft(x, y, z) \in Posts
             /\ Draft(x, y, z).stage = "draft" /\ Draft(x, y, z).key = NoKey
  BY <1>2 DEF Draft, Posts
<1>4. ASSUME NEW p \in Post
      PROVE  post[p] \in Posts /\ post[p].stage \in {"absent", "draft"} /\ post[p].key = NoKey
  <2>1. CASE p > n
    BY <1>1, <1>2, <2>1
  <2>2. CASE ~(p > n)
    <3>1. p \in 1..NumDrafts
      BY <2>2 DEF Post
    <3>2. a[p] \in Account /\ c[p] \in Campaign \cup {NoCampaign} /\ t[p] \in Text
      BY <3>1
    <3>3. post[p] = Draft(a[p], c[p], t[p])
      BY <1>1, <2>2
    <3> QED
      BY <1>3, <3>2, <3>3
  <2> QED
    BY <2>1, <2>2
<1>5. post \in [Post -> Posts]
  BY <1>1, <1>4
<1>6. PostsOK(post, blind)
  BY <1>4, <1>5 DEF PostsOK, Init
<1>7. /\ req \in [Request -> Requests] /\ \A r \in Request : RequestOK(post, campaign, req[r])
  BY IdleFacts, IdleOK DEF Init
<1>8. campaign \in [Campaign -> Status] /\ ops \in 0..MaxOps /\ faults \in 0..MaxFaults
  BY DEF Init, Status
<1> QED
  BY <1>6, <1>7, <1>8 DEF CampaignsInv

LEMMA StepInv ==
  ASSUME CampaignsInv, NEW r \in Request, Step(r)
  PROVE  CampaignsInv'
BY WriteCampaignInv, ReadPostInv, CheckCampaignInv, ListIdsInv, LoadPostInv, WriteInv,
   GenerateInv, CheckNewInv, InsertInv DEF Step

LEMMA RequestedInv ==
  ASSUME CampaignsInv, NEW r \in Request, Requested(r)
  PROVE  CampaignsInv'
<1>1. CASE \E c \in Campaign, asked \in Status \cup {Own} : BeginUpdate(r, c, asked)
  BY <1>1, BeginUpdateInv
<1>2. CASE \E p \in Known, s \in Slot \ {0} : BeginSchedule(r, p, s)
  BY <1>2, BeginScheduleInv DEF Known
<1>3. CASE \E todo \in Todo, s \in Slot \cup {Kept}, t \in Text : BeginEdit(r, todo, s, t)
  BY <1>3, BeginEditInv
<1>4. CASE \E a \in Account, c \in Campaign \cup {NoCampaign}, t \in Text, s \in Slot :
             BeginCreate(r, a, c, t, s) \/ (s # 0 /\ BeginPlan(r, a, c, t, s))
  BY <1>4, BeginCreateInv, BeginPlanInv
<1>5. CASE \E c \in Campaign, accounts \in SetToSeqs(Account), items \in Items, keyed \in BOOLEAN :
             BeginDrafts(r, c, accounts, items, keyed)
  BY <1>5, BeginDraftsInv
<1> QED
  BY <1>1, <1>2, <1>3, <1>4, <1>5 DEF Requested

(* The tables and every request in progress agree: in every reachable state. *)
THEOREM CampaignsInvariance == Spec => []CampaignsInv
<1>1. Init => CampaignsInv
  BY InitCampaignsInv
<1>2. CampaignsInv /\ [Next]_vars => CampaignsInv'
  <2> SUFFICES ASSUME CampaignsInv, [Next]_vars PROVE CampaignsInv'
    OBVIOUS
  <2>1. CASE UNCHANGED vars
    BY <2>1 DEF vars, CampaignsInv
  <2>2. CASE \E r \in Request : Step(r) \/ (req[r] = Idle /\ ops < MaxOps /\ Requested(r))
    BY <2>2, StepInv, RequestedInv
  <2>3. CASE \E p \in Post :
               Cancel(p) \/ Delete(p) \/ Publish(p) \/ \E c \in Campaign : Attach(p, c)
    BY <2>3, MovesInv, AttachInv
  <2> QED
    BY <2>1, <2>2, <2>3 DEF Next
<1> QED
  BY <1>1, <1>2, PTL DEF Spec

-----------------------------------------------------------------------------
(* What the run checks, in every reachable state of every instance.          *)

(* The type invariant. *)
THEOREM CampaignsTypeCorrect == Spec => []TypeOK
<1>1. CampaignsInv => TypeOK
  <2> SUFFICES ASSUME CampaignsInv, NEW r \in Request
               PROVE  /\ req[r].cur \in Edit /\ req[r].ids \subseteq Post
                      /\ \A i \in DOMAIN req[r].ready : req[r].ready[i] \in Edit
    BY DEF TypeOK, CampaignsInv, PostsOK
  <2>1. req[r] \in Requests
    BY DEF CampaignsInv
  <2>2. req[r].cur \in Edit /\ req[r].ids \in SUBSET Post /\ req[r].ready \in Seq(Edit)
    BY <2>1 DEF Requests, ListOf
  <2> QED
    BY <2>2
<1> QED
  BY <1>1, CampaignsInvariance, PTL

LEMMA SlotsFarApart ==
  ASSUME CampaignsInv, NEW p \in Post, NEW q \in Post, p # q,
         post[p].stage = "scheduled", post[q].stage = "scheduled",
         post[p].account = post[q].account,
         \/ Distance(post[p].slot, post[q].slot) <= Apart
         \/ /\ Distance(post[p].slot, post[q].slot) <= Recent
            /\ post[p].text = post[q].text
  PROVE  {p, q} \in blind
BY DEF CampaignsInv, PostsOK, Close

LEMMA NothingToWarnOf ==
  ASSUME CampaignsInv, NEW r \in Request, req[r].at = "write", req[r].op = "schedule",
         Head(req[r].ready).missed = {}, Exists(Head(req[r].ready).post)
  PROVE  Warnings(Head(req[r].ready).post, Head(req[r].ready).slot) \subseteq {"archived"}
<1> DEFINE q == req[r]
           e == q.ready[1]
           p == e.post
<1>1. /\ q \in Requests /\ Shape(q) /\ Checks(post, q) /\ post \in [Post -> Posts]
  BY RequestFacts DEF RequestOK
<1>2. /\ q.ready \in Seq(Edit) /\ Len(q.ready) > 0 /\ q.at = "write" /\ q.op = "schedule"
      /\ \A i \in DOMAIN q.ready : q.ready[i].slot # 0
  BY <1>1 DEF Shape, Requests, ListOf, Rescheduling
<1>3. /\ e = Head(q.ready) /\ 1 \in DOMAIN q.ready /\ e \in Edit /\ e.slot # 0
  BY <1>2
<1>4. Read(post, e, "schedule") /\ Cleared(post, e, {}) /\ e.missed = {}
  BY <1>1, <1>2, <1>3 DEF Checks, Rescheduling
<1>5. e.slot \in Slot /\ e.post \in Post \cup {0}
  BY <1>3 DEF Edit
<1> HIDE DEF e
<1>6. /\ p \in Post /\ e.account = post[p].account /\ e.text = post[p].text
  BY <1>4, <1>5 DEF Read
<1> DEFINE f == [NoEdit EXCEPT !.post = p, !.account = post[p].account, !.text = post[p].text,
                               !.slot = e.slot]
<1>7. /\ f.post = p /\ f.account = e.account /\ f.text = e.text /\ f.slot = e.slot
  BY <1>6, NoEditFacts DEF Edit
<1> HIDE DEF f
<1>8. ASSUME NEW x \in Listed(e.slot), Clashes(f, x)
      PROVE  FALSE
  <2>1. /\ x \in Post /\ There(post, x) /\ post[x].slot # 0
        /\ Distance(post[x].slot, e.slot) <= Recent
    BY <1>8 DEF Listed, Exists, There
  <2>2. /\ x # p /\ post[x].account = e.account
        /\ \/ Distance(post[x].slot, e.slot) <= Apart
           \/ post[x].text = e.text
    BY <1>7, <1>8 DEF Clashes
  <2>3. Near(post, e, x)
    BY <2>1, <2>2 DEF Near
  <2> QED
    BY <1>4, <2>1, <2>2, <2>3 DEF Cleared
<1>9. Warnings(p, e.slot) \subseteq {"archived"}
  BY <1>8 DEF Warnings, f
<1> QED
  BY <1>3, <1>9

(* Two posts of an account are scheduled close to each other, or with one    *)
(* text, only if one was created without a check or their requests           *)
(* overlapped; and a preview has nothing against a schedule that passed its  *)
(* checks while no post changes (mutations.go:160, :458).                    *)
THEOREM SlotsStayApart == Spec => []SlotsApart
<1>1. CampaignsInv => SlotsApart
  BY SlotsFarApart, NothingToWarnOf DEF SlotsApart
<1> QED
  BY <1>1, CampaignsInvariance, PTL

(* The drafts of a prefix are there once for an account and a time or        *)
(* variant, and answered with a post of theirs (drafts.go:174, :276).        *)
THEOREM DraftsAreOnce == Spec => []DraftsOnce
<1>1. CampaignsInv => DraftsOnce
  <2> SUFFICES ASSUME CampaignsInv PROVE DraftsOnce
    OBVIOUS
  <2>1. ASSUME NEW p \in Post, NEW q \in Post, p # q, Exists(p), Exists(q),
               post[p].key # NoKey, post[q].key # NoKey
        PROVE  <<post[p].account, post[p].item>> # <<post[q].account, post[q].item>>
    <3>1. /\ post[p].key = <<post[p].account, post[p].item>>
          /\ post[q].key = <<post[q].account, post[q].item>>
          /\ post[p].key # post[q].key
      BY <2>1 DEF CampaignsInv, PostsOK, Exists, There
    <3> QED
      BY <3>1
  <2>2. ASSUME NEW r \in Request, NEW i \in DOMAIN req[r].got
        PROVE  <<post[req[r].got[i][2]].account, post[req[r].got[i][2]].item>> = req[r].got[i][1]
    BY <2>2 DEF CampaignsInv, RequestOK, Answers
  <2> QED
    BY <2>1, <2>2 DEF DraftsOnce
<1> QED
  BY <1>1, CampaignsInvariance, PTL

(* A request stays where it is when another one takes a step. *)
LEMMA OthersStay ==
  ASSUME CampaignsInv, NEW r \in Request, NEW o \in Request, o # r, Step(r)
  PROVE  req'[o].at = req[o].at /\ Len(req'[o].ready) = Len(req[o].ready)
<1>1. req \in [Request -> Requests] /\ req[o] \in Requests
  BY DEF CampaignsInv
<1>2. ASSUME NEW q, Set(r, q)
      PROVE  req'[o] = req[o]
  BY <1>1, <1>2 DEF Set
<1>3. ASSUME NEW p \in Post, NEW q, req' = Touched(p, [req EXCEPT ![r] = q])
      PROVE  req'[o].at = req[o].at /\ Len(req'[o].ready) = Len(req[o].ready)
  <2> DEFINE rest == [req EXCEPT ![r] = q]
  <2>1. rest[o] = req[o] /\ req' = Touched(p, rest)
    BY <1>1, <1>3
  <2> HIDE DEF rest
  <2>2. req'[o] = Aged(req[o], p) \/ req'[o] = req[o]
    BY <2>1 DEF Touched, Aged
  <2> QED
    BY <1>1, <2>2, AgedFields
<1>4. CASE WriteCampaign(r)
  BY <1>1, <1>4 DEF WriteCampaign, Requests
<1>5. CASE ReadPost(r)
  BY <1>2, <1>5 DEF ReadPost, Ends
<1>6. CASE CheckCampaign(r) \/ ListIds(r)
  BY <1>2, <1>6 DEF CheckCampaign, ListIds, Ends
<1>7. CASE LoadPost(r)
  BY <1>2, <1>7 DEF LoadPost, Ends
<1>8. CASE Write(r)
  <2>1. CASE Ends(r)
    BY <1>2, <2>1 DEF Ends
  <2>2. CASE ~Ends(r)
    <3> DEFINE e == Head(req[r].ready)
               next == IF Len(req[r].ready) = 1 THEN Idle
                       ELSE [req[r] EXCEPT !.ready = Tail(@)]
    <3>1. req[r].at = "write" /\ req' = Touched(e.post, [req EXCEPT ![r] = next])
          /\ Rescheduling(req[r])
      BY <1>8, <2>2 DEF Write, Rescheduling
    <3>2. e.post \in Post
      <4>1. req[r] \in Requests /\ Shape(req[r]) /\ Checks(post, req[r])
        BY RequestFacts DEF RequestOK
      <4>2. req[r].ready \in Seq(Edit) /\ Len(req[r].ready) > 0
        BY <3>1, <4>1 DEF Requests, ListOf, Shape
      <4>3. 1 \in DOMAIN req[r].ready /\ e = req[r].ready[1] /\ e \in Edit
        BY <4>2
      <4>4. Read(post, e, req[r].op)
        BY <3>1, <4>1, <4>3 DEF Checks
      <4> QED
        BY <4>3, <4>4 DEF Read, Edit
    <3> HIDE DEF e, next
    <3> QED
      BY <1>3, <3>1, <3>2
  <2> QED
    BY <2>1, <2>2
<1>9. CASE Generate(r) \/ CheckNew(r)
  BY <1>2, <1>9 DEF Generate, CheckNew, Ends
<1>10. CASE Insert(r)
  BY <1>2, <1>3, <1>10 DEF Insert
<1> QED
  BY <1>4, <1>5, <1>6, <1>7, <1>8, <1>9, <1>10 DEF Step

(* A request that is late writes no post. *)
LEMMA LateWritesNothing ==
  ASSUME CampaignsInv, NEW r \in Request, req[r].late, Step(r)
  PROVE  UNCHANGED post
<1>1. req[r].at \in {"campaign", "ids", "posts", "check"}
  BY RequestFacts DEF RequestOK, Shape
<1>2. ~Write(r) /\ ~Insert(r)
  BY <1>1 DEF Write, Insert
<1> QED
  BY <1>2 DEF Step, WriteCampaign, ReadPost, CheckCampaign, ListIds, LoadPost, Generate, CheckNew

LEMMA RequestedWritesNothing ==
  ASSUME NEW r \in Request, Requested(r)
  PROVE  UNCHANGED <<post, campaign>>
BY DEF Requested, BeginUpdate, BeginSchedule, BeginEdit, BeginCreate, BeginPlan, BeginDrafts

(* Only an update changes a campaign, to the status that it asks for or has  *)
(* read.                                                                     *)
LEMMA CampaignsChange ==
  ASSUME CampaignsInv, NEW r \in Request, Step(r), NEW c \in Campaign,
         campaign[c] = "archived", campaign'[c] # "archived"
  PROVE  /\ req[r].op = "update" /\ req[r].campaign = c
         /\ req[r].asked = campaign'[c] \/ req[r].was # "archived"
<1>1. WriteCampaign(r)
  BY DEF Step, ReadPost, CheckCampaign, ListIds, LoadPost, Write, Generate, CheckNew, Insert
<1>2. campaign \in [Campaign -> Status]
  BY DEF CampaignsInv
<1> QED
  BY <1>1, <1>2 DEF WriteCampaign, NewStatus

(* A post is neither created in an archived campaign nor given a time in it  *)
(* by a request that read it when the campaign was archived, as long as it   *)
(* stays so; and a campaign leaves the archive only by an update that asks   *)
(* for it, or that read the campaign before it was archived                  *)
(* (README.md:83, service.go:110).                                           *)
THEOREM ArchivesHold == Spec => ArchiveHolds
<1> DEFINE Quiet ==
      \A r \in Request :
        req[r].late /\ <<req'[r].at, Len(req'[r].ready)>> # <<req[r].at, Len(req[r].ready)>>
        => \A p \in Post : \/ post'[p] = post[p]
                           \/ post'[p].stage = "draft" /\ post[p].stage # "absent"
    Reopened ==
      \A c \in Campaign : campaign[c] = "archived" /\ campaign'[c] # "archived" =>
        \E r \in Request : /\ req[r].op = "update" /\ req[r].campaign = c
                           /\ (req[r].asked = campaign'[c] \/ req[r].was # "archived")
<1>1. CampaignsInv /\ [Next]_vars => [Quiet /\ Reopened]_vars
  <2> SUFFICES ASSUME CampaignsInv, Next PROVE Quiet /\ Reopened
    OBVIOUS
  <2>1. ASSUME NEW r \in Request, Step(r)
        PROVE  Quiet /\ Reopened
    <3>1. ASSUME NEW o \in Request, req[o].late,
                 <<req'[o].at, Len(req'[o].ready)>> # <<req[o].at, Len(req[o].ready)>>
          PROVE  UNCHANGED post
      <4>1. o = r
        BY <2>1, <3>1, OthersStay
      <4> QED
        BY <2>1, <3>1, <4>1, LateWritesNothing
    <3>2. Reopened
      BY <2>1, CampaignsChange
    <3> QED
      BY <3>1, <3>2
  <2>2. ASSUME NEW r \in Request, Requested(r)
        PROVE  Quiet /\ Reopened
    BY <2>2, RequestedWritesNothing
  <2>3. ASSUME NEW p \in Post,
               Cancel(p) \/ Delete(p) \/ Publish(p) \/ \E c \in Campaign : Attach(p, c)
        PROVE  Quiet /\ Reopened
    <3>1. UNCHANGED <<req, campaign>>
      BY <2>3 DEF Cancel, Delete, Publish, Moves, Attach
    <3> QED
      BY <3>1
  <2> QED
    BY <2>1, <2>2, <2>3 DEF Next
<1> QED
  BY <1>1, CampaignsInvariance, PTL DEF Spec, ArchiveHolds

-----------------------------------------------------------------------------
(* Calendars.  The k-th place of the n-th row of a table that is written     *)
(* down row by row.                                                          *)
LEMMA Places ==
  ASSUME NEW k \in Nat, k > 0, NEW x \in Nat
  PROVE  /\ x \div k \in Nat /\ x % k \in 0..(k - 1) /\ x = (x \div k) * k + (x % k)
         /\ \A a \in Nat, b \in 0..(k - 1) : x = a * k + b => x \div k = a /\ x % k = b
         /\ \A n \in Nat : x < n * k => x \div k < n
OBVIOUS

LEMMA PlaceIsInside ==
  ASSUME NEW k \in Nat, NEW n \in Nat, NEW a \in Nat, a < n, NEW b \in 0..(k - 1)
  PROVE  a * k + b \in Nat /\ n * k \in Nat /\ a * k + b < n * k
OBVIOUS

(* A calendar is planned day by day, every day with the same times: the      *)
(* slots in turn, from the first one (drafts.go:431, buildPlannedTimes).     *)
THEOREM DaysArePlannedAlike ==
  ASSUME NEW days \in Int, NEW perDay \in Int, NEW slots \in Nat
  PROVE  LET n == IF slots = 0 THEN 1 ELSE slots
             k == PerDay(perDay, n)
             times == Planned(days, perDay, slots)
         IN  /\ Days(days) \in 1..31 /\ k \in 1..10 /\ DOMAIN times = 1..(Days(days) * k)
             /\ \A day \in 1..Days(days), i \in 0..(k - 1) :
                  /\ (day - 1) * k + i + 1 \in DOMAIN times
                  /\ times[(day - 1) * k + i + 1] = [day |-> day, slot |-> (i % n) + 1]
             /\ \A t \in DOMAIN times : \E day \in 1..Days(days), i \in 0..(k - 1) :
                  t = (day - 1) * k + i + 1
<1> DEFINE n == IF slots = 0 THEN 1 ELSE slots
           k == PerDay(perDay, n)
           d == Days(days)
           times == Planned(days, perDay, slots)
<1>1. n \in Nat /\ n > 0
  OBVIOUS
<1>2. d \in 1..31
  BY DEF Days
<1>3. k \in 1..10
  BY <1>1 DEF PerDay
<1>4. times = [t \in 1..(d * k) |-> [day |-> ((t - 1) \div k) + 1,
                                     slot |-> (((t - 1) % k) % n) + 1]]
  BY DEF Planned
<1> HIDE DEF n, k, d, times
<1>5. ASSUME NEW day \in 1..d, NEW i \in 0..(k - 1)
      PROVE  /\ (day - 1) * k + i + 1 \in DOMAIN times
             /\ times[(day - 1) * k + i + 1] = [day |-> day, slot |-> (i % n) + 1]
  <2> DEFINE x == (day - 1) * k + i
  <2>1. day - 1 \in Nat /\ day - 1 < d /\ k \in Nat /\ k > 0 /\ d \in Nat
    BY <1>2, <1>3
  <2>2. x \in Nat /\ d * k \in Nat /\ x < d * k
    BY <2>1, PlaceIsInside
  <2>3. x \div k = day - 1 /\ x % k = i
    BY <2>1, <2>2, Places
  <2> HIDE DEF x
  <2>4. x + 1 \in DOMAIN times
    BY <1>4, <2>2
  <2>5. times[x + 1] = [day |-> ((x + 1 - 1) \div k) + 1, slot |-> (((x + 1 - 1) % k) % n) + 1]
    BY <1>4, <2>2
  <2>6. x + 1 - 1 = x /\ (day - 1) + 1 = day
    BY <2>2
  <2>7. times[x + 1] = [day |-> day, slot |-> (i % n) + 1]
    BY <2>3, <2>5, <2>6
  <2> QED
    BY <2>4, <2>7 DEF x
<1>6. ASSUME NEW t \in DOMAIN times
      PROVE  \E day \in 1..d, i \in 0..(k - 1) : t = (day - 1) * k + i + 1
  <2> DEFINE x == t - 1
             a == x \div k
             b == x % k
  <2>1. k \in Nat /\ k > 0 /\ d \in Nat /\ d * k \in Nat
    BY <1>2, <1>3
  <2>2. x \in Nat /\ x < d * k /\ t = x + 1
    BY <1>4, <2>1
  <2> HIDE DEF x
  <2>3. a \in Nat /\ b \in 0..(k - 1) /\ x = a * k + b /\ a < d
    BY <2>1, <2>2, Places
  <2> HIDE DEF a, b
  <2>4. a + 1 \in 1..d /\ (a + 1) - 1 = a
    BY <1>2, <2>3
  <2>5. t = ((a + 1) - 1) * k + b + 1
    BY <2>2, <2>3, <2>4
  <2> QED
    BY <2>3, <2>4, <2>5
<1>7. DOMAIN times = 1..(d * k)
  BY <1>4
<1> QED
  BY <1>2, <1>3, <1>5, <1>6, <1>7 DEF n, k, d, times

(* Drafts are asked for one account after the other, each for all items:     *)
(* every account gets every item, once (drafts.go:159, :261).                *)
THEOREM DraftsForAll ==
  ASSUME NEW S, NEW T, NEW accounts \in Seq(S), NEW items \in Seq(T)
  PROVE  LET drafts == Drafts(accounts, items)
             k == Len(items)
         IN  /\ DOMAIN drafts = 1..(Len(accounts) * k)
             /\ \A a \in DOMAIN accounts, i \in DOMAIN items :
                  /\ (a - 1) * k + i \in DOMAIN drafts
                  /\ drafts[(a - 1) * k + i] = <<accounts[a], items[i]>>
             /\ \A t \in DOMAIN drafts : \E a \in DOMAIN accounts, i \in DOMAIN items :
                  t = (a - 1) * k + i
<1> DEFINE k == Len(items)
           n == Len(accounts)
           drafts == Drafts(accounts, items)
<1>1. /\ k \in Nat /\ n \in Nat /\ DOMAIN accounts = 1..n /\ DOMAIN items = 1..k
  OBVIOUS
<1>2. drafts = [t \in 1..(n * k) |->
                  <<accounts[((t - 1) \div k) + 1], items[((t - 1) % k) + 1]>>]
  BY DEF Drafts
<1> HIDE DEF k, n, drafts
<1>3. ASSUME NEW a \in 1..n, NEW i \in 1..k
      PROVE  /\ (a - 1) * k + i \in DOMAIN drafts
             /\ drafts[(a - 1) * k + i] = <<accounts[a], items[i]>>
  <2> DEFINE x == (a - 1) * k + (i - 1)
  <2>1. a - 1 \in Nat /\ a - 1 < n /\ i - 1 \in 0..(k - 1) /\ k > 0
    BY <1>1
  <2>2. x \in Nat /\ n * k \in Nat /\ x < n * k
    BY <1>1, <2>1, PlaceIsInside
  <2>3. x \div k = a - 1 /\ x % k = i - 1
    BY <1>1, <2>1, <2>2, Places
  <2>4. x + 1 = (a - 1) * k + i
    BY <1>1
  <2> HIDE DEF x
  <2>5. x + 1 \in DOMAIN drafts
    BY <1>2, <2>2
  <2>6. drafts[x + 1] = <<accounts[((x + 1 - 1) \div k) + 1], items[((x + 1 - 1) % k) + 1]>>
    BY <1>2, <2>2
  <2>7. x + 1 - 1 = x /\ (a - 1) + 1 = a /\ (i - 1) + 1 = i
    BY <1>1, <2>2
  <2>8. drafts[x + 1] = <<accounts[a], items[i]>>
    BY <2>3, <2>6, <2>7
  <2> QED
    BY <2>4, <2>5, <2>8
<1>4. ASSUME NEW t \in DOMAIN drafts
      PROVE  \E a \in 1..n, i \in 1..k : t = (a - 1) * k + i
  <2> DEFINE x == t - 1
             a == x \div k
             b == x % k
  <2>1. n * k \in Nat /\ (k = 0 => n * k = 0)
    BY <1>1
  <2>2. x \in Nat /\ x < n * k /\ t = x + 1 /\ k > 0
    BY <1>1, <1>2, <2>1
  <2> HIDE DEF x
  <2>3. a \in Nat /\ b \in 0..(k - 1) /\ x = a * k + b /\ a < n
    BY <1>1, <2>2, Places
  <2> HIDE DEF a, b
  <2>4. a + 1 \in 1..n /\ (a + 1) - 1 = a /\ b + 1 \in 1..k
    BY <1>1, <2>3
  <2>5. a * k \in Nat /\ ((a + 1) - 1) * k = a * k
    BY <1>1, <2>3, <2>4
  <2>6. t = ((a + 1) - 1) * k + (b + 1)
    BY <2>2, <2>3, <2>5
  <2> QED
    BY <2>4, <2>6
<1>5. DOMAIN drafts = 1..(n * k)
  BY <1>2
<1> QED
  BY <1>1, <1>3, <1>4, <1>5 DEF k, n, drafts

-----------------------------------------------------------------------------
(* The gate. *)
CONSTANTS Unread, Worker, Caller, Batch

VARIABLES stage, text, rejects, lease, sweep, edit, orphan

Gate == INSTANCE SafetyGate WITH req <- edit

(* Types and the two properties: each is inductive once the records are      *)
(* known to be records.                                                      *)
GateInv == Gate!TypeOK /\ Gate!ReasonsAgree /\ Gate!LeaseReturned

-----------------------------------------------------------------------------
LEMMA InitGateInv ==
  ASSUME Gate!Init
  PROVE  GateInv
<1> USE DEF Gate!Init
<1>1. Gate!Rest \in Gate!Sweep
  BY DEF Gate!Rest, Gate!Sweep
<1>2. Gate!NoEdit \in Gate!Edit /\ Gate!NoEdit.phase = "none"
  BY DEF Gate!NoEdit, Gate!Edit, Gate!Keep
<1>3. Gate!TypeOK
  BY <1>1, <1>2 DEF Gate!TypeOK
<1>4. Gate!ReasonsAgree /\ Gate!LeaseReturned
  BY DEF Gate!ReasonsAgree, Gate!LeaseReturned
<1> QED
  BY <1>3, <1>4 DEF GateInv

(* Replacing one sweep by a well typed record. *)
LEMMA GoType ==
  ASSUME NEW s \in Gate!Sweeper, NEW r \in Gate!Sweep,
         sweep \in [Gate!Sweeper -> Gate!Sweep], Gate!Go(s, r)
  PROVE  sweep' \in [Gate!Sweeper -> Gate!Sweep] /\ sweep'[s] = r
         /\ \A t \in Gate!Sweeper : t # s => sweep'[t] = sweep[t]
BY DEF Gate!Go

(* The Gate!editorial columns. *)
RowType ==
  /\ es \in [Gate!Post -> Gate!Status \cup {"none"}]
  /\ needs \subseteq Gate!Post /\ stamped \subseteq Gate!Post /\ blocked \subseteq Gate!Post
  /\ audit \in [Gate!Post -> {"blank", "rules", "manual"}]

(* An approval sets the audit reason and clears the blocked reason. *)
LEMMA PromoteKeeps ==
  ASSUME RowType, Gate!ReasonsAgree, NEW p \in Gate!Post,
         NEW reason \in {"blank", "rules", "manual"},
         Gate!Promote(p, reason)
  PROVE  RowType' /\ Gate!ReasonsAgree'
BY DEF RowType, Gate!ReasonsAgree, Gate!Promote, Gate!Status

(* The steps of a sweep. *)
LEMMA SweepInv ==
  ASSUME Gate!GateAssumption, GateInv, NEW s \in Gate!Sweeper,
         Gate!SweepStep(s) \/ Gate!SweepError(s) \/ \E p \in Gate!Post : Gate!JudgeError(s, p)
  PROVE  GateInv'
<1> USE DEF GateInv, Gate!TypeOK, Gate!ReasonsAgree, Gate!LeaseReturned
<1>0. /\ sweep[s] \in Gate!Sweep /\ Worker \in Gate!Sweeper
      /\ Gate!Rest \in Gate!Sweep /\ Gate!Rest.pc = "idle"
  BY DEF Gate!Sweeper, Gate!Rest, Gate!Sweep
<1>1. CASE Gate!Start(s)
  <2> DEFINE r == [Gate!Rest EXCEPT !.pc = "rules"]
  <2>1. r \in Gate!Sweep /\ r.pc = "rules"
    BY DEF Gate!Rest, Gate!Sweep
  <2>2. Gate!Go(s, r)
    BY <1>1 DEF Gate!Start
  <2> HIDE DEF r
  <2>3. sweep' \in [Gate!Sweeper -> Gate!Sweep] /\ sweep'[s].pc = "rules"
        /\ \A t \in Gate!Sweeper : t # s => sweep'[t] = sweep[t]
    BY <2>1, <2>2, GoType
  <2>4. Gate!ReasonsAgree'
    BY <1>1 DEF Gate!Start, Gate!editorial
  <2>5. Gate!LeaseReturned'
    <3>1. CASE s = Worker
      BY <2>3, <3>1
    <3>2. CASE s # Worker
      <4>1. sweep'[Worker] = sweep[Worker] /\ UNCHANGED <<lease, orphan>>
        BY <1>0, <1>1, <2>3, <3>2 DEF Gate!Start
      <4> QED
        BY <4>1
    <3> QED
      BY <3>1, <3>2
  <2>6. lease' \in {"free", "held", "expired"} /\ orphan' \in BOOLEAN /\ ops' \in Nat
    <3>1. CASE s = Worker
      BY <1>1, <3>1 DEF Gate!Start
    <3>2. CASE s # Worker
      BY <1>1, <3>2 DEF Gate!Start, Gate!Op
    <3> QED
      BY <3>1, <3>2
  <2>7. UNCHANGED <<stage, text, es, needs, stamped, audit, blocked, rejects, edit, faults>>
    BY <1>1 DEF Gate!Start, Gate!editorial
  <2> QED
    BY <2>3, <2>4, <2>5, <2>6, <2>7
<1>2. CASE Gate!ReadRules(s)
  <2> DEFINE r == [sweep[s] EXCEPT !.pc = "list", !.rules = rejects]
  <2>1. r \in Gate!Sweep /\ r.pc = "list"
    BY <1>0 DEF Gate!Sweep
  <2>2. Gate!Go(s, r)
    BY <1>2 DEF Gate!ReadRules
  <2> HIDE DEF r
  <2>3. sweep' \in [Gate!Sweeper -> Gate!Sweep] /\ sweep'[s].pc = "list"
        /\ \A t \in Gate!Sweeper : t # s => sweep'[t] = sweep[t]
    BY <2>1, <2>2, GoType
  <2> QED
    BY <1>0, <1>2, <2>3 DEF Gate!ReadRules, Gate!editorial
<1>3. CASE Gate!List(s)
  <2> DEFINE r == [sweep[s] EXCEPT !.pc = "load", !.ids = Gate!Oldest(Gate!Eligible, Batch)]
  <2>1. r \in Gate!Sweep /\ r.pc = "load"
    <3>1. Gate!Oldest(Gate!Eligible, Batch) \subseteq Gate!Post
      BY DEF Gate!Oldest, Gate!Eligible
    <3> QED
      BY <1>0, <3>1 DEF Gate!Sweep
  <2>2. Gate!Go(s, r)
    BY <1>3 DEF Gate!List
  <2> HIDE DEF r
  <2>3. sweep' \in [Gate!Sweeper -> Gate!Sweep] /\ sweep'[s].pc = "load"
        /\ \A t \in Gate!Sweeper : t # s => sweep'[t] = sweep[t]
    BY <2>1, <2>2, GoType
  <2> QED
    BY <1>0, <1>3, <2>3 DEF Gate!List, Gate!editorial
<1>4. CASE Gate!Load(s)
  <2>1. PICK r \in Gate!Sweep : Gate!Go(s, r) /\ r.pc \in {"load", "judge"}
    <3>1. [sweep[s] EXCEPT !.pc = "judge"] \in Gate!Sweep
          /\ [sweep[s] EXCEPT !.pc = "judge"].pc = "judge"
      BY <1>0 DEF Gate!Sweep
    <3>2. ASSUME NEW p \in Gate!Post
          PROVE  /\ [sweep[s] EXCEPT !.seen = [@ EXCEPT ![p] = text[p]]] \in Gate!Sweep
                 /\ [sweep[s] EXCEPT !.seen = [@ EXCEPT ![p] = text[p]]].pc = sweep[s].pc
      BY <1>0 DEF Gate!Sweep
    <3> QED
      BY <1>4, <3>1, <3>2 DEF Gate!Load
  <2>2. sweep' \in [Gate!Sweeper -> Gate!Sweep] /\ sweep'[s].pc # "idle"
        /\ \A t \in Gate!Sweeper : t # s => sweep'[t] = sweep[t]
    BY <2>1, GoType
  <2> QED
    BY <1>0, <1>4, <2>2 DEF Gate!Load, Gate!editorial
<1>5. ASSUME NEW p \in Gate!Post, Gate!Judge(s, p) PROVE GateInv'
  <2> DEFINE r == [sweep[s] EXCEPT !.ids = @ \ {p}]
  <2>1. r \in Gate!Sweep /\ r.pc = "judge"
    BY <1>0, <1>5 DEF Gate!Sweep, Gate!Judge
  <2>2. Gate!Go(s, r)
    BY <1>5 DEF Gate!Judge
  <2> HIDE DEF r
  <2>3. sweep' \in [Gate!Sweeper -> Gate!Sweep] /\ sweep'[s].pc = "judge"
        /\ \A t \in Gate!Sweeper : t # s => sweep'[t] = sweep[t]
    BY <2>1, <2>2, GoType
  <2>4. RowType' /\ Gate!ReasonsAgree'
    <3>1. CASE Gate!Block(p)
      BY <3>1 DEF Gate!Block, RowType
    <3>2. CASE \E reason \in {"blank", "rules"} : Gate!Promote(p, reason)
      BY <3>2, PromoteKeeps DEF RowType
    <3> QED
      BY <1>5, <3>1, <3>2 DEF Gate!Judge
  <2>5. Gate!LeaseReturned'
    BY <1>0, <1>5, <2>3 DEF Gate!Judge
  <2> QED
    BY <1>5, <2>3, <2>4, <2>5 DEF Gate!Judge, RowType
<1>6. ASSUME NEW p \in Gate!Post, Gate!JudgeError(s, p) PROVE GateInv'
  <2> DEFINE r == [sweep[s] EXCEPT !.ids = @ \ {p}]
  <2>1. r \in Gate!Sweep /\ r.pc = "judge"
    BY <1>0, <1>6 DEF Gate!Sweep, Gate!JudgeError
  <2>2. Gate!Go(s, r)
    BY <1>6 DEF Gate!JudgeError
  <2> HIDE DEF r
  <2>3. sweep' \in [Gate!Sweeper -> Gate!Sweep] /\ sweep'[s].pc = "judge"
        /\ \A t \in Gate!Sweeper : t # s => sweep'[t] = sweep[t]
    BY <2>1, <2>2, GoType
  <2>4. faults' \in Nat
    BY <1>6 DEF Gate!JudgeError, Gate!Fault
  <2> QED
    BY <1>0, <1>6, <2>3, <2>4 DEF Gate!JudgeError, Gate!editorial
<1>7. CASE Gate!Finish(s) \/ Gate!SweepError(s)
  <2>1. /\ sweep' \in [Gate!Sweeper -> Gate!Sweep]
        /\ \A t \in Gate!Sweeper : t # s => sweep'[t] = sweep[t]
    BY <1>0, <1>7, GoType DEF Gate!Finish, Gate!SweepError
  <2>2. faults' \in Nat
    BY <1>7 DEF Gate!Finish, Gate!SweepError, Gate!Fault
  <2>3. lease' \in {"free", "held", "expired"} /\ Gate!LeaseReturned'
    BY <1>0, <1>7, <2>1 DEF Gate!Finish, Gate!SweepError, Gate!Release
  <2> QED
    BY <1>7, <2>1, <2>2, <2>3 DEF Gate!Finish, Gate!SweepError, Gate!editorial
<1> QED
  BY <1>1, <1>2, <1>3, <1>4, <1>5, <1>6, <1>7 DEF Gate!SweepStep

-----------------------------------------------------------------------------
(* The requests leave the sweeps and the lease alone.                      *)
LEMMA RequestInv ==
  ASSUME Gate!GateAssumption, GateInv,
         \/ Gate!EndSchedule \/ Gate!EditWrite \/ Gate!EditMeta \/ Gate!SetRules
         \/ \E p \in Gate!Post :
              Gate!Create(p) \/ Gate!Attach(p) \/ Gate!Approve(p) \/ Gate!BeginSchedule(p)
              \/ Gate!BeginEdit(p) \/ Gate!Claim(p)
  PROVE  GateInv'
<1> USE DEF GateInv, Gate!TypeOK, Gate!ReasonsAgree, Gate!LeaseReturned
<1>0. Gate!NoEdit \in Gate!Edit /\ Gate!NoEdit.phase = "none"
  BY DEF Gate!NoEdit, Gate!Edit, Gate!Keep
<1>1. CASE Gate!EndSchedule
  <2>1. stage' \in [Gate!Post -> {"absent", "draft", "scheduled", "publishing"}]
    BY <1>1 DEF Gate!EndSchedule
  <2> QED
    BY <1>0, <1>1, <2>1 DEF Gate!EndSchedule, Gate!editorial
<1>2. CASE Gate!EditWrite
  <2>1. edit.to \in {"draft", "scheduled"} /\ edit.text \in Text \cup {Unread}
    BY DEF Gate!Edit
  <2>2. edit' = Gate!NoEdit \/ edit' = [edit EXCEPT !.phase = "meta"]
    BY <1>2 DEF Gate!EditWrite
  <2>3. [edit EXCEPT !.phase = "meta"] \in Gate!Edit
        /\ [edit EXCEPT !.phase = "meta"].post = edit.post
    BY DEF Gate!Edit
  <2>4. edit' \in Gate!Edit /\ (edit'.phase # "none" => edit'.post \in Gate!Post)
    BY <1>0, <1>2, <2>2, <2>3 DEF Gate!EditWrite
  <2>5. /\ stage' \in [Gate!Post -> {"absent", "draft", "scheduled", "publishing"}]
        /\ text' \in [Gate!Post -> Text \cup {Unread}]
    BY <1>2, <2>1 DEF Gate!EditWrite
  <2>6. UNCHANGED <<es, needs, stamped, audit, blocked, rejects, lease, sweep, ops, faults, orphan>>
    BY <1>2 DEF Gate!EditWrite, Gate!editorial
  <2> QED
    BY <2>4, <2>5, <2>6
<1>3. CASE Gate!EditMeta
  <2>1. edit.post \in Gate!Post /\ (edit.es = Gate!Keep \/ edit.es \in Gate!Status)
    BY <1>3 DEF Gate!Edit, Gate!EditMeta
  <2>2. stamped \subseteq stamped' /\ UNCHANGED <<audit, blocked>>
    BY <1>3 DEF Gate!EditMeta
  <2>3. /\ es' \in [Gate!Post -> Gate!Status \cup {"none"}]
        /\ needs' \subseteq Gate!Post /\ stamped' \subseteq Gate!Post
    <3>1. CASE es[edit.post] = "none"
      BY <1>3, <3>1 DEF Gate!EditMeta
    <3>2. CASE es[edit.post] # "none"
      <4>1. es' \in [Gate!Post -> Gate!Status \cup {"none"}]
        BY <1>3, <2>1, <3>2 DEF Gate!EditMeta
      <4>2. needs' = needs \cup {edit.post} \/ needs' = needs \ {edit.post} \/ needs' = needs
        BY <1>3, <3>2 DEF Gate!EditMeta
      <4>3. stamped' = stamped \cup {edit.post} \/ stamped' = stamped
        BY <1>3, <3>2 DEF Gate!EditMeta
      <4> QED
        BY <2>1, <4>1, <4>2, <4>3
    <3> QED
      BY <3>1, <3>2
  <2>4. edit' = Gate!NoEdit
        /\ UNCHANGED <<stage, text, audit, blocked, rejects, lease, sweep, ops, faults, orphan>>
    BY <1>3 DEF Gate!EditMeta
  <2> QED
    BY <1>0, <2>2, <2>3, <2>4
<1>4. CASE Gate!SetRules
  BY <1>4 DEF Gate!SetRules, Gate!Op, Gate!editorial
<1>5. ASSUME NEW p \in Gate!Post, Gate!Create(p) PROVE GateInv'
  BY <1>5 DEF Gate!Create, Gate!Op, Gate!Status
<1>6. ASSUME NEW p \in Gate!Post, Gate!Attach(p) PROVE GateInv'
  BY <1>6 DEF Gate!Attach, Gate!Op
<1>7. ASSUME NEW p \in Gate!Post, Gate!Approve(p) PROVE GateInv'
  <2>1. RowType' /\ Gate!ReasonsAgree'
    BY <1>7, PromoteKeeps DEF Gate!Approve, RowType
  <2>2. ops' \in Nat /\ UNCHANGED <<stage, text, rejects, lease, sweep, edit, faults, orphan>>
    BY <1>7 DEF Gate!Approve, Gate!Op
  <2>3. Gate!TypeOK'
    BY <2>1, <2>2 DEF RowType
  <2>4. Gate!LeaseReturned'
    BY <2>2
  <2> QED
    BY <2>1, <2>3, <2>4
<1>8. ASSUME NEW p \in Gate!Post, Gate!BeginSchedule(p) PROVE GateInv'
  <2>1. edit' \in Gate!Edit /\ edit'.post = p
    <3>1. edit' = [Gate!NoEdit EXCEPT !.phase = "schedule", !.post = p]
      BY <1>8, Zenon DEF Gate!BeginSchedule
    <3> QED
      BY <3>1 DEF Gate!NoEdit, Gate!Edit, Gate!Keep
  <2>2. Gate!Op
    BY <1>8, Zenon DEF Gate!BeginSchedule
  <2>3. UNCHANGED <<stage, text, Gate!editorial, rejects, lease, sweep, faults, orphan>>
    BY <1>8, Zenon DEF Gate!BeginSchedule
  <2> QED
    BY <2>1, <2>2, <2>3 DEF Gate!Op, Gate!editorial
<1>9. ASSUME NEW p \in Gate!Post, Gate!BeginEdit(p) PROVE GateInv'
  <2>1. edit' \in Gate!Edit
    BY <1>9 DEF Gate!BeginEdit, Gate!Edit, Gate!Keep
  <2> QED
    BY <1>9, <2>1 DEF Gate!BeginEdit, Gate!Op, Gate!editorial
<1>10. ASSUME NEW p \in Gate!Post, Gate!Claim(p) PROVE GateInv'
  BY <1>10 DEF Gate!Claim, Gate!editorial
<1> QED
  BY <1>1, <1>2, <1>3, <1>4, <1>5, <1>6, <1>7, <1>8, <1>9, <1>10

(* Time and faults. *)
LEMMA EnvironmentInv ==
  ASSUME Gate!GateAssumption, GateInv, Gate!ReleaseError \/ Gate!Expire \/ Gate!Crash
  PROVE  GateInv'
<1> USE DEF GateInv, Gate!TypeOK, Gate!ReasonsAgree, Gate!LeaseReturned
<1>0. /\ Worker \in Gate!Sweeper /\ Gate!Rest \in Gate!Sweep /\ Gate!Rest.pc = "idle"
      /\ Gate!NoEdit \in Gate!Edit /\ Gate!NoEdit.phase = "none"
  BY DEF Gate!Sweeper, Gate!Rest, Gate!Sweep, Gate!NoEdit, Gate!Edit, Gate!Keep
<1>1. CASE Gate!ReleaseError
  BY <1>0, <1>1, GoType DEF Gate!ReleaseError, Gate!Fault, Gate!editorial
<1>2. CASE Gate!Expire
  BY <1>2 DEF Gate!Expire, Gate!editorial
<1>3. CASE Gate!Crash
  <2>1. sweep' \in [Gate!Sweeper -> Gate!Sweep] /\ sweep'[Worker].pc = "idle"
    BY <1>0, <1>3 DEF Gate!Crash
  <2>2. orphan' \in BOOLEAN /\ Gate!LeaseReturned'
    BY <1>0, <1>3, <2>1 DEF Gate!Crash
  <2>3. faults' \in Nat /\ edit' = Gate!NoEdit
        /\ UNCHANGED <<stage, text, es, needs, stamped, audit, blocked, rejects, lease, ops>>
    BY <1>3 DEF Gate!Crash, Gate!Fault, Gate!editorial
  <2> QED
    BY <1>0, <2>1, <2>2, <2>3
<1> QED
  BY <1>1, <1>2, <1>3

(* The gate is well typed, the reasons of a row agree, and the worker gives  *)
(* its lease back: in every reachable state.                                 *)
THEOREM GateInvariance ==
  ASSUME Gate!GateAssumption
  PROVE  Gate!Spec => []GateInv
<1>1. Gate!Init => GateInv
  BY InitGateInv
<1>2. GateInv /\ [Gate!Next]_(Gate!vars) => GateInv'
  <2> SUFFICES ASSUME GateInv, [Gate!Next]_(Gate!vars) PROVE GateInv'
    OBVIOUS
  <2>1. CASE UNCHANGED Gate!vars
    BY <2>1 DEF Gate!vars, Gate!editorial, GateInv, Gate!TypeOK, Gate!ReasonsAgree,
                Gate!LeaseReturned
  <2>2. CASE Gate!Next
    BY <2>2, SweepInv, RequestInv, EnvironmentInv DEF Gate!Next
  <2> QED
    BY <2>1, <2>2
<1> QED
  BY <1>1, <1>2, PTL DEF Gate!Spec

(* Every reachable state is well typed. *)
THEOREM GateTypeCorrect ==
  ASSUME Gate!GateAssumption
  PROVE  Gate!Spec => []Gate!TypeOK
BY GateInvariance, PTL DEF GateInv

(* Through any overlap of sweeps, approvals, edits and crashes a row never   *)
(* carries a blocked reason and an audit reason at once.                     *)
THEOREM VerdictsAgree ==
  ASSUME Gate!GateAssumption
  PROVE  Gate!Spec => []ReasonsAgree
<1>1. GateInv => ReasonsAgree
  BY DEF GateInv, Gate!ReasonsAgree, ReasonsAgree
<1> QED
  BY <1>1, GateInvariance, PTL

(* The lease is taken only while the worker sweeps, but for what a crash or  *)
(* a failed release left behind.                                             *)
THEOREM LeaseComesBack ==
  ASSUME Gate!GateAssumption
  PROVE  Gate!Spec => []Gate!LeaseReturned
BY GateInvariance, PTL DEF GateInv
=============================================================================
