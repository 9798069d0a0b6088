------------------------------ MODULE Campaigns ------------------------------
(***************************************************************************)
(* Campaigns and their drafts, and the guardrails of scheduling            *)
(* (internal/application/campaigns, internal/api/campaigns.go,             *)
(* internal/db/campaigns.go, internal/application/posts/mutations.go).     *)
(*                                                                         *)
(* Requests run concurrently and issue a statement or a transaction at a   *)
(* time.  Scheduling a post or editing posts is checked against the        *)
(* schedule as it was listed, post by post, and written afterwards.  A     *)
(* post is a thread of one step, its approval is SafetyGate's subject and  *)
(* the race for an idempotency key ThreadCreate's.  Time is counted in     *)
(* slots.  MaxOps bounds the requests and MaxFaults the failing calls.     *)
(***************************************************************************)
EXTENDS Integers, Sequences, SequencesExt

CONSTANTS
  NumPosts, NumDrafts, \* posts, and how many of them may be there to begin with
  Account, Campaign, Text,
  NoCampaign,          \* a post's that is in no campaign
  MaxSlot,             \* slots are 1..MaxSlot; 0 is no time at all
  Apart,               \* scheduleConflictWindow, in slots
  Recent,              \* recentDuplicateWindow, in slots
  Request,
  MaxOps, MaxFaults

ASSUME CampaignsAssumption ==
  /\ NumPosts \in Nat /\ NumDrafts \in 0..NumPosts /\ MaxSlot \in Nat
  /\ Apart \in Nat /\ Recent \in Nat /\ Apart <= Recent
  /\ IsFiniteSet(Account) /\ NoCampaign \notin Campaign
  /\ MaxOps \in Nat /\ MaxFaults \in Nat

Post  == 1..NumPosts
Slot  == 0..MaxSlot
Own   == "own"        \* no account or text: the one a post has
Kept  == -1           \* a time an edit leaves as it is
NoKey == <<>>

VARIABLES
  campaign, \* table campaigns: the status
  post,     \* table posts and what campaign_posts says of the campaign
  req,      \* the requests
  blind,    \* history: pairs of posts one of which was scheduled unseen by
            \* the check of the other
  ops, faults

vars == <<campaign, post, req, blind, ops, faults>>

-----------------------------------------------------------------------------
(* A planned time, or with day 0 the number of a variant. *)
Item == [day : 0..2, slot : 1..2]

Posts ==
  [stage : {"absent", "draft", "scheduled", "canceled", "published", "failed", "gone"},
   account : Account \cup {Own}, campaign : Campaign \cup {NoCampaign},
   text : Text \cup {Own}, slot : Slot,
   key : {NoKey} \cup (Account \X Item), item : Item]

NoItem == [day |-> 0, slot |-> 1]
NoPost == [stage |-> "absent", account |-> Own, campaign |-> NoCampaign, text |-> Own,
           slot |-> 0, key |-> NoKey, item |-> NoItem]

Status == {"active", "paused", "archived"}

(* An edit checked: what it writes, and the posts changed since the check. *)
Edit == [post : Post \cup {0}, account : Account \cup {Own}, text : Text \cup {Own},
         slot : Slot, missed : SUBSET Post]
NoEdit == [post |-> 0, account |-> Own, text |-> Own, slot |-> 0, missed |-> {}]

(* op and at: what it does and what comes next.  campaign, was, asked: of    *)
(* the campaign, its status as read, and the one asked for.  todo, slot,     *)
(* text: the posts to edit, and with what.  ids: the schedule as listed.     *)
(* cur, ready: the edit being checked and those that passed.  keyed, left,   *)
(* got: drafts with an idempotency prefix, those to come, and the posts the  *)
(* others were answered with.  late: history, the campaign of a post was     *)
(* archived when the post was read, and still is.                            *)
Idle ==
  [op |-> "none", at |-> "idle", campaign |-> NoCampaign, was |-> "active", asked |-> Own,
   todo |-> <<>>, slot |-> 0, text |-> Own, ids |-> {}, cur |-> NoEdit, ready |-> <<>>,
   keyed |-> FALSE, left |-> <<>>, got |-> <<>>, late |-> FALSE]

TypeOK ==
  /\ campaign \in [Campaign -> Status]
  /\ post \in [Post -> Posts]
  /\ \A r \in Request :
       /\ req[r].cur \in Edit /\ req[r].ids \subseteq Post
       /\ \A i \in DOMAIN req[r].ready : req[r].ready[i] \in Edit
  /\ blind \subseteq SUBSET Post
  /\ ops \in 0..MaxOps /\ faults \in 0..MaxFaults

Draft(a, c, t) == [NoPost EXCEPT !.stage = "draft", !.account = a, !.campaign = c, !.text = t]

Init ==
  /\ campaign = [c \in Campaign |-> "active"]
  /\ \E a \in [1..NumDrafts -> Account], c \in [1..NumDrafts -> Campaign \cup {NoCampaign}],
        t \in [1..NumDrafts -> Text] :
       \E n \in 0..NumDrafts :
         post = [p \in Post |-> IF p > n THEN NoPost ELSE Draft(a[p], c[p], t[p])]
  /\ req = [r \in Request |-> Idle]
  /\ blind = {} /\ ops = 0 /\ faults = 0

Exists(p) == post[p].stage \notin {"absent", "gone"}
Archived(c) == c \in Campaign /\ campaign[c] = "archived"
Set(r, q) == req' = [req EXCEPT ![r] = q]
Ends(r) == Set(r, Idle)

(* A request begins, as one of MaxOps. *)
Begins(r, q) ==
  /\ req[r] = Idle
  /\ ops < MaxOps /\ ops' = ops + 1
  /\ Set(r, q)

(* What the requests have checked is older than the change of p.             *)
Overtaken(e, p) == [e EXCEPT !.missed = @ \cup {p}]

Touched(p, rest) ==
  [r \in Request |->
    IF rest[r].op \notin {"schedule", "edit", "plan"} THEN rest[r]
    ELSE [rest[r] EXCEPT !.cur = Overtaken(@, p),
                         !.ready = [i \in DOMAIN @ |-> Overtaken(@[i], p)]]]

(* The pairs that p, written with check e, was not compared with. *)
Unseen(p, missed) ==
  {{p, q} : q \in IF p \in missed THEN Post \ {p} ELSE missed \ {p}}
    \cup {pair \in blind : p \notin pair}

-----------------------------------------------------------------------------
(* Campaigns: read, and every column written back.                           *)

(* Update, with a status or without; Archive. *)
BeginUpdate(r, c, asked) ==
  /\ Begins(r, [Idle EXCEPT !.op = "update", !.at = "write", !.campaign = c,
                            !.was = campaign[c], !.asked = asked])
  /\ UNCHANGED <<campaign, post, blind, faults>>

NewStatus(q) == IF q.asked = Own THEN q.was ELSE q.asked

(* UpdateCampaign.  A request that has read a post of an archived campaign   *)
(* is not late once the campaign is open again.                              *)
WriteCampaign(r) ==
  /\ req[r].op = "update"
  /\ campaign' = [campaign EXCEPT ![req[r].campaign] = NewStatus(req[r])]
  /\ req' = [o \in Request |->
       IF o = r THEN Idle
       ELSE [req[o] EXCEPT !.late = @ /\ (req[o].campaign = req[r].campaign
                                            => NewStatus(req[r]) = "archived")]]
  /\ UNCHANGED <<post, blind, ops, faults>>

(* AddPostToCampaign, whatever the campaign's status. *)
Attach(p, c) ==
  /\ ops < MaxOps /\ ops' = ops + 1
  /\ Exists(p)
  /\ post' = [post EXCEPT ![p].campaign = c]
  /\ UNCHANGED <<campaign, req, blind, faults>>

-----------------------------------------------------------------------------
(* The guardrails.                                                           *)

Distance(s, t) == IF s < t THEN t - s ELSE s - t

(* ListSchedule: posts of any status, as long as they have a time. *)
Listed(s) == {p \in Post : Exists(p) /\ post[p].slot # 0 /\ Distance(post[p].slot, s) <= Recent}

(* Mutant: a post that is in the slot first keeps it to itself. *)
ClashesBefore(e, q) ==
  /\ q # e.post /\ post[q].account = e.account
  /\ \/ post[q].slot # 0 /\ Distance(post[q].slot, e.slot) < Apart
     \/ post[q].text = e.text

(* scheduleGuardrailWarnings, for a post as it is when it is loaded. *)
Clashes(e, q) ==
  /\ q # e.post /\ post[q].account = e.account
  /\ \/ post[q].slot # 0 /\ Distance(post[q].slot, e.slot) <= Apart
     \/ post[q].text = e.text

(* Mutant: an edit that names no time passes it on. *)
EditedSlotRaw(p, slot) == slot

(* ResolveScheduledAtForEdit: to a draft, to a time, or as it was. *)
EditedSlot(p, slot) == IF slot = Kept THEN post[p].slot ELSE slot

(* ScheduleDraft; UpdateEditableMany for one post or several. *)
BeginSchedule(r, p, s) ==
  /\ Begins(r, [Idle EXCEPT !.op = "schedule", !.at = "post", !.todo = <<p>>, !.slot = s])
  /\ UNCHANGED <<campaign, post, blind, faults>>

BeginEdit(r, todo, s, t) ==
  /\ Begins(r, [Idle EXCEPT !.op = "edit", !.at = "post", !.todo = todo, !.slot = s, !.text = t])
  /\ UNCHANGED <<campaign, post, blind, faults>>

(* A checked edit is put by; the next one, or the writes, follow. *)
Passed(q, e) ==
  [q EXCEPT !.ready = Append(@, e), !.todo = Tail(@), !.cur = NoEdit, !.ids = {},
            !.at = IF Len(q.todo) = 1 THEN "write" ELSE "post"]

(* prepareEditableUpdate: a draft is not checked. *)
ReadPost(r) ==
  LET q == req[r]
      p == Head(q.todo)
      s == EditedSlot(p, q.slot)
      e == [NoEdit EXCEPT !.post = p, !.account = post[p].account, !.slot = s,
              !.text = IF q.text = Own THEN post[p].text ELSE q.text]
  IN  /\ q.at = "post"
      /\ IF ~Exists(p) THEN Ends(r)
         ELSE IF s = 0 THEN Set(r, Passed(q, e))
         ELSE Set(r, [q EXCEPT !.at = "campaign", !.cur = e, !.campaign = post[p].campaign,
                               !.late = @ \/ Archived(post[p].campaign)])
      /\ UNCHANGED <<campaign, post, blind, ops, faults>>

(* Mutant: only ScheduleDraft looks at the campaign. *)
CheckCampaignOnSchedule(r) ==
  /\ req[r].at = "campaign"
  /\ IF Archived(req[r].campaign) /\ req[r].op = "schedule" THEN Ends(r)
     ELSE Set(r, [req[r] EXCEPT !.at = "ids"])
  /\ UNCHANGED <<campaign, post, blind, ops, faults>>

(* ensureCampaignCanSchedule *)
CheckCampaign(r) ==
  /\ req[r].at = "campaign"
  /\ IF Archived(req[r].campaign) THEN Ends(r)
     ELSE Set(r, [req[r] EXCEPT !.at = "ids"])
  /\ UNCHANGED <<campaign, post, blind, ops, faults>>

(* ListSchedule: the ids ... *)
ListIds(r) ==
  /\ req[r].at = "ids"
  /\ Set(r, [req[r] EXCEPT !.at = "posts", !.ids = Listed(req[r].cur.slot),
                           !.cur.missed = @ \cap {req[r].cur.post}])
  /\ UNCHANGED <<campaign, post, blind, ops, faults>>

(* ... and the posts, one by one; one deleted meanwhile fails the request.   *)
LoadPost(r) ==
  LET q == req[r]
  IN  /\ q.at = "posts"
      /\ IF q.ids = {}
         THEN IF q.op = "plan" THEN Set(r, [q EXCEPT !.at = "check"]) ELSE Set(r, Passed(q, q.cur))
         ELSE \E p \in q.ids :
                IF ~Exists(p) \/ Clashes(q.cur, p) THEN Ends(r)
                ELSE Set(r, [q EXCEPT !.ids = @ \ {p},
                                      !.cur.missed = @ \ ({p} \ {q.cur.post})])
      /\ UNCHANGED <<campaign, post, blind, ops, faults>>

Editable(p) == post[p].stage \in {"draft", "scheduled", "failed", "canceled"}

(* ScheduleDraftPost, UpdatePostEditable or UpdateThreadEditable: the posts  *)
(* of an edit one after the other; one that cannot be edited ends it.        *)
Write(r) ==
  LET q == req[r]
      e == Head(q.ready)
      rest == [req EXCEPT ![r] = IF Len(q.ready) = 1 THEN Idle ELSE [q EXCEPT !.ready = Tail(@)]]
  IN  /\ q.at = "write" /\ q.op \in {"schedule", "edit"}
      /\ IF ~Editable(e.post) THEN Ends(r) /\ UNCHANGED <<post, blind>>
         ELSE /\ post' = [post EXCEPT
                   ![e.post].stage = IF e.slot = 0 THEN "draft" ELSE "scheduled",
                   ![e.post].slot = e.slot,
                   ![e.post].text = IF q.op = "edit" THEN e.text ELSE @]
              /\ blind' = Unseen(e.post, e.missed)
              /\ req' = Touched(e.post, rest)
      /\ UNCHANGED <<campaign, ops, faults>>

(* PreviewSchedule *)
Warnings(p, s) ==
  LET e == [NoEdit EXCEPT !.post = p, !.account = post[p].account, !.text = post[p].text, !.slot = s]
  IN  {w \in {"archived"} : Archived(post[p].campaign)} \cup
      {w \in {"clash"} : \E q \in Listed(s) : Clashes(e, q)}

-----------------------------------------------------------------------------
(* New posts: a client's, a content plan's, and a campaign's drafts.         *)

(* A client's is created with or without a time, and not checked.            *)
BeginCreate(r, a, c, t, s) ==
  /\ Begins(r, [Idle EXCEPT !.op = "create", !.at = "check", !.campaign = c, !.late = Archived(c),
                !.cur = [post |-> 0, account |-> a, text |-> t, slot |-> s, missed |-> Post]])
  /\ UNCHANGED <<campaign, post, blind, faults>>

(* ScheduleVariant: ValidateNewSchedule first. *)
BeginPlan(r, a, c, t, s) ==
  /\ Begins(r, [Idle EXCEPT !.op = "plan", !.at = "ids", !.campaign = c, !.late = Archived(c),
                !.cur = [NoEdit EXCEPT !.account = a, !.text = t, !.slot = s]])
  /\ UNCHANGED <<campaign, post, blind, faults>>

(* buildPlannedTimes: every day the slots in turn, as many as are asked for. *)
Days(d) == IF d <= 0 THEN 7 ELSE IF d > 31 THEN 31 ELSE d
PerDay(k, n) == LET asked == IF k <= 0 THEN n ELSE k
                IN  IF asked > 10 THEN 10 ELSE asked

Planned(days, perDay, slots) ==
  LET n == IF slots = 0 THEN 1 ELSE slots
      k == PerDay(perDay, n)
  IN  [i \in 1..(Days(days) * k) |-> [day |-> ((i - 1) \div k) + 1, slot |-> (((i - 1) % k) % n) + 1]]

(* CreateDrafts has variants, CreateCalendarDrafts planned times. *)
Variants(n) == [i \in 1..n |-> [day |-> 0, slot |-> i]]
Items == {Variants(2), Planned(1, 2, 1)}

(* One account after the other. *)
Drafts(accounts, items) ==
  [i \in 1..(Len(accounts) * Len(items)) |->
     <<accounts[((i - 1) \div Len(items)) + 1], items[((i - 1) % Len(items)) + 1]>>]

BeginDrafts(r, c, accounts, items, keyed) ==
  /\ accounts # <<>> /\ ~Archived(c)
  /\ Begins(r, [Idle EXCEPT !.op = "drafts", !.at = "generate", !.campaign = c, !.keyed = keyed,
                            !.left = Drafts(accounts, items)])
  /\ UNCHANGED <<campaign, post, blind, faults>>

(* GenerateText; when it fails the drafts created so far stay. *)
Generate(r) ==
  /\ req[r].at = "generate"
  /\ \/ /\ \E t \in Text :
            Set(r, [req[r] EXCEPT !.at = "check", !.late = Archived(req[r].campaign),
                      !.cur = [NoEdit EXCEPT !.account = Head(req[r].left)[1], !.text = t]])
        /\ UNCHANGED faults
     \/ faults < MaxFaults /\ faults' = faults + 1 /\ Ends(r)
  /\ UNCHANGED <<campaign, post, blind, ops>>

(* Mutant: the drafts of a time are told apart by their text. *)
DraftKeyOfText(q) == <<q.cur.account, q.cur.text>>

DraftKey(q) == <<q.cur.account, Head(q.left)[2]>>

Key(q) == IF q.keyed THEN DraftKey(q) ELSE NoKey
Holder(q) == {p \in Post : Exists(p) /\ q.keyed /\ post[p].key = DraftKey(q)}

(* Create refuses an archived campaign. *)
CheckNew(r) ==
  /\ req[r].at = "check"
  /\ IF Archived(req[r].campaign) THEN Ends(r) ELSE Set(r, [req[r] EXCEPT !.at = "insert"])
  /\ UNCHANGED <<campaign, post, blind, ops, faults>>

(* The draft is answered with p; the next one follows. *)
Answered(q, p) ==
  IF q.op # "drafts" \/ Len(q.left) = 1 THEN Idle
  ELSE [q EXCEPT !.at = "generate", !.left = Tail(@), !.got = Append(@, <<Head(q.left), p>>), !.late = FALSE, !.cur = NoEdit]

(* CreatePost, or the post that has the key already. *)
Insert(r) ==
  LET q == req[r]
  IN  /\ q.at = "insert"
      /\ \/ \E p \in Holder(q) : Set(r, Answered(q, p)) /\ UNCHANGED <<post, blind>>
         \/ /\ Holder(q) = {}
            /\ \E p \in Post :
                 /\ post[p].stage = "absent" /\ \A o \in 1..(p - 1) : post[o].stage # "absent"
                 /\ post' = [post EXCEPT ![p] =
                      [stage |-> IF q.cur.slot = 0 THEN "draft" ELSE "scheduled",
                       account |-> q.cur.account, campaign |-> q.campaign, text |-> q.cur.text,
                       slot |-> q.cur.slot, key |-> Key(q),
                       item |-> IF q.op = "drafts" THEN Head(q.left)[2] ELSE NoItem]]
                 /\ blind' = Unseen(p, q.cur.missed)
                 /\ req' = Touched(p, [req EXCEPT ![r] = Answered(q, p)])
      /\ UNCHANGED <<campaign, ops, faults>>

-----------------------------------------------------------------------------
(* CancelPost, DeletePostEditable, and the worker.  A post keeps its time.   *)
Moves(p, from, to) ==
  /\ post[p].stage \in from
  /\ post' = [post EXCEPT ![p].stage = to]
  /\ UNCHANGED <<campaign, req, blind, faults>>

Cancel(p) == ops < MaxOps /\ ops' = ops + 1 /\ Moves(p, {"scheduled"}, "canceled")
Delete(p) == ops < MaxOps /\ ops' = ops + 1 /\ Editable(p) /\ Moves(p, {post[p].stage}, "gone")
Publish(p) == UNCHANGED ops /\ \E to \in {"published", "failed"} : Moves(p, {"scheduled"}, to)

Step(r) ==
  \/ WriteCampaign(r) \/ ReadPost(r) \/ CheckCampaign(r) \/ ListIds(r) \/ LoadPost(r)
  \/ Write(r) \/ Generate(r) \/ CheckNew(r) \/ Insert(r)

(* The posts of an edit: one, or two. *)
Known == {p \in Post : Exists(p)}
Todo  == [1..1 -> Known] \cup {t \in [1..2 -> Known] : t[1] < t[2]}

Requested(r) ==
  \/ \E c \in Campaign, asked \in Status \cup {Own} : BeginUpdate(r, c, asked)
  \/ \E p \in Known, s \in Slot \ {0} : BeginSchedule(r, p, s)
  \/ \E todo \in Todo, s \in Slot \cup {Kept}, t \in Text : BeginEdit(r, todo, s, t)
  \/ \E a \in Account, c \in Campaign \cup {NoCampaign}, t \in Text, s \in Slot :
       BeginCreate(r, a, c, t, s) \/ (s # 0 /\ BeginPlan(r, a, c, t, s))
  \/ \E c \in Campaign, accounts \in SetToSeqs(Account), items \in Items, keyed \in BOOLEAN :
       BeginDrafts(r, c, accounts, items, keyed)

Next ==
  \/ \E r \in Request : Step(r) \/ (req[r] = Idle /\ ops < MaxOps /\ Requested(r))
  \/ \E p \in Post : Cancel(p) \/ Delete(p) \/ Publish(p) \/ \E c \in Campaign : Attach(p, c)

Spec == Init /\ [][Next]_vars

-----------------------------------------------------------------------------
(* Two posts of an account are scheduled close to each other, or with one    *)
(* text, only if one of them was created without a check or their requests   *)
(* overlapped: a check never passes over a post that was there.  Until a     *)
(* post changes, a schedule that passed its checks is one that a preview has *)
(* nothing against, but for a campaign archived since.                       *)
(* (mutations.go:160, :458)                                                  *)
SlotsApart ==
  /\ \A p, q \in {p \in Post : post[p].stage = "scheduled"} :
       LET apart == Distance(post[p].slot, post[q].slot)
           close == apart <= Apart \/ (apart <= Recent /\ post[p].text = post[q].text)
       IN  p # q /\ post[p].account = post[q].account /\ close => {p, q} \in blind
  /\ \A r \in Request : req[r].at = "write" /\ req[r].op = "schedule" =>
       LET e == Head(req[r].ready)
       IN  e.missed # {} \/ ~Exists(e.post) \/ Warnings(e.post, e.slot) \subseteq {"archived"}

(* With a prefix, drafts that are asked for again, after a failure or by two *)
(* requests at a time, are there once for an account and a time or variant,  *)
(* and each is answered with a post of the account and for the time that it  *)
(* was asked for.  (drafts.go:174, :276)                                     *)
DraftsOnce ==
  /\ \A p, q \in {p \in Post : Exists(p) /\ post[p].key # NoKey} :
       p # q => <<post[p].account, post[p].item>> # <<post[q].account, post[q].item>>
  /\ \A r \in Request : \A i \in DOMAIN req[r].got :
       LET asked == req[r].got[i][1]
           p == req[r].got[i][2]
       IN  <<post[p].account, post[p].item>> = asked

(* A post is neither created in an archived campaign nor given a time in it  *)
(* by a request that read it when the campaign was archived, as long as it   *)
(* stays so; and a campaign is taken out of the archive only by an update    *)
(* that asks for it, or that read the campaign before it was archived.       *)
(* (README.md:83, service.go:110)                                            *)
ArchiveHolds ==
  [][/\ \A r \in Request :
          req[r].late /\ <<req'[r].at, Len(req'[r].ready)>> # <<req[r].at, Len(req[r].ready)>>
          => \A p \in Post : \/ post'[p] = post[p]
                             \/ post'[p].stage = "draft" /\ post[p].stage # "absent"
     /\ \A c \in Campaign : campaign[c] = "archived" /\ campaign'[c] # "archived" =>
          \E r \in Request : /\ req[r].op = "update" /\ req[r].campaign = c
                             /\ (req[r].asked = campaign'[c] \/ req[r].was # "archived")]_vars
=============================================================================
