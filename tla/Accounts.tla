------------------------------ MODULE Accounts ------------------------------
(***************************************************************************)
(* Social accounts, their credentials and the OAuth flow that connects     *)
(* them (internal/api/accounts*.go, internal/api/mcp_accounts.go,          *)
(* internal/db/accounts.go), with the worker that refreshes the            *)
(* credentials, publishes with them and writes the account's status        *)
(* (publishcycle/runner.go).                                               *)
(*                                                                         *)
(* Requests run concurrently and issue one statement at a time.  A code    *)
(* may be redeemed once; X replaces the refresh token with every refresh.  *)
(* A fault is a failing statement, a refresh whose answer is lost, or a    *)
(* crash; MaxFaults bounds them.                                           *)
(***************************************************************************)
EXTENDS Naturals, FiniteSets

CONSTANTS
  Ident,     \* external accounts a platform may offer
  Member,    \* the one that is the LinkedIn member, the others are pages
  Flow,      \* OAuth states
  Client,    \* requests in progress
  NoIdent, NoFlow,
  MaxOps,    \* bound on the requests of a behaviour
  MaxFaults  \* bound on its faults

ASSUME AccountsAssumption ==
  /\ Member \in Ident /\ NoIdent \notin Ident /\ NoFlow \notin Flow
  /\ MaxOps \in Nat /\ MaxFaults \in Nat

VARIABLES
  platform, \* the platform of all the accounts
  row,      \* table accounts joined with account_credentials
  posts,    \* external accounts whose row has posts
  flow,     \* table oauth_states
  offer,    \* table oauth_pending_account_selections, by the state it is from
  memo,     \* recentOAuthCallbackOutcomes
  req,      \* the requests
  work,     \* the worker
  latest,   \* the network: the valid refresh token of each authorization
  grants,   \* the network: authorizations so far
  redeemed, \* history: codes redeemed by the callbacks of a state
  done,     \* history: states whose accounts were all saved
  ids, ops, faults

data == <<row, posts, flow, offer, memo>>
vars == <<platform, data, req, work, latest, grants, redeemed, done, ids, ops, faults>>

MaxGrants == MaxOps
Cred == [grant : 0..MaxGrants, ver : Nat]
NoCred == [grant |-> 0, ver |-> 0]

(* id 0: there is no such row. *)
Row == [id : Nat, cred : Cred, premium : BOOLEAN,
        status : {"connected", "disconnected", "error"}]
NoRow == [id |-> 0, cred |-> NoCred, premium |-> FALSE, status |-> "disconnected"]

RequestType ==
  [at : {"idle", "exchange", "lookup", "write", "save", "finish", "connect", "erase"},
   why : {"callback", "select", "static", "connect", "delete"},
   flow : Flow \cup {NoFlow}, html : BOOLEAN,
   todo : SUBSET Ident, one : Ident \cup {NoIdent}, id : Nat, premium : BOOLEAN,
   grant : 0..MaxGrants]
Idle == [at |-> "idle", why |-> "callback", flow |-> NoFlow, html |-> FALSE,
         todo |-> {}, one |-> NoIdent, id |-> 0, premium |-> FALSE, grant |-> 0]

Worker ==
  [at : {"idle", "refresh", "store", "publish", "connected", "complain"},
   one : Ident \cup {NoIdent}, id : Nat, cred : Cred, forced : BOOLEAN]
Asleep == [at |-> "idle", one |-> NoIdent, id |-> 0, cred |-> NoCred, forced |-> FALSE]

Offer == [accounts : SUBSET Ident, grant : 0..MaxGrants]
NoOffer == [accounts |-> {}, grant |-> 0]

TypeOK ==
  /\ platform \in {"x", "linkedin", "meta"}
  /\ row \in [Ident -> Row]
  /\ posts \subseteq Ident
  /\ flow \in [Flow -> {"unused", "personal", "organization", "expired", "gone"}]
  /\ offer \in [Flow -> Offer]
  /\ memo \in [Flow -> {"none", "connected", "select", "failed"}]
  /\ req \in [Client -> RequestType]
  /\ work \in Worker
  /\ latest \in [1..MaxGrants -> Nat]
  /\ grants \in 0..MaxGrants
  /\ redeemed \in [Flow -> Nat]
  /\ done \in SUBSET Flow
  /\ ids \in Nat /\ ops \in 0..MaxOps /\ faults \in 0..MaxFaults

Init ==
  /\ platform \in {"x", "linkedin", "meta"}
  /\ row = [i \in Ident |-> NoRow] /\ posts = {}
  /\ flow = [f \in Flow |-> "unused"]
  /\ offer = [f \in Flow |-> NoOffer] /\ memo = [f \in Flow |-> "none"]
  /\ req = [c \in Client |-> Idle] /\ work = Asleep
  /\ latest = [g \in 1..MaxGrants |-> 1] /\ grants = 0
  /\ redeemed = [f \in Flow |-> 0] /\ done = {}
  /\ ids = 0 /\ ops = 0 /\ faults = 0

Exists(i) == row[i].id # 0
Op == ops < MaxOps /\ ops' = ops + 1
Fault == faults < MaxFaults /\ faults' = faults + 1
Free(c) == req[c].at = "idle"
Becomes(c, r) == req' = [req EXCEPT ![c] = r]
Ends(c) == Becomes(c, Idle)
Recall(f, outcome) == memo' = [memo EXCEPT ![f] = outcome]

(* The row with this id, if it is still there. *)
SetStatus(i, id, s) ==
  row' = [row EXCEPT ![i].status = IF row[i].id = id THEN s ELSE @]

-----------------------------------------------------------------------------
(* What the network offers to connect.  X: its user. *)
XOffers == {{i} : i \in Ident}

(* Meta: the pages of the user that come with a token of their own; none of  *)
(* them is an error.                                                         *)
Pages == SUBSET Ident
MetaOffers == Pages \ {{}}

(* LinkedIn: the member, unless organizations were asked for, and those the  *)
(* member has a publishing role in.                                          *)
MemberOffered(kind) == IF kind = "personal" THEN {Member} ELSE {}
OrganizationsOffered == SUBSET (Ident \ {Member})
LinkedInOffers(kind) == {MemberOffered(kind) \cup S : S \in OrganizationsOffered}

Offers(kind) ==
  CASE platform = "x" -> XOffers
    [] platform = "meta" -> MetaOffers
    [] platform = "linkedin" -> LinkedInOffers(kind)

(* handleOAuthStart. *)
StartFlow(f) ==
  /\ flow[f] = "unused"
  /\ Op
  /\ \E kind \in {"personal"} \cup (IF platform = "linkedin" THEN {"organization"} ELSE {}) :
       flow' = [flow EXCEPT ![f] = kind]
  /\ UNCHANGED <<platform, row, posts, offer, memo, req, work, latest, grants, redeemed, done, ids, faults>>

(* Ten minutes pass. *)
FlowExpires(f) ==
  /\ flow[f] \in {"personal", "organization"}
  /\ flow' = [flow EXCEPT ![f] = "expired"]
  /\ UNCHANGED <<platform, row, posts, offer, memo, req, work, latest, grants, redeemed, done, ids, ops, faults>>

OfferExpires(f) ==
  /\ offer[f] # NoOffer
  /\ offer' = [offer EXCEPT ![f] = NoOffer]
  /\ UNCHANGED <<platform, row, posts, flow, memo, req, work, latest, grants, redeemed, done, ids, ops, faults>>

(* handleOAuthCallback up to the exchange: ConsumeOAuthState is one          *)
(* transaction.  A callback whose state is gone is answered from the memory  *)
(* of outcomes and changes nothing.                                          *)
Callback(c, f) ==
  /\ Free(c) /\ flow[f] \in {"personal", "organization", "expired"}
  /\ Op
  /\ flow' = [flow EXCEPT ![f] = "gone"]
  /\ IF flow[f] = "expired" THEN UNCHANGED req
     ELSE \E html \in BOOLEAN :
            Becomes(c, [Idle EXCEPT !.at = "exchange", !.flow = f, !.html = html,
                                    !.why = "callback",
                                    !.todo = IF flow[f] = "personal" THEN {} ELSE Ident])
  /\ UNCHANGED <<platform, row, posts, offer, memo, work, latest, grants, redeemed, done, ids, faults>>

(* provider.HandleOAuthCallback: the code is redeemed and the accounts are   *)
(* listed.  A browser that has a choice is sent to the selection, anybody    *)
(* else gets all of them.                                                    *)
Kind(c) == IF req[c].todo = {} THEN "personal" ELSE "organization"

Redeem(f) == redeemed' = [redeemed EXCEPT ![f] = @ + 1]

(* shouldPromptOAuthAccountSelection. *)
Prompts(c, S) == req[c].html /\ Cardinality(S) > 1

Exchange(c) ==
  /\ req[c].at = "exchange"
  /\ LET f == req[c].flow IN
     /\ Redeem(f)
     /\ \/ Recall(f, "failed") /\ Ends(c) /\ UNCHANGED <<offer, grants, done>>
        \/ /\ grants < MaxGrants
           /\ grants' = grants + 1
           /\ \E S \in Offers(Kind(c)) :
                IF Prompts(c, S)
                THEN /\ offer' = [offer EXCEPT ![f] = [accounts |-> S, grant |-> grants']]
                     /\ Recall(f, "select") /\ Ends(c) /\ UNCHANGED done
                ELSE /\ Becomes(c, [req[c] EXCEPT !.at = IF S = {} THEN "finish" ELSE "lookup",
                                                  !.todo = S, !.grant = grants'])
                     /\ done' = IF S = {} THEN done \cup {f} ELSE done
                     /\ UNCHANGED <<offer, memo>>
  /\ UNCHANGED <<platform, row, posts, flow, work, latest, ids, ops, faults>>

(* A request that fails; only a callback's outcome is remembered.  What was  *)
(* saved before stays.                                                       *)
Abort(c) ==
  /\ Ends(c)
  /\ IF req[c].why = "callback" THEN Recall(req[c].flow, "failed") ELSE UNCHANGED memo

(* persistConnectedAccounts: for each account, UpsertAccount looks its row   *)
(* up, ...                                                                   *)
Lookup(c) ==
  /\ req[c].at = "lookup"
  /\ \/ /\ \E i \in req[c].todo :
             Becomes(c, [req[c] EXCEPT !.at = "write", !.one = i,
                                       !.id = row[i].id, !.premium = row[i].premium])
        /\ UNCHANGED <<memo, faults>>
     \/ Fault /\ Abort(c)
  /\ UNCHANGED <<platform, row, posts, flow, offer, work, latest, grants, redeemed, done, ids, ops>>

(* ... then inserts it, or writes it with the x_premium it found, and reads  *)
(* it back.  An account is unique; one deleted in between is not found.      *)
Write(c) ==
  /\ req[c].at = "write"
  /\ LET i == req[c].one IN
     \/ /\ req[c].id = 0 /\ ~Exists(i)
        /\ ids' = ids + 1
        /\ row' = [row EXCEPT ![i] = [id |-> ids', cred |-> NoCred, premium |-> FALSE,
                                      status |-> "connected"]]
        /\ Becomes(c, [req[c] EXCEPT !.at = "save", !.id = ids'])
        /\ UNCHANGED <<memo, faults>>
     \/ /\ req[c].id # 0 /\ row[i].id = req[c].id
        /\ row' = [row EXCEPT ![i].status = "connected", ![i].premium = req[c].premium]
        /\ Becomes(c, [req[c] EXCEPT !.at = "save"])
        /\ UNCHANGED <<memo, ids, faults>>
     \/ req[c].id # row[i].id /\ Abort(c) /\ UNCHANGED <<row, ids, faults>>
     \/ Fault /\ Abort(c) /\ UNCHANGED <<row, ids>>
  /\ UNCHANGED <<platform, posts, flow, offer, work, latest, grants, redeemed, done, ops>>

(* Mutant: the accounts are reported as soon as the first of them is saved. *)
SaveCredFirst(c) ==
  /\ req[c].at = "save"
  /\ LET i == req[c].one  rest == req[c].todo \ {i} IN
     \/ /\ row[i].id = req[c].id
        /\ row' = [row EXCEPT ![i].cred = [grant |-> req[c].grant, ver |-> 1]]
        /\ Becomes(c, [req[c] EXCEPT !.at = "finish", !.todo = rest])
        /\ done' = IF rest = {} THEN done \cup ({req[c].flow} \cap Flow) ELSE done
        /\ UNCHANGED <<memo, faults>>
     \/ row[i].id # req[c].id /\ Abort(c) /\ UNCHANGED <<row, done, faults>>
     \/ Fault /\ Abort(c) /\ UNCHANGED <<row, done>>
  /\ UNCHANGED <<platform, posts, flow, offer, work, latest, grants, redeemed, ids, ops>>

(* saveCredentials replaces what the account had; its foreign key fails when *)
(* the account is gone.                                                      *)
SaveCred(c) ==
  /\ req[c].at = "save"
  /\ LET i == req[c].one  rest == req[c].todo \ {i} IN
     \/ /\ row[i].id = req[c].id
        /\ row' = [row EXCEPT ![i].cred = [grant |-> req[c].grant, ver |-> 1]]
        /\ Becomes(c, [req[c] EXCEPT !.at = IF rest = {} THEN "finish" ELSE "lookup",
                                     !.todo = rest])
        /\ done' = IF rest = {} THEN done \cup ({req[c].flow} \cap Flow) ELSE done
        /\ UNCHANGED <<memo, faults>>
     \/ row[i].id # req[c].id /\ Abort(c) /\ UNCHANGED <<row, done, faults>>
     \/ Fault /\ Abort(c) /\ UNCHANGED <<row, done>>
  /\ UNCHANGED <<platform, posts, flow, offer, work, latest, grants, redeemed, ids, ops>>

(* The outcome is remembered; a selection is deleted first. *)
Finish(c) ==
  /\ req[c].at = "finish"
  /\ Ends(c)
  /\ LET f == req[c].flow IN
     \/ /\ IF req[c].why = "static" THEN UNCHANGED memo ELSE Recall(f, "connected")
        /\ offer' = IF req[c].why = "select" THEN [offer EXCEPT ![f] = NoOffer] ELSE offer
        /\ UNCHANGED faults
     \/ req[c].why = "select" /\ Fault /\ UNCHANGED <<memo, offer>>
  /\ UNCHANGED <<platform, row, posts, flow, work, latest, grants, redeemed, done, ids, ops>>

(* handleOAuthSelect: some of the accounts a callback left to be chosen.     *)
Select(c, f) ==
  /\ Free(c) /\ offer[f] # NoOffer
  /\ Op
  /\ \E T \in SUBSET offer[f].accounts \ {{}} :
       Becomes(c, [Idle EXCEPT !.at = "lookup", !.why = "select", !.flow = f,
                               !.todo = T, !.grant = offer[f].grant])
  /\ UNCHANGED <<platform, row, posts, flow, offer, memo, work, latest, grants, redeemed, done, ids, faults>>

(* handleCreateStaticAccount, with credentials the user has from elsewhere. *)
Static(c, i) ==
  /\ Free(c) /\ platform # "x" /\ grants < MaxGrants
  /\ Op
  /\ grants' = grants + 1
  /\ Becomes(c, [Idle EXCEPT !.at = "lookup", !.why = "static", !.todo = {i}, !.grant = grants'])
  /\ UNCHANGED <<platform, row, posts, flow, offer, memo, work, latest, redeemed, done, ids, faults>>

-----------------------------------------------------------------------------
(* "connect": an account that has credentials is declared connected again. *)
ConnectBegin(c, i) ==
  /\ Free(c) /\ Exists(i) /\ row[i].cred # NoCred
  /\ Op
  /\ Becomes(c, [Idle EXCEPT !.at = "connect", !.why = "connect", !.one = i, !.id = row[i].id])
  /\ UNCHANGED <<platform, data, work, latest, grants, redeemed, done, ids, faults>>

Connect(c) ==
  /\ req[c].at = "connect"
  /\ SetStatus(req[c].one, req[c].id, "connected")
  /\ Ends(c)
  /\ UNCHANGED <<platform, posts, flow, offer, memo, work, latest, grants, redeemed, done, ids, ops, faults>>

Disconnect(i) ==
  /\ Exists(i)
  /\ Op
  /\ row' = [row EXCEPT ![i].status = "disconnected"]
  /\ UNCHANGED <<platform, posts, flow, offer, memo, req, work, latest, grants, redeemed, done, ids, faults>>

SetPremium(i) ==
  /\ Exists(i) /\ platform = "x"
  /\ Op
  /\ row' = [row EXCEPT ![i].premium = ~@]
  /\ UNCHANGED <<platform, posts, flow, offer, memo, req, work, latest, grants, redeemed, done, ids, faults>>

(* DeleteAccount reads the status and counts the posts, ...                  *)
DeleteBegin(c, i) ==
  /\ Free(c) /\ Exists(i) /\ row[i].status = "disconnected" /\ i \notin posts
  /\ Op
  /\ Becomes(c, [Idle EXCEPT !.at = "erase", !.why = "delete", !.one = i, !.id = row[i].id])
  /\ UNCHANGED <<platform, data, work, latest, grants, redeemed, done, ids, faults>>

(* Mutant: the tables' foreign keys are not enforced. *)
EraseUnchecked(c) ==
  /\ req[c].at = "erase"
  /\ LET i == req[c].one IN
     row' = IF row[i].id = req[c].id THEN [row EXCEPT ![i] = NoRow] ELSE row
  /\ Ends(c)
  /\ UNCHANGED <<platform, posts, flow, offer, memo, work, latest, grants, redeemed, done, ids, ops, faults>>

(* Mutant: the credentials are deleted outside the transaction. *)
EraseApart(c) ==
  /\ req[c].at = "erase"
  /\ LET i == req[c].one IN
     row' = IF row[i].id # req[c].id THEN row
            ELSE IF i \in posts THEN [row EXCEPT ![i].cred = NoCred]
            ELSE [row EXCEPT ![i] = NoRow]
  /\ Ends(c)
  /\ UNCHANGED <<platform, posts, flow, offer, memo, work, latest, grants, redeemed, done, ids, ops, faults>>

(* ... then deletes the row and its credentials in one transaction, whatever *)
(* the status is by then; a post's foreign key makes it fail.                *)
Erase(c) ==
  /\ req[c].at = "erase"
  /\ LET i == req[c].one IN
     row' = IF row[i].id = req[c].id /\ i \notin posts THEN [row EXCEPT ![i] = NoRow] ELSE row
  /\ Ends(c)
  /\ UNCHANGED <<platform, posts, flow, offer, memo, work, latest, grants, redeemed, done, ids, ops, faults>>

(* Posts come and go; the one the worker has in hand cannot be deleted. *)
AddPost(i) ==
  /\ Exists(i) /\ i \notin posts
  /\ Op
  /\ posts' = posts \cup {i}
  /\ UNCHANGED <<platform, row, flow, offer, memo, req, work, latest, grants, redeemed, done, ids, faults>>

RemovePost(i) ==
  /\ i \in posts /\ work.one # i
  /\ Op
  /\ posts' = posts \ {i}
  /\ UNCHANGED <<platform, row, flow, offer, memo, req, work, latest, grants, redeemed, done, ids, faults>>

-----------------------------------------------------------------------------
(* The worker with one post of account i.  It never looks at the status.  An *)
(* account without credentials fails the post and keeps its status.          *)
WLoad(i) ==
  /\ work = Asleep
  /\ i \in posts /\ row[i].cred # NoCred
  /\ Op
  /\ \E at \in {"refresh", "publish"} :
       work' = [at |-> at, one |-> i, id |-> row[i].id, cred |-> row[i].cred, forced |-> FALSE]
  /\ UNCHANGED <<platform, data, req, latest, grants, redeemed, done, ids, faults>>

(* A refresh that fails marks the account, except a forced one whose error   *)
(* does not look like an authorization failure.                              *)
RefreshFails ==
  \/ work' = [work EXCEPT !.at = "complain"]
  \/ work.forced /\ work' = Asleep

Rotate(g) == latest' = [latest EXCEPT ![g] = @ + 1]

(* RefreshIfNeeded of each platform.  X takes a refresh token once and       *)
(* answers with the next; LinkedIn credentials may have none, then nothing   *)
(* is refreshed; Meta exchanges its long-lived token.                        *)
Usable == work.cred.ver = latest[work.cred.grant]

XRefresh ==
  /\ platform = "x" /\ Usable
  /\ Rotate(work.cred.grant)
  /\ \/ work' = [work EXCEPT !.at = "store", !.cred.ver = @ + 1] /\ UNCHANGED faults
     \/ Fault /\ RefreshFails

LinkedInRefresh ==
  /\ platform = "linkedin"
  /\ \E at \in {"store", "publish"} : work' = [work EXCEPT !.at = at]
  /\ UNCHANGED <<latest, faults>>

MetaRefresh ==
  /\ platform = "meta"
  /\ work' = [work EXCEPT !.at = "store"]
  /\ UNCHANGED <<latest, faults>>

WRefresh ==
  /\ work.at = "refresh"
  /\ \/ XRefresh \/ LinkedInRefresh \/ MetaRefresh
     \/ RefreshFails /\ UNCHANGED <<latest, faults>>
  /\ UNCHANGED <<platform, data, req, grants, redeemed, done, ids, ops>>

(* Mutant: the credentials of a forced refresh are used and not saved. *)
WStoreProactive ==
  /\ work.at = "store"
  /\ row' = IF work.forced THEN row ELSE [row EXCEPT ![work.one].cred = work.cred]
  /\ work' = [work EXCEPT !.at = "publish"]
  /\ UNCHANGED <<platform, posts, flow, offer, memo, req, latest, grants, redeemed, done, ids, ops, faults>>

(* SaveCredentials writes over whatever was saved since they were loaded. *)
WStore ==
  /\ work.at = "store"
  /\ \/ /\ row[work.one].id = work.id
        /\ row' = [row EXCEPT ![work.one].cred = work.cred]
        /\ work' = [work EXCEPT !.at = "publish"] /\ UNCHANGED faults
     \/ Fault /\ RefreshFails /\ UNCHANGED row
  /\ UNCHANGED <<platform, posts, flow, offer, memo, req, latest, grants, redeemed, done, ids, ops>>

WPublish ==
  /\ work.at = "publish"
  /\ \/ work' = [work EXCEPT !.at = "connected"]
     \/ ~work.forced /\ work' = [work EXCEPT !.at = "refresh", !.forced = TRUE]
     \/ work.forced /\ work' = [work EXCEPT !.at = "complain"]
     \/ work' = Asleep
  /\ UNCHANGED <<platform, data, req, latest, grants, redeemed, done, ids, ops, faults>>

(* UpdateAccountStatus after the attempt. *)
WStatus ==
  /\ work.at \in {"connected", "complain"}
  /\ SetStatus(work.one, work.id, IF work.at = "connected" THEN "connected" ELSE "error")
  /\ work' = Asleep
  /\ UNCHANGED <<platform, posts, flow, offer, memo, req, latest, grants, redeemed, done, ids, ops, faults>>

(* The process stops and is started again: the memory of outcomes is lost.  *)
Crash ==
  /\ Fault
  /\ req' = [c \in Client |-> Idle] /\ work' = Asleep
  /\ memo' = [f \in Flow |-> "none"]
  /\ UNCHANGED <<platform, row, posts, flow, offer, latest, grants, redeemed, done, ids, ops>>

Request(c) ==
  \/ \E f \in Flow : Callback(c, f) \/ Select(c, f)
  \/ Exchange(c) \/ Lookup(c) \/ Write(c) \/ SaveCred(c) \/ Finish(c)
  \/ \E i \in Ident : Static(c, i) \/ ConnectBegin(c, i) \/ DeleteBegin(c, i)
  \/ Connect(c) \/ Erase(c)

Next ==
  \/ \E c \in Client : Request(c)
  \/ \E f \in Flow : StartFlow(f) \/ FlowExpires(f) \/ OfferExpires(f)
  \/ \E i \in Ident : Disconnect(i) \/ SetPremium(i) \/ AddPost(i) \/ RemovePost(i) \/ WLoad(i)
  \/ WRefresh \/ WStore \/ WPublish \/ WStatus
  \/ Crash

Spec == Init /\ [][Next]_vars

-----------------------------------------------------------------------------
(* Whatever callbacks race or are repeated, the code of an authorization is  *)
(* redeemed at most once, and a repeated callback is told what happened to   *)
(* the first: connected means that all the accounts were saved with their    *)
(* credentials, failed that they were not.  (accounts_oauth.go:183)          *)
CallbackOnce ==
  \A f \in Flow : /\ redeemed[f] <= 1
                  /\ memo[f] = "connected" => f \in done
                  /\ memo[f] = "failed" => f \notin done

(* Unless something fails, the refresh token X would take next is the stored *)
(* one, or in the worker's hands: losing it disconnects the account.         *)
(* (runner.go refreshIfNeeded)                                               *)
RotatedTokenIsStored ==
  platform = "x" /\ faults = 0 =>
    \A i \in Ident : LET k == row[i].cred IN
      k # NoCred => \/ k.ver = latest[k.grant]
                    \/ work.at = "store" /\ work.cred.grant = k.grant

(* A post's account exists, whatever was checked before it was deleted.      *)
(* (DeleteAccount counts the posts outside its transaction)                  *)
PostsHaveAccounts == \A i \in posts : Exists(i)

(* Unless something fails, a connected account has credentials, or a request *)
(* that is about to save them.  (UpsertAccount before SaveAccountCredentials)*)
ConnectedIsUsable ==
  faults = 0 =>
    \A i \in Ident : Exists(i) /\ row[i].status = "connected" =>
      \/ row[i].cred # NoCred
      \/ \E c \in Client : req[c].at = "save" /\ req[c].one = i /\ req[c].id = row[i].id
=============================================================================
