------------------------------ MODULE LocalAuth ------------------------------
(***************************************************************************)
(* The owner's sessions and the OAuth server MCP clients are authorized by *)
(* (internal/api/local_auth.go, local_oauth.go, internal/db/local_auth.go, *)
(* local_oauth.go): a code is approved in a session, redeemed for an       *)
(* access and a refresh token, and the refresh token replaced with each    *)
(* use.                                                                    *)
(*                                                                         *)
(* Requests run concurrently and issue a statement or a transaction at a   *)
(* time.  A fault is a failing statement between two others; MaxFaults     *)
(* bounds them.  Expiry is a step that may come at any time, in the order  *)
(* of the lifetimes.                                                       *)
(***************************************************************************)
EXTENDS Naturals, FiniteSets, Admission

CONSTANTS
  Session,    \* web sessions a behaviour may open
  Client,     \* registered OAuth clients
  Request,    \* requests at the token endpoint
  MaxPages,   \* bound on the approval pages shown
  MaxCodes, MaxTokens, \* bounds on the codes and tokens created
  MaxFaults   \* bound on the faults

ASSUME LocalAuthAssumption ==
  MaxPages \in Nat /\ MaxCodes \in Nat /\ MaxTokens \in Nat /\ MaxFaults \in Nat

VARIABLES
  owner,    \* there is a row in local_owners
  session,  \* table web_sessions
  shown,    \* approval tokens handed out, with the session and client they sign
  codes,    \* table oauth_codes
  tokens,   \* table oauth_tokens
  req,      \* the requests
  raced,    \* history: codes of whose tokens one was refreshed twice at a time
  faults

vars == <<owner, session, shown, codes, tokens, req, raced, faults>>

CodeId  == 1..MaxCodes
TokenId == 1..MaxTokens
Scope == {"mcp", "other"}

(* normalizeOAuthScope: no scope at all stands for "mcp". *)
Normal(asked) == IF asked = "" THEN "mcp" ELSE asked

NoClient == "nobody"
Codes ==
  [state : {"none", "fresh", "used", "expired", "gone"},
   client : Client \cup {NoClient}, scope : Scope]
NoCode == [state |-> "none", client |-> NoClient, scope |-> "mcp"]

(* code: the code its family stems from.  heir: it is from a refresh. *)
Tokens ==
  [code : 0..MaxCodes, client : Client \cup {NoClient}, scope : Scope, heir : BOOLEAN,
   revoked : BOOLEAN, access : BOOLEAN, refresh : BOOLEAN]
NoToken == [code |-> 0, client |-> NoClient, scope |-> "mcp", heir |-> FALSE,
            revoked |-> FALSE, access |-> FALSE, refresh |-> FALSE]

Requests == [at : {"idle", "revoke", "create"}, code : 0..MaxCodes, token : 0..MaxTokens,
             client : Client \cup {NoClient}]
Idle == [at |-> "idle", code |-> 0, token |-> 0, client |-> NoClient]

TypeOK ==
  /\ owner \in BOOLEAN
  /\ session \in [Session -> {"none", "live", "expired", "gone"}]
  /\ shown \subseteq Session \X Client \X Scope
  /\ codes \in [CodeId -> Codes]
  /\ tokens \in [TokenId -> Tokens]
  /\ req \in [Request -> Requests]
  /\ raced \subseteq CodeId
  /\ faults \in 0..MaxFaults

Init ==
  /\ owner = FALSE
  /\ session = [s \in Session |-> "none"] /\ shown = {}
  /\ codes = [i \in CodeId |-> NoCode] /\ tokens = [t \in TokenId |-> NoToken]
  /\ req = [r \in Request |-> Idle] /\ raced = {} /\ faults = 0

Fault == faults < MaxFaults /\ faults' = faults + 1
Issued(t) == tokens[t].code # 0
Ends(r) == req' = [req EXCEPT ![r] = Idle]

-----------------------------------------------------------------------------
(* UpsertLocalOwnerBootstrap, when the server starts with the owner's email  *)
(* and password in its environment.  Sessions and tokens stay.               *)
Bootstrap ==
  /\ owner' = TRUE
  /\ UNCHANGED <<session, shown, codes, tokens, req, raced, faults>>

(* CreateWebSession deletes the sessions that have expired.                  *)
Swept == [s \in Session |-> IF session[s] = "expired" THEN "gone" ELSE session[s]]

(* handleLoginSubmit with the right password, to a new session. *)
Login(s) ==
  /\ owner /\ session[s] = "none"
  /\ session' = [Swept EXCEPT ![s] = "live"]
  /\ UNCHANGED <<owner, shown, codes, tokens, req, raced, faults>>

SessionExpires(s) ==
  /\ session[s] = "live"
  /\ session' = [session EXCEPT ![s] = "expired"]
  /\ UNCHANGED <<owner, shown, codes, tokens, req, raced, faults>>

(* handleLogout, or any request with an expired session. *)
Logout(s) ==
  /\ session[s] \in {"live", "expired"}
  /\ session' = [session EXCEPT ![s] = "gone"]
  /\ UNCHANGED <<owner, shown, codes, tokens, req, raced, faults>>

(* handleOAuthAuthorize, GET: the page with an approval token that signs the *)
(* session and everything that is asked for.                                 *)
ShowApproval(s, c, asked) ==
  /\ session[s] = "live"
  /\ <<s, c, Normal(asked)>> \notin shown /\ Cardinality(shown) < MaxPages
  /\ shown' = shown \cup {<<s, c, Normal(asked)>>}
  /\ UNCHANGED <<owner, session, codes, tokens, req, raced, faults>>

(* CreateOAuthAuthorizationCode first deletes the codes that are used up. *)
Cleaned ==
  [i \in CodeId |-> IF codes[i].state \in {"used", "expired"}
                    THEN [codes[i] EXCEPT !.state = "gone"] ELSE codes[i]]

(* POST: the approval is checked against the session of this request. *)
Approve(s, c, asked) ==
  /\ session[s] = "live"
  /\ <<s, c, Normal(asked)>> \in shown
  /\ \E i \in CodeId :
       /\ codes[i].state = "none" /\ \A j \in 1..(i - 1) : codes[j].state # "none"
       /\ codes' = [Cleaned EXCEPT ![i] = [state |-> "fresh", client |-> c, scope |-> Normal(asked)]]
  /\ UNCHANGED <<owner, session, shown, tokens, req, raced, faults>>

CodeExpires(i) ==
  /\ codes[i].state = "fresh"
  /\ codes' = [codes EXCEPT ![i].state = "expired"]
  /\ UNCHANGED <<owner, session, shown, tokens, req, raced, faults>>

-----------------------------------------------------------------------------
(* Mutant: the code is marked when its tokens are created. *)
ConsumeLater(r, c, i) ==
  /\ req[r] = Idle
  /\ codes[i].state = "fresh" /\ codes[i].client = c
  /\ UNCHANGED codes
  /\ req' = [req EXCEPT ![r] = [Idle EXCEPT !.at = "create", !.code = i, !.client = c]]
  /\ UNCHANGED <<owner, session, shown, tokens, raced, faults>>

(* ConsumeOAuthAuthorizationCode, a transaction: a code that is another      *)
(* client's, used or expired is refused; a wrong verifier uses it up.        *)
Consume(r, c, i) ==
  /\ req[r] = Idle
  /\ codes[i].state = "fresh" /\ codes[i].client = c
  /\ codes' = [codes EXCEPT ![i].state = "used"]
  /\ \/ req' = [req EXCEPT ![r] = [Idle EXCEPT !.at = "create", !.code = i, !.client = c]]
     \/ UNCHANGED req
  /\ UNCHANGED <<owner, session, shown, tokens, raced, faults>>

(* RotateOAuthRefreshToken: the token is looked up and checked, ...          *)
Refresh(r, c, t) ==
  /\ req[r] = Idle
  /\ Issued(t) /\ tokens[t].client = c /\ ~tokens[t].revoked /\ tokens[t].refresh
  /\ req' = [req EXCEPT ![r] = [Idle EXCEPT !.at = "revoke", !.token = t, !.client = c]]
  /\ raced' = IF \E o \in Request : req[o].at = "revoke" /\ req[o].token = t
              THEN raced \cup {tokens[t].code} ELSE raced
  /\ UNCHANGED <<owner, session, shown, codes, tokens, faults>>

(* Mutant: the old token stays. *)
RevokeNothing(r) ==
  /\ req[r].at = "revoke"
  /\ req' = [req EXCEPT ![r].at = "create"]
  /\ UNCHANGED <<tokens, faults>>
  /\ UNCHANGED <<owner, session, shown, codes, raced>>

(* ... then revoked, whoever did it before, ...                              *)
Revoke(r) ==
  /\ req[r].at = "revoke"
  /\ \/ /\ tokens' = [tokens EXCEPT ![req[r].token].revoked = TRUE]
        /\ req' = [req EXCEPT ![r].at = "create"]
        /\ UNCHANGED faults
     \/ Fault /\ Ends(r) /\ UNCHANGED tokens
  /\ UNCHANGED <<owner, session, shown, codes, raced>>

(* What the new token is for: the code's approval, or the old token's.       *)
Grant(r) == IF req[r].code # 0 THEN codes[req[r].code] ELSE tokens[req[r].token]
Stem(r)  == IF req[r].code # 0 THEN req[r].code ELSE tokens[req[r].token].code

(* Mutant: a refreshed token may be used for MCP. *)
CreateTokenForMCP(r) ==
  /\ req[r].at = "create"
  /\ \/ /\ \E t \in TokenId :
             /\ ~Issued(t) /\ \A u \in 1..(t - 1) : Issued(u)
             /\ tokens' = [tokens EXCEPT ![t] =
                  [code |-> Stem(r), client |-> req[r].client, scope |-> "mcp",
                   heir |-> req[r].code = 0, revoked |-> FALSE, access |-> TRUE, refresh |-> TRUE]]
        /\ UNCHANGED faults
     \/ Fault /\ UNCHANGED tokens
  /\ Ends(r)
  /\ UNCHANGED <<owner, session, shown, codes, raced>>

(* ... and another one is created: CreateOAuthToken. *)
CreateToken(r) ==
  /\ req[r].at = "create"
  /\ \/ /\ \E t \in TokenId :
             /\ ~Issued(t) /\ \A u \in 1..(t - 1) : Issued(u)
             /\ tokens' = [tokens EXCEPT ![t] =
                  [code |-> Stem(r), client |-> Grant(r).client, scope |-> Grant(r).scope,
                   heir |-> req[r].code = 0, revoked |-> FALSE, access |-> TRUE, refresh |-> TRUE]]
        /\ UNCHANGED faults
     \/ Fault /\ UNCHANGED tokens
  /\ Ends(r)
  /\ UNCHANGED <<owner, session, shown, codes, raced>>

(* An hour, thirty days. *)
AccessExpires(t) ==
  /\ tokens[t].access
  /\ tokens' = [tokens EXCEPT ![t].access = FALSE]
  /\ UNCHANGED <<owner, session, shown, codes, req, raced, faults>>

RefreshExpires(t) ==
  /\ tokens[t].refresh /\ ~tokens[t].access
  /\ tokens' = [tokens EXCEPT ![t].refresh = FALSE]
  /\ UNCHANGED <<owner, session, shown, codes, req, raced, faults>>

Next ==
  \/ Bootstrap
  \/ \E s \in Session : Login(s) \/ SessionExpires(s) \/ Logout(s)
  \/ \E s \in Session, c \in Client, asked \in Scope \cup {""} :
       ShowApproval(s, c, asked) \/ Approve(s, c, asked)
  \/ \E i \in CodeId : CodeExpires(i)
  \/ \E r \in Request :
       \/ \E c \in Client, i \in CodeId : Consume(r, c, i)
       \/ \E c \in Client, t \in TokenId : Refresh(r, c, t)
       \/ Revoke(r) \/ CreateToken(r)
  \/ \E t \in TokenId : AccessExpires(t) \/ RefreshExpires(t)

Spec == Init /\ [][Next]_vars

-----------------------------------------------------------------------------
Family(i) == {t \in TokenId : tokens[t].code = i}

(* Whatever requests race, a code leads to one pair of tokens.               *)
(* (ConsumeOAuthAuthorizationCode)                                           *)
CodeRedeemedOnce ==
  \A i \in CodeId : Cardinality({t \in Family(i) : ~tokens[t].heir}) <= 1

(* Refreshing leaves a client one token that can be refreshed.  There are    *)
(* more only if two requests refreshed the same one at a time; there is none *)
(* only if a statement failed or the next is being created.                  *)
(* (RotateOAuthRefreshToken checks, revokes and creates in three statements) *)
OneLine ==
  \A i \in CodeId : Family(i) # {} =>
    LET line == {t \in Family(i) : ~tokens[t].revoked}
    IN  /\ i \notin raced => Cardinality(line) <= 1
        /\ \/ line # {} \/ faults > 0
           \/ \E r \in Request : req[r].at = "create" /\ req[r].token \in Family(i)

(* However often it was refreshed, a token is for the client and the scope   *)
(* of the code it stems from, which the owner was asked about in a session.  *)
(* (local_oauth.go:293)                                                      *)
GrantIsApproved ==
  \A t \in TokenId : Issued(t) =>
    LET code == codes[tokens[t].code]
    IN  /\ tokens[t].client = code.client /\ tokens[t].scope = code.scope
        /\ \E s \in Session : <<s, code.client, code.scope>> \in shown

(* What a request can present: a key or a password that somebody configured, *)
(* a session that is live, an access token for MCP.                          *)
Presentable ==
  {"key", "basic"}
    \cup {k \in {"session"} : \E s \in Session : session[s] = "live"}
    \cup {k \in {"oauth"} : \E t \in TokenId : tokens[t].access /\ tokens[t].scope = "mcp"}

(* The methods an operator can add; the owner's sessions are one as soon as  *)
(* there is an owner (HasLocalOwner). *)
Addable == {"token", "basic"} \cup {k \in {"local"} : owner}

(* Whatever a request presents besides, and whatever method is configured    *)
(* besides, does not keep it out: the order of the middleware's checks does  *)
(* not matter for any request and configuration.  (middleware.go:71)         *)
CredentialsOnlyHelp ==
  /\ \A k \in Presentable : CredentialHelps[k]
  /\ \A k \in Addable : MethodHelps[k]
=============================================================================
