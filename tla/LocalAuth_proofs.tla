-------------------------- MODULE LocalAuth_proofs --------------------------
(***************************************************************************)
(* What LocalAuth and Admission keep for any number of sessions, clients,  *)
(* requests, pages, codes, tokens and faults.                              *)
(***************************************************************************)
EXTENDS LocalAuth, FiniteSetTheorems, TLAPS

USE LocalAuthAssumption

-----------------------------------------------------------------------------
(* Whoever is refused is not let in. *)
LEMMA Refused == ASSUME NEW cfg, NEW q PROVE Refusal(cfg, q) # "pass"
BY Zenon DEF Refusal

LEMMA Admitted ==
  ASSUME NEW cfg, NEW q
  PROVE  Admit(cfg, q) = "pass" <=>
           \/ ~cfg.token /\ ~cfg.basic /\ ~cfg.local
           \/ OpenPath(q) \/ Greets(q) \/ ReadsMedia(cfg, q) \/ Presents(cfg, q)
BY Refused DEF Admit

(* What differs between two configurations and requests is only what the     *)
(* second has more of.                                                       *)
LEMMA MoreIsLetIn ==
  ASSUME NEW cfg \in Config, NEW more \in Config, NEW q \in Call, NEW r \in Call,
         cfg.token \/ cfg.basic \/ cfg.local \/ more = cfg,
         cfg.token => more.token, cfg.basic => more.basic, cfg.local => more.local,
         r.path = q.path, r.get = q.get, r.kind = q.kind,
         r.greeting = q.greeting, r.signed = q.signed,
         q.key => r.key, q.oauth => r.oauth, q.basic => r.basic, q.session => r.session,
         Admit(cfg, q) = "pass"
  PROVE  Admit(more, r) = "pass"
<1>1. \/ ~cfg.token /\ ~cfg.basic /\ ~cfg.local
      \/ OpenPath(q) \/ Greets(q) \/ ReadsMedia(cfg, q) \/ Presents(cfg, q)
  BY Admitted
<1>2. \/ ~more.token /\ ~more.basic /\ ~more.local
      \/ OpenPath(r) \/ Greets(r) \/ ReadsMedia(more, r) \/ Presents(more, r)
  BY <1>1 DEF OpenPath, Greets, ReadsMedia, MayUseSession, Presents
<1> QED
  BY <1>2, Admitted

(* For every credential and every method, which covers those that a state    *)
(* has.                                                                      *)
LEMMA OrderDoesNotMatter ==
  /\ \A k \in Credential : CredentialHelps[k]
  /\ \A k \in Method : MethodHelps[k]
<1>1. ASSUME NEW k \in Credential PROVE CredentialHelps[k]
  <2> SUFFICES ASSUME NEW cfg \in Config, NEW q \in Call, Admit(cfg, q) = "pass"
               PROVE  Admit(cfg, With(q, k)) = "pass"
    BY <1>1 DEF CredentialHelps
  <2> DEFINE r == With(q, k)
  <2>1. r \in Call /\ r.path = q.path /\ r.get = q.get /\ r.kind = q.kind
        /\ r.greeting = q.greeting /\ r.signed = q.signed
    BY DEF With, Call, Credential
  <2>2. /\ q.key => r.key
        /\ q.oauth => r.oauth
        /\ q.basic => r.basic
        /\ q.session => r.session
    BY DEF With, Call, Credential
  <2> HIDE DEF r
  <2>3. Admit(cfg, r) = "pass"
    BY <2>1, <2>2, MoreIsLetIn
  <2> QED
    BY <2>3 DEF r
<1>2. ASSUME NEW k \in Method PROVE MethodHelps[k]
  <2> SUFFICES ASSUME NEW cfg \in Config \ {NoMethod}, NEW q \in Call, Admit(cfg, q) = "pass"
               PROVE  Admit([cfg EXCEPT ![k] = TRUE], q) = "pass"
    BY <1>2 DEF MethodHelps
  <2> DEFINE more == [cfg EXCEPT ![k] = TRUE]
  <2>2. cfg.token \/ cfg.basic \/ cfg.local
    BY DEF Config, NoMethod
  <2>3. more \in Config
    BY DEF Config, Method
  <2>4. (cfg.token => more.token) /\ (cfg.basic => more.basic) /\ (cfg.local => more.local)
    BY DEF Config, Method
  <2> HIDE DEF more
  <2>5. Admit(more, q) = "pass"
    BY <2>2, <2>3, <2>4, MoreIsLetIn
  <2> QED
    BY <2>5 DEF more
<1> QED
  BY <1>1, <1>2

-----------------------------------------------------------------------------
(* The inductive invariant.  A code that is not used up has no tokens and no *)
(* request that would create one; a request that is about to has its own     *)
(* code, or a token to replace.                                              *)
Waiting == {"none", "fresh", "expired"}

CodesOK ==
  \A i \in CodeId :
    /\ codes[i].state # "none" =>
         \E s \in Session : <<s, codes[i].client, codes[i].scope>> \in shown
    /\ codes[i].state \in Waiting =>
         /\ \A t \in TokenId : tokens[t].code # i
         /\ \A r \in Request : req[r].code # i

RequestsOK ==
  \A r \in Request :
    /\ req[r].at \in {"revoke", "create"} =>
         \/ req[r].code = 0 /\ req[r].token \in TokenId /\ Issued(req[r].token)
         \/ /\ req[r].at = "create" /\ req[r].code \in CodeId /\ req[r].token = 0
            /\ req[r].client = codes[req[r].code].client
            /\ \A t \in TokenId : tokens[t].code # req[r].code
            /\ \A q \in Request : q # r => req[q].code # req[r].code
    /\ req[r].at = "idle" => req[r].code = 0

TokensOK ==
  \A t \in TokenId : Issued(t) =>
    /\ tokens[t].client = codes[tokens[t].code].client
    /\ tokens[t].scope = codes[tokens[t].code].scope

OneRoot ==
  \A t, u \in TokenId :
    Issued(t) /\ tokens[t].code = tokens[u].code /\ ~tokens[t].heir /\ ~tokens[u].heir => t = u

(* A family that was not raced has one token that is not revoked, or one     *)
(* request that is about to create it.                                       *)
Lines ==
  \A i \in CodeId \ raced :
    /\ \A t, u \in TokenId : tokens[t].code = i /\ tokens[u].code = i
                             /\ ~tokens[t].revoked /\ ~tokens[u].revoked => t = u
    /\ \A r \in Request : req[r].at = "create" /\ Stem(r) = i =>
         /\ \A t \in TokenId : tokens[t].code = i => tokens[t].revoked
         /\ \A q \in Request : req[q].at = "create" /\ Stem(q) = i => q = r
    /\ \A r \in Request : req[r].at = "revoke" /\ Stem(r) = i =>
         /\ ~tokens[req[r].token].revoked
         /\ \A q \in Request : req[q].at = "revoke" /\ req[q].token = req[r].token => q = r

Alive ==
  faults = 0 =>
    \A t \in TokenId : Issued(t) =>
      \/ \E u \in TokenId : tokens[u].code = tokens[t].code /\ ~tokens[u].revoked
      \/ \E r \in Request : /\ req[r].at = "create" /\ req[r].token \in TokenId
                             /\ tokens[req[r].token].code = tokens[t].code

AuthInv == TypeOK /\ CodesOK /\ RequestsOK /\ TokensOK /\ OneRoot /\ Lines /\ Alive

LEMMA IdleType == Idle \in Requests /\ Idle.at = "idle" /\ Idle.code = 0 /\ Idle.token = 0
BY DEF Idle, Requests

LEMMA InitAuthInv == Init => AuthInv
<1> SUFFICES ASSUME Init PROVE AuthInv
  OBVIOUS
<1> USE DEF Init
<1>a. NoCode \in Codes /\ NoToken \in Tokens
  BY DEF NoCode, Codes, NoToken, Tokens, Scope
<1>b. faults \in 0..MaxFaults
  OBVIOUS
<1>1. TypeOK
  BY <1>a, <1>b, IdleType DEF TypeOK
<1>2. \A t \in TokenId : tokens[t].code = 0
  BY DEF NoToken
<1>3. \A r \in Request : req[r].at = "idle" /\ req[r].code = 0
  BY IdleType
<1>4. \A i \in CodeId : codes[i].state = "none" /\ i # 0
  BY DEF NoCode, CodeId
<1>5. CodesOK /\ RequestsOK
  BY <1>2, <1>3, <1>4 DEF CodesOK, RequestsOK
<1>6. TokensOK /\ OneRoot /\ Alive
  BY <1>2 DEF TokensOK, OneRoot, Alive, Issued
<1>7. Lines
  BY <1>2, <1>3, <1>4 DEF Lines
<1> QED
  BY <1>1, <1>5, <1>6, <1>7 DEF AuthInv

(* What a step of the sessions leaves alone. *)
LEMMA SessionStep ==
  ASSUME AuthInv, TypeOK', shown \subseteq shown', UNCHANGED <<codes, tokens, req, raced, faults>>
  PROVE  AuthInv'
<1>1. CodesOK'
  BY DEF AuthInv, CodesOK
<1>2. RequestsOK' /\ TokensOK' /\ OneRoot'
  BY DEF AuthInv, RequestsOK, TokensOK, OneRoot, Issued
<1>3. Lines' /\ Alive'
  BY DEF AuthInv, Lines, Alive, Issued, Stem
<1> QED
  BY <1>1, <1>2, <1>3 DEF AuthInv

LEMMA SessionInv ==
  ASSUME AuthInv, NEW s \in Session,
         \/ Bootstrap \/ Login(s) \/ SessionExpires(s) \/ Logout(s)
         \/ \E c \in Client, asked \in Scope \cup {""} : ShowApproval(s, c, asked)
  PROVE  AuthInv'
<1> USE DEF AuthInv
<1>1. CASE Bootstrap
  BY <1>1, SessionStep DEF Bootstrap, TypeOK
<1>2. CASE Login(s)
  <2>1. session' \in [Session -> {"none", "live", "expired", "gone"}]
    BY <1>2 DEF Login, Swept, TypeOK
  <2>2. UNCHANGED <<owner, shown, codes, tokens, req, raced, faults>>
    BY <1>2 DEF Login
  <2>3. TypeOK'
    BY <2>1, <2>2 DEF TypeOK
  <2> QED
    BY <2>2, <2>3, SessionStep
<1>3. CASE SessionExpires(s) \/ Logout(s)
  <2>1. session' \in [Session -> {"none", "live", "expired", "gone"}]
    BY <1>3 DEF SessionExpires, Logout, TypeOK
  <2>2. UNCHANGED <<owner, shown, codes, tokens, req, raced, faults>>
    BY <1>3 DEF SessionExpires, Logout
  <2>3. TypeOK'
    BY <2>1, <2>2 DEF TypeOK
  <2> QED
    BY <2>2, <2>3, SessionStep
<1>4. ASSUME NEW c \in Client, NEW asked \in Scope \cup {""}, ShowApproval(s, c, asked)
      PROVE  AuthInv'
  <2>1. <<s, c, Normal(asked)>> \in Session \X Client \X Scope
    BY <1>4 DEF Normal, Scope
  <2>2. shown' = shown \cup {<<s, c, Normal(asked)>>}
        /\ UNCHANGED <<owner, session, codes, tokens, req, raced, faults>>
    BY <1>4 DEF ShowApproval
  <2>3. TypeOK'
    BY <2>1, <2>2 DEF TypeOK
  <2> QED
    BY <2>2, <2>3, SessionStep
<1> QED
  BY <1>1, <1>2, <1>3, <1>4

(* A step that changes codes only. *)
LEMMA CodeStep ==
  ASSUME AuthInv, TypeOK', UNCHANGED <<shown, tokens, req, raced, faults>>,
         CodesOK',
         \A i \in CodeId : codes[i].state \notin Waiting =>
            codes'[i].client = codes[i].client /\ codes'[i].scope = codes[i].scope
  PROVE  AuthInv'
<1> USE DEF AuthInv
<1>1. \A t \in TokenId : Issued(t) =>
        tokens[t].code \in CodeId /\ codes[tokens[t].code].state \notin Waiting
  BY DEF TypeOK, CodesOK, Issued, Tokens, CodeId
<1>2. TokensOK'
  BY <1>1 DEF TokensOK, Issued
<1>3. \A r \in Request : req[r].code \in CodeId => codes[req[r].code].state \notin Waiting
  BY DEF CodesOK
<1>4. RequestsOK'
  BY <1>3 DEF RequestsOK, Issued
<1>5. OneRoot' /\ Lines' /\ Alive'
  BY DEF OneRoot, Lines, Alive, Issued, Stem
<1> QED
  BY <1>2, <1>4, <1>5

LEMMA ApproveInv ==
  ASSUME AuthInv, NEW s \in Session, NEW c \in Client, NEW asked \in Scope \cup {""},
         Approve(s, c, asked)
  PROVE  AuthInv'
<1> USE DEF AuthInv
<1> DEFINE n == [state |-> "fresh", client |-> c, scope |-> Normal(asked)]
<1>0. PICK K : K = Cleaned
  OBVIOUS
<1>1. PICK i \in CodeId : codes[i].state = "none" /\ codes' = [K EXCEPT ![i] = n]
  BY <1>0 DEF Approve
<1>2. UNCHANGED <<owner, session, shown, tokens, req, raced, faults>>
      /\ <<s, c, Normal(asked)>> \in shown
  BY DEF Approve
<1>3. n \in Codes /\ n.state = "fresh" /\ n.client = c /\ n.scope = Normal(asked)
  BY DEF Codes, Normal, Scope
<1> HIDE DEF n
<1>4. ASSUME NEW j \in CodeId
      PROVE  /\ K[j] \in Codes /\ codes[j] \in Codes
             /\ K[j].client = codes[j].client /\ K[j].scope = codes[j].scope
             /\ K[j].state = codes[j].state \/ (K[j].state = "gone" /\ codes[j].state \notin {"none", "fresh"})
  BY <1>0 DEF Cleaned, TypeOK, Codes
<1>a. K \in [CodeId -> Codes]
  BY <1>0 DEF Cleaned, TypeOK, Codes
<1>5. /\ codes'[i] = n
      /\ \A j \in CodeId : j # i => codes'[j] = K[j]
      /\ codes' \in [CodeId -> Codes]
  BY <1>1, <1>3, <1>a
<1>6. TypeOK'
  BY <1>2, <1>5 DEF TypeOK
<1>7. CodesOK'
  <2> SUFFICES ASSUME NEW j \in CodeId
               PROVE  /\ codes'[j].state # "none" =>
                           \E z \in Session : <<z, codes'[j].client, codes'[j].scope>> \in shown
                      /\ codes'[j].state \in Waiting =>
                           /\ \A t \in TokenId : tokens[t].code # j
                           /\ \A r \in Request : req[r].code # j
    BY <1>2 DEF CodesOK
  <2>1. CASE j = i
    BY <1>1, <1>2, <1>3, <1>5, <2>1 DEF CodesOK, Waiting
  <2>2. CASE j # i
    <3>0. codes'[j] = K[j]
      BY <1>5, <2>2
    <3>1. codes'[j].state # "none" => codes[j].state # "none"
      BY <1>4, <3>0
    <3>2. codes'[j].client = codes[j].client /\ codes'[j].scope = codes[j].scope
      BY <1>4, <3>0
    <3>3. codes'[j].state \in Waiting => codes[j].state \in Waiting
      BY <1>4, <3>0 DEF Waiting
    <3> QED
      BY <3>1, <3>2, <3>3 DEF CodesOK
  <2> QED
    BY <2>1, <2>2
<1>8. \A j \in CodeId : codes[j].state \notin Waiting =>
        codes'[j].client = codes[j].client /\ codes'[j].scope = codes[j].scope
  <2> SUFFICES ASSUME NEW j \in CodeId, codes[j].state \notin Waiting
               PROVE  codes'[j].client = codes[j].client /\ codes'[j].scope = codes[j].scope
    OBVIOUS
  <2>1. j # i
    BY <1>1 DEF Waiting
  <2>2. codes'[j] = K[j]
    BY <1>5, <2>1
  <2> QED
    BY <1>4, <2>2
<1> QED
  BY <1>2, <1>6, <1>7, <1>8, CodeStep

LEMMA CodeExpiresInv ==
  ASSUME AuthInv, NEW i \in CodeId, CodeExpires(i)
  PROVE  AuthInv'
<1> USE DEF AuthInv
<1>1. UNCHANGED <<owner, session, shown, tokens, req, raced, faults>>
  BY DEF CodeExpires
<1>2. /\ codes' \in [CodeId -> Codes]
      /\ codes[i].state = "fresh" /\ codes'[i].state = "expired"
      /\ codes'[i].client = codes[i].client /\ codes'[i].scope = codes[i].scope
      /\ \A j \in CodeId : j # i => codes'[j] = codes[j]
  BY DEF CodeExpires, TypeOK, Codes
<1>3. TypeOK'
  BY <1>1, <1>2 DEF TypeOK
<1>4. CodesOK'
  BY <1>1, <1>2 DEF CodesOK, Waiting
<1>5. \A j \in CodeId : codes[j].state \notin Waiting =>
        codes'[j].client = codes[j].client /\ codes'[j].scope = codes[j].scope
  BY <1>2 DEF Waiting
<1> QED
  BY <1>1, <1>3, <1>4, <1>5, CodeStep

(* A code that is not used up gets its one request. *)
LEMMA ConsumeInv ==
  ASSUME AuthInv, NEW r \in Request, NEW c \in Client, NEW i \in CodeId, Consume(r, c, i)
  PROVE  AuthInv'
<1> USE DEF AuthInv
<1> DEFINE n == [Idle EXCEPT !.at = "create", !.code = i, !.client = c]
<1>1. /\ UNCHANGED <<owner, session, shown, tokens, raced, faults>>
      /\ req[r] = Idle
      /\ codes[i].state = "fresh" /\ codes[i].client = c
      /\ codes' = [codes EXCEPT ![i].state = "used"]
      /\ req' = [req EXCEPT ![r] = n] \/ req' = req
  BY DEF Consume
<1>2. n \in Requests /\ n.at = "create" /\ n.code = i /\ n.token = 0 /\ n.client = c
  <2>1. i \in 0..MaxCodes
    BY DEF CodeId
  <2> QED
    BY <2>1, IdleType DEF Requests
<1> HIDE DEF n
<1>3. i \in Nat /\ i # 0
  BY DEF CodeId
<1>4. /\ codes' \in [CodeId -> Codes]
      /\ codes'[i].state = "used"
      /\ codes'[i].client = codes[i].client /\ codes'[i].scope = codes[i].scope
      /\ \A j \in CodeId : j # i => codes'[j] = codes[j]
  BY <1>1 DEF TypeOK, Codes
<1>5. /\ \A t \in TokenId : tokens[t].code # i
      /\ \A q \in Request : req[q].code # i
      /\ \E s \in Session : <<s, codes[i].client, codes[i].scope>> \in shown
  BY <1>1 DEF CodesOK, Waiting
<1>6. req' \in [Request -> Requests]
  BY <1>1, <1>2 DEF TypeOK
<1>7. TypeOK'
  BY <1>1, <1>4, <1>6 DEF TypeOK
<1>8. \A q \in Request : q # r => req'[q] = req[q]
  BY <1>1 DEF TypeOK
<1>9. req'[r] = n \/ req' = req
  BY <1>1 DEF TypeOK
<1>10. TokensOK'
  BY <1>1, <1>4, <1>5 DEF TokensOK, Issued, TypeOK, Tokens
<1>11. OneRoot'
  BY <1>1 DEF OneRoot, Issued
<1>12. CodesOK'
  <2> SUFFICES ASSUME NEW j \in CodeId
               PROVE  /\ codes'[j].state # "none" =>
                           \E z \in Session : <<z, codes'[j].client, codes'[j].scope>> \in shown
                      /\ codes'[j].state \in Waiting =>
                           /\ \A t \in TokenId : tokens[t].code # j
                           /\ \A q \in Request : req'[q].code # j
    BY <1>1 DEF CodesOK
  <2>1. CASE j = i
    BY <1>4, <1>5, <2>1 DEF Waiting
  <2>2. CASE j # i
    BY <1>2, <1>4, <1>8, <1>9, <2>2 DEF CodesOK
  <2> QED
    BY <2>1, <2>2
<1>13. CASE req' = req
  <2>1. RequestsOK'
    BY <1>1, <1>4, <1>5, <1>13 DEF RequestsOK, Issued
  <2>2. Lines' /\ Alive'
    BY <1>1, <1>13 DEF Lines, Alive, Issued, Stem
  <2> QED
    BY <1>7, <1>10, <1>11, <1>12, <2>1, <2>2
<1>14. CASE req'[r] = n
  <2>1. RequestsOK'
    <3> SUFFICES ASSUME NEW q \in Request
                 PROVE  RequestsOK!(q)'
      BY DEF RequestsOK
    <3>1. CASE q = r
      BY <1>1, <1>2, <1>4, <1>5, <1>8, <1>14, <3>1
    <3>2. CASE q # r
      <4>1. RequestsOK!(q) /\ req'[q] = req[q]
        BY <1>8, <3>2 DEF RequestsOK
      <4>2. \A k \in CodeId : req[q].code = k => k # i /\ codes'[k] = codes[k]
        BY <1>4, <1>5
      <4>3. \A z \in Request : z # q /\ req[z].code # req[q].code => req'[z].code # req[q].code
        BY <1>2, <1>5, <1>8, <1>14
      <4> QED
        BY <1>1, <4>1, <4>2, <4>3 DEF Issued
    <3> QED
      BY <3>1, <3>2
  <2>2. Lines'
    <3> SUFFICES ASSUME NEW j \in CodeId \ raced
                 PROVE  Lines!(j)'
      BY <1>1 DEF Lines
    <3>1. Lines!(j)
      BY DEF Lines
    <3>2. Stem(r)' = i
      BY <1>2, <1>3, <1>14 DEF Stem
    <3>3. \A q \in Request : q # r => Stem(q)' = Stem(q)
      BY <1>1, <1>8 DEF Stem
    <3>4. \A q \in Request : req[q].at = "create" => Stem(q) # i
      <4> SUFFICES ASSUME NEW q \in Request, req[q].at = "create" PROVE Stem(q) # i
        OBVIOUS
      <4>1. CASE req[q].code = 0 /\ req[q].token \in TokenId
        BY <1>5, <4>1 DEF Stem
      <4>2. CASE req[q].code \in CodeId
        BY <1>5, <4>2 DEF Stem, CodeId
      <4> QED
        BY <4>1, <4>2 DEF RequestsOK
    <3>5. \A q \in Request : req'[q].at = "create" /\ Stem(q)' = j =>
            /\ \A t \in TokenId : tokens'[t].code = j => tokens'[t].revoked
            /\ \A o \in Request : req'[o].at = "create" /\ Stem(o)' = j => o = q
      <4>1. CASE j = i
        BY <1>1, <1>5, <1>8, <3>3, <3>4, <4>1
      <4>2. CASE j # i
        BY <1>1, <1>8, <3>1, <3>2, <3>3, <4>2
      <4> QED
        BY <4>1, <4>2
    <3>6. \A q \in Request : req'[q].at = "revoke" /\ Stem(q)' = j =>
            /\ ~tokens'[req'[q].token].revoked
            /\ \A o \in Request : req'[o].at = "revoke" /\ req'[o].token = req'[q].token => o = q
      BY <1>1, <1>2, <1>8, <1>14, <3>1, <3>3
    <3>7. \A t, u \in TokenId : tokens'[t].code = j /\ tokens'[u].code = j
                               /\ ~tokens'[t].revoked /\ ~tokens'[u].revoked => t = u
      BY <1>1, <3>1
    <3> QED
      BY <3>5, <3>6, <3>7
  <2>3. Alive'
    BY <1>1, <1>8, IdleType DEF Alive, Issued
  <2> QED
    BY <1>7, <1>10, <1>11, <1>12, <2>1, <2>2, <2>3
<1> QED
  BY <1>9, <1>13, <1>14

(* Expiry changes nothing the invariant is about. *)
LEMMA ExpiryInv ==
  ASSUME AuthInv, NEW t \in TokenId, AccessExpires(t) \/ RefreshExpires(t)
  PROVE  AuthInv'
<1> USE DEF AuthInv
<1>1. UNCHANGED <<owner, session, shown, codes, req, raced, faults>>
  BY DEF AccessExpires, RefreshExpires
<1>2. /\ tokens' \in [TokenId -> Tokens]
      /\ \A u \in TokenId : /\ tokens'[u].code = tokens[u].code
                            /\ tokens'[u].client = tokens[u].client
                            /\ tokens'[u].scope = tokens[u].scope
                            /\ tokens'[u].heir = tokens[u].heir
                            /\ tokens'[u].revoked = tokens[u].revoked
  <2>1. PICK x \in {"access", "refresh"} :
          tokens' = [u \in TokenId |-> IF u = t THEN [tokens[u] EXCEPT ![x] = FALSE] ELSE tokens[u]]
    <3>1. CASE AccessExpires(t)
      BY <3>1 DEF AccessExpires, TypeOK
    <3>2. CASE RefreshExpires(t)
      BY <3>2 DEF RefreshExpires, TypeOK
    <3> QED
      BY <3>1, <3>2
  <2>2. \A u \in TokenId : tokens[u] \in Tokens
    BY DEF TypeOK
  <2>3. ASSUME NEW k \in Tokens, NEW l, l = [k EXCEPT ![x] = FALSE]
        PROVE  /\ l \in Tokens
               /\ l.code = k.code /\ l.client = k.client /\ l.scope = k.scope
               /\ l.heir = k.heir /\ l.revoked = k.revoked
    BY <2>3 DEF Tokens
  <2> QED
    BY <2>1, <2>2, <2>3
<1>3. TypeOK' /\ CodesOK'
  BY <1>1, <1>2 DEF TypeOK, CodesOK
<1>4. RequestsOK' /\ TokensOK' /\ OneRoot'
  BY <1>1, <1>2 DEF RequestsOK, TokensOK, OneRoot, Issued
<1>5. \A r \in Request : req[r].at \in {"revoke", "create"} =>
        Stem(r)' = Stem(r) /\ (req[r].at = "revoke" => req[r].token \in TokenId)
  BY <1>1, <1>2 DEF RequestsOK, Stem, CodeId
<1>6. Lines'
  BY <1>1, <1>2, <1>5 DEF Lines
<1>7. Alive'
  <2> SUFFICES ASSUME faults = 0, NEW v \in TokenId, tokens[v].code # 0
               PROVE  \/ \E u \in TokenId : tokens'[u].code = tokens'[v].code /\ ~tokens'[u].revoked
                      \/ \E r \in Request :
                           /\ req[r].at = "create" /\ req[r].token \in TokenId
                           /\ tokens'[req[r].token].code = tokens'[v].code
    BY <1>1, <1>2 DEF Alive, Issued
  <2> QED
    BY <1>2 DEF Alive, Issued
<1> QED
  BY <1>3, <1>4, <1>6, <1>7

(* A token that is checked is the only one of its family that is not         *)
(* revoked, and nobody else has checked it, unless the family is raced now.  *)
LEMMA RefreshInv ==
  ASSUME AuthInv, NEW r \in Request, NEW c \in Client, NEW t \in TokenId, Refresh(r, c, t)
  PROVE  AuthInv'
<1> USE DEF AuthInv
<1> DEFINE n == [Idle EXCEPT !.at = "revoke", !.token = t, !.client = c]
<1>1. /\ UNCHANGED <<owner, session, shown, codes, tokens, faults>>
      /\ req[r] = Idle
      /\ Issued(t) /\ ~tokens[t].revoked
      /\ req' = [req EXCEPT ![r] = n]
  BY DEF Refresh
<1>2. /\ raced \subseteq raced'
      /\ raced' \subseteq CodeId
      /\ (\E o \in Request : req[o].at = "revoke" /\ req[o].token = t) => tokens[t].code \in raced'
  BY <1>1 DEF Refresh, TypeOK, Tokens, CodeId, Issued
<1>3. n \in Requests /\ n.at = "revoke" /\ n.code = 0 /\ n.token = t
  <2>1. t \in 0..MaxTokens
    BY DEF TokenId
  <2> QED
    BY <2>1, IdleType DEF Requests
<1> HIDE DEF n
<1>4. /\ req' \in [Request -> Requests]
      /\ req'[r] = n
      /\ \A q \in Request : q # r => req'[q] = req[q]
  BY <1>1, <1>3 DEF TypeOK
<1>5. TypeOK'
  BY <1>1, <1>2, <1>4 DEF TypeOK
<1>6. CodesOK'
  BY <1>1, <1>3, <1>4 DEF CodesOK, CodeId
<1>7. RequestsOK'
  <2> SUFFICES ASSUME NEW q \in Request PROVE RequestsOK!(q)'
    BY DEF RequestsOK
  <2>1. CASE q = r
    BY <1>1, <1>3, <1>4, <2>1 DEF Issued
  <2>2. CASE q # r
    <3>1. RequestsOK!(q) /\ req'[q] = req[q]
      BY <1>4, <2>2 DEF RequestsOK
    <3>2. req[q].code \in CodeId => req'[r].code # req[q].code
      BY <1>3, <1>4 DEF CodeId
    <3> QED
      BY <1>1, <1>4, <3>1, <3>2 DEF Issued
  <2> QED
    BY <2>1, <2>2
<1>8. TokensOK' /\ OneRoot'
  BY <1>1 DEF TokensOK, OneRoot, Issued
<1>9. Lines'
  <2> SUFFICES ASSUME NEW j \in CodeId \ raced'
               PROVE  Lines!(j)'
    BY DEF Lines
  <2>1. Lines!(j)
    BY <1>2 DEF Lines
  <2>2. Stem(r)' = tokens[t].code
    BY <1>1, <1>3, <1>4 DEF Stem
  <2>3. \A q \in Request : q # r => Stem(q)' = Stem(q)
    BY <1>1, <1>4 DEF Stem
  <2>4. \A q \in Request : req'[q].at = "create" /\ Stem(q)' = j =>
          /\ \A u \in TokenId : tokens'[u].code = j => tokens'[u].revoked
          /\ \A o \in Request : req'[o].at = "create" /\ Stem(o)' = j => o = q
    BY <1>1, <1>3, <1>4, <2>1, <2>3
  <2>5. ASSUME NEW q \in Request, req'[q].at = "revoke", Stem(q)' = j
        PROVE  /\ ~tokens'[req'[q].token].revoked
               /\ \A o \in Request : req'[o].at = "revoke" /\ req'[o].token = req'[q].token => o = q
    <3>1. CASE q = r
      <4>1. \A o \in Request : req[o].at = "revoke" => req[o].token # t
        BY <1>2, <2>2, <2>5, <3>1
      <4> QED
        BY <1>1, <1>3, <1>4, <3>1, <4>1
    <3>2. CASE q # r
      <4>1. /\ req[q].at = "revoke" /\ Stem(q) = j
            /\ ~tokens[req[q].token].revoked
            /\ \A o \in Request : req[o].at = "revoke" /\ req[o].token = req[q].token => o = q
        BY <1>4, <2>1, <2>3, <2>5, <3>2
      <4>2. req[q].token # t
        <5> SUFFICES ASSUME req[q].token = t PROVE FALSE
          OBVIOUS
        <5>1. req[q].code = 0
          BY <4>1 DEF RequestsOK
        <5>2. tokens[t].code = j
          BY <4>1, <5>1 DEF Stem
        <5> QED
          BY <1>2, <4>1, <5>2
      <4> QED
        BY <1>1, <1>3, <1>4, <3>2, <4>1, <4>2
    <3> QED
      BY <3>1, <3>2
  <2> QED
    BY <1>1, <2>1, <2>4, <2>5
<1>10. Alive'
  BY <1>1, <1>4, IdleType DEF Alive, Issued
<1> QED
  BY <1>5, <1>6, <1>7, <1>8, <1>9, <1>10

(* Revoking leaves an unraced family to the request that revoked. *)
LEMMA RevokeInv ==
  ASSUME AuthInv, NEW r \in Request, Revoke(r)
  PROVE  AuthInv'
<1> USE DEF AuthInv
<1> DEFINE t == req[r].token
<1>1. UNCHANGED <<owner, session, shown, codes, raced>> /\ req[r].at = "revoke"
  BY DEF Revoke
<1>2. req[r].code = 0 /\ t \in TokenId /\ Issued(t) /\ req[r] \in Requests
  BY <1>1 DEF RequestsOK, TypeOK
<1>3. ASSUME NEW q \in Request, req[q].at \in {"revoke", "create"}
      PROVE  \/ req[q].code = 0 /\ req[q].token \in TokenId /\ Stem(q) = tokens[req[q].token].code
             \/ req[q].at = "create" /\ req[q].code \in CodeId /\ req[q].code # 0 /\ Stem(q) = req[q].code
  BY <1>3 DEF RequestsOK, Stem, CodeId
<1>4. CASE /\ tokens' = [tokens EXCEPT ![t].revoked = TRUE]
           /\ req' = [req EXCEPT ![r].at = "create"]
           /\ UNCHANGED faults
  <2>1. /\ tokens' \in [TokenId -> Tokens]
        /\ tokens'[t].revoked
        /\ \A u \in TokenId : /\ tokens'[u].code = tokens[u].code
                              /\ tokens'[u].client = tokens[u].client
                              /\ tokens'[u].scope = tokens[u].scope
                              /\ tokens'[u].heir = tokens[u].heir
                              /\ u # t => tokens'[u].revoked = tokens[u].revoked
    <3>1. tokens' = [u \in TokenId |-> IF u = t THEN [tokens[u] EXCEPT !.revoked = TRUE] ELSE tokens[u]]
      BY <1>2, <1>4 DEF TypeOK
    <3>2. \A u \in TokenId : tokens[u] \in Tokens
      BY DEF TypeOK
    <3>3. ASSUME NEW k \in Tokens, NEW l, l = [k EXCEPT !.revoked = TRUE]
          PROVE  /\ l \in Tokens /\ l.revoked
                 /\ l.code = k.code /\ l.client = k.client /\ l.scope = k.scope /\ l.heir = k.heir
      BY <3>3 DEF Tokens
    <3> QED
      BY <1>2, <3>1, <3>2, <3>3
  <2>2. /\ req' \in [Request -> Requests]
        /\ req'[r].at = "create" /\ req'[r].code = 0 /\ req'[r].token = t
        /\ \A q \in Request : q # r => req'[q] = req[q]
    BY <1>2, <1>4 DEF TypeOK, Requests
  <2>3. TypeOK'
    BY <1>1, <1>4, <2>1, <2>2 DEF TypeOK
  <2>4. CodesOK'
    BY <1>1, <1>2, <2>1, <2>2 DEF CodesOK
  <2>5. RequestsOK'
    <3> SUFFICES ASSUME NEW q \in Request PROVE RequestsOK!(q)'
      BY DEF RequestsOK
    <3>1. CASE q = r
      BY <1>1, <1>2, <2>1, <2>2, <3>1 DEF Issued
    <3>2. CASE q # r
      <4>1. RequestsOK!(q) /\ req'[q] = req[q] /\ req'[r].code = req[r].code
        BY <1>2, <2>2, <3>2 DEF RequestsOK
      <4> QED
        BY <1>1, <2>1, <2>2, <4>1 DEF Issued
    <3> QED
      BY <3>1, <3>2
  <2>6. TokensOK' /\ OneRoot'
    BY <1>1, <2>1 DEF TokensOK, OneRoot, Issued
  <2>7. Stem(r)' = tokens[t].code /\ Stem(r) = tokens[t].code
    BY <1>2, <2>1, <2>2 DEF Stem
  <2>8. ASSUME NEW q \in Request, q # r, req[q].at \in {"revoke", "create"} PROVE Stem(q)' = Stem(q)
    BY <1>3, <2>1, <2>2, <2>8 DEF Stem
  <2>9. Lines'
    <3> SUFFICES ASSUME NEW j \in CodeId \ raced
                 PROVE  Lines!(j)'
      BY <1>1 DEF Lines
    <3>1. Lines!(j)
      BY DEF Lines
    <3>2. \A u, v \in TokenId : tokens'[u].code = j /\ tokens'[v].code = j
                               /\ ~tokens'[u].revoked /\ ~tokens'[v].revoked => u = v
      BY <2>1, <3>1
    <3>3. tokens[t].code = j => ~tokens[t].revoked
      BY <1>1, <2>7, <3>1
    <3>4. ASSUME NEW q \in Request, req'[q].at = "create", Stem(q)' = j
          PROVE  /\ \A u \in TokenId : tokens'[u].code = j => tokens'[u].revoked
                 /\ \A o \in Request : req'[o].at = "create" /\ Stem(o)' = j => o = q
      <4>1. CASE tokens[t].code = j
        <5>1. \A u \in TokenId : tokens'[u].code = j => tokens'[u].revoked
          BY <1>2, <2>1, <3>1, <3>3, <4>1
        <5>2. ASSUME NEW o \in Request, req'[o].at = "create", Stem(o)' = j, o # r PROVE FALSE
          <6>1. req[o].at = "create" /\ Stem(o) = j
            BY <2>2, <2>8, <5>2
          <6> QED
            BY <1>2, <3>1, <3>3, <4>1, <6>1
        <5> QED
          BY <3>4, <5>1, <5>2
      <4>2. CASE tokens[t].code # j
        <5>1. q # r
          BY <2>7, <3>4, <4>2
        <5>2. req[q].at = "create" /\ Stem(q) = j
          BY <2>2, <2>8, <3>4, <5>1
        <5>3. \A u \in TokenId : tokens'[u].code = j => tokens'[u].revoked
          BY <2>1, <3>1, <4>2, <5>2
        <5>4. ASSUME NEW o \in Request, req'[o].at = "create", Stem(o)' = j PROVE o = q
          <6>1. o # r
            BY <2>7, <4>2, <5>4
          <6>2. req[o].at = "create" /\ Stem(o) = j
            BY <2>2, <2>8, <5>4, <6>1
          <6> QED
            BY <3>1, <5>2, <6>2
        <5> QED
          BY <5>3, <5>4
      <4> QED
        BY <4>1, <4>2
    <3>5. ASSUME NEW q \in Request, req'[q].at = "revoke", Stem(q)' = j
          PROVE  /\ ~tokens'[req'[q].token].revoked
                 /\ \A o \in Request : req'[o].at = "revoke" /\ req'[o].token = req'[q].token => o = q
      <4>1. q # r
        BY <2>2, <3>5
      <4>2. req[q].at = "revoke" /\ Stem(q) = j /\ req[q].token \in TokenId /\ req'[q] = req[q]
        BY <1>3, <2>2, <2>8, <3>5, <4>1
      <4>3. /\ ~tokens[req[q].token].revoked
            /\ \A o \in Request : req[o].at = "revoke" /\ req[o].token = req[q].token => o = q
        BY <3>1, <4>2
      <4>4. req[q].token # t
        BY <1>1, <4>1, <4>3
      <4> QED
        BY <2>1, <2>2, <4>2, <4>3, <4>4
    <3> QED
      BY <1>1, <3>2, <3>4, <3>5
  <2>10. Alive'
    <3> SUFFICES ASSUME faults = 0, NEW v \in TokenId, tokens[v].code # 0
                 PROVE  \/ \E u \in TokenId : tokens'[u].code = tokens'[v].code /\ ~tokens'[u].revoked
                        \/ \E q \in Request :
                             /\ req'[q].at = "create" /\ req'[q].token \in TokenId
                             /\ tokens'[req'[q].token].code = tokens'[v].code
      BY <1>4, <2>1 DEF Alive, Issued
    <3>1. CASE tokens[v].code = tokens[t].code
      BY <1>2, <2>1, <2>2, <3>1
    <3>2. CASE \E u \in TokenId : tokens[u].code = tokens[v].code /\ ~tokens[u].revoked
      <4>1. PICK u \in TokenId : tokens[u].code = tokens[v].code /\ ~tokens[u].revoked
        BY <3>2
      <4>2. CASE u = t
        BY <3>1, <4>1, <4>2
      <4>3. CASE u # t
        BY <2>1, <4>1, <4>3
      <4> QED
        BY <4>2, <4>3
    <3>3. CASE \E q \in Request : /\ req[q].at = "create" /\ req[q].token \in TokenId
                                  /\ tokens[req[q].token].code = tokens[v].code
      <4>1. PICK q \in Request : /\ req[q].at = "create" /\ req[q].token \in TokenId
                                /\ tokens[req[q].token].code = tokens[v].code
        BY <3>3
      <4>2. q # r
        BY <1>1, <4>1
      <4> QED
        BY <2>1, <2>2, <4>1, <4>2
    <3> QED
      BY <3>2, <3>3 DEF Alive, Issued
  <2> QED
    BY <2>3, <2>4, <2>5, <2>6, <2>9, <2>10
<1>5. CASE Fault /\ Ends(r) /\ UNCHANGED tokens
  <2>1. faults' \in 0..MaxFaults /\ faults' # 0
    BY <1>5 DEF Fault, TypeOK
  <2>2. /\ req' \in [Request -> Requests]
        /\ req'[r].at = "idle" /\ req'[r].code = 0
        /\ \A q \in Request : q # r => req'[q] = req[q]
    BY <1>5, IdleType DEF Ends, TypeOK
  <2>3. TypeOK'
    BY <1>1, <1>5, <2>1, <2>2 DEF TypeOK
  <2>4. CodesOK'
    BY <1>1, <1>2, <1>5, <2>2 DEF CodesOK, CodeId
  <2>5. RequestsOK'
    <3> SUFFICES ASSUME NEW q \in Request PROVE RequestsOK!(q)'
      BY DEF RequestsOK
    <3>1. CASE q = r
      BY <2>2, <3>1
    <3>2. CASE q # r
      <4>1. RequestsOK!(q) /\ req'[q] = req[q] /\ req'[r].code = req[r].code
        BY <1>2, <2>2, <3>2 DEF RequestsOK
      <4> QED
        BY <1>1, <1>5, <2>2, <4>1 DEF Issued
    <3> QED
      BY <3>1, <3>2
  <2>6. TokensOK' /\ OneRoot' /\ Alive'
    BY <1>1, <1>5, <2>1 DEF TokensOK, OneRoot, Alive, Issued
  <2>7. \A q \in Request : q # r => Stem(q)' = Stem(q)
    BY <1>1, <1>5, <2>2 DEF Stem
  <2>8. Lines'
    BY <1>1, <1>5, <2>2, <2>7 DEF Lines
  <2> QED
    BY <2>3, <2>4, <2>5, <2>6, <2>8
<1> QED
  BY <1>4, <1>5 DEF Revoke

(* A request at "create" holds a code that has no tokens, or a token of the  *)
(* family that it goes on with.                                              *)
LEMMA CreateTokenInv ==
  ASSUME AuthInv, NEW r \in Request, CreateToken(r)
  PROVE  AuthInv'
<1> USE DEF AuthInv
<1> DEFINE k == Stem(r)
<1>1. /\ UNCHANGED <<owner, session, shown, codes, raced>> /\ req[r].at = "create"
      /\ req' = [req EXCEPT ![r] = Idle]
  BY DEF CreateToken, Ends
<1>2. /\ req' \in [Request -> Requests]
      /\ req'[r].at = "idle" /\ req'[r].code = 0
      /\ \A q \in Request : q # r => req'[q] = req[q]
  BY <1>1, IdleType DEF TypeOK
<1>3. ASSUME NEW q \in Request, req[q].at \in {"revoke", "create"}
      PROVE  \/ /\ req[q].code = 0 /\ req[q].token \in TokenId
                /\ tokens[req[q].token].code # 0 /\ Stem(q) = tokens[req[q].token].code
             \/ /\ req[q].at = "create" /\ req[q].code \in CodeId /\ req[q].code # 0
                /\ req[q].token = 0 /\ Stem(q) = req[q].code
                /\ \A t \in TokenId : tokens[t].code # req[q].code
                /\ \A o \in Request : o # q => req[o].code # req[q].code
  BY <1>3 DEF RequestsOK, Stem, CodeId, Issued
<1>4. k \in CodeId /\ k # 0
  <2>1. CASE req[r].code = 0
    BY <1>1, <1>3, <2>1 DEF TypeOK, Tokens, CodeId
  <2>2. CASE req[r].code # 0
    BY <1>1, <1>3, <2>2
  <2> QED
    BY <2>1, <2>2
<1>5. CASE /\ \E t \in TokenId :
               /\ ~Issued(t)
               /\ tokens' = [tokens EXCEPT ![t] =
                    [code |-> k, client |-> Grant(r).client, scope |-> Grant(r).scope,
                     heir |-> req[r].code = 0, revoked |-> FALSE, access |-> TRUE, refresh |-> TRUE]]
           /\ UNCHANGED faults
  <2> DEFINE n == [code |-> k, client |-> Grant(r).client, scope |-> Grant(r).scope,
                   heir |-> req[r].code = 0, revoked |-> FALSE, access |-> TRUE, refresh |-> TRUE]
  <2>1. PICK t \in TokenId : ~Issued(t) /\ tokens' = [tokens EXCEPT ![t] = n]
    BY <1>5
  <2>2. Grant(r).client = codes[k].client /\ Grant(r).scope = codes[k].scope
    <3>1. CASE req[r].code = 0
      BY <1>1, <1>3, <3>1 DEF Grant, TokensOK, Issued
    <3>2. CASE req[r].code # 0
      BY <1>1, <1>3, <3>2 DEF Grant
    <3> QED
      BY <3>1, <3>2
  <2>3. codes[k].client \in Client \cup {NoClient} /\ codes[k].scope \in Scope
    BY <1>4 DEF TypeOK, Codes
  <2>4. /\ n.code = k /\ n.client = codes[k].client /\ n.scope = codes[k].scope
        /\ n.heir = (req[r].code = 0) /\ ~n.revoked
    BY <2>2
  <2>5. n \in Tokens
    <3>1. k \in 0..MaxCodes
      BY <1>4 DEF CodeId
    <3>2. (req[r].code = 0) \in BOOLEAN
      OBVIOUS
    <3> HIDE DEF k
    <3> QED
      BY <2>2, <2>3, <3>1, <3>2 DEF Tokens
  <2> HIDE DEF n
  <2>6. /\ tokens' \in [TokenId -> Tokens]
        /\ tokens'[t] = n
        /\ \A u \in TokenId : u # t => tokens'[u] = tokens[u]
        /\ tokens[t].code = 0
    BY <2>1, <2>5 DEF TypeOK, Issued
  <2> HIDE DEF k
  <2>7. TypeOK'
    BY <1>1, <1>2, <1>5, <2>6 DEF TypeOK
  <2>8. codes[k].state \notin Waiting
    <3>1. CASE req[r].code = 0
      BY <1>1, <1>3, <1>4, <3>1 DEF CodesOK, k
    <3>2. CASE req[r].code # 0
      BY <1>1, <1>3, <1>4, <3>2 DEF CodesOK, k
    <3> QED
      BY <3>1, <3>2
  <2>9. CodesOK'
    <3> SUFFICES ASSUME NEW j \in CodeId
                 PROVE  /\ codes[j].state # "none" =>
                             \E s \in Session : <<s, codes[j].client, codes[j].scope>> \in shown
                        /\ codes[j].state \in Waiting =>
                             /\ \A u \in TokenId : tokens'[u].code # j
                             /\ \A q \in Request : req'[q].code # j
      BY <1>1 DEF CodesOK
    <3>1. CodesOK!(j)
      BY DEF CodesOK
    <3>2. j # 0 /\ (codes[j].state \in Waiting => j # k)
      BY <2>8 DEF CodeId
    <3>3. codes[j].state \in Waiting => \A u \in TokenId : tokens'[u].code # j
      BY <2>4, <2>6, <3>1, <3>2
    <3>4. codes[j].state \in Waiting => \A q \in Request : req'[q].code # j
      BY <1>2, <3>1, <3>2
    <3> QED
      BY <3>1, <3>3, <3>4
  <2>10. TokensOK'
    <3> SUFFICES ASSUME NEW u \in TokenId, tokens'[u].code # 0
                 PROVE  /\ tokens'[u].client = codes[tokens'[u].code].client
                        /\ tokens'[u].scope = codes[tokens'[u].code].scope
      BY <1>1 DEF TokensOK, Issued
    <3>1. CASE u = t
      BY <2>4, <2>6, <3>1
    <3>2. CASE u # t
      BY <2>6, <3>2 DEF TokensOK, Issued
    <3> QED
      BY <3>1, <3>2
  <2>11. req[r].code # 0 => k = req[r].code /\ \A u \in TokenId : tokens[u].code # k
    BY <1>1, <1>3 DEF k
  <2>12. OneRoot'
    <3> SUFFICES ASSUME NEW u \in TokenId, NEW v \in TokenId,
                        tokens'[u].code # 0, tokens'[u].code = tokens'[v].code,
                        ~tokens'[u].heir, ~tokens'[v].heir
                 PROVE  u = v
      BY DEF OneRoot, Issued
    <3>1. CASE u # t /\ v # t
      BY <2>6, <3>1 DEF OneRoot, Issued
    <3>2. CASE u = t /\ v # t
      BY <2>4, <2>6, <2>11, <3>2
    <3>3. CASE u # t /\ v = t
      BY <2>4, <2>6, <2>11, <3>3
    <3> QED
      BY <3>1, <3>2, <3>3
  <2>13. RequestsOK'
    <3> SUFFICES ASSUME NEW q \in Request PROVE RequestsOK!(q)'
      BY DEF RequestsOK
    <3>1. CASE q = r
      BY <1>2, <3>1
    <3>2. CASE q # r
      <4>1. RequestsOK!(q) /\ req'[q] = req[q]
        BY <1>2, <3>2 DEF RequestsOK
      <4>2. req[q].code \in CodeId => req'[r].code # req[q].code
        BY <1>2 DEF CodeId
      <4>3. req[q].at = "create" /\ req[q].code \in CodeId => k # req[q].code
        <5> SUFFICES ASSUME req[q].at = "create", req[q].code \in CodeId PROVE k # req[q].code
          OBVIOUS
        <5>1. /\ \A u \in TokenId : tokens[u].code # req[q].code
              /\ \A o \in Request : o # q => req[o].code # req[q].code
          BY <1>3 DEF CodeId
        <5> QED
          BY <1>1, <1>3, <3>2, <5>1 DEF k
      <4>4. \A u \in TokenId : tokens[u].code # 0 => tokens'[u] = tokens[u]
        BY <2>6
      <4>5. req[q].at = "create" /\ req[q].code \in CodeId =>
              \A u \in TokenId : tokens[u].code # req[q].code => tokens'[u].code # req[q].code
        BY <2>4, <2>6, <4>3
      <4> QED
        BY <1>1, <1>2, <4>1, <4>2, <4>4, <4>5 DEF Issued
    <3> QED
      BY <3>1, <3>2
  <2>14. ASSUME NEW q \in Request, q # r, req[q].at \in {"revoke", "create"}
         PROVE  Stem(q)' = Stem(q) /\ (req[q].at = "revoke" => req[q].token # t)
    <3>1. req'[q] = req[q]
      BY <1>2, <2>14
    <3>2. CASE req[q].code = 0
      BY <1>3, <2>6, <2>14, <3>1, <3>2 DEF Stem
    <3>3. CASE req[q].code # 0
      BY <1>3, <2>14, <3>1, <3>3 DEF Stem
    <3> QED
      BY <3>2, <3>3
  <2>15. Lines'
    <3> SUFFICES ASSUME NEW j \in CodeId \ raced
                 PROVE  Lines!(j)'
      BY <1>1 DEF Lines
    <3>1. Lines!(j)
      BY DEF Lines
    <3>2. j # 0
      BY DEF CodeId
    <3>3. j = k => \A u \in TokenId : tokens[u].code = j => tokens[u].revoked
      BY <1>1, <3>1 DEF k
    <3>4. \A u, v \in TokenId : tokens'[u].code = j /\ tokens'[v].code = j
                               /\ ~tokens'[u].revoked /\ ~tokens'[v].revoked => u = v
      BY <2>4, <2>6, <3>1, <3>3
    <3>5. ASSUME NEW q \in Request, req'[q].at = "create", Stem(q)' = j
          PROVE  /\ \A u \in TokenId : tokens'[u].code = j => tokens'[u].revoked
                 /\ \A o \in Request : req'[o].at = "create" /\ Stem(o)' = j => o = q
      <4>1. q # r /\ req[q].at = "create" /\ Stem(q) = j
        BY <1>2, <2>14, <3>5
      <4>2. j # k
        BY <1>1, <3>1, <4>1 DEF k
      <4>3. \A u \in TokenId : tokens'[u].code = j => tokens'[u].revoked
        BY <2>4, <2>6, <3>1, <4>1, <4>2
      <4>4. ASSUME NEW o \in Request, req'[o].at = "create", Stem(o)' = j PROVE o = q
        BY <1>2, <2>14, <3>1, <4>1, <4>4
      <4> QED
        BY <4>3, <4>4
    <3>6. ASSUME NEW q \in Request, req'[q].at = "revoke", Stem(q)' = j
          PROVE  /\ ~tokens'[req'[q].token].revoked
                 /\ \A o \in Request : req'[o].at = "revoke" /\ req'[o].token = req'[q].token => o = q
      <4>1. /\ q # r /\ req[q].at = "revoke" /\ Stem(q) = j /\ req'[q] = req[q]
            /\ req[q].token # t /\ req[q].token \in TokenId
        BY <1>2, <1>3, <2>14, <3>6
      <4>2. /\ ~tokens[req[q].token].revoked
            /\ \A o \in Request : req[o].at = "revoke" /\ req[o].token = req[q].token => o = q
        BY <3>1, <4>1
      <4> QED
        BY <1>2, <2>6, <4>1, <4>2
    <3> QED
      BY <1>1, <3>4, <3>5, <3>6
  <2>16. Alive'
    <3> SUFFICES ASSUME faults = 0, NEW v \in TokenId, tokens'[v].code # 0
                 PROVE  \/ \E u \in TokenId : tokens'[u].code = tokens'[v].code /\ ~tokens'[u].revoked
                        \/ \E q \in Request :
                             /\ req'[q].at = "create" /\ req'[q].token \in TokenId
                             /\ tokens'[req'[q].token].code = tokens'[v].code
      BY <1>5 DEF Alive, Issued
    <3>1. CASE tokens'[v].code = k
      BY <2>4, <2>6, <3>1
    <3>2. CASE tokens'[v].code # k
      <4>1. tokens'[v] = tokens[v] /\ tokens[v].code # 0
        BY <2>4, <2>6, <3>2
      <4>2. CASE \E u \in TokenId : tokens[u].code = tokens[v].code /\ ~tokens[u].revoked
        BY <2>6, <4>1, <4>2
      <4>3. CASE \E q \in Request : /\ req[q].at = "create" /\ req[q].token \in TokenId
                                    /\ tokens[req[q].token].code = tokens[v].code
        <5>1. PICK q \in Request : /\ req[q].at = "create" /\ req[q].token \in TokenId
                                  /\ tokens[req[q].token].code = tokens[v].code
          BY <4>3
        <5>2. q # r
          <6> SUFFICES ASSUME q = r PROVE FALSE
            OBVIOUS
          <6>1. req[r].token # 0
            BY <5>1 DEF TokenId
          <6> QED
            BY <1>1, <1>3, <3>2, <4>1, <5>1, <6>1 DEF k
        <5> QED
          BY <1>2, <2>6, <4>1, <5>1, <5>2
      <4> QED
        BY <4>1, <4>2, <4>3 DEF Alive, Issued
    <3> QED
      BY <3>1, <3>2
  <2> QED
    BY <2>7, <2>9, <2>10, <2>12, <2>13, <2>15, <2>16
<1>6. CASE Fault /\ UNCHANGED tokens
  <2>1. faults' \in 0..MaxFaults /\ faults' # 0
    BY <1>6 DEF Fault, TypeOK
  <2>2. TypeOK'
    BY <1>1, <1>2, <1>6, <2>1 DEF TypeOK
  <2>3. CodesOK'
    BY <1>1, <1>2, <1>6 DEF CodesOK, CodeId
  <2>4. RequestsOK'
    <3> SUFFICES ASSUME NEW q \in Request PROVE RequestsOK!(q)'
      BY DEF RequestsOK
    <3>1. CASE q = r
      BY <1>2, <3>1
    <3>2. CASE q # r
      <4>1. RequestsOK!(q) /\ req'[q] = req[q]
        BY <1>2, <3>2 DEF RequestsOK
      <4>2. req[q].code \in CodeId => req'[r].code # req[q].code
        BY <1>2 DEF CodeId
      <4> QED
        BY <1>1, <1>2, <1>6, <4>1, <4>2 DEF Issued
    <3> QED
      BY <3>1, <3>2
  <2>5. TokensOK' /\ OneRoot' /\ Alive'
    BY <1>1, <1>6, <2>1 DEF TokensOK, OneRoot, Alive, Issued
  <2>6. \A q \in Request : q # r => Stem(q)' = Stem(q)
    BY <1>1, <1>2, <1>6 DEF Stem
  <2>7. Lines'
    BY <1>1, <1>2, <1>6, <2>6 DEF Lines
  <2> QED
    BY <2>2, <2>3, <2>4, <2>5, <2>7
<1> QED
  BY <1>5, <1>6 DEF CreateToken

-----------------------------------------------------------------------------
LEMMA StepAuthInv == AuthInv /\ [Next]_vars => AuthInv'
<1> SUFFICES ASSUME AuthInv, [Next]_vars PROVE AuthInv'
  OBVIOUS
<1>1. CASE Bootstrap
  <2>1. UNCHANGED <<session, shown, codes, tokens, req, raced, faults>> /\ owner' = TRUE
    BY <1>1 DEF Bootstrap
  <2>2. TypeOK'
    BY <2>1 DEF AuthInv, TypeOK
  <2> QED
    BY <2>1, <2>2, SessionStep
<1>2. ASSUME NEW s \in Session, Login(s) \/ SessionExpires(s) \/ Logout(s) PROVE AuthInv'
  BY <1>2, SessionInv
<1>3. ASSUME NEW s \in Session, NEW c \in Client, NEW asked \in Scope \cup {""},
             ShowApproval(s, c, asked)
      PROVE  AuthInv'
  BY <1>3, SessionInv
<1>4. ASSUME NEW s \in Session, NEW c \in Client, NEW asked \in Scope \cup {""},
             Approve(s, c, asked)
      PROVE  AuthInv'
  BY <1>4, ApproveInv
<1>5. ASSUME NEW i \in CodeId, CodeExpires(i) PROVE AuthInv'
  BY <1>5, CodeExpiresInv
<1>6. ASSUME NEW r \in Request, NEW c \in Client, NEW i \in CodeId, Consume(r, c, i) PROVE AuthInv'
  BY <1>6, ConsumeInv
<1>7. ASSUME NEW r \in Request, NEW c \in Client, NEW t \in TokenId, Refresh(r, c, t) PROVE AuthInv'
  BY <1>7, RefreshInv
<1>8. ASSUME NEW r \in Request, Revoke(r) \/ CreateToken(r) PROVE AuthInv'
  BY <1>8, RevokeInv, CreateTokenInv
<1>9. ASSUME NEW t \in TokenId, AccessExpires(t) \/ RefreshExpires(t) PROVE AuthInv'
  BY <1>9, ExpiryInv
<1>10. CASE UNCHANGED vars
  <2>1. shown \subseteq shown' /\ UNCHANGED <<codes, tokens, req, raced, faults>>
    BY <1>10 DEF vars
  <2>2. TypeOK'
    BY <1>10 DEF vars, AuthInv, TypeOK
  <2> QED
    BY <2>1, <2>2, SessionStep
<1> QED
  BY <1>1, <1>2, <1>3, <1>4, <1>5, <1>6, <1>7, <1>8, <1>9, <1>10 DEF Next

LEMMA AuthInvariance == Spec => []AuthInv
BY InitAuthInv, StepAuthInv, PTL DEF Spec

(* The state keeps its types, for any number of everything.  (local_auth.go, *)
(* local_oauth.go)                                                           *)
THEOREM TypeCorrect == Spec => []TypeOK
<1>1. AuthInv => TypeOK
  BY DEF AuthInv
<1> QED
  BY <1>1, AuthInvariance, PTL

LEMMA AtMostOne == ASSUME NEW S, \A x, y \in S : x = y PROVE Cardinality(S) <= 1
<1>1. CASE S = {}
  BY <1>1, FS_EmptySet
<1>2. CASE S # {}
  <2>1. PICK x \in S : S = {x}
    BY <1>2
  <2> QED
    BY <2>1, FS_Singleton
<1> QED
  BY <1>1, <1>2

(* Whatever requests race, a code leads to one pair of tokens.               *)
(* (ConsumeOAuthAuthorizationCode)                                           *)
THEOREM CodesAreRedeemedOnce == Spec => []CodeRedeemedOnce
<1>1. AuthInv => CodeRedeemedOnce
  <2> SUFFICES ASSUME AuthInv, NEW i \in CodeId
               PROVE  Cardinality({t \in Family(i) : ~tokens[t].heir}) <= 1
    BY DEF CodeRedeemedOnce
  <2>1. i # 0
    BY DEF CodeId
  <2>2. \A t, u \in {t \in Family(i) : ~tokens[t].heir} : t = u
    BY <2>1 DEF Family, AuthInv, OneRoot, Issued
  <2> QED
    BY <2>2, AtMostOne
<1> QED
  BY <1>1, AuthInvariance, PTL

(* Refreshing leaves one token that can be refreshed, unless two requests    *)
(* refreshed the same one at a time or a statement failed.                   *)
(* (RotateOAuthRefreshToken)                                                 *)
THEOREM FamiliesAreLines == Spec => []OneLine
<1>1. AuthInv => OneLine
  <2> SUFFICES ASSUME AuthInv, NEW i \in CodeId, Family(i) # {}
               PROVE  LET line == {t \in Family(i) : ~tokens[t].revoked}
                      IN  /\ i \notin raced => Cardinality(line) <= 1
                          /\ \/ line # {} \/ faults > 0
                             \/ \E r \in Request : req[r].at = "create" /\ req[r].token \in Family(i)
    BY DEF OneLine
  <2> DEFINE line == {t \in Family(i) : ~tokens[t].revoked}
  <2>0. \A t \in TokenId : t \in line <=> tokens[t].code = i /\ ~tokens[t].revoked
    BY DEF Family
  <2>1. i # 0 /\ faults \in Nat
    BY DEF CodeId, AuthInv, TypeOK
  <2>2. ASSUME i \notin raced PROVE Cardinality(line) <= 1
    <3>1. \A t, u \in line : t = u
      BY <2>2 DEF Family, AuthInv, Lines
    <3> QED
      BY <3>1, AtMostOne
  <2>3. PICK t \in TokenId : tokens[t].code = i
    BY DEF Family
  <2>4. CASE faults = 0
    <3>1. \/ \E u \in TokenId : tokens[u].code = i /\ ~tokens[u].revoked
          \/ \E r \in Request : /\ req[r].at = "create" /\ req[r].token \in TokenId
                                 /\ tokens[req[r].token].code = i
      BY <2>1, <2>3, <2>4 DEF AuthInv, Alive, Issued
    <3>2. CASE \E u \in TokenId : tokens[u].code = i /\ ~tokens[u].revoked
      BY <2>2, <3>2, <2>0
    <3>3. CASE \E r \in Request : /\ req[r].at = "create" /\ req[r].token \in TokenId
                                  /\ tokens[req[r].token].code = i
      <4>1. \E r \in Request : req[r].at = "create" /\ req[r].token \in Family(i)
        BY <3>3 DEF Family
      <4> QED
        BY <2>2, <4>1
    <3> QED
      BY <3>1, <3>2, <3>3
  <2>5. CASE faults # 0
    <3>1. faults > 0
      BY <2>1, <2>5
    <3> QED
      BY <2>2, <3>1
  <2> QED
    BY <2>4, <2>5
<1> QED
  BY <1>1, AuthInvariance, PTL

(* However often it was refreshed, a token is for the client and the scope   *)
(* the owner was asked about in a session.  (local_oauth.go:293)             *)
THEOREM GrantsAreApproved == Spec => []GrantIsApproved
<1>1. AuthInv => GrantIsApproved
  <2> SUFFICES ASSUME AuthInv, NEW t \in TokenId, Issued(t)
               PROVE  LET code == codes[tokens[t].code]
                      IN  /\ tokens[t].client = code.client /\ tokens[t].scope = code.scope
                          /\ \E s \in Session : <<s, code.client, code.scope>> \in shown
    BY DEF GrantIsApproved
  <2>1. tokens[t].code \in CodeId
    BY DEF AuthInv, TypeOK, Tokens, CodeId, Issued
  <2>2. codes[tokens[t].code].state # "none"
    BY <2>1 DEF AuthInv, CodesOK, Waiting
  <2> QED
    BY <2>1, <2>2 DEF AuthInv, CodesOK, TokensOK
<1> QED
  BY <1>1, AuthInvariance, PTL

(* A credential or a method more never keeps a request out: the order of the *)
(* middleware's checks does not matter.  (authMiddleware)                    *)
THEOREM CredentialsHelp == Spec => []CredentialsOnlyHelp
<1>1. TypeOK => CredentialsOnlyHelp
  BY OrderDoesNotMatter DEF CredentialsOnlyHelp, Presentable, Addable, Credential, Method
<1> QED
  BY <1>1, TypeCorrect, PTL
=============================================================================
