--------------------------- MODULE Accounts_proofs ---------------------------
(***************************************************************************)
(* What Accounts keeps for any number of accounts, states, requests and    *)
(* faults.                                                                 *)
(***************************************************************************)
EXTENDS Accounts, FiniteSetTheorems, TLAPS

USE AccountsAssumption

(* Identifiers and authorizations are not used again, and an account that    *)
(* has credentials keeps some as long as its row is there.                   *)
RowOK(i) ==
  /\ row[i].id <= ids
  /\ row[i].cred # NoCred => row[i].id # 0 /\ row[i].cred.grant \in 1..grants

Saving(c) == req[c].at \in {"lookup", "write", "save"}

RequestOK(c) ==
  /\ req[c].id <= ids /\ req[c].grant <= grants
  /\ req[c].at = "exchange" => req[c].why = "callback" /\ req[c].flow \in Flow
  /\ Saving(c) \/ req[c].at = "finish" =>
       /\ req[c].why \in {"callback", "select", "static"} /\ req[c].grant # 0
       /\ req[c].why # "static" => req[c].flow \in Flow
       /\ req[c].why = "static" => req[c].flow = NoFlow
  /\ req[c].at \in {"write", "save"} => req[c].one \in req[c].todo
  /\ req[c].at = "save" => req[c].id # 0
  /\ req[c].at \in {"connect", "erase"} => req[c].one \in Ident /\ req[c].why \in {"connect", "delete"}
  /\ req[c].at = "connect" =>
       req[c].id # 0 /\ (row[req[c].one].id = req[c].id => row[req[c].one].cred # NoCred)

WorkOK ==
  work.at # "idle" =>
    /\ work.one \in Ident /\ work.id # 0 /\ work.id <= ids
    /\ work.cred # NoCred /\ work.cred.grant \in 1..grants
    /\ row[work.one].id = work.id => row[work.one].cred # NoCred

CredsOK ==
  /\ \A i \in Ident : RowOK(i)
  /\ \A c \in Client : RequestOK(c)
  /\ WorkOK
  /\ \A i \in posts : row[i].id # 0

(* One callback at most has a state in hand, and a selection follows one     *)
(* that left an offer.                                                       *)
Runs(c, f)    == req[c].at # "idle" /\ req[c].why = "callback" /\ req[c].flow = f
Chooses(c, f) == req[c].at # "idle" /\ req[c].why = "select" /\ req[c].flow = f
NobodyHas(f)  == \A c \in Client : ~Runs(c, f) /\ ~Chooses(c, f)

FlowOK(f) ==
  /\ flow[f] # "gone" =>
       redeemed[f] = 0 /\ offer[f] = NoOffer /\ memo[f] = "none" /\ f \notin done /\ NobodyHas(f)
  /\ redeemed[f] <= 1
  /\ memo[f] = "connected" => f \in done
  /\ memo[f] = "failed" => offer[f] = NoOffer /\ f \notin done /\ NobodyHas(f)
  /\ \A c \in Client : Runs(c, f) =>
       /\ offer[f] = NoOffer /\ memo[f] = "none"
       /\ \A o \in Client : ~Chooses(o, f) /\ (o # c => ~Runs(o, f))
       /\ req[c].at = "exchange" => redeemed[f] = 0
       /\ req[c].at # "finish" => f \notin done
  /\ \A c \in Client : (Runs(c, f) \/ Chooses(c, f)) /\ req[c].at = "finish" => f \in done

FlowsOK == \A f \in Flow : FlowOK(f)

UsableOK == ConnectedIsUsable

(* On X an authorization is one account's: of a request that will save it,   *)
(* or of one row and the worker with that row.                               *)
TokensOK ==
  /\ \A g \in 1..MaxGrants : g > grants => latest[g] = 1
  /\ \A f \in Flow : offer[f] # NoOffer => offer[f].grant \in 1..grants
  /\ platform = "x" =>
       /\ \A f \in Flow : offer[f] = NoOffer
       /\ \A c \in Client : Saving(c) =>
            /\ \E i \in Ident : req[c].todo = {i}
            /\ latest[req[c].grant] = 1
            /\ \A i \in Ident : row[i].cred.grant # req[c].grant
            /\ work.at # "idle" => work.cred.grant # req[c].grant
            /\ \A o \in Client : o # c /\ Saving(o) => req[o].grant # req[c].grant
       /\ \A i, j \in Ident : i # j /\ row[i].cred # NoCred => row[i].cred.grant # row[j].cred.grant
       /\ work.at # "idle" => \A i \in Ident : i # work.one => row[i].cred.grant # work.cred.grant
       /\ work.at = "store" => work.cred.ver = latest[work.cred.grant]
  /\ RotatedTokenIsStored

AccInv == TypeOK /\ CredsOK /\ FlowsOK /\ UsableOK /\ TokensOK

-----------------------------------------------------------------------------
LEMMA Types ==
  /\ NoCred \in Cred /\ NoCred.grant = 0 /\ NoCred.ver = 0
  /\ NoRow \in Row /\ NoRow.id = 0 /\ NoRow.cred = NoCred
  /\ Idle \in RequestType /\ Idle.at = "idle" /\ Idle.id = 0 /\ Idle.grant = 0
  /\ Asleep \in Worker /\ Asleep.at = "idle"
  /\ NoOffer \in Offer
<1>1. MaxGrants \in Nat
  BY DEF MaxGrants
<1>2. NoCred \in Cred /\ NoCred.grant = 0 /\ NoCred.ver = 0
  BY <1>1 DEF NoCred, Cred
<1>3. NoRow \in Row /\ NoRow.id = 0 /\ NoRow.cred = NoCred
  BY <1>2 DEF NoRow, Row
<1>4. Idle \in RequestType /\ Idle.at = "idle" /\ Idle.id = 0 /\ Idle.grant = 0
  BY <1>1 DEF Idle, RequestType
<1>5. Asleep \in Worker /\ Asleep.at = "idle"
  BY <1>2 DEF Asleep, Worker
<1>6. NoOffer \in Offer
  BY <1>1 DEF NoOffer, Offer
<1> QED
  BY <1>2, <1>3, <1>4, <1>5, <1>6

LEMMA InitAccInv == Init => AccInv
<1> SUFFICES ASSUME Init PROVE AccInv
  OBVIOUS
<1>1. /\ row = [i \in Ident |-> NoRow] /\ posts = {} /\ platform \in {"x", "linkedin", "meta"}
      /\ flow = [f \in Flow |-> "unused"]
      /\ offer = [f \in Flow |-> NoOffer] /\ memo = [f \in Flow |-> "none"]
      /\ req = [c \in Client |-> Idle] /\ work = Asleep
      /\ latest = [g \in 1..MaxGrants |-> 1] /\ grants = 0
      /\ redeemed = [f \in Flow |-> 0] /\ done = {}
      /\ ids = 0 /\ ops = 0 /\ faults = 0
  BY DEF Init
<1>2. MaxGrants \in Nat /\ 0 \in 0..MaxGrants /\ 0 \in 0..MaxOps /\ 0 \in 0..MaxFaults
  BY DEF MaxGrants
<1>3. TypeOK
  <2>1. latest \in [1..MaxGrants -> Nat] /\ redeemed \in [Flow -> Nat] /\ done \in SUBSET Flow
    BY <1>1, <1>2
  <2>2. /\ row \in [Ident -> Row] /\ posts \subseteq Ident /\ offer \in [Flow -> Offer]
        /\ req \in [Client -> RequestType] /\ work \in Worker
    BY <1>1, Types
  <2>3. /\ flow \in [Flow -> {"unused", "personal", "organization", "expired", "gone"}]
        /\ memo \in [Flow -> {"none", "connected", "select", "failed"}]
    BY <1>1
  <2> QED
    BY <1>1, <1>2, <2>1, <2>2, <2>3 DEF TypeOK
<1>4. CredsOK
  BY <1>1, Types DEF CredsOK, RowOK, RequestOK, Saving, WorkOK
<1>5. FlowsOK
  BY <1>1, Types DEF FlowsOK, FlowOK, NobodyHas, Runs, Chooses
<1>6. UsableOK
  BY <1>1, Types DEF UsableOK, ConnectedIsUsable, Exists
<1>7. TokensOK
  <2>1. \A i \in Ident : row[i].cred = NoCred
    BY <1>1, Types
  <2> QED
    BY <1>1, <2>1, Types DEF TokensOK, RotatedTokenIsStored, Saving
<1> QED
  BY <1>3, <1>4, <1>5, <1>6, <1>7 DEF AccInv

-----------------------------------------------------------------------------
(* One request, one row. *)
LEMMA SetReq ==
  ASSUME TypeOK, NEW c \in Client, NEW n \in RequestType, Becomes(c, n)
  PROVE  /\ req' \in [Client -> RequestType] /\ req'[c] = n
         /\ \A o \in Client : o # c => req'[o] = req[o]
BY DEF TypeOK, Becomes

LEMMA SetRow ==
  ASSUME TypeOK, NEW i \in Ident, NEW n \in Row, row' = [row EXCEPT ![i] = n]
  PROVE  /\ row' \in [Ident -> Row] /\ row'[i] = n
         /\ \A j \in Ident : j # i => row'[j] = row[j]
BY DEF TypeOK

(* Every row that is still there has the credentials it had, or others.      *)
RowsKept ==
  \A i \in Ident, id \in Nat : id # 0 /\ id <= ids /\ row'[i].id = id =>
    row[i].id = id /\ (row[i].cred # NoCred => row'[i].cred # NoCred)

LEMMA CredsKept ==
  ASSUME TypeOK, TypeOK', CredsOK, RowsKept, ids <= ids', grants <= grants',
         \A i \in Ident : RowOK(i)',
         \A c \in Client : UNCHANGED req[c] \/ RequestOK(c)',
         UNCHANGED work \/ WorkOK',
         \A i \in posts' : row'[i].id # 0
  PROVE  CredsOK'
<1>1. ids \in Nat /\ ids' \in Nat /\ grants \in Nat /\ grants' \in Nat
  BY DEF TypeOK
<1>2. ASSUME NEW c \in Client, UNCHANGED req[c] PROVE RequestOK(c)'
  <2>1. RequestOK(c) /\ req[c].id \in Nat /\ req[c].grant \in Nat
    BY DEF CredsOK, TypeOK, RequestType
  <2> QED
    BY <1>1, <1>2, <2>1 DEF RequestOK, Saving, RowsKept
<1>3. ASSUME UNCHANGED work PROVE WorkOK'
  <2>1. WorkOK /\ work.id \in Nat /\ work.cred.grant \in Nat
    BY DEF CredsOK, TypeOK, Worker, Cred
  <2> QED
    BY <1>1, <1>3, <2>1 DEF WorkOK, RowsKept
<1> QED
  BY <1>2, <1>3 DEF CredsOK

-----------------------------------------------------------------------------
(* Steps that leave the states of the flows alone. *)
Part(c) == req[c].at # "idle" /\ req[c].why \in {"callback", "select"}

LEMMA FlowsSame ==
  ASSUME FlowsOK, UNCHANGED <<flow, redeemed, offer, memo, done>>,
         \A c \in Client : UNCHANGED req[c] \/ (~Part(c) /\ ~Part(c)')
  PROVE  FlowsOK'
<1> SUFFICES ASSUME NEW f \in Flow PROVE FlowOK(f)'
  BY DEF FlowsOK
<1>1. FlowOK(f)
  BY DEF FlowsOK
<1>2. ASSUME NEW c \in Client
      PROVE  /\ Runs(c, f)' <=> Runs(c, f)
             /\ Chooses(c, f)' <=> Chooses(c, f)
             /\ Runs(c, f) \/ Chooses(c, f) => UNCHANGED req[c]
  <2>1. CASE UNCHANGED req[c]
    BY <2>1 DEF Runs, Chooses
  <2>2. CASE ~Part(c) /\ ~Part(c)'
    BY <2>2 DEF Runs, Chooses, Part
  <2> QED
    BY <2>1, <2>2
<1> QED
  BY <1>1, <1>2 DEF FlowOK, NobodyHas

(* A request goes on to save accounts. *)
LEMMA FlowsOn ==
  ASSUME FlowsOK, UNCHANGED <<flow, redeemed, offer, memo, done>>, NEW c \in Client,
         \A o \in Client : o # c => UNCHANGED req[o],
         Saving(c), Saving(c)', req'[c].why = req[c].why, req'[c].flow = req[c].flow
  PROVE  FlowsOK'
<1> SUFFICES ASSUME NEW f \in Flow PROVE FlowOK(f)'
  BY DEF FlowsOK
<1>1. FlowOK(f)
  BY DEF FlowsOK
<1>2. ASSUME NEW o \in Client
      PROVE  /\ Runs(o, f)' <=> Runs(o, f)
             /\ Chooses(o, f)' <=> Chooses(o, f)
             /\ req'[o].at = "finish" <=> req[o].at = "finish"
             /\ req'[o].at = "exchange" <=> req[o].at = "exchange"
  <2>1. CASE o = c
    BY <2>1 DEF Runs, Chooses, Saving
  <2>2. CASE o # c
    BY <2>2 DEF Runs, Chooses
  <2> QED
    BY <2>1, <2>2
<1> QED
  BY <1>1, <1>2 DEF FlowOK, NobodyHas

(* A request ends, and of a callback its failure is remembered. *)
LEMMA FlowsAbort ==
  ASSUME TypeOK, CredsOK, FlowsOK, UNCHANGED <<flow, redeemed, offer, done>>, NEW c \in Client,
         Saving(c) \/ req[c].at = "exchange", Abort(c),
         req[c].why = "callback" => req[c].flow \notin done
  PROVE  FlowsOK' /\ memo' \in [Flow -> {"none", "connected", "select", "failed"}]
<1>1. /\ req'[c] = Idle /\ \A o \in Client : o # c => req'[o] = req[o]
      /\ req[c].why \in {"callback", "select", "static"}
      /\ req[c].why # "static" => req[c].flow \in Flow
  BY Types, SetReq DEF Abort, Ends, CredsOK, RequestOK
<1>2. ~Part(c)'
  BY <1>1, Types DEF Part
<1>3. CASE req[c].why # "callback"
  <2>1. UNCHANGED memo
    BY <1>3 DEF Abort
  <2> SUFFICES ASSUME NEW f \in Flow PROVE FlowOK(f)'
    BY <2>1 DEF FlowsOK, TypeOK
  <2>2. FlowOK(f)
    BY DEF FlowsOK
  <2>3. ASSUME NEW o \in Client
        PROVE  /\ Runs(o, f)' <=> Runs(o, f)
               /\ Chooses(o, f)' => Chooses(o, f)
               /\ Runs(o, f)' \/ Chooses(o, f)' => UNCHANGED req[o]
    BY <1>1, <1>2, <1>3 DEF Runs, Chooses, Part
  <2> QED
    BY <2>1, <2>2, <2>3 DEF FlowOK, NobodyHas
<1>4. CASE req[c].why = "callback"
  <2>1. PICK g \in Flow : g = req[c].flow
    BY <1>1, <1>4
  <2>2. memo' = [memo EXCEPT ![g] = "failed"]
    BY <1>4, <2>1 DEF Abort, Recall
  <2>3. /\ memo' \in [Flow -> {"none", "connected", "select", "failed"}] /\ memo'[g] = "failed"
        /\ \A f \in Flow : f # g => memo'[f] = memo[f]
    BY <2>2 DEF TypeOK
  <2>4. Runs(c, g)
    BY <1>4, <2>1 DEF Runs, Saving
  <2>5. FlowOK(g)
    BY DEF FlowsOK
  <2>6. FlowsOK'
    <3> SUFFICES ASSUME NEW f \in Flow PROVE FlowOK(f)'
      BY DEF FlowsOK
    <3>1. ASSUME NEW o \in Client
          PROVE  /\ Runs(o, f)' => Runs(o, f) /\ o # c
                 /\ Chooses(o, f)' => Chooses(o, f) /\ o # c
                 /\ Runs(o, f)' \/ Chooses(o, f)' => UNCHANGED req[o]
      BY <1>1, <1>2 DEF Runs, Chooses, Part
    <3>2. CASE f = g
      <4>1. NobodyHas(f)'
        BY <2>4, <2>5, <3>1, <3>2 DEF NobodyHas, FlowOK
      <4>2. f \notin done
        BY <2>1, <3>2, <1>4
      <4>3. flow[f] = "gone" /\ offer[f] = NoOffer /\ redeemed[f] <= 1
        BY <2>4, <2>5, <3>2 DEF FlowOK, NobodyHas
      <4> QED
        BY <2>3, <3>2, <4>1, <4>2, <4>3 DEF FlowOK, NobodyHas
    <3>3. CASE f # g
      <4>1. FlowOK(f) /\ memo'[f] = memo[f]
        BY <2>3, <3>3 DEF FlowsOK
      <4> QED
        BY <3>1, <4>1 DEF FlowOK, NobodyHas
    <3> QED
      BY <3>2, <3>3
  <2> QED
    BY <2>3, <2>6
<1> QED
  BY <1>3, <1>4

-----------------------------------------------------------------------------
(* Steps after which the accounts are as usable as before.                   *)
LEMMA UsableSame ==
  ASSUME UsableOK, faults' = 0 => faults = 0,
         \A i \in Ident :
           row'[i].id # 0 /\ row'[i].status = "connected" /\ row'[i].cred = NoCred =>
             row[i].id = row'[i].id /\ row[i].status = "connected" /\ row[i].cred = NoCred,
         \A c \in Client : faults' = 0 /\ req[c].at = "save" =>
           UNCHANGED req[c] \/ req[c].one \notin Ident \/ row[req[c].one].id # req[c].id
  PROVE  UsableOK'
BY DEF UsableOK, ConnectedIsUsable, Exists

(* Steps that leave the authorizations where they are or lose some.          *)
LEMMA TokensSame ==
  ASSUME CredsOK, TokensOK, UNCHANGED <<platform, latest, grants>>, faults' = 0 => faults = 0,
         \A f \in Flow : offer'[f] \in {offer[f], NoOffer},
         \A i \in Ident : row'[i].cred \in {row[i].cred, NoCred},
         \A c \in Client : Saving(c)' => Saving(c) /\ UNCHANGED <<req[c].todo, req[c].grant>>,
         work'.at # "idle" => work.at # "idle" /\ UNCHANGED <<work.one, work.cred>>,
         work'.at = "store" => work.at = "store",
         faults' = 0 /\ work.at = "store" => work'.at = "store"
  PROVE  TokensOK'
<1>1. RotatedTokenIsStored'
  <2> SUFFICES ASSUME platform = "x", faults' = 0, NEW i \in Ident, row'[i].cred # NoCred
               PROVE  LET k == row'[i].cred
                      IN  k.ver = latest'[k.grant] \/ (work'.at = "store" /\ work'.cred.grant = k.grant)
    BY DEF RotatedTokenIsStored
  <2>1. faults = 0 /\ row'[i].cred = row[i].cred
    OBVIOUS
  <2>2. LET k == row[i].cred
        IN  k.ver = latest[k.grant] \/ (work.at = "store" /\ work.cred.grant = k.grant)
    BY <2>1 DEF TokensOK, RotatedTokenIsStored
  <2> QED
    BY <2>1, <2>2
<1>2. /\ \A g \in 1..MaxGrants : g > grants' => latest'[g] = 1
      /\ \A f \in Flow : offer'[f] # NoOffer => offer'[f].grant \in 1..grants'
  BY DEF TokensOK
<1>3. CASE platform # "x"
  BY <1>1, <1>2, <1>3 DEF TokensOK
<1>4. CASE platform = "x"
  <2>1. /\ \A c \in Client : Saving(c) => req[c].grant # 0
        /\ \A i \in Ident : row[i].cred # NoCred => row[i].cred.grant # 0
        /\ work.at # "idle" => work.cred.grant # 0
    BY DEF CredsOK, RequestOK, RowOK, WorkOK
  <2>2. \A f \in Flow : offer'[f] = NoOffer
    BY <1>4 DEF TokensOK
  <2>3. \A c \in Client : Saving(c)' =>
          /\ \E i \in Ident : req'[c].todo = {i}
          /\ latest'[req'[c].grant] = 1
          /\ \A i \in Ident : row'[i].cred.grant # req'[c].grant
          /\ work'.at # "idle" => work'.cred.grant # req'[c].grant
          /\ \A o \in Client : o # c /\ Saving(o)' => req'[o].grant # req'[c].grant
    BY <1>4, <2>1, Types DEF TokensOK
  <2>4. /\ \A i, j \in Ident : i # j /\ row'[i].cred # NoCred => row'[i].cred.grant # row'[j].cred.grant
        /\ work'.at # "idle" => \A i \in Ident : i # work'.one => row'[i].cred.grant # work'.cred.grant
        /\ work'.at = "store" => work'.cred.ver = latest'[work'.cred.grant]
    BY <1>4, <2>1, Types DEF TokensOK
  <2> QED
    BY <1>1, <1>2, <1>4, <2>2, <2>3, <2>4 DEF TokensOK
<1> QED
  BY <1>3, <1>4

-----------------------------------------------------------------------------
LEMMA Counters ==
  ASSUME TypeOK
  PROVE  /\ Op => ops' \in 0..MaxOps
         /\ Fault => faults' \in 0..MaxFaults /\ faults' # 0
BY DEF TypeOK, Op, Fault

(* Time passes for the flows. *)
LEMMA FlowTick ==
  ASSUME AccInv, UNCHANGED <<platform, row, posts, memo, req, work, latest, grants, redeemed, done, ids, faults>>,
         UNCHANGED ops \/ Op,
         flow' \in [Flow -> {"unused", "personal", "organization", "expired", "gone"}],
         offer' \in [Flow -> Offer],
         \A f \in Flow : (flow'[f] = "gone" <=> flow[f] = "gone") /\ offer'[f] \in {offer[f], NoOffer}
  PROVE  AccInv'
<1>1. TypeOK'
  BY Counters DEF AccInv, TypeOK
<1>2. CredsOK'
  BY DEF AccInv, CredsOK, RowOK, RequestOK, Saving, WorkOK
<1>3. FlowsOK'
  <2> SUFFICES ASSUME NEW f \in Flow PROVE FlowOK(f)'
    BY DEF FlowsOK
  <2>1. FlowOK(f)
    BY DEF AccInv, FlowsOK
  <2> QED
    BY <2>1 DEF FlowOK, NobodyHas, Runs, Chooses
<1>4. UsableOK'
  BY DEF AccInv, UsableOK, ConnectedIsUsable, Exists
<1>5. TokensOK'
  BY TokensSame DEF AccInv, Saving
<1> QED
  BY <1>1, <1>2, <1>3, <1>4, <1>5 DEF AccInv

LEMMA FlowTimes ==
  ASSUME AccInv, NEW f \in Flow, StartFlow(f) \/ FlowExpires(f) \/ OfferExpires(f)
  PROVE  AccInv'
<1>1. CASE StartFlow(f)
  <2>1. PICK kind \in {"personal", "organization"} : flow' = [flow EXCEPT ![f] = kind]
    BY <1>1 DEF StartFlow
  <2>2. flow[f] = "unused" /\ UNCHANGED <<platform, row, posts, offer, memo, req, work, latest, grants, redeemed, done, ids, faults>>
        /\ Op
    BY <1>1 DEF StartFlow
  <2>3. /\ flow' \in [Flow -> {"unused", "personal", "organization", "expired", "gone"}]
        /\ \A g \in Flow : flow'[g] = "gone" <=> flow[g] = "gone"
    BY <2>1, <2>2 DEF AccInv, TypeOK
  <2>4. offer' \in [Flow -> Offer]
    BY <2>2 DEF AccInv, TypeOK
  <2> QED
    BY <2>2, <2>3, <2>4, FlowTick
<1>2. CASE FlowExpires(f)
  <2>1. /\ flow[f] \in {"personal", "organization"} /\ flow' = [flow EXCEPT ![f] = "expired"]
        /\ UNCHANGED <<platform, row, posts, offer, memo, req, work, latest, grants, redeemed, done, ids, ops, faults>>
    BY <1>2 DEF FlowExpires
  <2>2. /\ flow' \in [Flow -> {"unused", "personal", "organization", "expired", "gone"}]
        /\ \A g \in Flow : flow'[g] = "gone" <=> flow[g] = "gone"
    BY <2>1 DEF AccInv, TypeOK
  <2>3. offer' \in [Flow -> Offer]
    BY <2>1 DEF AccInv, TypeOK
  <2> QED
    BY <2>1, <2>2, <2>3, FlowTick
<1>3. CASE OfferExpires(f)
  <2>1. /\ offer' = [offer EXCEPT ![f] = NoOffer]
        /\ UNCHANGED <<platform, row, posts, flow, memo, req, work, latest, grants, redeemed, done, ids, ops, faults>>
    BY <1>3 DEF OfferExpires
  <2>2. offer' \in [Flow -> Offer] /\ \A g \in Flow : offer'[g] \in {offer[g], NoOffer}
    BY <2>1, Types DEF AccInv, TypeOK
  <2>3. flow' \in [Flow -> {"unused", "personal", "organization", "expired", "gone"}]
    BY <2>1 DEF AccInv, TypeOK
  <2> QED
    BY <2>1, <2>2, <2>3, FlowTick
<1> QED
  BY <1>1, <1>2, <1>3

(* Somebody has a state in hand that nobody had.                             *)
LEMMA CallbackInv ==
  ASSUME AccInv, NEW c \in Client, NEW f \in Flow, Callback(c, f)
  PROVE  AccInv'
<1>1. /\ req[c].at = "idle" /\ flow[f] \in {"personal", "organization", "expired"} /\ Op
      /\ flow' = [flow EXCEPT ![f] = "gone"]
      /\ UNCHANGED <<platform, row, posts, offer, memo, work, latest, grants, redeemed, done, ids, faults>>
  BY DEF Callback, Free
<1>2. /\ flow' \in [Flow -> {"unused", "personal", "organization", "expired", "gone"}]
      /\ flow'[f] = "gone" /\ \A g \in Flow : g # f => flow'[g] = flow[g]
  BY <1>1 DEF AccInv, TypeOK
<1>3. /\ req' \in [Client -> RequestType] /\ \A o \in Client : o # c => req'[o] = req[o]
      /\ \/ UNCHANGED req
         \/ /\ req'[c].at = "exchange" /\ req'[c].flow = f /\ req'[c].why = "callback"
            /\ req'[c].id = 0 /\ req'[c].grant = 0
  <2>1. CASE flow[f] = "expired"
    BY <2>1 DEF Callback, AccInv, TypeOK
  <2>2. CASE flow[f] # "expired"
    <3>1. PICK html \in BOOLEAN :
            Becomes(c, [Idle EXCEPT !.at = "exchange", !.flow = f, !.html = html, !.why = "callback",
                                    !.todo = IF flow[f] = "personal" THEN {} ELSE Ident])
      BY <2>2 DEF Callback
    <3> DEFINE todo == IF flow[f] = "personal" THEN {} ELSE Ident
               n == [Idle EXCEPT !.at = "exchange", !.flow = f, !.html = html, !.why = "callback",
                                 !.todo = todo]
    <3>2. todo \in SUBSET Ident
      OBVIOUS
    <3> HIDE DEF todo
    <3>3. n \in RequestType /\ n.at = "exchange" /\ n.flow = f /\ n.why = "callback" /\ n.id = 0 /\ n.grant = 0
      BY <3>2, Types DEF RequestType
    <3>4. Becomes(c, n)
      BY <3>1 DEF todo
    <3> HIDE DEF n
    <3> QED
      BY <3>3, <3>4, SetReq DEF AccInv
  <2> QED
    BY <2>1, <2>2
<1>4. TypeOK'
  BY <1>1, <1>2, <1>3, Counters DEF AccInv, TypeOK
<1>5. CredsOK'
  <2>1. UNCHANGED req[c] \/ RequestOK(c)'
    <3>1. ids \in Nat /\ grants \in Nat
      BY DEF AccInv, TypeOK
    <3> QED
      BY <1>1, <1>3, <3>1 DEF RequestOK, Saving
  <2>2. RowsKept /\ (\A i \in Ident : RowOK(i)') /\ (\A i \in posts' : row'[i].id # 0) /\ ids <= ids' /\ grants <= grants'
    BY <1>1 DEF AccInv, CredsOK, RowsKept, RowOK, TypeOK
  <2> QED
    BY <1>1, <1>3, <1>4, <2>1, <2>2, CredsKept DEF AccInv
<1>6. FlowsOK'
  <2> SUFFICES ASSUME NEW g \in Flow PROVE FlowOK(g)'
    BY DEF FlowsOK
  <2>1. FlowOK(g) /\ UNCHANGED <<offer, memo, redeemed, done>>
    BY <1>1 DEF AccInv, FlowsOK
  <2>2. CASE g = f
    <3>1. redeemed[g] = 0 /\ offer[g] = NoOffer /\ memo[g] = "none" /\ g \notin done /\ NobodyHas(g)
      BY <1>1, <2>1, <2>2 DEF FlowOK
    <3>2. ASSUME NEW o \in Client
          PROVE  ~Chooses(o, g)' /\ (Runs(o, g)' => o = c /\ req'[c].at = "exchange")
      BY <1>1, <1>3, <3>1 DEF NobodyHas, Runs, Chooses
    <3> QED
      BY <1>2, <2>1, <2>2, <3>1, <3>2 DEF FlowOK
  <2>3. CASE g # f
    <3>1. ASSUME NEW o \in Client
          PROVE  /\ Runs(o, g)' <=> Runs(o, g)
                 /\ Chooses(o, g)' <=> Chooses(o, g)
                 /\ Runs(o, g) \/ Chooses(o, g) => UNCHANGED req[o]
      BY <1>1, <1>3, <2>3 DEF Runs, Chooses
    <3> QED
      BY <1>2, <2>1, <2>3, <3>1 DEF FlowOK, NobodyHas
  <2> QED
    BY <2>2, <2>3
<1>7. UsableOK'
  BY <1>1, <1>3, UsableSame DEF AccInv
<1>8. TokensOK'
  BY <1>1, <1>3, TokensSame DEF AccInv, Saving
<1> QED
  BY <1>4, <1>5, <1>6, <1>7, <1>8 DEF AccInv

(* On X there is one account to save and nothing to choose from. *)
LEMMA OneOffered ==
  ASSUME TypeOK, NEW c \in Client, NEW S \in Offers(Kind(c))
  PROVE  /\ S \subseteq Ident
         /\ platform = "x" => (\E i \in Ident : S = {i}) /\ ~Prompts(c, S)
<1>1. CASE platform = "x"
  <2>1. PICK i \in Ident : S = {i}
    BY <1>1 DEF Offers, XOffers
  <2>2. Cardinality(S) = 1
    BY <2>1, FS_Singleton
  <2> QED
    BY <2>1, <2>2 DEF Prompts
<1>2. CASE platform = "meta"
  BY <1>2 DEF Offers, MetaOffers, Pages
<1>3. CASE platform = "linkedin"
  <2>1. PICK T \in SUBSET (Ident \ {Member}) : S = MemberOffered(Kind(c)) \cup T
    BY <1>3 DEF Offers, LinkedInOffers, OrganizationsOffered
  <2> QED
    BY <1>3, <2>1 DEF MemberOffered
<1> QED
  BY <1>1, <1>2, <1>3 DEF TypeOK

(* A request with its fields replaced. *)
At == {"idle", "exchange", "lookup", "write", "save", "finish", "connect", "erase"}

With(k, at, S, g) == [k EXCEPT !.at = at, !.todo = S, !.grant = g]

LEMMA Fields ==
  ASSUME NEW k \in RequestType, NEW at \in At, NEW S \in SUBSET Ident, NEW g \in 0..MaxGrants
  PROVE  LET n == With(k, at, S, g)
         IN  /\ n \in RequestType /\ n.at = at /\ n.todo = S /\ n.grant = g
             /\ n.why = k.why /\ n.flow = k.flow /\ n.one = k.one /\ n.id = k.id
             /\ n.premium = k.premium
BY DEF RequestType, At, With

(* A code is redeemed by the one callback that has its state.                *)
LEMMA ExchangeInv == ASSUME AccInv, NEW c \in Client, Exchange(c) PROVE AccInv'
<1>1. /\ req[c].at = "exchange" /\ req[c].why = "callback"
      /\ UNCHANGED <<platform, row, posts, flow, work, latest, ids, ops, faults>>
  BY DEF Exchange, AccInv, CredsOK, RequestOK
<1>2. PICK f \in Flow : f = req[c].flow
  BY <1>1 DEF AccInv, CredsOK, RequestOK
<1>3. /\ flow[f] = "gone" /\ redeemed[f] = 0 /\ offer[f] = NoOffer /\ memo[f] = "none" /\ f \notin done
      /\ \A o \in Client : ~Chooses(o, f) /\ (o # c => ~Runs(o, f))
  <2>1. Runs(c, f) /\ FlowOK(f)
    BY <1>1, <1>2 DEF Runs, AccInv, FlowsOK
  <2> QED
    BY <1>1, <2>1 DEF FlowOK, NobodyHas
<1>4. /\ redeemed' \in [Flow -> Nat] /\ redeemed'[f] = 1
      /\ \A g \in Flow : g # f => redeemed'[g] = redeemed[g]
  <2>1. redeemed' = [redeemed EXCEPT ![f] = redeemed[f] + 1]
    BY <1>2 DEF Exchange, Redeem
  <2> QED
    BY <1>3, <2>1 DEF AccInv, TypeOK
<1>5. ASSUME /\ req' \in [Client -> RequestType] /\ ~Part(c)'
             /\ \A o \in Client : o # c => req'[o] = req[o]
             /\ memo' \in [Flow -> {"none", "connected", "select", "failed"}]
             /\ \A g \in Flow : g # f => memo'[g] = memo[g]
             /\ offer' \in [Flow -> Offer]
             /\ \A g \in Flow : g # f => offer'[g] = offer[g]
             /\ (memo'[f] = "failed" /\ offer'[f] = NoOffer) \/ memo'[f] = "select"
             /\ UNCHANGED done
      PROVE  FlowsOK'
  <2> SUFFICES ASSUME NEW g \in Flow PROVE FlowOK(g)'
    BY DEF FlowsOK
  <2>1. ASSUME NEW o \in Client
        PROVE  /\ Runs(o, g)' => Runs(o, g) /\ o # c /\ UNCHANGED req[o]
               /\ Chooses(o, g)' => Chooses(o, g) /\ o # c /\ UNCHANGED req[o]
    BY <1>5 DEF Runs, Chooses, Part
  <2>2. CASE g = f
    <3>1. NobodyHas(g)'
      BY <1>3, <2>1, <2>2 DEF NobodyHas
    <3> QED
      BY <1>1, <1>3, <1>4, <1>5, <2>2, <3>1 DEF FlowOK, NobodyHas
  <2>3. CASE g # f
    <3>1. FlowOK(g)
      BY DEF AccInv, FlowsOK
    <3> QED
      BY <1>1, <1>4, <1>5, <2>1, <2>3, <3>1 DEF FlowOK, NobodyHas
  <2> QED
    BY <2>2, <2>3
<1>6. ASSUME NEW n \in {"failed", "select"}, Recall(f, n)
      PROVE  /\ memo' \in [Flow -> {"none", "connected", "select", "failed"}] /\ memo'[f] = n
             /\ \A g \in Flow : g # f => memo'[g] = memo[g]
  BY <1>6 DEF Recall, AccInv, TypeOK
<1>7. ASSUME Ends(c)
      PROVE  /\ req' \in [Client -> RequestType] /\ req'[c] = Idle /\ ~Part(c)'
             /\ \A o \in Client : o # c => req'[o] = req[o]
  BY <1>7, Types, SetReq DEF Ends, Part, AccInv
<1>8. /\ grants \in 0..MaxGrants /\ ids \in Nat /\ MaxGrants \in Nat
      /\ \A i \in Ident : row[i].id \in Nat /\ row[i].cred.grant \in Nat
  BY DEF AccInv, TypeOK, MaxGrants, Row, Cred
<1>9. ASSUME grants' \in {grants, grants + 1}, TypeOK', \A o \in Client : o # c => UNCHANGED req[o], RequestOK(c)'
      PROVE  CredsOK'
  <2>1. RowsKept /\ (\A i \in posts' : row'[i].id # 0) /\ ids <= ids' /\ grants <= grants'
    BY <1>1, <1>8, <1>9 DEF AccInv, CredsOK, RowsKept
  <2>2. \A i \in Ident : RowOK(i)'
    BY <1>1, <1>8, <1>9 DEF AccInv, CredsOK, RowOK
  <2> QED
    BY <1>1, <1>9, <2>1, <2>2, CredsKept DEF AccInv
<1>10. ASSUME \A o \in Client : o # c => UNCHANGED req[o] PROVE UsableOK'
  BY <1>1, <1>10, UsableSame DEF AccInv
<1>11. ASSUME grants' = grants + 1, ~Saving(c)', \A o \in Client : o # c => UNCHANGED req[o],
              \A g \in Flow : platform = "x" => offer'[g] = NoOffer,
              \A g \in Flow : offer'[g] # NoOffer => offer'[g].grant \in 1..grants'
       PROVE  TokensOK'
  <2>1. \A o \in Client : Saving(o)' => Saving(o) /\ UNCHANGED req[o]
    BY <1>11 DEF Saving
  <2>2. TokensOK
    BY DEF AccInv
  <2>3. \A g \in 1..MaxGrants : g > grants' => g > grants
    BY <1>8, <1>11
  <2> QED
    BY <1>1, <1>11, <2>1, <2>2, <2>3 DEF TokensOK, RotatedTokenIsStored
<1>12. CASE Recall(f, "failed") /\ Ends(c) /\ UNCHANGED <<offer, grants, done>>
  <2>1. TypeOK'
    BY <1>1, <1>4, <1>6, <1>7, <1>12 DEF AccInv, TypeOK
  <2>2. RequestOK(c)'
    BY <1>1, <1>7, <1>8, <1>12, Types DEF RequestOK, Saving
  <2>3. offer' \in [Flow -> Offer]
    BY <1>12 DEF AccInv, TypeOK
  <2>4. FlowsOK'
    BY <1>3, <1>5, <1>6, <1>7, <1>12, <2>3
  <2>5. TokensOK'
    BY <1>1, <1>7, <1>12, Types, TokensSame DEF AccInv, Saving
  <2> QED
    BY <1>7, <1>9, <1>10, <1>12, <2>1, <2>2, <2>4, <2>5 DEF AccInv
<1>13. ASSUME grants < MaxGrants, grants' = grants + 1, NEW S \in Offers(Kind(c)), Prompts(c, S),
              offer' = [offer EXCEPT ![f] = [accounts |-> S, grant |-> grants']],
              Recall(f, "select"), Ends(c), UNCHANGED done
       PROVE  AccInv'
  <2>1. platform # "x" /\ S \subseteq Ident
    BY <1>13, OneOffered DEF AccInv
  <2>2. grants' \in 0..MaxGrants
    BY <1>8, <1>13
  <2>3. [accounts |-> S, grant |-> grants'] \in Offer
    BY <2>1, <2>2 DEF Offer
  <2>4. offer' \in [Flow -> Offer] /\ \A g \in Flow : g # f => offer'[g] = offer[g]
    BY <1>13, <2>3 DEF AccInv, TypeOK
  <2>5. TypeOK'
    BY <1>1, <1>4, <1>6, <1>7, <1>13, <2>2, <2>4 DEF AccInv, TypeOK
  <2>6. RequestOK(c)' /\ ~Saving(c)'
    BY <1>1, <1>7, <1>8, <1>13, Types DEF RequestOK, Saving
  <2>7. FlowsOK'
    BY <1>5, <1>6, <1>7, <1>13, <2>4
  <2>8. \A g \in Flow : offer'[g] # NoOffer => offer'[g].grant \in 1..grants'
    <3>1. offer'[f].grant = grants' /\ grants' \in 1..grants'
      BY <1>8, <1>13, <2>3 DEF AccInv, TypeOK
    <3>2. \A g \in Flow : g # f /\ offer'[g] # NoOffer => offer'[g].grant \in 1..grants
      BY <2>4 DEF AccInv, TokensOK
    <3>3. 1..grants \subseteq 1..grants'
      BY <1>8, <1>13
    <3> QED
      BY <3>1, <3>2, <3>3
  <2>9. TokensOK'
    BY <1>7, <1>11, <1>13, <2>1, <2>6, <2>8
  <2> QED
    BY <1>7, <1>9, <1>10, <1>13, <2>5, <2>6, <2>7, <2>9 DEF AccInv
<1>14. ASSUME grants < MaxGrants, grants' = grants + 1, NEW S \in Offers(Kind(c)),
              Becomes(c, [req[c] EXCEPT !.at = IF S = {} THEN "finish" ELSE "lookup",
                                        !.todo = S, !.grant = grants']),
              done' = IF S = {} THEN done \cup {f} ELSE done, UNCHANGED <<offer, memo>>
       PROVE  AccInv'
  <2>1. /\ S \subseteq Ident
        /\ platform = "x" => \E i \in Ident : S = {i}
    BY <1>14, OneOffered DEF AccInv
  <2>2. grants' \in 0..MaxGrants /\ grants' # 0
    BY <1>8, <1>14
  <2> DEFINE at == IF S = {} THEN "finish" ELSE "lookup"
             n  == [req[c] EXCEPT !.at = at, !.todo = S, !.grant = grants']
  <2>3. at \in {"finish", "lookup"} /\ (at = "finish" <=> S = {})
    OBVIOUS
  <2>4. Becomes(c, n)
    BY <1>14
  <2> HIDE DEF at
  <2>5. /\ n \in RequestType /\ n.at = at /\ n.todo = S /\ n.grant = grants'
        /\ n.why = req[c].why /\ n.flow = req[c].flow /\ n.id = req[c].id
    <3>1. req[c] \in RequestType /\ at \in At
      BY <2>3 DEF AccInv, TypeOK, At
    <3>2. n = With(req[c], at, S, grants')
      BY DEF With
    <3> HIDE DEF n
    <3> QED
      BY <2>1, <2>2, <3>1, <3>2, Fields
  <2> HIDE DEF n
  <2>6. /\ req' \in [Client -> RequestType] /\ req'[c] = n
        /\ \A o \in Client : o # c => req'[o] = req[o]
    BY <2>4, <2>5, SetReq DEF AccInv
  <2>7. TypeOK'
    BY <1>1, <1>4, <1>14, <2>2, <2>6 DEF AccInv, TypeOK
  <2>8. RequestOK(c)'
    <3>1. RequestOK(c)
      BY DEF AccInv, CredsOK
    <3>2. grants' <= grants' /\ req[c].id <= ids
      BY <1>8, <1>14, <3>1 DEF RequestOK
    <3> QED
      BY <1>1, <1>2, <2>2, <2>3, <2>5, <2>6, <3>2 DEF RequestOK, Saving
  <2>9. FlowsOK'
    <3> SUFFICES ASSUME NEW g \in Flow PROVE FlowOK(g)'
      BY DEF FlowsOK
    <3>1. FlowOK(g)
      BY DEF AccInv, FlowsOK
    <3>2. \A h \in Flow : h \in done' <=> h \in done \/ (h = f /\ at = "finish")
      BY <1>14, <2>3
    <3>3. CASE g = f
      <4>1. ASSUME NEW o \in Client
            PROVE  ~Chooses(o, g)' /\ (Runs(o, g)' => o = c)
        BY <1>1, <1>3, <2>5, <2>6, <3>3 DEF Runs, Chooses
      <4>2. req'[c].at = at /\ flow'[g] = "gone" /\ redeemed'[g] = 1 /\ offer'[g] = NoOffer
            /\ memo'[g] = "none" /\ (g \in done' <=> at = "finish")
        BY <1>1, <1>3, <1>4, <1>14, <2>5, <2>6, <3>2, <3>3
      <4> QED
        BY <2>3, <4>1, <4>2 DEF FlowOK
    <3>4. CASE g # f
      <4>1. ASSUME NEW o \in Client
            PROVE  /\ Runs(o, g)' <=> Runs(o, g)
                   /\ Chooses(o, g)' <=> Chooses(o, g)
                   /\ Runs(o, g) \/ Chooses(o, g) => UNCHANGED req[o]
        BY <1>1, <1>2, <2>5, <2>6, <3>4 DEF Runs, Chooses
      <4>2. UNCHANGED <<flow[g], redeemed[g], offer[g], memo[g]>> /\ (g \in done' <=> g \in done)
        BY <1>1, <1>4, <1>14, <3>2, <3>4
      <4> QED
        BY <3>1, <4>1, <4>2 DEF FlowOK, NobodyHas
    <3> QED
      BY <3>3, <3>4
  <2>10. TokensOK'
    <3>1. TokensOK
      BY DEF AccInv
    <3>2. \A g \in Flow : offer'[g] # NoOffer => offer'[g].grant \in 1..grants'
      <4>1. 1..grants \subseteq 1..grants'
        BY <1>8, <1>14
      <4> QED
        BY <1>14, <3>1, <4>1 DEF TokensOK
    <3>3. CASE platform # "x"
      BY <1>1, <1>8, <1>14, <3>1, <3>3, <3>2 DEF TokensOK, RotatedTokenIsStored
    <3>4. CASE platform = "x"
      <4>1. PICK i \in Ident : S = {i}
        BY <2>1, <3>4
      <4>2. latest[grants'] = 1 /\ \A g \in 1..MaxGrants : g > grants' => latest[g] = 1
        BY <1>8, <1>14, <2>2, <3>1 DEF TokensOK
      <4>3. /\ \A j \in Ident : row[j].cred.grant # grants'
            /\ work.at # "idle" => work.cred.grant # grants'
            /\ \A o \in Client : o # c => req[o].grant # grants'
        <5>1. \A j \in Ident : row[j].cred.grant <= grants
          BY <1>8, Types DEF AccInv, CredsOK, RowOK
        <5>2. /\ work.at # "idle" => work.cred.grant <= grants
              /\ \A o \in Client : req[o].grant <= grants
          BY <1>8 DEF AccInv, CredsOK, WorkOK, RequestOK
        <5>3. \A k \in Int : k <= grants => k # grants'
          BY <1>8, <1>14
        <5>4. /\ \A j \in Ident : row[j].cred.grant \in Int
              /\ work.cred.grant \in Int
              /\ \A o \in Client : req[o].grant \in Int
          BY DEF AccInv, TypeOK, Row, Cred, Worker, RequestType
        <5> QED
          BY <5>1, <5>2, <5>3, <5>4
      <4>4. ASSUME NEW o \in Client, Saving(o)'
            PROVE  /\ \E j \in Ident : req'[o].todo = {j}
                   /\ latest'[req'[o].grant] = 1
                   /\ \A j \in Ident : row'[j].cred.grant # req'[o].grant
                   /\ work'.at # "idle" => work'.cred.grant # req'[o].grant
                   /\ \A q \in Client : q # o /\ Saving(q)' => req'[q].grant # req'[o].grant
        <5>1. CASE o = c
          BY <1>1, <2>5, <2>6, <4>1, <4>2, <4>3, <5>1
        <5>2. CASE o # c
          <6>1. Saving(o) /\ UNCHANGED req[o]
            BY <2>6, <4>4, <5>2 DEF Saving
          <6>2. /\ \E j \in Ident : req[o].todo = {j}
                /\ latest[req[o].grant] = 1
                /\ \A j \in Ident : row[j].cred.grant # req[o].grant
                /\ work.at # "idle" => work.cred.grant # req[o].grant
                /\ \A q \in Client : q # o /\ Saving(q) => req[q].grant # req[o].grant
            BY <3>1, <3>4, <6>1 DEF TokensOK
          <6>3. \A q \in Client : q # o /\ Saving(q)' => req'[q].grant # req'[o].grant
            BY <2>5, <2>6, <4>3, <5>2, <6>1, <6>2 DEF Saving
          <6> QED
            BY <1>1, <6>1, <6>2, <6>3
        <5> QED
          BY <5>1, <5>2
      <4> QED
        BY <1>1, <1>14, <3>1, <3>4, <3>2, <4>2, <4>4 DEF TokensOK, RotatedTokenIsStored
    <3> QED
      BY <3>3, <3>4
  <2>11. CredsOK' /\ UsableOK'
    BY <1>9, <1>10, <1>14, <2>6, <2>7, <2>8
  <2> QED
    BY <2>7, <2>9, <2>10, <2>11 DEF AccInv
<1> QED
  <2>1. \/ Recall(f, "failed") /\ Ends(c) /\ UNCHANGED <<offer, grants, done>>
        \/ /\ grants < MaxGrants
           /\ grants' = grants + 1
           /\ \E S \in Offers(Kind(c)) :
                IF Prompts(c, S)
                THEN /\ offer' = [offer EXCEPT ![f] = [accounts |-> S, grant |-> grants']]
                     /\ Recall(f, "select") /\ Ends(c) /\ UNCHANGED done
                ELSE /\ Becomes(c, [req[c] EXCEPT !.at = IF S = {} THEN "finish" ELSE "lookup",
                                                  !.todo = S, !.grant = grants'])
                     /\ done' = IF S = {} THEN done \cup {f} ELSE done
                     /\ UNCHANGED <<offer, memo>>
    BY <1>2 DEF Exchange
  <2>2. CASE ~(Recall(f, "failed") /\ Ends(c) /\ UNCHANGED <<offer, grants, done>>)
    <3>1. PICK S \in Offers(Kind(c)) :
            IF Prompts(c, S)
            THEN /\ offer' = [offer EXCEPT ![f] = [accounts |-> S, grant |-> grants']]
                 /\ Recall(f, "select") /\ Ends(c) /\ UNCHANGED done
            ELSE /\ Becomes(c, [req[c] EXCEPT !.at = IF S = {} THEN "finish" ELSE "lookup",
                                              !.todo = S, !.grant = grants'])
                 /\ done' = IF S = {} THEN done \cup {f} ELSE done
                 /\ UNCHANGED <<offer, memo>>
      BY <2>1, <2>2
    <3>2. CASE Prompts(c, S)
      BY <1>13, <2>1, <2>2, <3>1, <3>2
    <3>3. CASE ~Prompts(c, S)
      BY <1>14, <2>1, <2>2, <3>1, <3>3
    <3> QED
      BY <3>2, <3>3
  <2> QED
    BY <1>12, <2>2

-----------------------------------------------------------------------------
(* Steps of requests and of the worker that leave the flows alone and take   *)
(* no account's credentials away but with its row.                           *)
LEMMA Quiet ==
  ASSUME AccInv, UNCHANGED <<platform, flow, offer, memo, grants, redeemed, done, ids>>,
         UNCHANGED ops \/ Op, UNCHANGED faults \/ Fault,
         row' \in [Ident -> Row], posts' \subseteq Ident, req' \in [Client -> RequestType],
         work' \in Worker, latest' \in [1..MaxGrants -> Nat],
         \A i \in Ident :
           /\ RowOK(i)'
           /\ row'[i].id # 0 => row'[i].id = row[i].id /\ (row[i].cred # NoCred => row'[i].cred # NoCred)
           /\ row'[i].id # 0 /\ row'[i].status = "connected" /\ row'[i].cred = NoCred =>
                row[i].status = "connected",
         \A i \in posts' : row'[i].id # 0,
         \A c \in Client : \/ UNCHANGED req[c]
                           \/ ~Saving(c) /\ ~Part(c) /\ ~Part(c)' /\ RequestOK(c)',
         UNCHANGED work \/ WorkOK',
         TokensOK'
  PROVE  AccInv'
<1>1. TypeOK'
  BY Counters DEF AccInv, TypeOK
<1>2. RowsKept
  BY DEF RowsKept
<1>3. ids <= ids' /\ grants <= grants'
  BY DEF AccInv, TypeOK
<1>4. CredsOK'
  BY <1>1, <1>2, <1>3, CredsKept DEF AccInv
<1>5. FlowsOK'
  BY FlowsSame DEF AccInv
<1>6. \A c \in Client : req[c].at = "save" => UNCHANGED req[c]
  BY DEF Saving
<1>7. faults' = 0 => faults = 0
  BY Counters DEF AccInv
<1>8. UsableOK'
  BY <1>6, <1>7, UsableSame DEF AccInv
<1> QED
  BY <1>1, <1>4, <1>5, <1>8 DEF AccInv

LEMMA IdleAgain ==
  ASSUME TypeOK, NEW c \in Client, Ends(c), ids' \in Nat, grants' \in Nat
  PROVE  /\ req' \in [Client -> RequestType] /\ req'[c] = Idle
         /\ \A o \in Client : o # c => req'[o] = req[o]
         /\ ~Part(c)' /\ ~Saving(c)' /\ RequestOK(c)'
<1>1. /\ req' \in [Client -> RequestType] /\ req'[c] = Idle
      /\ \A o \in Client : o # c => req'[o] = req[o]
  BY Types, SetReq DEF Ends
<1> QED
  BY <1>1, Types DEF Part, Saving, RequestOK

(* A request that fails leaves what it saved. *)
LEMMA AbortInv ==
  ASSUME AccInv, NEW c \in Client, Saving(c), Abort(c),
         UNCHANGED <<platform, row, posts, flow, offer, work, latest, grants, redeemed, done, ids, ops>>,
         (UNCHANGED faults /\ (req[c].at = "save" => row[req[c].one].id # req[c].id)) \/ Fault
  PROVE  AccInv'
<1>1. ids \in Nat /\ grants \in Nat
  BY DEF AccInv, TypeOK
<1>2. /\ req' \in [Client -> RequestType] /\ req'[c] = Idle
      /\ \A o \in Client : o # c => req'[o] = req[o]
      /\ ~Part(c)' /\ ~Saving(c)' /\ RequestOK(c)'
  BY <1>1, IdleAgain DEF Abort, AccInv
<1>3. req[c].why = "callback" => req[c].flow \notin done
  <2> SUFFICES ASSUME req[c].why = "callback" PROVE req[c].flow \notin done
    OBVIOUS
  <2>1. PICK f \in Flow : f = req[c].flow
    BY DEF AccInv, CredsOK, RequestOK
  <2>2. Runs(c, f) /\ req[c].at # "finish"
    BY <2>1 DEF Runs, Saving
  <2> QED
    BY <2>1, <2>2 DEF AccInv, FlowsOK, FlowOK
<1>4. FlowsOK' /\ memo' \in [Flow -> {"none", "connected", "select", "failed"}]
  BY <1>3, FlowsAbort DEF AccInv
<1>5. TypeOK'
  BY <1>2, <1>4, Counters DEF AccInv, TypeOK
<1>6. RowsKept /\ (\A i \in Ident : RowOK(i)') /\ (\A i \in posts' : row'[i].id # 0) /\ ids <= ids' /\ grants <= grants'
  BY <1>1 DEF AccInv, CredsOK, RowsKept, RowOK
<1>7. CredsOK'
  BY <1>2, <1>5, <1>6, CredsKept DEF AccInv
<1>8. faults' = 0 => faults = 0 /\ (req[c].at = "save" => row[req[c].one].id # req[c].id)
  BY Counters DEF AccInv
<1>9. UsableOK'
  BY <1>2, <1>8, UsableSame DEF AccInv
<1>10. TokensOK'
  BY <1>2, <1>8, TokensSame DEF AccInv, Saving
<1> QED
  BY <1>4, <1>5, <1>7, <1>9, <1>10 DEF AccInv

-----------------------------------------------------------------------------
(* An account is looked up, written and saved. *)
Found(k, i, id, p) == [k EXCEPT !.at = "write", !.one = i, !.id = id, !.premium = p]
Written(k, id)     == [k EXCEPT !.at = "save", !.id = id]

LEMMA FoundIs ==
  ASSUME NEW k \in RequestType, NEW i \in Ident, NEW id \in Nat, NEW p \in BOOLEAN
  PROVE  LET n == Found(k, i, id, p)
         IN  /\ n \in RequestType /\ n.at = "write" /\ n.one = i /\ n.id = id
             /\ n.todo = k.todo /\ n.grant = k.grant /\ n.why = k.why /\ n.flow = k.flow
BY DEF RequestType, Found

LEMMA WrittenIs ==
  ASSUME NEW k \in RequestType, NEW id \in Nat
  PROVE  LET n == Written(k, id)
         IN  /\ n \in RequestType /\ n.at = "save" /\ n.one = k.one /\ n.id = id
             /\ n.todo = k.todo /\ n.grant = k.grant /\ n.why = k.why /\ n.flow = k.flow
BY DEF RequestType, Written

LEMMA WrittenSame ==
  ASSUME NEW k \in RequestType
  PROVE  [k EXCEPT !.at = "save"] = Written(k, k.id)
BY DEF RequestType, Written

LEMMA LookupInv == ASSUME AccInv, NEW c \in Client, Lookup(c) PROVE AccInv'
<1>1. /\ req[c].at = "lookup" /\ Saving(c) /\ req[c] \in RequestType /\ RequestOK(c)
      /\ UNCHANGED <<platform, row, posts, flow, offer, work, latest, grants, redeemed, done, ids, ops>>
  BY DEF Lookup, Saving, AccInv, TypeOK, CredsOK
<1>2. CASE Fault /\ Abort(c)
  BY <1>1, <1>2, AbortInv
<1>3. ASSUME NEW i \in req[c].todo,
             Becomes(c, [req[c] EXCEPT !.at = "write", !.one = i, !.id = row[i].id, !.premium = row[i].premium]),
             UNCHANGED <<memo, faults>>
      PROVE  AccInv'
  <2>1. i \in Ident
    BY <1>1, <1>3 DEF RequestType
  <2>2. row[i].id \in Nat /\ row[i].premium \in BOOLEAN /\ row[i].id <= ids
    BY <2>1 DEF AccInv, TypeOK, Row, CredsOK, RowOK
  <2> DEFINE n == Found(req[c], i, row[i].id, row[i].premium)
  <2>3. Becomes(c, n)
    BY <1>3 DEF Found
  <2>4. /\ n \in RequestType /\ n.at = "write" /\ n.one = i /\ n.id = row[i].id
        /\ n.todo = req[c].todo /\ n.grant = req[c].grant /\ n.why = req[c].why /\ n.flow = req[c].flow
    BY <1>1, <2>1, <2>2, FoundIs
  <2> HIDE DEF n
  <2>5. /\ req' \in [Client -> RequestType] /\ req'[c] = n
        /\ \A o \in Client : o # c => req'[o] = req[o]
    BY <2>3, <2>4, SetReq DEF AccInv
  <2>6. TypeOK'
    BY <1>1, <1>3, <2>5 DEF AccInv, TypeOK
  <2>7. RequestOK(c)'
    BY <1>1, <1>3, <2>2, <2>4, <2>5 DEF RequestOK, Saving
  <2>8. /\ RowsKept /\ (\A j \in Ident : RowOK(j)') /\ (\A j \in posts' : row'[j].id # 0)
        /\ ids <= ids' /\ grants <= grants'
    BY <1>1 DEF AccInv, CredsOK, RowsKept, RowOK, TypeOK
  <2>9. CredsOK'
    BY <1>1, <2>5, <2>6, <2>7, <2>8, CredsKept DEF AccInv
  <2>10. FlowsOK'
    BY <1>1, <1>3, <2>4, <2>5, FlowsOn DEF AccInv, Saving
  <2>11. UsableOK'
    BY <1>1, <1>3, <2>5, UsableSame DEF AccInv
  <2>12. TokensOK'
    BY <1>1, <1>3, <2>4, <2>5, TokensSame DEF AccInv, Saving
  <2> QED
    BY <2>6, <2>9, <2>10, <2>11, <2>12 DEF AccInv
<1> QED
  BY <1>1, <1>2, <1>3 DEF Lookup

(* A row is connected once its request is about to save the credentials.     *)
LEMMA UsableWritten ==
  ASSUME UsableOK, UNCHANGED faults, NEW c \in Client, NEW i \in Ident,
         \A j \in Ident : j # i => row'[j] = row[j],
         \A o \in Client : o # c => req'[o] = req[o],
         req[c].at # "save", req'[c].at = "save", req'[c].one = i, req'[c].id = row'[i].id
  PROVE  UsableOK'
BY DEF UsableOK, ConnectedIsUsable, Exists

LEMMA WriteInv == ASSUME AccInv, NEW c \in Client, Write(c) PROVE AccInv'
<1>1. /\ req[c].at = "write" /\ Saving(c) /\ req[c] \in RequestType /\ RequestOK(c)
      /\ UNCHANGED <<platform, posts, flow, offer, work, latest, grants, redeemed, done, ops>>
  BY DEF Write, Saving, AccInv, TypeOK, CredsOK
<1>2. PICK i \in Ident : i = req[c].one /\ i \in req[c].todo
  BY <1>1 DEF RequestOK, RequestType
<1>3. /\ row[i] \in Row /\ ids \in Nat /\ ids' \in Nat /\ RowOK(i) /\ grants \in Nat
      /\ \A j \in Ident : row[j].id \in Nat
  <2>1. row[i] \in Row /\ ids \in Nat /\ RowOK(i) /\ grants \in Nat /\ \A j \in Ident : row[j].id \in Nat
    BY DEF AccInv, TypeOK, CredsOK, Row
  <2> QED
    BY <2>1 DEF Write
<1>4. ASSUME NEW new \in Row, row' = [row EXCEPT ![i] = new], new.cred = row[i].cred, new.id # 0,
             ids <= ids', ids' \in Nat, new.id <= ids',
             new.id = row[i].id \/ (row[i].id = 0 /\ new.id > ids),
             Becomes(c, Written(req[c], new.id)), UNCHANGED <<memo, faults>>
      PROVE  AccInv'
  <2>1. row' \in [Ident -> Row] /\ row'[i] = new /\ \A j \in Ident : j # i => row'[j] = row[j]
    BY <1>4, SetRow DEF AccInv
  <2> DEFINE n == Written(req[c], new.id)
  <2>2. new.id \in Nat
    BY DEF Row
  <2>3. /\ n \in RequestType /\ n.at = "save" /\ n.one = i /\ n.id = new.id
        /\ n.todo = req[c].todo /\ n.grant = req[c].grant /\ n.why = req[c].why /\ n.flow = req[c].flow
    BY <1>1, <1>2, <2>2, WrittenIs
  <2>4. Becomes(c, n)
    BY <1>4
  <2> HIDE DEF n
  <2>5. /\ req' \in [Client -> RequestType] /\ req'[c] = n
        /\ \A o \in Client : o # c => req'[o] = req[o]
    BY <2>3, <2>4, SetReq DEF AccInv
  <2>6. TypeOK'
    BY <1>1, <1>4, <2>1, <2>5 DEF AccInv, TypeOK
  <2>7. RequestOK(c)'
    BY <1>1, <1>2, <1>4, <2>3, <2>5 DEF RequestOK, Saving
  <2>8. \A j \in Ident : RowOK(j)'
    <3>1. RowOK(i)'
      BY <1>1, <1>3, <1>4, <2>1 DEF RowOK
    <3>2. ASSUME NEW j \in Ident, j # i PROVE RowOK(j)'
      BY <1>1, <1>3, <1>4, <2>1, <3>2 DEF AccInv, CredsOK, RowOK
    <3> QED
      BY <3>1, <3>2
  <2>9. RowsKept
    BY <1>3, <1>4, <2>1, <2>2 DEF RowsKept
  <2>10. (\A j \in posts' : row'[j].id # 0) /\ grants <= grants'
    BY <1>1, <1>3, <1>4, <2>1 DEF AccInv, CredsOK, TypeOK
  <2>11. CredsOK'
    BY <1>4, <2>5, <2>6, <2>7, <2>8, <2>9, <2>10, <1>1, CredsKept DEF AccInv
  <2>12. FlowsOK'
    BY <1>1, <1>4, <2>3, <2>5, FlowsOn DEF AccInv, Saving
  <2>13. UsableOK'
    BY <1>1, <1>4, <2>1, <2>3, <2>5, UsableWritten DEF AccInv
  <2>14. TokensOK'
    BY <1>1, <1>4, <2>1, <2>3, <2>5, TokensSame DEF AccInv, Saving
  <2> QED
    BY <2>6, <2>11, <2>12, <2>13, <2>14 DEF AccInv
<1>5. CASE /\ req[c].id = 0 /\ row[i].id = 0 /\ ids' = ids + 1
           /\ row' = [row EXCEPT ![i] = [id |-> ids', cred |-> NoCred, premium |-> FALSE,
                                         status |-> "connected"]]
           /\ Becomes(c, [req[c] EXCEPT !.at = "save", !.id = ids'])
           /\ UNCHANGED <<memo, faults>>
  <2> DEFINE new == [id |-> ids', cred |-> NoCred, premium |-> FALSE, status |-> "connected"]
  <2>1. new \in Row /\ new.cred = NoCred /\ new.id = ids' /\ row' = [row EXCEPT ![i] = new]
    BY <1>3, <1>5, Types DEF Row
  <2>2. Becomes(c, Written(req[c], ids'))
    BY <1>5 DEF Written
  <2>3. row[i].cred = NoCred /\ ids' > ids /\ ids <= ids' /\ ids' <= ids' /\ ids' # 0
    BY <1>3, <1>5 DEF RowOK
  <2> HIDE DEF new
  <2> QED
    BY <1>3, <1>4, <1>5, <2>1, <2>2, <2>3
<1>6. CASE /\ req[c].id # 0 /\ row[i].id = req[c].id
           /\ row' = [row EXCEPT ![i].status = "connected", ![i].premium = req[c].premium]
           /\ Becomes(c, [req[c] EXCEPT !.at = "save"])
           /\ UNCHANGED <<memo, ids, faults>>
  <2> DEFINE new == [row[i] EXCEPT !.status = "connected", !.premium = req[c].premium]
  <2>1. new \in Row /\ new.cred = row[i].cred /\ new.id = row[i].id
    BY <1>1, <1>3 DEF Row, RequestType
  <2>2. row' = [row EXCEPT ![i] = new]
    BY <1>6 DEF AccInv, TypeOK
  <2>3. Becomes(c, Written(req[c], row[i].id))
    BY <1>1, <1>6, WrittenSame
  <2>4. ids <= ids' /\ row[i].id <= ids' /\ row[i].id # 0
    BY <1>3, <1>6 DEF RowOK
  <2> HIDE DEF new
  <2> QED
    BY <1>3, <1>4, <1>6, <2>1, <2>2, <2>3, <2>4
<1>7. CASE Abort(c) /\ UNCHANGED <<row, ids>> /\ (UNCHANGED faults \/ Fault)
  BY <1>1, <1>7, AbortInv
<1> QED
  BY <1>2, <1>5, <1>6, <1>7 DEF Write, Exists

(* A request has saved its accounts: of a state, all of them.                *)
LEMMA FlowsFinish ==
  ASSUME FlowsOK, UNCHANGED <<flow, redeemed, offer, memo>>, NEW c \in Client,
         RequestOK(c), Saving(c), \A o \in Client : o # c => UNCHANGED req[o],
         req'[c].at = "finish", req'[c].why = req[c].why, req'[c].flow = req[c].flow,
         done' = done \cup ({req[c].flow} \cap Flow)
  PROVE  FlowsOK'
<1> SUFFICES ASSUME NEW f \in Flow PROVE FlowOK(f)'
  BY DEF FlowsOK
<1>1. FlowOK(f)
  BY DEF FlowsOK
<1>2. ASSUME NEW o \in Client
      PROVE  /\ Runs(o, f)' <=> Runs(o, f)
             /\ Chooses(o, f)' <=> Chooses(o, f)
  <2>1. CASE o = c
    BY <2>1 DEF Runs, Chooses, Saving
  <2>2. CASE o # c
    BY <2>2 DEF Runs, Chooses
  <2> QED
    BY <2>1, <2>2
<1>3. CASE f = req[c].flow
  <2>1. f \in done' /\ (Runs(c, f) \/ Chooses(c, f))
    BY <1>3 DEF RequestOK, Saving, Runs, Chooses
  <2>2. flow[f] = "gone" /\ memo[f] # "failed" /\ redeemed[f] <= 1
    BY <1>1, <2>1 DEF FlowOK, NobodyHas
  <2>3. ASSUME NEW o \in Client, Runs(o, f)'
        PROVE  o = c
    BY <1>1, <1>2, <2>1, <2>3 DEF FlowOK
  <2>4. Runs(c, f) => /\ offer[f] = NoOffer /\ memo[f] = "none"
                      /\ \A o \in Client : ~Chooses(o, f) /\ (o # c => ~Runs(o, f))
    BY <1>1 DEF FlowOK
  <2> QED
    BY <1>2, <2>1, <2>2, <2>3, <2>4 DEF FlowOK
<1>4. CASE f # req[c].flow
  <2>1. ~Runs(c, f) /\ ~Chooses(c, f) /\ (f \in done' <=> f \in done)
    BY <1>4 DEF Runs, Chooses
  <2>2. ASSUME NEW o \in Client, Runs(o, f) \/ Chooses(o, f) PROVE UNCHANGED req[o]
    BY <2>1, <2>2
  <2> QED
    BY <1>1, <1>2, <2>1, <2>2 DEF FlowOK, NobodyHas
<1> QED
  BY <1>3, <1>4

Saved(k, at, S) == [k EXCEPT !.at = at, !.todo = S]

LEMMA SavedIs ==
  ASSUME NEW k \in RequestType, NEW at \in At, NEW S \in SUBSET Ident
  PROVE  LET n == Saved(k, at, S)
         IN  /\ n \in RequestType /\ n.at = at /\ n.one = k.one /\ n.id = k.id
             /\ n.todo = S /\ n.grant = k.grant /\ n.why = k.why /\ n.flow = k.flow
BY DEF RequestType, At, Saved

(* The new credentials are of an authorization that no other account has.    *)
LEMMA SaveCredInv == ASSUME AccInv, NEW c \in Client, SaveCred(c) PROVE AccInv'
<1>1. /\ req[c].at = "save" /\ Saving(c) /\ req[c] \in RequestType /\ RequestOK(c)
      /\ UNCHANGED <<platform, posts, flow, offer, work, latest, grants, redeemed, ids, ops>>
  BY DEF SaveCred, Saving, AccInv, TypeOK, CredsOK
<1>2. PICK i \in Ident : i = req[c].one /\ i \in req[c].todo
  BY <1>1 DEF RequestOK, RequestType
<1>3. /\ row[i] \in Row /\ ids \in Nat /\ RowOK(i) /\ grants \in Nat /\ grants \in 0..MaxGrants
      /\ MaxGrants \in Nat /\ req[c].grant \in 1..grants
  BY <1>1 DEF AccInv, TypeOK, CredsOK, MaxGrants, RequestOK, RequestType
<1> DEFINE g == req[c].grant  cred == [grant |-> g, ver |-> 1]  rest == req[c].todo \ {i}
           at == IF rest = {} THEN "finish" ELSE "lookup"
           new == [row[i] EXCEPT !.cred = cred]
<1>4. CASE /\ row[i].id = req[c].id /\ row' = [row EXCEPT ![i].cred = cred]
           /\ Becomes(c, Saved(req[c], at, rest))
           /\ done' = IF rest = {} THEN done \cup ({req[c].flow} \cap Flow) ELSE done
           /\ UNCHANGED <<memo, faults>>
  <2>1. /\ cred \in Cred /\ cred # NoCred /\ cred.grant = g /\ cred.ver = 1
    BY <1>3, Types DEF Cred
  <2>2. row' = [row EXCEPT ![i] = new]
    BY <1>4
  <2> HIDE DEF cred
  <2>3. new \in Row /\ new.cred = cred /\ new.id = row[i].id
    BY <1>3, <2>1 DEF Row
  <2> HIDE DEF new
  <2>4. row' \in [Ident -> Row] /\ row'[i] = new /\ \A j \in Ident : j # i => row'[j] = row[j]
    BY <2>2, <2>3, SetRow DEF AccInv
  <2>5. at \in At /\ (at = "finish" \/ at = "lookup") /\ (at = "finish" <=> rest = {})
    BY DEF At
  <2>6. rest \in SUBSET Ident
    BY <1>1 DEF RequestType
  <2> DEFINE n == Saved(req[c], at, rest)
  <2>7. Becomes(c, n)
    BY <1>4
  <2> HIDE DEF at, rest
  <2>8. /\ n \in RequestType /\ n.at = at /\ n.one = i /\ n.id = req[c].id
        /\ n.todo = rest /\ n.grant = g /\ n.why = req[c].why /\ n.flow = req[c].flow
    BY <1>1, <1>2, <2>5, <2>6, SavedIs
  <2> HIDE DEF n
  <2>9. /\ req' \in [Client -> RequestType] /\ req'[c] = n
        /\ \A o \in Client : o # c => req'[o] = req[o]
    BY <2>7, <2>8, SetReq DEF AccInv
  <2>10. done' \in SUBSET Flow
    BY <1>4 DEF AccInv, TypeOK
  <2>11. TypeOK'
    BY <1>1, <1>4, <2>4, <2>9, <2>10 DEF AccInv, TypeOK
  <2>12. RequestOK(c)'
    BY <1>1, <1>4, <2>5, <2>8, <2>9 DEF RequestOK, Saving
  <2>13. \A j \in Ident : RowOK(j)'
    <3>1. RowOK(i)'
      BY <1>1, <1>3, <1>4, <2>1, <2>3, <2>4 DEF RowOK, RequestOK
    <3>2. ASSUME NEW j \in Ident, j # i PROVE RowOK(j)'
      BY <1>1, <2>4, <3>2 DEF AccInv, CredsOK, RowOK
    <3> QED
      BY <3>1, <3>2
  <2>14. RowsKept
    BY <2>1, <2>3, <2>4 DEF RowsKept
  <2>15. (\A j \in posts' : row'[j].id # 0) /\ grants <= grants' /\ ids <= ids'
    <3>1. \A j \in Ident : row'[j].id = row[j].id
      BY <2>3, <2>4
    <3>2. posts' = posts /\ posts \subseteq Ident /\ \A j \in posts : row[j].id # 0
      BY <1>1 DEF AccInv, CredsOK, TypeOK
    <3> QED
      BY <1>1, <1>3, <3>1, <3>2
  <2>16. CredsOK'
    BY <1>1, <2>9, <2>11, <2>12, <2>13, <2>14, <2>15, CredsKept DEF AccInv
  <2>17. FlowsOK'
    <3>1. CASE rest = {}
      BY <1>1, <1>4, <2>5, <2>8, <2>9, <3>1, FlowsFinish DEF AccInv
    <3>2. CASE rest # {}
      BY <1>1, <1>4, <2>5, <2>8, <2>9, <3>2, FlowsOn DEF AccInv, Saving
    <3> QED
      BY <3>1, <3>2
  <2>18. UsableOK'
    <3> SUFFICES ASSUME faults = 0, NEW j \in Ident, row'[j].id # 0, row'[j].status = "connected", row'[j].cred = NoCred
                 PROVE  \E o \in Client : req'[o].at = "save" /\ req'[o].one = j /\ req'[o].id = row'[j].id
      BY <1>4 DEF UsableOK, ConnectedIsUsable, Exists
    <3>1. j # i /\ row'[j] = row[j]
      BY <2>1, <2>3, <2>4
    <3>2. PICK o \in Client : req[o].at = "save" /\ req[o].one = j /\ req[o].id = row[j].id
      BY <3>1 DEF AccInv, UsableOK, ConnectedIsUsable, Exists
    <3>3. o # c
      BY <1>2, <3>1, <3>2
    <3> QED
      BY <2>9, <3>1, <3>2, <3>3
  <2>19. TokensOK'
    <3>1. TokensOK
      BY DEF AccInv
    <3>2. CASE platform # "x"
      BY <1>1, <3>1, <3>2 DEF TokensOK, RotatedTokenIsStored
    <3>3. CASE platform = "x"
      <4>1. /\ \E j \in Ident : req[c].todo = {j}
            /\ latest[g] = 1
            /\ \A j \in Ident : row[j].cred.grant # g
            /\ work.at # "idle" => work.cred.grant # g
            /\ \A o \in Client : o # c /\ Saving(o) => req[o].grant # g
        BY <1>1, <3>1, <3>3 DEF TokensOK
      <4>2. rest = {}
        BY <1>2, <4>1 DEF rest
      <4>3. ~Saving(c)'
        BY <2>5, <2>8, <2>9, <4>2 DEF Saving
      <4>4. row'[i].cred.grant = g /\ row'[i].cred.ver = 1 /\ \A j \in Ident : j # i => row'[j].cred = row[j].cred
        BY <2>1, <2>3, <2>4
      <4>5. RotatedTokenIsStored'
        <5> SUFFICES ASSUME faults = 0, NEW j \in Ident, row'[j].cred # NoCred
                     PROVE  LET k == row'[j].cred
                            IN  k.ver = latest[k.grant] \/ (work.at = "store" /\ work.cred.grant = k.grant)
          BY <1>1, <1>4 DEF RotatedTokenIsStored
        <5>1. CASE j = i
          BY <4>1, <4>4, <5>1
        <5>2. CASE j # i
          BY <3>1, <3>3, <4>4, <5>2 DEF TokensOK, RotatedTokenIsStored
        <5> QED
          BY <5>1, <5>2
      <4>6. ASSUME NEW o \in Client, Saving(o)'
            PROVE  /\ \E j \in Ident : req'[o].todo = {j}
                   /\ latest[req'[o].grant] = 1
                   /\ \A j \in Ident : row'[j].cred.grant # req'[o].grant
                   /\ work.at # "idle" => work.cred.grant # req'[o].grant
                   /\ \A q \in Client : q # o /\ Saving(q)' => req'[q].grant # req'[o].grant
        <5>1. o # c /\ UNCHANGED req[o] /\ Saving(o)
          BY <2>9, <4>3, <4>6 DEF Saving
        <5>2. req[o].grant # g
          BY <4>1, <5>1
        <5>3. \A q \in Client : Saving(q)' => q # c /\ Saving(q) /\ req'[q].grant = req[q].grant
          BY <2>9, <4>3 DEF Saving
        <5> QED
          BY <3>1, <3>3, <4>4, <5>1, <5>2, <5>3 DEF TokensOK
      <4>7. /\ \A j, k \in Ident : j # k /\ row'[j].cred # NoCred => row'[j].cred.grant # row'[k].cred.grant
            /\ work.at # "idle" => \A j \in Ident : j # work.one => row'[j].cred.grant # work.cred.grant
        BY <3>1, <3>3, <4>1, <4>4 DEF TokensOK
      <4> QED
        BY <1>1, <3>1, <3>3, <4>5, <4>6, <4>7 DEF TokensOK
    <3> QED
      BY <3>2, <3>3
  <2> QED
    BY <2>11, <2>16, <2>17, <2>18, <2>19 DEF AccInv
<1>5. CASE row[i].id # req[c].id /\ Abort(c) /\ UNCHANGED <<row, done, faults>>
  BY <1>1, <1>2, <1>5, AbortInv
<1>6. CASE Fault /\ Abort(c) /\ UNCHANGED <<row, done>>
  BY <1>1, <1>6, AbortInv
<1>7. \/ /\ row[i].id = req[c].id
         /\ row' = [row EXCEPT ![i].cred = cred]
         /\ Becomes(c, [req[c] EXCEPT !.at = at, !.todo = rest])
         /\ done' = IF rest = {} THEN done \cup ({req[c].flow} \cap Flow) ELSE done
         /\ UNCHANGED <<memo, faults>>
      \/ row[i].id # req[c].id /\ Abort(c) /\ UNCHANGED <<row, done, faults>>
      \/ Fault /\ Abort(c) /\ UNCHANGED <<row, done>>
  BY <1>2 DEF SaveCred
<1>8. [req[c] EXCEPT !.at = at, !.todo = rest] = Saved(req[c], at, rest)
  BY DEF Saved
<1> HIDE DEF at, rest, cred
<1> QED
  BY <1>4, <1>5, <1>6, <1>7, <1>8

-----------------------------------------------------------------------------
(* What is remembered as connected has been saved. *)
LEMMA FinishInv == ASSUME AccInv, NEW c \in Client, Finish(c) PROVE AccInv'
<1>1. /\ req[c].at = "finish" /\ Ends(c) /\ RequestOK(c)
      /\ UNCHANGED <<platform, row, posts, flow, work, latest, grants, redeemed, done, ids, ops>>
      /\ UNCHANGED faults \/ Fault
  BY DEF Finish, AccInv, CredsOK
<1>2. ids' \in Nat /\ grants' \in Nat
  BY <1>1 DEF AccInv, TypeOK
<1>3. /\ req' \in [Client -> RequestType] /\ req'[c] = Idle
      /\ \A o \in Client : o # c => req'[o] = req[o]
      /\ ~Part(c)' /\ ~Saving(c)' /\ RequestOK(c)'
  BY <1>1, <1>2, IdleAgain DEF AccInv
<1>4. /\ memo' \in [Flow -> {"none", "connected", "select", "failed"}] /\ offer' \in [Flow -> Offer]
      /\ \A g \in Flow : /\ offer'[g] \in {offer[g], NoOffer}
                          /\ \/ memo'[g] = memo[g]
                             \/ memo'[g] = "connected" /\ (Runs(c, g) \/ Chooses(c, g))
  <2>1. memo \in [Flow -> {"none", "connected", "select", "failed"}] /\ offer \in [Flow -> Offer]
    BY DEF AccInv, TypeOK
  <2>2. /\ req[c].why \in {"callback", "select", "static"}
        /\ req[c].why # "static" => req[c].flow \in Flow
    BY <1>1 DEF RequestOK
  <2>3. CASE /\ req[c].why # "static" /\ Recall(req[c].flow, "connected")
             /\ offer' = IF req[c].why = "select" THEN [offer EXCEPT ![req[c].flow] = NoOffer] ELSE offer
    <3>1. PICK f \in Flow : f = req[c].flow
      BY <2>2, <2>3
    <3>2. memo' = [memo EXCEPT ![f] = "connected"]
      BY <2>3, <3>1 DEF Recall
    <3>3. /\ memo' \in [Flow -> {"none", "connected", "select", "failed"}]
          /\ memo'[f] = "connected" /\ \A g \in Flow : g # f => memo'[g] = memo[g]
      BY <2>1, <3>2
    <3>4. offer' \in [Flow -> Offer] /\ \A g \in Flow : offer'[g] \in {offer[g], NoOffer}
      BY <2>1, <2>3, <3>1, Types
    <3>5. Runs(c, f) \/ Chooses(c, f)
      BY <1>1, <2>2, <2>3, <3>1 DEF Runs, Chooses
    <3> QED
      BY <3>3, <3>4, <3>5
  <2>4. CASE req[c].why = "static" /\ UNCHANGED <<memo, offer>>
    BY <2>1, <2>4
  <2>5. CASE UNCHANGED <<memo, offer>>
    BY <2>1, <2>5
  <2> QED
    BY <2>3, <2>4, <2>5 DEF Finish
<1>5. TypeOK'
  BY <1>1, <1>3, <1>4, Counters DEF AccInv, TypeOK
<1>6. /\ RowsKept /\ (\A j \in Ident : RowOK(j)') /\ (\A j \in posts' : row'[j].id # 0)
      /\ ids <= ids' /\ grants <= grants'
  BY <1>1 DEF AccInv, CredsOK, RowsKept, RowOK, TypeOK
<1>7. CredsOK'
  BY <1>1, <1>3, <1>5, <1>6, CredsKept DEF AccInv
<1>8. FlowsOK'
  <2> SUFFICES ASSUME NEW g \in Flow PROVE FlowOK(g)'
    BY DEF FlowsOK
  <2>1. FlowOK(g)
    BY DEF AccInv, FlowsOK
  <2>2. ASSUME NEW o \in Client
        PROVE  /\ Runs(o, g)' => Runs(o, g) /\ o # c /\ UNCHANGED req[o]
               /\ Chooses(o, g)' => Chooses(o, g) /\ o # c /\ UNCHANGED req[o]
    BY <1>3 DEF Runs, Chooses, Part
  <2>3. CASE memo'[g] = memo[g]
    BY <1>1, <1>4, <2>1, <2>2, <2>3 DEF FlowOK, NobodyHas
  <2>4. CASE memo'[g] = "connected" /\ (Runs(c, g) \/ Chooses(c, g))
    <3>1. g \in done /\ flow[g] = "gone" /\ redeemed[g] <= 1
      BY <1>1, <2>1, <2>4 DEF FlowOK, NobodyHas
    <3>2. ASSUME NEW o \in Client PROVE ~Runs(o, g)'
      BY <2>1, <2>2, <2>4 DEF FlowOK
    <3> QED
      BY <1>1, <2>4, <3>1, <3>2 DEF FlowOK
  <2> QED
    BY <1>4, <2>3, <2>4
<1>9. faults' = 0 => faults = 0
  BY <1>1, Counters DEF AccInv
<1>10. UsableOK'
  BY <1>1, <1>3, <1>9, UsableSame DEF AccInv
<1>11. TokensOK'
  BY <1>1, <1>3, <1>4, <1>9, TokensSame DEF AccInv, Saving
<1> QED
  BY <1>5, <1>7, <1>8, <1>10, <1>11 DEF AccInv

(* A request begins. *)
Chosen(f, S, g) ==
  [Idle EXCEPT !.at = "lookup", !.why = "select", !.flow = f, !.todo = S, !.grant = g]

LEMMA ChosenIs ==
  ASSUME NEW f \in Flow, NEW S \in SUBSET Ident, NEW g \in 0..MaxGrants
  PROVE  LET n == Chosen(f, S, g)
         IN  /\ n \in RequestType /\ n.at = "lookup" /\ n.why = "select" /\ n.flow = f /\ n.todo = S
             /\ n.grant = g /\ n.id = 0
BY DEF RequestType, Chosen, Idle

(* Nobody that has a state in hand has left an offer.                        *)
LEMMA SelectInv == ASSUME AccInv, NEW c \in Client, NEW f \in Flow, Select(c, f) PROVE AccInv'
<1>1. /\ req[c].at = "idle" /\ offer[f] # NoOffer /\ Op
      /\ UNCHANGED <<platform, row, posts, flow, offer, memo, work, latest, grants, redeemed, done, ids, faults>>
  BY DEF Select, Free
<1>2. PICK T \in SUBSET offer[f].accounts :
        Becomes(c, [Idle EXCEPT !.at = "lookup", !.why = "select", !.flow = f,
                                !.todo = T, !.grant = offer[f].grant])
  BY DEF Select
<1>3. /\ platform # "x" /\ offer[f].grant \in 1..grants /\ offer[f].grant \in 0..MaxGrants
      /\ T \in SUBSET Ident /\ grants \in Nat
  BY <1>1 DEF AccInv, TypeOK, TokensOK, Offer
<1> DEFINE n == Chosen(f, T, offer[f].grant)
<1>4. Becomes(c, n)
  BY <1>2 DEF Chosen
<1>5. /\ n \in RequestType /\ n.at = "lookup" /\ n.why = "select" /\ n.flow = f /\ n.todo = T
      /\ n.grant = offer[f].grant /\ n.id = 0
  BY <1>3, ChosenIs
<1> HIDE DEF n
<1>6. /\ req' \in [Client -> RequestType] /\ req'[c] = n
      /\ \A o \in Client : o # c => req'[o] = req[o]
  BY <1>4, <1>5, SetReq DEF AccInv
<1>7. TypeOK'
  BY <1>1, <1>6, Counters DEF AccInv, TypeOK
<1>8. RequestOK(c)'
  <2>1. ids \in Nat
    BY DEF AccInv, TypeOK
  <2> QED
    BY <1>1, <1>3, <1>5, <1>6, <2>1 DEF RequestOK, Saving
<1>9. /\ RowsKept /\ (\A j \in Ident : RowOK(j)') /\ (\A j \in posts' : row'[j].id # 0)
      /\ ids <= ids' /\ grants <= grants'
  BY <1>1 DEF AccInv, CredsOK, RowsKept, RowOK, TypeOK
<1>10. CredsOK'
  BY <1>1, <1>6, <1>7, <1>8, <1>9, CredsKept DEF AccInv
<1>11. FlowsOK'
  <2> SUFFICES ASSUME NEW g \in Flow PROVE FlowOK(g)'
    BY DEF FlowsOK
  <2>1. FlowOK(g) /\ UNCHANGED <<flow, offer, memo, redeemed, done>>
    BY <1>1 DEF AccInv, FlowsOK
  <2>2. ASSUME NEW o \in Client, o # c
        PROVE  /\ Runs(o, g)' <=> Runs(o, g)
               /\ Chooses(o, g)' <=> Chooses(o, g)
               /\ UNCHANGED req[o]
    BY <1>6, <2>2 DEF Runs, Chooses
  <2>3. ~Runs(c, g) /\ ~Chooses(c, g) /\ ~Runs(c, g)' /\ (Chooses(c, g)' <=> g = f) /\ req'[c].at = "lookup"
    BY <1>1, <1>5, <1>6 DEF Runs, Chooses
  <2>4. CASE g = f
    <3>1. flow[g] = "gone" /\ memo[g] # "failed" /\ \A o \in Client : ~Runs(o, g)
      BY <1>1, <2>1, <2>4 DEF FlowOK
    <3>2. \A o \in Client : ~Runs(o, g)'
      BY <2>2, <2>3, <3>1
    <3>3. \A o \in Client : Chooses(o, g)' /\ req'[o].at = "finish" => g \in done
      BY <2>1, <2>2, <2>3 DEF FlowOK
    <3> QED
      BY <2>1, <3>1, <3>2, <3>3 DEF FlowOK
  <2>5. CASE g # f
    <3>1. ASSUME NEW o \in Client
          PROVE  /\ Runs(o, g)' <=> Runs(o, g)
                 /\ Chooses(o, g)' <=> Chooses(o, g)
                 /\ Runs(o, g) \/ Chooses(o, g) => UNCHANGED req[o]
      BY <2>2, <2>3, <2>5
    <3> QED
      BY <2>1, <3>1 DEF FlowOK, NobodyHas
  <2> QED
    BY <2>4, <2>5
<1>12. UsableOK'
  BY <1>1, <1>6, UsableSame DEF AccInv
<1>13. TokensOK'
  BY <1>1, <1>3 DEF AccInv, TokensOK, RotatedTokenIsStored
<1> QED
  BY <1>7, <1>10, <1>11, <1>12, <1>13 DEF AccInv

Given(i, g) == [Idle EXCEPT !.at = "lookup", !.why = "static", !.todo = {i}, !.grant = g]

LEMMA GivenIs ==
  ASSUME NEW i \in Ident, NEW g \in 0..MaxGrants
  PROVE  LET n == Given(i, g)
         IN  /\ n \in RequestType /\ n.at = "lookup" /\ n.why = "static" /\ n.flow = NoFlow
             /\ n.todo = {i} /\ n.grant = g /\ n.id = 0
BY DEF RequestType, Given, Idle

LEMMA StaticInv == ASSUME AccInv, NEW c \in Client, NEW i \in Ident, Static(c, i) PROVE AccInv'
<1>1. /\ req[c].at = "idle" /\ platform # "x" /\ grants < MaxGrants /\ grants' = grants + 1 /\ Op
      /\ UNCHANGED <<platform, row, posts, flow, offer, memo, work, latest, redeemed, done, ids, faults>>
  BY DEF Static, Free
<1>2. grants \in Nat /\ grants' \in 0..MaxGrants /\ grants' # 0 /\ ids \in Nat /\ 1..grants \subseteq 1..grants'
  BY <1>1 DEF AccInv, TypeOK, MaxGrants
<1> DEFINE n == Given(i, grants')
<1>3. Becomes(c, n)
  BY DEF Given, Static
<1>4. /\ n \in RequestType /\ n.at = "lookup" /\ n.why = "static" /\ n.flow = NoFlow /\ n.todo = {i}
      /\ n.grant = grants' /\ n.id = 0
  BY <1>2, GivenIs
<1> HIDE DEF n
<1>5. /\ req' \in [Client -> RequestType] /\ req'[c] = n
      /\ \A o \in Client : o # c => req'[o] = req[o]
  BY <1>3, <1>4, SetReq DEF AccInv
<1>6. TypeOK'
  BY <1>1, <1>2, <1>5, Counters DEF AccInv, TypeOK
<1>7. RequestOK(c)'
  BY <1>1, <1>2, <1>4, <1>5 DEF RequestOK, Saving
<1>8. /\ RowsKept /\ (\A j \in posts' : row'[j].id # 0) /\ ids <= ids' /\ grants <= grants'
  BY <1>1, <1>2 DEF AccInv, CredsOK, RowsKept
<1>9. \A j \in Ident : RowOK(j)'
  BY <1>1, <1>2 DEF AccInv, CredsOK, RowOK
<1>10. CredsOK'
  BY <1>1, <1>5, <1>6, <1>7, <1>8, <1>9, CredsKept DEF AccInv
<1>11. FlowsOK'
  BY <1>1, <1>4, <1>5, FlowsSame DEF AccInv, Part
<1>12. UsableOK'
  BY <1>1, <1>5, UsableSame DEF AccInv
<1>13. TokensOK'
  <2>1. TokensOK /\ \A g \in 1..MaxGrants : g > grants' => g > grants
    BY <1>1, <1>2 DEF AccInv
  <2> QED
    BY <1>1, <1>2, <2>1 DEF TokensOK, RotatedTokenIsStored
<1> QED
  BY <1>6, <1>10, <1>11, <1>12, <1>13 DEF AccInv

-----------------------------------------------------------------------------
(* What Quiet asks of rows that stay, or of which one gets another status.   *)
LEMMA RowsStay ==
  ASSUME AccInv, UNCHANGED <<row, ids, grants>>
  PROVE  /\ row' \in [Ident -> Row]
         /\ \A i \in Ident :
              /\ RowOK(i)'
              /\ row'[i].id # 0 => row'[i].id = row[i].id /\ (row[i].cred # NoCred => row'[i].cred # NoCred)
              /\ row'[i].id # 0 /\ row'[i].status = "connected" /\ row'[i].cred = NoCred =>
                   row[i].status = "connected"
BY DEF AccInv, TypeOK, CredsOK, RowOK

LEMMA RowTouched ==
  ASSUME AccInv, UNCHANGED <<ids, grants>>, NEW i \in Ident, NEW new \in Row,
         row' = [row EXCEPT ![i] = new], new.id = row[i].id, new.cred = row[i].cred,
         new.status = "connected" /\ new.cred = NoCred => row[i].status = "connected"
  PROVE  /\ row' \in [Ident -> Row]
         /\ \A j \in Ident :
              /\ RowOK(j)'
              /\ row'[j].id # 0 => row'[j].id = row[j].id /\ (row[j].cred # NoCred => row'[j].cred # NoCred)
              /\ row'[j].id # 0 /\ row'[j].status = "connected" /\ row'[j].cred = NoCred =>
                   row[j].status = "connected"
         /\ \A j \in Ident : row'[j].id = row[j].id /\ row'[j].cred = row[j].cred
<1>1. row' \in [Ident -> Row] /\ row'[i] = new /\ \A j \in Ident : j # i => row'[j] = row[j]
  BY SetRow DEF AccInv
<1>2. \A j \in Ident : row'[j].id = row[j].id /\ row'[j].cred = row[j].cred
  BY <1>1
<1>3. \A j \in Ident : RowOK(j)'
  BY <1>2 DEF AccInv, CredsOK, RowOK
<1> QED
  BY <1>1, <1>2, <1>3

LEMMA RowsPosted ==
  ASSUME AccInv, UNCHANGED posts, \A i \in Ident : row'[i].id = row[i].id
  PROVE  posts' \subseteq Ident /\ \A i \in posts' : row'[i].id # 0
BY DEF AccInv, TypeOK, CredsOK

LEMMA OtherTypes ==
  ASSUME AccInv
  PROVE  /\ req \in [Client -> RequestType] /\ work \in Worker /\ latest \in [1..MaxGrants -> Nat]
         /\ posts \subseteq Ident /\ ids \in Nat /\ grants \in Nat
         /\ \A i \in Ident : row[i] \in Row /\ row[i].id \in Nat
BY DEF AccInv, TypeOK, Row

(* Requests on one account. *)
Asked(at, why, i, id) == [Idle EXCEPT !.at = at, !.why = why, !.one = i, !.id = id]

LEMMA AskedIs ==
  ASSUME NEW at \in At, NEW why \in {"connect", "delete"}, NEW i \in Ident, NEW id \in Nat
  PROVE  LET n == Asked(at, why, i, id)
         IN  /\ n \in RequestType /\ n.at = at /\ n.why = why /\ n.one = i /\ n.id = id /\ n.grant = 0
BY Types DEF RequestType, At, Asked

LEMMA AskInv ==
  ASSUME AccInv, NEW c \in Client, NEW i \in Ident, ConnectBegin(c, i) \/ DeleteBegin(c, i)
  PROVE  AccInv'
<1>1. /\ req[c].at = "idle" /\ row[i].id # 0 /\ Op
      /\ UNCHANGED <<platform, row, posts, flow, offer, memo, work, latest, grants, redeemed, done, ids, faults>>
  BY DEF ConnectBegin, DeleteBegin, Free, Exists, data
<1>2. \E at \in {"connect", "erase"}, why \in {"connect", "delete"} :
        /\ Becomes(c, Asked(at, why, i, row[i].id))
        /\ at = "connect" => row[i].cred # NoCred
  BY DEF ConnectBegin, DeleteBegin, Asked
<1>3. PICK at \in {"connect", "erase"}, why \in {"connect", "delete"} :
        /\ Becomes(c, Asked(at, why, i, row[i].id))
        /\ at = "connect" => row[i].cred # NoCred
  BY <1>2
<1>4. ids \in Nat /\ grants \in Nat /\ row[i].id \in Nat /\ row[i].id <= ids
  BY OtherTypes DEF AccInv, CredsOK, RowOK
<1> DEFINE n == Asked(at, why, i, row[i].id)
<1>5. n \in RequestType /\ n.at = at /\ n.why = why /\ n.one = i /\ n.id = row[i].id /\ n.grant = 0
  BY <1>4, AskedIs DEF At
<1> HIDE DEF n
<1>6. /\ req' \in [Client -> RequestType] /\ req'[c] = n
      /\ \A o \in Client : o # c => req'[o] = req[o]
  BY <1>3, <1>5, SetReq DEF AccInv, n
<1>7. RequestOK(c)' /\ ~Saving(c) /\ ~Saving(c)' /\ ~Part(c) /\ ~Part(c)'
  BY <1>1, <1>3, <1>4, <1>5, <1>6 DEF RequestOK, Saving, Part
<1>8. TokensOK'
  BY <1>1, <1>6, <1>7, TokensSame DEF AccInv, Saving
<1> QED
  BY <1>1, <1>6, <1>7, <1>8, Quiet, RowsStay, RowsPosted, OtherTypes

(* An account that is declared connected has had its credentials since the   *)
(* request saw them.                                                         *)
LEMMA ConnectInv == ASSUME AccInv, NEW c \in Client, Connect(c) PROVE AccInv'
<1>1. /\ req[c].at = "connect" /\ Ends(c) /\ RequestOK(c)
      /\ UNCHANGED <<platform, posts, flow, offer, memo, work, latest, grants, redeemed, done, ids, ops, faults>>
  BY DEF Connect, AccInv, CredsOK
<1>2. PICK i \in Ident : i = req[c].one /\ (row[i].id = req[c].id => row[i].cred # NoCred)
  BY <1>1 DEF RequestOK
<1> DEFINE new == [row[i] EXCEPT !.status = IF row[i].id = req[c].id THEN "connected" ELSE row[i].status]
<1>3. row' = [row EXCEPT ![i] = new]
  BY <1>2 DEF Connect, SetStatus
<1>4. /\ new \in Row /\ new.id = row[i].id /\ new.cred = row[i].cred
      /\ new.status = "connected" /\ new.cred = NoCred => row[i].status = "connected"
  BY <1>2, OtherTypes DEF Row
<1> HIDE DEF new
<1>5. /\ row' \in [Ident -> Row]
      /\ \A j \in Ident :
           /\ RowOK(j)'
           /\ row'[j].id # 0 => row'[j].id = row[j].id /\ (row[j].cred # NoCred => row'[j].cred # NoCred)
           /\ row'[j].id # 0 /\ row'[j].status = "connected" /\ row'[j].cred = NoCred =>
                row[j].status = "connected"
      /\ \A j \in Ident : row'[j].id = row[j].id /\ row'[j].cred = row[j].cred
  BY <1>1, <1>3, <1>4, RowTouched
<1>6. /\ req' \in [Client -> RequestType] /\ req'[c] = Idle
      /\ \A o \in Client : o # c => req'[o] = req[o]
      /\ ~Part(c)' /\ ~Saving(c)' /\ RequestOK(c)'
  BY <1>1, IdleAgain, OtherTypes DEF AccInv
<1>7. ~Part(c) /\ ~Saving(c)
  BY <1>1 DEF RequestOK, Part, Saving
<1>8. TokensOK'
  BY <1>1, <1>5, <1>6, TokensSame DEF AccInv, Saving
<1> QED
  BY <1>1, <1>5, <1>6, <1>7, <1>8, Quiet, RowsPosted, OtherTypes

LEMMA EraseInv == ASSUME AccInv, NEW c \in Client, Erase(c) PROVE AccInv'
<1>1. /\ req[c].at = "erase" /\ Ends(c) /\ RequestOK(c)
      /\ UNCHANGED <<platform, posts, flow, offer, memo, work, latest, grants, redeemed, done, ids, ops, faults>>
  BY DEF Erase, AccInv, CredsOK
<1>2. PICK i \in Ident : i = req[c].one
  BY <1>1 DEF RequestOK
<1>3. row' = row \/ (i \notin posts /\ row' = [row EXCEPT ![i] = NoRow])
  BY <1>2 DEF Erase
<1>4. /\ row' \in [Ident -> Row]
      /\ \A j \in Ident : row'[j] = row[j] \/ (row'[j] = NoRow /\ j \notin posts)
  <2>1. CASE row' = row
    BY <2>1 DEF AccInv, TypeOK
  <2>2. CASE i \notin posts /\ row' = [row EXCEPT ![i] = NoRow]
    <3>1. row' \in [Ident -> Row] /\ row'[i] = NoRow /\ \A j \in Ident : j # i => row'[j] = row[j]
      BY <2>2, SetRow, Types DEF AccInv
    <3> QED
      BY <2>2, <3>1
  <2> QED
    BY <1>3, <2>1, <2>2
<1>5. \A j \in Ident :
        /\ RowOK(j)'
        /\ row'[j].id # 0 => row'[j].id = row[j].id /\ (row[j].cred # NoCred => row'[j].cred # NoCred)
        /\ row'[j].id # 0 /\ row'[j].status = "connected" /\ row'[j].cred = NoCred =>
             row[j].status = "connected"
  <2>1. \A j \in Ident : RowOK(j) /\ ids \in Nat
    BY DEF AccInv, CredsOK, TypeOK
  <2> QED
    BY <1>1, <1>4, <2>1, Types DEF RowOK
<1>6. /\ req' \in [Client -> RequestType] /\ req'[c] = Idle
      /\ \A o \in Client : o # c => req'[o] = req[o]
      /\ ~Part(c)' /\ ~Saving(c)' /\ RequestOK(c)'
  BY <1>1, IdleAgain, OtherTypes DEF AccInv
<1>7. ~Part(c) /\ ~Saving(c)
  BY <1>1 DEF RequestOK, Part, Saving
<1>8. posts' \subseteq Ident /\ \A j \in posts' : row'[j].id # 0
  BY <1>1, <1>4 DEF AccInv, TypeOK, CredsOK
<1>9. \A j \in Ident : row'[j].cred \in {row[j].cred, NoCred}
  BY <1>4, Types
<1>10. TokensOK'
  BY <1>1, <1>6, <1>9, TokensSame DEF AccInv, Saving
<1> QED
  BY <1>1, <1>4, <1>5, <1>6, <1>7, <1>8, <1>10, Quiet, OtherTypes

LEMMA RowInv ==
  ASSUME AccInv, NEW i \in Ident, Disconnect(i) \/ SetPremium(i)
  PROVE  AccInv'
<1>1. /\ UNCHANGED <<platform, posts, flow, offer, memo, req, work, latest, grants, redeemed, done, ids, faults>>
      /\ Op
  BY DEF Disconnect, SetPremium
<1>2. PICK new \in Row :
        /\ row' = [row EXCEPT ![i] = new] /\ new.id = row[i].id /\ new.cred = row[i].cred
        /\ new.status = "connected" => row[i].status = "connected"
  <2> DEFINE off == [row[i] EXCEPT !.status = "disconnected"]
             other == [row[i] EXCEPT !.premium = ~row[i].premium]
  <2>1. /\ off \in Row /\ off.id = row[i].id /\ off.cred = row[i].cred /\ off.status # "connected"
    BY OtherTypes DEF Row
  <2>2. /\ other \in Row /\ other.id = row[i].id /\ other.cred = row[i].cred
        /\ other.status = row[i].status
    BY OtherTypes DEF Row
  <2>3. row' = [row EXCEPT ![i] = off] \/ row' = [row EXCEPT ![i] = other]
    BY DEF Disconnect, SetPremium
  <2> HIDE DEF off, other
  <2> QED
    BY <2>1, <2>2, <2>3
<1>3. /\ row' \in [Ident -> Row]
      /\ \A j \in Ident :
           /\ RowOK(j)'
           /\ row'[j].id # 0 => row'[j].id = row[j].id /\ (row[j].cred # NoCred => row'[j].cred # NoCred)
           /\ row'[j].id # 0 /\ row'[j].status = "connected" /\ row'[j].cred = NoCred =>
                row[j].status = "connected"
      /\ \A j \in Ident : row'[j].id = row[j].id /\ row'[j].cred = row[j].cred
  BY <1>1, <1>2, RowTouched
<1>4. TokensOK'
  BY <1>1, <1>3, TokensSame DEF AccInv, Saving
<1> QED
  BY <1>1, <1>3, <1>4, Quiet, RowsPosted, OtherTypes

LEMMA PostInv ==
  ASSUME AccInv, NEW i \in Ident, AddPost(i) \/ RemovePost(i)
  PROVE  AccInv'
<1>1. /\ UNCHANGED <<platform, row, flow, offer, memo, req, work, latest, grants, redeemed, done, ids, faults>>
      /\ Op
  BY DEF AddPost, RemovePost
<1>2. posts' \subseteq Ident /\ \A j \in posts' : row'[j].id # 0
  BY <1>1 DEF AddPost, RemovePost, Exists, AccInv, TypeOK, CredsOK
<1>3. TokensOK'
  BY <1>1, TokensSame DEF AccInv, Saving
<1> QED
  BY <1>1, <1>2, <1>3, Quiet, RowsStay, OtherTypes

-----------------------------------------------------------------------------
(* The worker.  It takes the credentials that the row has, ...               *)
Loaded(at, i) == [at |-> at, one |-> i, id |-> row[i].id, cred |-> row[i].cred, forced |-> FALSE]

LEMMA LoadInv == ASSUME AccInv, NEW i \in Ident, WLoad(i) PROVE AccInv'
<1>1. /\ work.at = "idle" /\ i \in posts /\ row[i].cred # NoCred /\ Op
      /\ UNCHANGED <<platform, row, posts, flow, offer, memo, req, latest, grants, redeemed, done, ids, faults>>
  BY Types DEF WLoad, data
<1>2. PICK at \in {"refresh", "publish"} : work' = Loaded(at, i)
  BY DEF WLoad, Loaded
<1>3. row[i] \in Row /\ RowOK(i)
  BY DEF AccInv, TypeOK, CredsOK
<1>4. /\ work' \in Worker /\ work'.at = at /\ work'.one = i /\ work'.id = row[i].id /\ work'.cred = row[i].cred
  BY <1>2, <1>3 DEF Loaded, Worker, Row
<1>5. WorkOK'
  BY <1>1, <1>3, <1>4 DEF WorkOK, RowOK
<1>6. TokensOK'
  <2>1. TokensOK
    BY DEF AccInv
  <2>2. RotatedTokenIsStored'
    BY <1>1, <2>1 DEF TokensOK, RotatedTokenIsStored
  <2>3. platform = "x" => \A j \in Ident : j # i => row[j].cred.grant # row[i].cred.grant
    BY <1>1, <2>1 DEF TokensOK
  <2>4. \A c \in Client : Saving(c)' <=> Saving(c)
    BY <1>1 DEF Saving
  <2> QED
    BY <1>1, <1>4, <2>1, <2>2, <2>3, <2>4 DEF TokensOK
<1> QED
  BY <1>1, <1>4, <1>5, <1>6, Quiet, RowsStay, RowsPosted, OtherTypes

(* ... and may go on, or stop, with what it has.                             *)
LEMMA GoesOn ==
  ASSUME AccInv, work.at # "idle", UNCHANGED <<row, ids, grants>>,
         work' = Asleep \/ \E at \in {"refresh", "store", "publish", "connected", "complain"}, b \in BOOLEAN :
                            work' = [work EXCEPT !.at = at, !.forced = b]
  PROVE  /\ work' \in Worker /\ WorkOK'
         /\ work'.at # "idle" => work'.one = work.one /\ work'.id = work.id /\ work'.cred = work.cred
<1>1. work \in Worker /\ WorkOK
  BY DEF AccInv, TypeOK, CredsOK
<1>2. CASE work' = Asleep
  BY <1>2, Types DEF WorkOK
<1>3. ASSUME NEW at \in {"refresh", "store", "publish", "connected", "complain"}, NEW b \in BOOLEAN,
             work' = [work EXCEPT !.at = at, !.forced = b]
      PROVE  /\ work' \in Worker /\ WorkOK'
             /\ work'.one = work.one /\ work'.id = work.id /\ work'.cred = work.cred
  <2>1. /\ work' \in Worker /\ work'.one = work.one /\ work'.id = work.id /\ work'.cred = work.cred
    BY <1>1, <1>3 DEF Worker
  <2> QED
    BY <1>1, <2>1 DEF WorkOK
<1> QED
  BY <1>2, <1>3

LEMMA Forced == ASSUME AccInv PROVE \A at : [work EXCEPT !.at = at] = [work EXCEPT !.at = at, !.forced = work.forced]
BY DEF AccInv, TypeOK, Worker

LEMMA FailsOrGoesOn ==
  ASSUME AccInv, RefreshFails
  PROVE  /\ work' = Asleep \/ \E b \in BOOLEAN : work' = [work EXCEPT !.at = "complain", !.forced = b]
         /\ work'.at \in {"idle", "complain"}
<1>1. work.forced \in BOOLEAN /\ work \in Worker
  BY DEF AccInv, TypeOK, Worker
<1>2. CASE work' = [work EXCEPT !.at = "complain"]
  <2>1. work' = [work EXCEPT !.at = "complain", !.forced = work.forced]
    BY <1>2, Forced
  <2>2. work'.at = "complain"
    BY <1>1, <1>2 DEF Worker
  <2> QED
    BY <1>1, <2>1, <2>2
<1>3. CASE work' = Asleep
  BY <1>3, Types
<1> QED
  BY <1>2, <1>3 DEF RefreshFails

(* X's next refresh token is the one in the worker's hands: no other account *)
(* has the authorization.                                                    *)
LEMMA RotateInv ==
  ASSUME AccInv, work.at = "refresh", XRefresh, UNCHANGED <<platform, data, req, grants, redeemed, done, ids, ops>>
  PROVE  AccInv'
<1>1. /\ platform = "x" /\ work.cred.ver = latest[work.cred.grant]
      /\ latest' = [latest EXCEPT ![work.cred.grant] = latest[work.cred.grant] + 1]
      /\ UNCHANGED <<row, posts, flow, offer, memo>>
  BY DEF XRefresh, Usable, Rotate, data
<1>2. /\ work \in Worker /\ WorkOK /\ work.cred \in Cred /\ grants \in 0..MaxGrants /\ MaxGrants \in Nat
      /\ latest \in [1..MaxGrants -> Nat]
  BY DEF AccInv, TypeOK, CredsOK, Worker, MaxGrants
<1> DEFINE g == work.cred.grant
<1>3. /\ g \in 1..grants /\ g \in 1..MaxGrants /\ work.cred # NoCred /\ work.one \in Ident
      /\ work.id # 0 /\ work.id <= ids
      /\ row[work.one].id = work.id => row[work.one].cred # NoCred
  BY <1>2 DEF WorkOK
<1>4. /\ latest' \in [1..MaxGrants -> Nat] /\ latest'[g] = latest[g] + 1
      /\ \A h \in 1..MaxGrants : h # g => latest'[h] = latest[h]
  BY <1>1, <1>2, <1>3
<1>5. /\ work' \in Worker /\ WorkOK'
      /\ \/ work'.at = "store" /\ work'.cred.ver = latest[g] + 1 /\ UNCHANGED faults
         \/ work'.at \in {"idle", "complain"} /\ Fault
      /\ work'.at # "idle" => work'.one = work.one /\ work'.cred.grant = g
  <2>1. CASE work' = [work EXCEPT !.at = "store", !.cred.ver = work.cred.ver + 1] /\ UNCHANGED faults
    <3> DEFINE cred == [work.cred EXCEPT !.ver = work.cred.ver + 1]
    <3>1. cred \in Cred /\ cred.grant = g /\ cred.ver = latest[g] + 1
      BY <1>1, <1>2 DEF Cred
    <3>2. work' = [work EXCEPT !.at = "store", !.cred = cred]
      BY <2>1
    <3> HIDE DEF cred
    <3>3. work' \in Worker /\ work'.at = "store" /\ work'.cred = cred /\ work'.one = work.one /\ work'.id = work.id
      BY <1>2, <3>1, <3>2 DEF Worker
    <3>4. cred # NoCred
      BY <1>3, <3>1, Types
    <3> QED
      BY <1>1, <1>3, <2>1, <3>1, <3>3, <3>4 DEF WorkOK
  <2>2. CASE Fault /\ RefreshFails
    <3>1. /\ work' = Asleep \/ \E b \in BOOLEAN : work' = [work EXCEPT !.at = "complain", !.forced = b]
          /\ work'.at \in {"idle", "complain"}
      BY <2>2, FailsOrGoesOn
    <3>2. /\ work' \in Worker /\ WorkOK'
          /\ work'.at # "idle" => work'.one = work.one /\ work'.id = work.id /\ work'.cred = work.cred
      BY <1>1, <3>1, GoesOn
    <3> QED
      BY <2>2, <3>1, <3>2
  <2> QED
    BY <2>1, <2>2 DEF XRefresh
<1>6. UNCHANGED faults \/ Fault
  BY <1>5
<1>7. TokensOK'
  <2>1. TokensOK
    BY DEF AccInv
  <2>2. \A j \in Ident : row[j].cred # NoCred /\ row[j].cred.grant = g => j = work.one
    BY <1>1, <2>1 DEF TokensOK
  <2>3. \A c \in Client : (Saving(c)' <=> Saving(c)) /\ (Saving(c) => req[c].grant # g /\ req[c].grant \in 1..MaxGrants)
    <3>1. \A c \in Client : Saving(c)' <=> Saving(c)
      BY DEF Saving
    <3>2. \A c \in Client : Saving(c) => req[c].grant # g
      BY <1>1, <2>1 DEF TokensOK
    <3>3. \A c \in Client : Saving(c) => req[c].grant \in 1..MaxGrants
      BY <1>2 DEF AccInv, TypeOK, RequestType, CredsOK, RequestOK
    <3> QED
      BY <3>1, <3>2, <3>3
  <2>4. \A h \in 1..MaxGrants : h > grants => latest'[h] = 1
    BY <1>2, <1>3, <1>4, <2>1 DEF TokensOK
  <2>5. RotatedTokenIsStored'
    <3> SUFFICES ASSUME faults' = 0, NEW i \in Ident, row[i].cred # NoCred
                 PROVE  LET k == row[i].cred
                        IN  k.ver = latest'[k.grant] \/ (work'.at = "store" /\ work'.cred.grant = k.grant)
      BY <1>1 DEF RotatedTokenIsStored
    <3>1. work'.at = "store" /\ work'.cred.grant = g /\ faults = 0
      BY <1>5, Counters DEF AccInv
    <3>2. row[i].cred.grant \in 1..MaxGrants
      BY <1>2 DEF AccInv, CredsOK, RowOK
    <3>3. CASE row[i].cred.grant # g
      BY <1>1, <1>4, <2>1, <3>1, <3>2, <3>3 DEF TokensOK, RotatedTokenIsStored
    <3> QED
      BY <3>1, <3>3
  <2>6. /\ work'.at # "idle" => \A i \in Ident : i # work'.one => row'[i].cred.grant # work'.cred.grant
        /\ work'.at = "store" => work'.cred.ver = latest'[work'.cred.grant]
    BY <1>1, <1>4, <1>5, <2>1 DEF TokensOK
  <2>7. \A c \in Client : Saving(c)' =>
          /\ \E i \in Ident : req'[c].todo = {i}
          /\ latest'[req'[c].grant] = 1
          /\ \A i \in Ident : row'[i].cred.grant # req'[c].grant
          /\ work'.at # "idle" => work'.cred.grant # req'[c].grant
          /\ \A o \in Client : o # c /\ Saving(o)' => req'[o].grant # req'[c].grant
    BY <1>1, <1>4, <1>5, <2>1, <2>3 DEF TokensOK
  <2> QED
    BY <1>1, <2>1, <2>4, <2>5, <2>6, <2>7 DEF TokensOK
<1> QED
  BY <1>1, <1>4, <1>5, <1>6, <1>7, Quiet, RowsStay, RowsPosted, OtherTypes

LEMMA RefreshInv == ASSUME AccInv, WRefresh PROVE AccInv'
<1>1. work.at = "refresh" /\ UNCHANGED <<platform, data, req, grants, redeemed, done, ids, ops>>
  BY DEF WRefresh
<1>2. CASE XRefresh
  BY <1>1, <1>2, RotateInv
<1>3. CASE (LinkedInRefresh \/ MetaRefresh) \/ (RefreshFails /\ UNCHANGED <<latest, faults>>)
  <2>1. UNCHANGED <<latest, faults, row, posts, flow, offer, memo>>
    BY <1>1, <1>3 DEF LinkedInRefresh, MetaRefresh, data
  <2>2. /\ \/ work' = Asleep
           \/ \E at \in {"refresh", "store", "publish", "connected", "complain"}, b \in BOOLEAN :
                work' = [work EXCEPT !.at = at, !.forced = b]
        /\ work'.at = "store" => platform # "x"
    <3>1. CASE LinkedInRefresh \/ MetaRefresh
      <4>1. PICK at \in {"store", "publish"} : work' = [work EXCEPT !.at = at]
        BY <3>1 DEF LinkedInRefresh, MetaRefresh
      <4>2. work' = [work EXCEPT !.at = at, !.forced = work.forced] /\ work.forced \in BOOLEAN
        BY <4>1, Forced DEF AccInv, TypeOK, Worker
      <4>3. platform # "x"
        BY <3>1 DEF LinkedInRefresh, MetaRefresh
      <4> QED
        BY <4>2, <4>3
    <3>2. CASE RefreshFails
      BY <3>2, FailsOrGoesOn
    <3> QED
      BY <1>3, <3>1, <3>2
  <2>3. /\ work' \in Worker /\ WorkOK'
        /\ work'.at # "idle" => work'.one = work.one /\ work'.id = work.id /\ work'.cred = work.cred
    BY <1>1, <2>1, <2>2, GoesOn
  <2>4. TokensOK'
    <3>1. CASE platform # "x"
      BY <1>1, <2>1, <3>1 DEF AccInv, TokensOK, RotatedTokenIsStored
    <3>2. CASE platform = "x"
      BY <1>1, <2>1, <2>2, <2>3, <3>2, TokensSame DEF AccInv, Saving
    <3> QED
      BY <3>1, <3>2
  <2> QED
    BY <1>1, <2>1, <2>3, <2>4, Quiet, RowsStay, RowsPosted, OtherTypes
<1> QED
  BY <1>2, <1>3 DEF WRefresh

(* What was refreshed is stored in the row it was loaded from.               *)
LEMMA StoreInv == ASSUME AccInv, WStore PROVE AccInv'
<1>1. /\ work.at = "store"
      /\ UNCHANGED <<platform, posts, flow, offer, memo, req, latest, grants, redeemed, done, ids, ops>>
  BY DEF WStore
<1>2. /\ work \in Worker /\ WorkOK /\ work.cred \in Cred
  BY DEF AccInv, TypeOK, CredsOK, Worker
<1>3. PICK i \in Ident : i = work.one
  BY <1>1, <1>2 DEF WorkOK
<1>4. work.cred # NoCred /\ work.cred.grant \in 1..grants /\ work.id # 0
  BY <1>1, <1>2 DEF WorkOK
<1>5. CASE Fault /\ RefreshFails /\ UNCHANGED row
  <2>1. /\ work' = Asleep \/ \E b \in BOOLEAN : work' = [work EXCEPT !.at = "complain", !.forced = b]
        /\ work'.at \in {"idle", "complain"}
    BY <1>5, FailsOrGoesOn
  <2>2. /\ work' \in Worker /\ WorkOK'
        /\ work'.at # "idle" => work'.one = work.one /\ work'.id = work.id /\ work'.cred = work.cred
    BY <1>1, <1>5, <2>1, GoesOn
  <2>3. faults' # 0
    BY <1>5, Counters DEF AccInv
  <2>4. TokensOK'
    BY <1>1, <1>5, <2>1, <2>2, <2>3, TokensSame DEF AccInv, Saving
  <2> QED
    BY <1>1, <1>5, <2>2, <2>4, Quiet, RowsStay, RowsPosted, OtherTypes
<1>6. CASE /\ row[i].id = work.id /\ row' = [row EXCEPT ![i].cred = work.cred]
           /\ work' = [work EXCEPT !.at = "publish"] /\ UNCHANGED faults
  <2> DEFINE new == [row[i] EXCEPT !.cred = work.cred]
  <2>1. row' = [row EXCEPT ![i] = new]
    BY <1>6
  <2>2. row[i] \in Row /\ row[i].cred # NoCred /\ RowOK(i)
    BY <1>1, <1>2, <1>3, <1>6, OtherTypes DEF WorkOK, AccInv, CredsOK
  <2>3. new \in Row /\ new.id = row[i].id /\ new.cred = work.cred
    BY <1>2, <2>2 DEF Row
  <2> HIDE DEF new
  <2>4. row' \in [Ident -> Row] /\ row'[i] = new /\ \A j \in Ident : j # i => row'[j] = row[j]
    BY <2>1, <2>3, SetRow DEF AccInv
  <2>5. /\ work' \in Worker /\ work'.at = "publish" /\ work'.one = i /\ work'.id = work.id
        /\ work'.cred = work.cred
    BY <1>2, <1>3, <1>6 DEF Worker
  <2>6. RowOK(i)'
    BY <1>1, <1>4, <2>2, <2>3, <2>4 DEF RowOK
  <2>7. \A j \in Ident :
          /\ RowOK(j)'
          /\ row'[j].id # 0 => row'[j].id = row[j].id /\ (row[j].cred # NoCred => row'[j].cred # NoCred)
          /\ row'[j].id # 0 /\ row'[j].status = "connected" /\ row'[j].cred = NoCred =>
               row[j].status = "connected"
    <3>1. ASSUME NEW j \in Ident, j # i PROVE RowOK(j)'
      BY <1>1, <2>4, <3>1 DEF AccInv, CredsOK, RowOK
    <3> QED
      BY <1>4, <2>3, <2>4, <2>6, <3>1
  <2>8. WorkOK'
    BY <1>1, <1>2, <1>3, <1>4, <2>3, <2>4, <2>5 DEF WorkOK
  <2>9. \A j \in Ident : row'[j].id = row[j].id
    BY <2>3, <2>4
  <2>10. TokensOK'
    <3>1. TokensOK
      BY DEF AccInv
    <3>2. CASE platform # "x"
      BY <1>1, <3>1, <3>2 DEF TokensOK, RotatedTokenIsStored
    <3>3. CASE platform = "x"
      <4> DEFINE g == work.cred.grant
      <4>1. /\ work.cred.ver = latest[g]
            /\ \A j \in Ident : j # i => row[j].cred.grant # g
        BY <1>1, <1>3, <3>1, <3>3 DEF TokensOK
      <4>2. row'[i].cred = work.cred /\ \A j \in Ident : j # i => row'[j].cred = row[j].cred
        BY <2>3, <2>4
      <4>3. RotatedTokenIsStored'
        <5> SUFFICES ASSUME faults = 0, NEW j \in Ident, row'[j].cred # NoCred
                     PROVE  row'[j].cred.ver = latest[row'[j].cred.grant]
          BY <1>1, <1>6 DEF RotatedTokenIsStored
        <5>1. CASE j = i
          BY <4>1, <4>2, <5>1
        <5>2. CASE j # i
          BY <3>1, <3>3, <4>1, <4>2, <5>2 DEF TokensOK, RotatedTokenIsStored
        <5> QED
          BY <5>1, <5>2
      <4>4. \A c \in Client : Saving(c)' =>
              /\ \E j \in Ident : req[c].todo = {j}
              /\ latest[req[c].grant] = 1
              /\ \A j \in Ident : row'[j].cred.grant # req[c].grant
              /\ g # req[c].grant
              /\ \A o \in Client : o # c /\ Saving(o)' => req[o].grant # req[c].grant
        BY <1>1, <3>1, <3>3, <4>2 DEF TokensOK, Saving
      <4>5. \A j, k \in Ident : j # k /\ row'[j].cred # NoCred => row'[j].cred.grant # row'[k].cred.grant
        BY <3>1, <3>3, <4>1, <4>2 DEF TokensOK
      <4>6. \A j \in Ident : j # i => row'[j].cred.grant # g
        BY <4>1, <4>2
      <4> QED
        BY <1>1, <2>5, <3>1, <3>3, <4>3, <4>4, <4>5, <4>6 DEF TokensOK
    <3> QED
      BY <3>2, <3>3
  <2> QED
    BY <1>1, <1>6, <2>4, <2>5, <2>7, <2>8, <2>9, <2>10, Quiet, RowsPosted, OtherTypes
<1> QED
  BY <1>3, <1>5, <1>6 DEF WStore

LEMMA PublishInv == ASSUME AccInv, WPublish PROVE AccInv'
<1>1. /\ work.at = "publish"
      /\ UNCHANGED <<platform, row, posts, flow, offer, memo, req, latest, grants, redeemed, done, ids, ops, faults>>
  BY DEF WPublish, data
<1>2. \/ work' = Asleep
      \/ \E at \in {"refresh", "connected", "complain"}, b \in BOOLEAN :
           work' = [work EXCEPT !.at = at, !.forced = b]
  <2>1. work.forced \in BOOLEAN
    BY DEF AccInv, TypeOK, Worker
  <2>2. CASE work' = [work EXCEPT !.at = "connected"] \/ work' = [work EXCEPT !.at = "complain"]
    BY <2>1, <2>2, Forced
  <2>3. CASE work' = [work EXCEPT !.at = "refresh", !.forced = TRUE]
    BY <2>3
  <2> QED
    BY <2>2, <2>3 DEF WPublish
<1>3. /\ work' \in Worker /\ WorkOK'
      /\ work'.at # "idle" => work'.one = work.one /\ work'.id = work.id /\ work'.cred = work.cred
  BY <1>1, <1>2, GoesOn
<1>4. work'.at # "store"
  BY <1>2, Types DEF AccInv, TypeOK, Worker
<1>5. TokensOK'
  BY <1>1, <1>3, <1>4, TokensSame DEF AccInv, Saving
<1> QED
  BY <1>1, <1>3, <1>5, Quiet, RowsStay, RowsPosted, OtherTypes

LEMMA StatusInv == ASSUME AccInv, WStatus PROVE AccInv'
<1>1. /\ work.at \in {"connected", "complain"} /\ work' = Asleep
      /\ UNCHANGED <<platform, posts, flow, offer, memo, req, latest, grants, redeemed, done, ids, ops, faults>>
  BY DEF WStatus
<1>2. PICK i \in Ident : i = work.one /\ (row[i].id = work.id => row[i].cred # NoCred)
  BY <1>1 DEF AccInv, CredsOK, WorkOK
<1> DEFINE s == IF work.at = "connected" THEN "connected" ELSE "error"
           new == [row[i] EXCEPT !.status = IF row[i].id = work.id THEN s ELSE row[i].status]
<1>3. row' = [row EXCEPT ![i] = new]
  BY <1>2 DEF WStatus, SetStatus
<1>4. /\ new \in Row /\ new.id = row[i].id /\ new.cred = row[i].cred
      /\ new.status = "connected" /\ new.cred = NoCred => row[i].status = "connected"
  BY <1>2, OtherTypes DEF Row
<1> HIDE DEF new
<1>5. /\ row' \in [Ident -> Row]
      /\ \A j \in Ident :
           /\ RowOK(j)'
           /\ row'[j].id # 0 => row'[j].id = row[j].id /\ (row[j].cred # NoCred => row'[j].cred # NoCred)
           /\ row'[j].id # 0 /\ row'[j].status = "connected" /\ row'[j].cred = NoCred =>
                row[j].status = "connected"
      /\ \A j \in Ident : row'[j].id = row[j].id /\ row'[j].cred = row[j].cred
  BY <1>1, <1>3, <1>4, RowTouched
<1>6. work' \in Worker /\ WorkOK' /\ work'.at = "idle"
  BY <1>1, Types DEF WorkOK
<1>7. TokensOK'
  BY <1>1, <1>5, <1>6, TokensSame DEF AccInv, Saving
<1> QED
  BY <1>1, <1>5, <1>6, <1>7, Quiet, RowsPosted, OtherTypes

LEMMA CrashInv == ASSUME AccInv, Crash PROVE AccInv'
<1>1. /\ req' = [c \in Client |-> Idle] /\ work' = Asleep /\ memo' = [f \in Flow |-> "none"] /\ Fault
      /\ UNCHANGED <<platform, row, posts, flow, offer, latest, grants, redeemed, done, ids, ops>>
  BY DEF Crash
<1>2. \A c \in Client : req'[c] = Idle
  BY <1>1
<1>3. \A f \in Flow : memo'[f] = "none"
  BY <1>1
<1>4. TypeOK'
  BY <1>1, Types, Counters DEF AccInv, TypeOK
<1>5. \A c \in Client : RequestOK(c)' /\ ~Saving(c)'
  BY <1>1, <1>2, Types, OtherTypes DEF RequestOK, Saving
<1>6. WorkOK'
  BY <1>1, Types DEF WorkOK
<1>7. CredsOK'
  BY <1>1, <1>5, <1>6 DEF AccInv, CredsOK, RowOK
<1>8. FlowsOK'
  <2> SUFFICES ASSUME NEW f \in Flow PROVE FlowOK(f)'
    BY DEF FlowsOK
  <2>1. FlowOK(f)
    BY DEF AccInv, FlowsOK
  <2>2. \A c \in Client : ~Runs(c, f)' /\ ~Chooses(c, f)'
    BY <1>2, Types DEF Runs, Chooses
  <2> QED
    BY <1>1, <1>3, <2>1, <2>2 DEF FlowOK, NobodyHas
<1>9. faults' # 0
  BY <1>1, Counters DEF AccInv
<1>10. UsableOK'
  BY <1>9 DEF UsableOK, ConnectedIsUsable
<1>11. TokensOK'
  BY <1>1, <1>5, <1>9, Types, TokensSame DEF AccInv
<1> QED
  BY <1>4, <1>7, <1>8, <1>10, <1>11 DEF AccInv

LEMMA StepInv == AccInv /\ [Next]_vars => AccInv'
<1> SUFFICES ASSUME AccInv, [Next]_vars PROVE AccInv'
  OBVIOUS
<1>1. CASE UNCHANGED vars
  <2>1. UNCHANGED <<platform, row, posts, flow, offer, memo, req, work, latest, grants, redeemed, done, ids, ops, faults>>
    BY <1>1 DEF vars, data
  <2>2. TokensOK'
    BY <2>1, TokensSame DEF AccInv, Saving
  <2> QED
    BY <2>1, <2>2, Quiet, RowsStay, RowsPosted, OtherTypes
<1>2. ASSUME NEW c \in Client, Request(c) PROVE AccInv'
  BY <1>2, CallbackInv, SelectInv, ExchangeInv, LookupInv, WriteInv, SaveCredInv, FinishInv, StaticInv,
     AskInv, ConnectInv, EraseInv DEF Request
<1>3. ASSUME NEW f \in Flow, StartFlow(f) \/ FlowExpires(f) \/ OfferExpires(f) PROVE AccInv'
  BY <1>3, FlowTimes
<1>4. ASSUME NEW i \in Ident, Disconnect(i) \/ SetPremium(i) \/ AddPost(i) \/ RemovePost(i) \/ WLoad(i)
      PROVE  AccInv'
  BY <1>4, RowInv, PostInv, LoadInv
<1> QED
  BY <1>1, <1>2, <1>3, <1>4, RefreshInv, StoreInv, PublishInv, StatusInv, CrashInv DEF Next

THEOREM Invariance == Spec => []AccInv
<1>1. AccInv /\ [Next]_vars => AccInv'
  BY StepInv
<1> QED
  BY InitAccInv, <1>1, PTL DEF Spec

(* Every reachable state is well typed. *)
THEOREM TypeCorrect == Spec => []TypeOK
<1>1. AccInv => TypeOK
  BY DEF AccInv
<1> QED
  BY Invariance, <1>1, PTL

(* Whatever callbacks and selections race, fail or are repeated, a code is   *)
(* redeemed once and a repetition is told the truth.                         *)
(* (handleOAuthCallback, handleOAuthSelect)                                  *)
THEOREM CallbacksOnce == Spec => []CallbackOnce
<1>1. AccInv => CallbackOnce
  BY DEF AccInv, FlowsOK, FlowOK, CallbackOnce
<1> QED
  BY Invariance, <1>1, PTL

(* Unless something fails, no refresh token of X is lost, however accounts   *)
(* are connected, deleted and refreshed meanwhile.  (refreshIfNeeded)        *)
THEOREM TokensAreStored == Spec => []RotatedTokenIsStored
<1>1. AccInv => RotatedTokenIsStored
  BY DEF AccInv, TokensOK
<1> QED
  BY Invariance, <1>1, PTL

(* A deletion that races a new post does not leave it without its account.   *)
(* (DeleteAccount)                                                           *)
THEOREM PostsKeepAccounts == Spec => []PostsHaveAccounts
<1>1. AccInv => PostsHaveAccounts
  BY DEF AccInv, CredsOK, PostsHaveAccounts, Exists
<1> QED
  BY Invariance, <1>1, PTL

(* Unless something fails, a connected account has credentials or is about   *)
(* to: neither "connect" nor the worker declares one connected that has none.*)
(* (persistConnectedAccounts, UpdateAccountStatus)                           *)
THEOREM ConnectedStaysUsable == Spec => []ConnectedIsUsable
<1>1. AccInv => ConnectedIsUsable
  BY DEF AccInv, UsableOK
<1> QED
  BY Invariance, <1>1, PTL
=============================================================================
