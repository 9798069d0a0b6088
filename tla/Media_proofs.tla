---------------------------- MODULE Media_proofs ----------------------------
(***************************************************************************)
(* What Media keeps for any number of media, posts, requests and faults.   *)
(***************************************************************************)
EXTENDS Media, FiniteSetTheorems, TLAPS

USE MediaAssumption

(* A file that is being written has no row yet and one writer; a file that   *)
(* is being removed has none any more.                                       *)
RequestsOK ==
  \A r \in Request :
    /\ req[r].at \in {"write", "row"} =>
         /\ req[r].one \in Media /\ row[req[r].one].is = "none"
         /\ \A o \in Request : o # r /\ req[o].at \in {"write", "row"} => req[o].one # req[r].one
    /\ req[r].at = "row" => file[req[r].one] = "whole" /\ ~row[req[r].one].page
    /\ req[r].at = "use" => req[r].one \in Media
    /\ req[r].at \in {"insert", "edit"} => req[r].post \in Post
    /\ \A m \in req[r].files : row[m].is = "gone"
    /\ req[r].at # "remove" => req[r].files = {}

FilesOK ==
  \A m \in Media :
    /\ row[m].is = "there" => file[m] = "whole" /\ ~row[m].page
    /\ row[m].is = "none" /\ file[m] # "none" =>
         m \in leaked \/ \E r \in Request : req[r].at \in {"write", "row"} /\ req[r].one = m
    /\ row[m].is = "gone" /\ file[m] # "none" =>
         m \in leaked \/ \E r \in Request : m \in req[r].files

(* The foreign keys of post_media, and what an attempt has read.             *)
UsesOK ==
  \A p \in Post :
    /\ post[p].media = post[p].given
    /\ \A m \in post[p].media : row[m].is = "there"
    /\ post[p].stage \in {"absent", "gone"} => post[p].media = {}
    /\ post[p].stage = "publishing" /\ attempt[p] # None => attempt[p] = post[p].media

MediaInv == TypeOK /\ RequestsOK /\ FilesOK /\ UsesOK

LEMMA IdleType == Idle \in Reqs /\ Idle.at = "idle" /\ Idle.one = None /\ Idle.files = {} /\ Idle.all = {}
BY DEF Idle, Reqs

(* One request becomes n. *)
LEMMA SetReq ==
  ASSUME TypeOK, NEW r \in Request, NEW n \in Reqs, Set(r, n)
  PROVE  /\ req' \in [Request -> Reqs]
         /\ req'[r] = n
         /\ \A o \in Request : o # r => req'[o] = req[o]
BY DEF TypeOK, Set

LEMMA InitMediaInv == Init => MediaInv
<1> SUFFICES ASSUME Init PROVE MediaInv
  OBVIOUS
<1> USE DEF Init
<1>1. NoPost \in Posts /\ NoPost.media = {} /\ NoPost.given = {} /\ NoPost.stage = "absent"
  BY DEF NoPost, Posts, Stage
<1>2. faults \in 0..MaxFaults
  OBVIOUS
<1>3. TypeOK
  BY <1>1, <1>2, IdleType DEF TypeOK
<1>4. RequestsOK
  BY IdleType DEF RequestsOK
<1>5. FilesOK
  BY DEF FilesOK
<1>6. UsesOK
  BY <1>1 DEF UsesOK
<1> QED
  BY <1>3, <1>4, <1>5, <1>6 DEF MediaInv

-----------------------------------------------------------------------------
(* Uploads. *)
LEMMA BeginFileInv ==
  ASSUME MediaInv, NEW r \in Request, NEW m \in Media, BeginFile(r, m)
  PROVE  MediaInv'
<1> USE DEF MediaInv
<1> DEFINE n == [Idle EXCEPT !.at = "write", !.one = m]
<1>1. /\ UNCHANGED <<row, post, variant, attempt, leaked, faults>>
      /\ req[r] = Idle /\ file[m] = "none" /\ row[m].is = "none"
      /\ \A o \in Request : req[o].one # m
      /\ file' = [file EXCEPT ![m] = "part"]
      /\ Set(r, n)
  BY DEF BeginFile
<1>2. n \in Reqs /\ n.at = "write" /\ n.one = m /\ n.files = {}
  BY IdleType DEF Reqs
<1> HIDE DEF n
<1>3. req' \in [Request -> Reqs] /\ req'[r] = n /\ \A o \in Request : o # r => req'[o] = req[o]
  BY <1>1, <1>2, SetReq
<1>4. /\ file' \in [Media -> {"none", "part", "whole"}]
      /\ \A k \in Media : k # m => file'[k] = file[k]
  BY <1>1 DEF TypeOK
<1>5. TypeOK'
  BY <1>1, <1>3, <1>4 DEF TypeOK
<1>6. RequestsOK'
  <2> SUFFICES ASSUME NEW q \in Request PROVE RequestsOK!(q)'
    BY DEF RequestsOK
  <2>1. CASE q = r
    BY <1>1, <1>2, <1>3, <2>1
  <2>2. CASE q # r
    <3>1. RequestsOK!(q) /\ req'[q] = req[q] /\ req[q].one # m
      BY <1>1, <1>3, <2>2 DEF RequestsOK
    <3>2. req[q].one \in Media => file'[req[q].one] = file[req[q].one]
      BY <1>4, <3>1
    <3> QED
      BY <1>1, <1>2, <1>3, <3>1, <3>2
  <2> QED
    BY <2>1, <2>2
<1>7. FilesOK'
  <2> SUFFICES ASSUME NEW k \in Media PROVE FilesOK!(k)'
    BY DEF FilesOK
  <2>1. CASE k = m
    BY <1>1, <1>2, <1>3, <2>1
  <2>2. CASE k # m
    <3>1. FilesOK!(k) /\ file'[k] = file[k]
      BY <1>4, <2>2 DEF FilesOK
    <3>2. \A q \in Request :
            /\ req[q].at \in {"write", "row"} => req'[q] = req[q]
            /\ k \in req[q].files => req'[q] = req[q]
      BY <1>1, <1>3, IdleType
    <3> QED
      BY <1>1, <3>1, <3>2
  <2> QED
    BY <2>1, <2>2
<1>8. UsesOK'
  BY <1>1 DEF UsesOK
<1> QED
  BY <1>5, <1>6, <1>7, <1>8

(* A request that writes no file and no row, and removes none.               *)
LEMMA QuietRequest ==
  ASSUME MediaInv, NEW r \in Request, NEW n \in Reqs, Set(r, n),
         UNCHANGED <<file, row>>, leaked \subseteq leaked',
         n.at \notin {"write", "row"}, n.files = {}, req[r].files \subseteq leaked',
         req[r].at \in {"write", "row"} => req[r].one \in leaked',
         n.at = "use" => n.one \in Media,
         n.at \in {"insert", "edit"} => n.post \in Post
  PROVE  req' \in [Request -> Reqs] /\ RequestsOK' /\ FilesOK'
<1> USE DEF MediaInv
<1>1. req' \in [Request -> Reqs] /\ req'[r] = n /\ \A o \in Request : o # r => req'[o] = req[o]
  BY SetReq
<1>2. RequestsOK'
  <2> SUFFICES ASSUME NEW q \in Request PROVE RequestsOK!(q)'
    BY DEF RequestsOK
  <2>1. CASE q = r
    BY <1>1, <2>1
  <2>2. CASE q # r
    <3>1. RequestsOK!(q) /\ req'[q] = req[q]
      BY <1>1, <2>2 DEF RequestsOK
    <3> QED
      BY <1>1, <3>1
  <2> QED
    BY <2>1, <2>2
<1>3. FilesOK'
  <2> SUFFICES ASSUME NEW k \in Media PROVE FilesOK!(k)'
    BY DEF FilesOK
  <2>1. FilesOK!(k)
    BY DEF FilesOK
  <2> QED
    BY <1>1, <2>1
<1> QED
  BY <1>1, <1>2, <1>3

(* A file that is not kept. *)
LEMMA Discard ==
  ASSUME MediaInv, NEW r \in Request, req[r].at \in {"write", "row"},
         file' = [file EXCEPT ![req[r].one] = "none"], Set(r, Idle), UNCHANGED <<row, leaked>>
  PROVE  /\ file' \in [Media -> {"none", "part", "whole"}]
         /\ req' \in [Request -> Reqs] /\ RequestsOK' /\ FilesOK'
<1> USE DEF MediaInv
<1>1. req' \in [Request -> Reqs] /\ req'[r] = Idle /\ \A o \in Request : o # r => req'[o] = req[o]
  BY IdleType, SetReq
<1>2. PICK m \in Media : m = req[r].one
  BY DEF RequestsOK
<1>3. /\ file' \in [Media -> {"none", "part", "whole"}]
      /\ file'[m] = "none" /\ \A k \in Media : k # m => file'[k] = file[k]
  BY <1>2 DEF TypeOK
<1>4. row[m].is = "none" /\ \A o \in Request : o # r /\ req[o].at \in {"write", "row"} => req[o].one # m
  BY <1>2 DEF RequestsOK
<1>5. RequestsOK'
  <2> SUFFICES ASSUME NEW q \in Request PROVE RequestsOK!(q)'
    BY DEF RequestsOK
  <2>1. CASE q = r
    BY <1>1, <2>1, IdleType
  <2>2. CASE q # r
    <3>1. RequestsOK!(q) /\ req'[q] = req[q]
      BY <1>1, <2>2 DEF RequestsOK
    <3>2. req[q].at = "row" => file'[req[q].one] = file[req[q].one]
      BY <1>3, <1>4, <2>2, <3>1
    <3> QED
      BY <1>1, <3>1, <3>2, IdleType
  <2> QED
    BY <2>1, <2>2
<1>6. FilesOK'
  <2> SUFFICES ASSUME NEW k \in Media PROVE FilesOK!(k)'
    BY DEF FilesOK
  <2>1. CASE k = m
    BY <1>3, <1>4, <2>1
  <2>2. CASE k # m
    <3>1. FilesOK!(k) /\ file'[k] = file[k]
      BY <1>3, <2>2 DEF FilesOK
    <3>2. \A q \in Request : req[q].at \in {"write", "row"} /\ req[q].one = k => q # r
      BY <1>2, <2>2
    <3>3. req[r].files = {}
      BY DEF RequestsOK
    <3>4. \A q \in Request : k \in req[q].files => req'[q] = req[q]
      BY <1>1, <3>3
    <3> QED
      BY <1>1, <3>1, <3>2, <3>4
  <2> QED
    BY <2>1, <2>2
<1> QED
  BY <1>1, <1>3, <1>5, <1>6

LEMMA WriteFileInv ==
  ASSUME MediaInv, NEW r \in Request,
         NEW declared, NEW sniffed, NEW ext,
         WriteFile(r, declared, sniffed, ext)
  PROVE  MediaInv'
<1> USE DEF MediaInv
<1> DEFINE t == Detected(declared, sniffed, ext)
<1>1. /\ UNCHANGED <<post, variant, attempt, leaked, faults>> /\ req[r].at = "write"
      /\ \/ /\ t # "page"
            /\ file' = [file EXCEPT ![req[r].one] = "whole"]
            /\ row' = [row EXCEPT ![req[r].one].page = "page" \in {sniffed, t}]
            /\ Set(r, [req[r] EXCEPT !.at = "row"])
         \/ file' = [file EXCEPT ![req[r].one] = "none"] /\ Set(r, Idle) /\ UNCHANGED row
  BY DEF WriteFile, Refused
<1>2. CASE file' = [file EXCEPT ![req[r].one] = "none"] /\ Set(r, Idle) /\ UNCHANGED row
  <2>1. /\ file' \in [Media -> {"none", "part", "whole"}]
        /\ req' \in [Request -> Reqs] /\ RequestsOK' /\ FilesOK'
    BY <1>1, <1>2, Discard
  <2>2. TypeOK' /\ UsesOK'
    BY <1>1, <1>2, <2>1 DEF TypeOK, UsesOK
  <2> QED
    BY <2>1, <2>2
<1>3. CASE /\ t # "page"
           /\ file' = [file EXCEPT ![req[r].one] = "whole"]
           /\ row' = [row EXCEPT ![req[r].one].page = "page" \in {sniffed, t}]
           /\ Set(r, [req[r] EXCEPT !.at = "row"])
  <2>1. sniffed # "page" /\ ("page" \in {sniffed, t}) = FALSE
    <3>1. sniffed # "page"
      <4> SUFFICES ASSUME sniffed = "page" PROVE FALSE
        OBVIOUS
      <4>1. t = "page"
        BY DEF Detected
      <4> QED
        BY <1>3, <4>1
    <3> HIDE DEF t
    <3>2. "page" \notin {sniffed, t}
      BY <1>3, <3>1
    <3> QED
      BY <3>1, <3>2
  <2> HIDE DEF t
  <2>2. PICK m \in Media : m = req[r].one
    BY <1>1 DEF RequestsOK
  <2>3. /\ file' \in [Media -> {"none", "part", "whole"}]
        /\ file'[m] = "whole" /\ \A k \in Media : k # m => file'[k] = file[k]
    BY <1>3, <2>2 DEF TypeOK
  <2>4. row' = [row EXCEPT ![m].page = FALSE]
    BY <1>3, <2>1, <2>2
  <2>5. /\ row' \in [Media -> [is : {"none", "there", "gone"}, page : BOOLEAN]]
        /\ \A k \in Media : row'[k].is = row[k].is /\ (k # m => row'[k] = row[k])
        /\ ~row'[m].page
    BY <2>4 DEF TypeOK
  <2>6. PICK n \in Reqs : n = [req[r] EXCEPT !.at = "row"]
    BY DEF TypeOK, Reqs
  <2>7. n.at = "row" /\ n.one = m /\ n.files = req[r].files
    BY <2>2, <2>6 DEF TypeOK, Reqs
  <2>8. req' \in [Request -> Reqs] /\ req'[r] = n /\ \A o \in Request : o # r => req'[o] = req[o]
    BY <1>3, <2>6, SetReq
  <2>9. row[m].is = "none" /\ \A o \in Request : o # r /\ req[o].at \in {"write", "row"} => req[o].one # m
    BY <1>1, <2>2 DEF RequestsOK
  <2>10. TypeOK' /\ UsesOK'
    <3>1. TypeOK'
      BY <1>1, <2>3, <2>5, <2>8 DEF TypeOK
    <3>2. UsesOK'
      <4> SUFFICES ASSUME NEW p \in Post PROVE UsesOK!(p)'
        BY DEF UsesOK
      <4>1. UsesOK!(p) /\ post[p].media \subseteq Media
        BY DEF UsesOK, TypeOK, Posts
      <4> QED
        BY <1>1, <2>5, <4>1
    <3> QED
      BY <3>1, <3>2
  <2>11. RequestsOK'
    <3> SUFFICES ASSUME NEW q \in Request PROVE RequestsOK!(q)'
      BY DEF RequestsOK
    <3>1. RequestsOK!(q) /\ req[q].files \subseteq Media
      BY DEF RequestsOK, TypeOK, Reqs
    <3>2. CASE q = r
      <4>1. req[r].files = {}
        BY <1>1 DEF RequestsOK
      <4> QED
        BY <2>3, <2>5, <2>7, <2>8, <2>9, <3>2, <4>1
    <3>3. CASE q # r
      <4>1. req'[q] = req[q]
        BY <2>8, <3>3
      <4>2. req[q].at \in {"write", "row"} =>
              /\ req[q].one # m
              /\ row'[req[q].one] = row[req[q].one] /\ file'[req[q].one] = file[req[q].one]
        BY <2>3, <2>5, <2>9, <3>1, <3>3
      <4>3. \A o \in Request : o # q /\ req'[o].at \in {"write", "row"} =>
              \/ o = r /\ req'[o].one = m
              \/ o # r /\ req[o].at \in {"write", "row"} /\ req'[o].one = req[o].one
        BY <2>7, <2>8
      <4> QED
        BY <2>5, <3>1, <4>1, <4>2, <4>3
    <3> QED
      BY <3>2, <3>3
  <2>12. FilesOK'
    <3> SUFFICES ASSUME NEW k \in Media PROVE FilesOK!(k)'
      BY DEF FilesOK
    <3>1. CASE k = m
      BY <2>3, <2>5, <2>7, <2>8, <2>9, <3>1
    <3>2. CASE k # m
      <4>1. FilesOK!(k) /\ file'[k] = file[k] /\ row'[k] = row[k]
        BY <2>3, <2>5, <3>2 DEF FilesOK
      <4>2. \A q \in Request :
              /\ req[q].at \in {"write", "row"} /\ req[q].one = k => req'[q] = req[q]
              /\ k \in req[q].files => k \in req'[q].files
        BY <2>2, <2>7, <2>8, <3>2
      <4> QED
        BY <1>1, <4>1, <4>2
    <3> QED
      BY <3>1, <3>2
  <2> QED
    BY <2>10, <2>11, <2>12
<1> QED
  BY <1>1, <1>2, <1>3

LEMMA WriteFailsInv ==
  ASSUME MediaInv, NEW r \in Request, WriteFails(r)
  PROVE  MediaInv'
<1> USE DEF MediaInv
<1>1. /\ UNCHANGED <<file, row, post, variant, attempt>>
      /\ req[r].at = "write" /\ Set(r, Idle) /\ leaked' = leaked \cup {req[r].one}
      /\ faults < MaxFaults /\ faults' = faults + 1
  BY DEF WriteFails, Fault
<1>2. req[r].one \in Media /\ req[r].files = {}
  BY <1>1 DEF RequestsOK
<1>3. req' \in [Request -> Reqs] /\ RequestsOK' /\ FilesOK'
  <2> HIDE DEF MediaInv
  <2> QED
    BY <1>1, <1>2, QuietRequest, IdleType
<1>4. faults' \in 0..MaxFaults
  BY <1>1 DEF TypeOK
<1>5. TypeOK' /\ UsesOK'
  BY <1>1, <1>2, <1>3, <1>4 DEF TypeOK, UsesOK
<1> QED
  BY <1>3, <1>5

LEMMA CreateMediaFailsInv ==
  ASSUME MediaInv, NEW r \in Request, CreateMediaFails(r)
  PROVE  MediaInv'
<1> USE DEF MediaInv
<1>1. /\ UNCHANGED <<row, post, variant, attempt, leaked>> /\ req[r].at = "row" /\ Set(r, Idle)
      /\ file' = [file EXCEPT ![req[r].one] = "none"]
      /\ faults < MaxFaults /\ faults' = faults + 1
  BY DEF CreateMediaFails, Fault
<1>2. /\ file' \in [Media -> {"none", "part", "whole"}]
      /\ req' \in [Request -> Reqs] /\ RequestsOK' /\ FilesOK'
  BY <1>1, Discard
<1>3. faults' \in 0..MaxFaults
  BY <1>1 DEF TypeOK
<1>4. TypeOK' /\ UsesOK'
  BY <1>1, <1>2, <1>3 DEF TypeOK, UsesOK
<1> QED
  BY <1>2, <1>4

LEMMA CreateMediaInv ==
  ASSUME MediaInv, NEW r \in Request, CreateMedia(r)
  PROVE  MediaInv'
<1> USE DEF MediaInv
<1>1. /\ UNCHANGED <<file, post, variant, attempt, leaked, faults>> /\ req[r].at = "row"
      /\ row' = [row EXCEPT ![req[r].one].is = "there"]
      /\ Set(r, Idle) \/ Set(r, [req[r] EXCEPT !.at = "use"])
  BY DEF CreateMedia
<1>2. PICK m \in Media : m = req[r].one
  BY <1>1 DEF RequestsOK
<1>3. /\ row[m].is = "none" /\ file[m] = "whole" /\ ~row[m].page /\ req[r].files = {}
      /\ \A o \in Request : o # r /\ req[o].at \in {"write", "row"} => req[o].one # m
  BY <1>1, <1>2 DEF RequestsOK
<1>4. row' = [row EXCEPT ![m].is = "there"]
  BY <1>1, <1>2
<1>5. /\ row' \in [Media -> [is : {"none", "there", "gone"}, page : BOOLEAN]]
      /\ row'[m].is = "there" /\ ~row'[m].page /\ \A k \in Media : k # m => row'[k] = row[k]
  BY <1>3, <1>4 DEF TypeOK
<1>6. PICK n \in Reqs : /\ Set(r, n) /\ n.at \in {"idle", "use"} /\ n.files = {}
                        /\ n.at = "use" => n.one = m
  <2>1. [req[r] EXCEPT !.at = "use"] \in Reqs
    BY DEF TypeOK, Reqs
  <2>2. /\ [req[r] EXCEPT !.at = "use"].at = "use" /\ [req[r] EXCEPT !.at = "use"].one = m
        /\ [req[r] EXCEPT !.at = "use"].files = {}
    BY <1>2, <1>3 DEF TypeOK, Reqs
  <2> QED
    BY <1>1, <2>1, <2>2, IdleType
<1>7. req' \in [Request -> Reqs] /\ req'[r] = n /\ \A o \in Request : o # r => req'[o] = req[o]
  BY <1>6, SetReq
<1>8. TypeOK'
  BY <1>1, <1>5, <1>7 DEF TypeOK
<1>9. UsesOK'
  <2> SUFFICES ASSUME NEW p \in Post PROVE UsesOK!(p)'
    BY DEF UsesOK
  <2>1. UsesOK!(p) /\ post[p].media \subseteq Media
    BY DEF UsesOK, TypeOK, Posts
  <2> QED
    BY <1>1, <1>5, <2>1
<1>10. RequestsOK'
  <2> SUFFICES ASSUME NEW q \in Request PROVE RequestsOK!(q)'
    BY DEF RequestsOK
  <2>1. CASE q = r
    BY <1>6, <1>7, <2>1
  <2>2. CASE q # r
    <3>1. RequestsOK!(q) /\ req'[q] = req[q] /\ req[q].files \subseteq Media
      BY <1>7, <2>2 DEF RequestsOK, TypeOK, Reqs
    <3>2. req[q].at \in {"write", "row"} => row'[req[q].one] = row[req[q].one]
      BY <1>3, <1>5, <2>2, <3>1
    <3>3. \A k \in req[q].files : row'[k].is = "gone"
      BY <1>3, <1>5, <3>1
    <3> QED
      BY <1>1, <1>6, <1>7, <3>1, <3>2, <3>3
  <2> QED
    BY <2>1, <2>2
<1>11. FilesOK'
  <2> SUFFICES ASSUME NEW k \in Media PROVE FilesOK!(k)'
    BY DEF FilesOK
  <2>1. CASE k = m
    BY <1>1, <1>3, <1>5, <2>1
  <2>2. CASE k # m
    <3>1. FilesOK!(k) /\ row'[k] = row[k]
      BY <1>5, <2>2 DEF FilesOK
    <3>2. \A q \in Request :
            /\ req[q].at \in {"write", "row"} /\ req[q].one = k => req'[q] = req[q]
            /\ k \in req[q].files => req'[q] = req[q]
      BY <1>2, <1>3, <1>7, <2>2
    <3> QED
      BY <1>1, <3>1, <3>2
  <2> QED
    BY <2>1, <2>2
<1> QED
  BY <1>8, <1>9, <1>10, <1>11

-----------------------------------------------------------------------------
(* Requests that use media. *)
LEMMA CheckMediaInv ==
  ASSUME MediaInv, NEW r \in Request, NEW p \in Post, NEW all \in SUBSET Media, CheckMedia(r, p, all)
  PROVE  MediaInv'
<1> DEFINE at == IF post[p].stage = "absent" THEN "insert" ELSE "edit"
           n  == [Idle EXCEPT !.at = at, !.post = p, !.all = all]
<1>1. UNCHANGED <<file, row, post, variant, attempt, leaked, faults>> /\ req[r] = Idle /\ Set(r, n)
  BY DEF CheckMedia
<1>2. at \in {"insert", "edit"}
  OBVIOUS
<1> HIDE DEF at
<1>3. n \in Reqs /\ n.at = at /\ n.files = {} /\ n.post = p
  BY <1>2 DEF Idle, Reqs
<1> HIDE DEF n
<1>4. req' \in [Request -> Reqs] /\ RequestsOK' /\ FilesOK'
  BY <1>1, <1>2, <1>3, QuietRequest, IdleType
<1>5. TypeOK' /\ UsesOK'
  BY <1>1, <1>4 DEF MediaInv, TypeOK, UsesOK
<1> QED
  BY <1>4, <1>5 DEF MediaInv

LEMMA WritePostInv ==
  ASSUME MediaInv, NEW r \in Request, WritePost(r)
  PROVE  MediaInv'
<1>1. /\ UNCHANGED <<file, row, variant, attempt, leaked, faults>> /\ Set(r, Idle)
      /\ \/ req[r].at = "insert" /\ post[req[r].post].stage = "absent"
         \/ req[r].at = "edit" /\ post[req[r].post].stage \in Editable
      /\ \A m \in req[r].all : row[m].is = "there"
  BY DEF WritePost, There
<1>2. PICK to \in {"draft", "scheduled"} :
        post' = [post EXCEPT ![req[r].post] = [stage |-> to, media |-> req[r].all, given |-> req[r].all]]
  BY DEF WritePost
<1>3. /\ req[r].post \in Post /\ req[r].files = {} /\ req[r].all \subseteq Media
      /\ req[r].at \notin {"write", "row"}
  BY <1>1 DEF MediaInv, RequestsOK, TypeOK, Reqs
<1>4. req' \in [Request -> Reqs] /\ RequestsOK' /\ FilesOK'
  BY <1>1, <1>3, QuietRequest, IdleType
<1>5. PICK p \in Post : p = req[r].post
  BY <1>3
<1>6. PICK row1 \in Posts : row1 = [stage |-> to, media |-> req[r].all, given |-> req[r].all]
  BY <1>3 DEF Posts, Stage
<1>7. post' \in [Post -> Posts] /\ post'[p] = row1 /\ \A o \in Post : o # p => post'[o] = post[o]
  BY <1>2, <1>5, <1>6 DEF MediaInv, TypeOK
<1>8. TypeOK'
  BY <1>1, <1>4, <1>7 DEF MediaInv, TypeOK
<1>9. UsesOK'
  <2> SUFFICES ASSUME NEW q \in Post PROVE UsesOK!(q)'
    BY DEF UsesOK
  <2>1. CASE q = p
    BY <1>1, <1>6, <1>7, <2>1
  <2>2. CASE q # p
    <3>1. UsesOK!(q) /\ post'[q] = post[q]
      BY <1>7, <2>2 DEF MediaInv, UsesOK
    <3> QED
      BY <1>1, <3>1
  <2> QED
    BY <2>1, <2>2
<1> QED
  BY <1>4, <1>8, <1>9 DEF MediaInv

LEMMA WritePostFailsInv ==
  ASSUME MediaInv, NEW r \in Request, WritePostFails(r)
  PROVE  MediaInv'
<1>1. /\ UNCHANGED <<file, row, post, variant, attempt, leaked, faults>> /\ Set(r, Idle)
      /\ req[r].at \in {"insert", "edit"}
  BY DEF WritePostFails
<1>2. req[r].files = {}
  BY <1>1 DEF MediaInv, RequestsOK
<1>3. req' \in [Request -> Reqs] /\ RequestsOK' /\ FilesOK'
  BY <1>1, <1>2, QuietRequest, IdleType
<1>4. TypeOK' /\ UsesOK'
  BY <1>1, <1>3 DEF MediaInv, TypeOK, UsesOK
<1> QED
  BY <1>3, <1>4 DEF MediaInv

LEMMA UseGeneratedInv ==
  ASSUME MediaInv, NEW r \in Request, UseGenerated(r)
  PROVE  MediaInv'
<1>1. /\ UNCHANGED <<file, row, post, attempt, leaked, faults>> /\ req[r].at = "use"
      /\ variant' \in {variant, req[r].one}
      /\ \/ Set(r, Idle)
         \/ \E p \in Post : Set(r, [Idle EXCEPT !.at = "insert", !.post = p, !.all = {req[r].one}])
  BY DEF UseGenerated
<1>2. req[r].files = {} /\ req[r].one \in Media
  BY <1>1 DEF MediaInv, RequestsOK
<1>3. PICK n \in Reqs : /\ Set(r, n) /\ n.at \in {"idle", "insert"} /\ n.files = {}
                        /\ n.at = "insert" => n.post \in Post
  <2>1. CASE Set(r, Idle)
    BY <2>1, IdleType
  <2>2. CASE \E p \in Post : Set(r, [Idle EXCEPT !.at = "insert", !.post = p, !.all = {req[r].one}])
    <3>1. PICK p \in Post : Set(r, [Idle EXCEPT !.at = "insert", !.post = p, !.all = {req[r].one}])
      BY <2>2
    <3> DEFINE n == [Idle EXCEPT !.at = "insert", !.post = p, !.all = {req[r].one}]
    <3>2. n \in Reqs /\ n.at = "insert" /\ n.files = {} /\ n.post = p
      BY <1>2 DEF Idle, Reqs
    <3>3. Set(r, n)
      BY <3>1
    <3> HIDE DEF n
    <3> QED
      BY <3>2, <3>3
  <2> QED
    BY <1>1, <2>1, <2>2
<1>4. req' \in [Request -> Reqs] /\ RequestsOK' /\ FilesOK'
  BY <1>1, <1>2, <1>3, QuietRequest
<1>5. TypeOK' /\ UsesOK'
  BY <1>1, <1>2, <1>4 DEF MediaInv, TypeOK, UsesOK
<1> QED
  BY <1>4, <1>5 DEF MediaInv

LEMMA EditVariantInv ==
  ASSUME MediaInv, NEW m \in Media \cup {None}, EditVariant(m)
  PROVE  MediaInv'
<1>1. UNCHANGED <<file, row, post, attempt, req, leaked, faults>> /\ variant' = m
  BY DEF EditVariant
<1>2. TypeOK' /\ RequestsOK' /\ FilesOK' /\ UsesOK'
  BY <1>1 DEF MediaInv, TypeOK, RequestsOK, FilesOK, UsesOK
<1> QED
  BY <1>2 DEF MediaInv

-----------------------------------------------------------------------------
(* Deletions.  What is deleted, no post that can still go out has.           *)

(* The count is zero if and only if nothing is counted. *)
LEMMA CountedByNone ==
  ASSUME NEW m
  PROVE  Usage(m) = 0 <=>
           /\ \A p \in Post : m \in post[p].media => post[p].stage \in {"published", "canceled"}
           /\ variant # m
<1> DEFINE S == {p \in Post : m \in post[p].media /\ post[p].stage \notin {"published", "canceled"}}
<1>1. IsFiniteSet(S)
  BY FS_Subset
<1>2. Cardinality(S) \in Nat /\ (Cardinality(S) = 0 <=> S = {})
  BY <1>1, FS_CardinalityType, FS_EmptySet
<1>3. S = {} <=> \A p \in Post : m \in post[p].media => post[p].stage \in {"published", "canceled"}
  OBVIOUS
<1>4. Usage(m) = Cardinality(S) + (IF variant = m THEN 1 ELSE 0)
  BY DEF Usage
<1> HIDE DEF S
<1>5. Usage(m) = 0 <=> Cardinality(S) = 0 /\ variant # m
  BY <1>2, <1>4
<1> QED
  BY <1>2, <1>3, <1>5

LEMMA DeletesInv ==
  ASSUME MediaInv, NEW r \in Request, Deletes(r)
  PROVE  MediaInv'
<1>1. PICK all \in SUBSET Media :
        /\ req[r] = Idle /\ DeleteRows(r, all)
        /\ \A m \in all : row[m].is = "there"
        /\ \A m \in all, p \in Post : m \in post[p].media => post[p].stage \in {"published", "canceled"}
  <2>1. CASE \E m \in Media : DeleteMediaIfUnused(r, m)
    <3>1. PICK m \in Media : DeleteMediaIfUnused(r, m)
      BY <2>1
    <3>2. \A k \in {m} : k = m
      OBVIOUS
    <3> QED
      BY <3>1, <3>2, CountedByNone DEF DeleteMediaIfUnused, There
  <2>2. CASE DeleteMediaUnusedByPendingPosts(r)
    <3> DEFINE all == {m \in Media : Unused(m)}
    <3>1. all \in SUBSET Media /\ req[r] = Idle /\ DeleteRows(r, all)
      BY <2>2 DEF DeleteMediaUnusedByPendingPosts
    <3>2. \A m \in all : /\ row[m].is = "there"
                         /\ \A p \in Post : m \in post[p].media => post[p].stage \in {"published", "canceled"}
      BY DEF Unused, There
    <3> QED
      BY <3>1, <3>2
  <2> QED
    BY <2>1, <2>2 DEF Deletes
<1> USE DEF MediaInv
<1> DEFINE n == [Idle EXCEPT !.at = "remove", !.files = all]
           Kept(p) == [post[p] EXCEPT !.media = @ \ all,
                        !.given = IF post[p].stage \in {"published", "canceled"} THEN @ \ all ELSE @]
<1>2. /\ UNCHANGED <<file, variant, attempt, leaked, faults>> /\ Set(r, n)
      /\ row' = [m \in Media |-> IF m \in all THEN [row[m] EXCEPT !.is = "gone"] ELSE row[m]]
      /\ post' = [p \in Post |-> Kept(p)]
  BY <1>1 DEF DeleteRows
<1>3. n \in Reqs /\ n.at = "remove" /\ n.files = all
  BY DEF Idle, Reqs
<1>4. \A p \in Post :
        /\ post'[p] \in Posts /\ post'[p].stage = post[p].stage
        /\ post'[p].media = post[p].media \ all
        /\ post'[p].given = post'[p].media
        /\ post[p].stage \notin {"published", "canceled"} => post'[p].media = post[p].media
  <2> SUFFICES ASSUME NEW p \in Post, NEW k, k = Kept(p)
               PROVE  /\ k \in Posts /\ k.stage = post[p].stage
                      /\ k.media = post[p].media \ all
                      /\ k.given = k.media
                      /\ post[p].stage \notin {"published", "canceled"} => k.media = post[p].media
    BY <1>2
  <2>1. /\ post[p] \in Posts /\ post[p].media = post[p].given /\ post[p].media \subseteq Media
        /\ \A m \in all : m \in post[p].media => post[p].stage \in {"published", "canceled"}
    BY <1>1 DEF TypeOK, UsesOK, Posts
  <2>2. post[p].stage \notin {"published", "canceled"} => post[p].media \ all = post[p].media
    BY <2>1
  <2> QED
    BY <2>1, <2>2 DEF Posts
<1>5. /\ row' \in [Media -> [is : {"none", "there", "gone"}, page : BOOLEAN]]
      /\ \A m \in all : row'[m].is = "gone"
      /\ \A m \in Media : m \notin all => row'[m] = row[m]
  BY <1>2 DEF TypeOK
<1> HIDE DEF n, Kept
<1>6. req' \in [Request -> Reqs] /\ req'[r] = n /\ \A o \in Request : o # r => req'[o] = req[o]
  BY <1>2, <1>3, SetReq
<1>7. TypeOK'
  <2>1. post' \in [Post -> Posts]
    BY <1>2, <1>4
  <2> QED
    BY <1>2, <1>5, <1>6, <2>1 DEF TypeOK
<1>8. RequestsOK'
  <2> SUFFICES ASSUME NEW q \in Request PROVE RequestsOK!(q)'
    BY DEF RequestsOK
  <2>1. CASE q = r
    BY <1>3, <1>5, <1>6, <2>1
  <2>2. CASE q # r
    <3>1. RequestsOK!(q) /\ req'[q] = req[q] /\ req[q].files \subseteq Media
      BY <1>6, <2>2 DEF RequestsOK, TypeOK, Reqs
    <3>2. req[q].at \in {"write", "row"} => row'[req[q].one] = row[req[q].one]
      BY <1>1, <1>5, <3>1
    <3>3. \A m \in req[q].files : row'[m].is = "gone"
      BY <1>5, <3>1
    <3>4. \A o \in Request : req'[o].at \in {"write", "row"} => req'[o] = req[o]
      BY <1>3, <1>6
    <3> QED
      BY <1>2, <3>1, <3>2, <3>3, <3>4
  <2> QED
    BY <2>1, <2>2
<1>9. FilesOK'
  <2> SUFFICES ASSUME NEW m \in Media PROVE FilesOK!(m)'
    BY DEF FilesOK
  <2>1. CASE m \in all
    BY <1>3, <1>5, <1>6, <2>1
  <2>2. CASE m \notin all
    <3>1. FilesOK!(m) /\ row'[m] = row[m]
      BY <1>5, <2>2 DEF FilesOK
    <3>2. \A q \in Request : req[q].at \in {"write", "row"} \/ m \in req[q].files => req'[q] = req[q]
      BY <1>1, <1>6, IdleType
    <3> QED
      BY <1>2, <3>1, <3>2
  <2> QED
    BY <2>1, <2>2
<1>10. UsesOK'
  <2> SUFFICES ASSUME NEW p \in Post PROVE UsesOK!(p)'
    BY DEF UsesOK
  <2>1. UsesOK!(p) /\ post[p].media \subseteq Media
    BY DEF UsesOK, TypeOK, Posts
  <2> QED
    BY <1>2, <1>4, <1>5, <2>1
<1> QED
  BY <1>7, <1>8, <1>9, <1>10

LEMMA RemoveFileInv ==
  ASSUME MediaInv, NEW r \in Request, NEW m \in Media, RemoveFile(r, m)
  PROVE  MediaInv'
<1> USE DEF MediaInv
<1> DEFINE left == req[r].files \ {m}
<1>1. /\ UNCHANGED <<row, post, variant, attempt>> /\ req[r].at = "remove" /\ m \in req[r].files
      /\ Set(r, IF left = {} THEN Idle ELSE [req[r] EXCEPT !.files = left])
      /\ \/ file' = [file EXCEPT ![m] = "none"] /\ UNCHANGED <<leaked, faults>>
         \/ /\ faults < MaxFaults /\ faults' = faults + 1
            /\ leaked' = leaked \cup {m} /\ UNCHANGED file
  BY DEF RemoveFile, Fault
<1>2. row[m].is = "gone"
  BY <1>1 DEF RequestsOK
<1>3. PICK n \in Reqs : Set(r, n) /\ n.at \in {"idle", "remove"} /\ n.files = left
                        /\ (n.at # "remove" => n.files = {})
  <2>1. ASSUME NEW n, n = [req[r] EXCEPT !.files = left]
        PROVE  n \in Reqs /\ n.at = "remove" /\ n.files = left
    BY <1>1, <2>1 DEF TypeOK, Reqs
  <2> QED
    BY <1>1, <2>1, IdleType
<1> HIDE DEF left
<1>4. req' \in [Request -> Reqs] /\ req'[r] = n /\ \A o \in Request : o # r => req'[o] = req[o]
  BY <1>3, SetReq
<1>5. /\ file' \in [Media -> {"none", "part", "whole"}]
      /\ \A k \in Media : k # m => file'[k] = file[k]
      /\ leaked \subseteq leaked' /\ leaked' \subseteq Media
      /\ file'[m] = "none" \/ m \in leaked'
      /\ faults' \in 0..MaxFaults
  BY <1>1 DEF TypeOK
<1>6. TypeOK' /\ UsesOK'
  BY <1>1, <1>4, <1>5 DEF TypeOK, UsesOK
<1>7. RequestsOK'
  <2> SUFFICES ASSUME NEW q \in Request PROVE RequestsOK!(q)'
    BY DEF RequestsOK
  <2>1. CASE q = r
    BY <1>1, <1>3, <1>4, <2>1 DEF RequestsOK, left
  <2>2. CASE q # r
    <3>1. RequestsOK!(q) /\ req'[q] = req[q]
      BY <1>4, <2>2 DEF RequestsOK
    <3>2. req[q].at = "row" => file'[req[q].one] = file[req[q].one]
      BY <1>2, <1>5, <3>1
    <3>3. \A o \in Request : req'[o].at \in {"write", "row"} => req'[o] = req[o]
      BY <1>3, <1>4
    <3> QED
      BY <1>1, <3>1, <3>2, <3>3
  <2> QED
    BY <2>1, <2>2
<1>8. FilesOK'
  <2> SUFFICES ASSUME NEW k \in Media PROVE FilesOK!(k)'
    BY DEF FilesOK
  <2>1. CASE k = m
    BY <1>1, <1>2, <1>5, <2>1
  <2>2. CASE k # m
    <3>1. FilesOK!(k) /\ file'[k] = file[k]
      BY <1>5, <2>2 DEF FilesOK
    <3>2. \A q \in Request :
            /\ req[q].at \in {"write", "row"} => req'[q] = req[q]
            /\ k \in req[q].files => k \in req'[q].files
      BY <1>1, <1>3, <1>4, <2>2 DEF left
    <3> QED
      BY <1>1, <1>5, <3>1, <3>2
  <2> QED
    BY <2>1, <2>2
<1> QED
  BY <1>6, <1>7, <1>8

-----------------------------------------------------------------------------
(* The moves of a post: the others and the media of this one stay, and it    *)
(* is published only by the attempt that has read its media.                 *)
LEMMA PostMoves ==
  ASSUME MediaInv, NEW p \in Post, NEW n \in Posts,
         UNCHANGED <<file, row, variant, req, leaked, faults>>,
         post' = [post EXCEPT ![p] = n],
         attempt' \in [Post -> {None} \cup SUBSET Media],
         \A o \in Post : o # p => attempt'[o] = attempt[o],
         n.media = n.given,
         n.media = post[p].media \/ n.media = {},
         n.stage \in {"absent", "gone"} => n.media = {},
         n.stage = "publishing" => attempt'[p] \in {None, n.media}
  PROVE  MediaInv'
<1>1. post' \in [Post -> Posts] /\ post'[p] = n /\ \A o \in Post : o # p => post'[o] = post[o]
  BY DEF MediaInv, TypeOK
<1>2. TypeOK' /\ RequestsOK' /\ FilesOK'
  BY <1>1 DEF MediaInv, TypeOK, RequestsOK, FilesOK
<1>3. UsesOK'
  <2> SUFFICES ASSUME NEW q \in Post PROVE UsesOK!(q)'
    BY DEF UsesOK
  <2>1. UsesOK!(q)
    BY DEF MediaInv, UsesOK
  <2>2. CASE q = p
    BY <1>1, <2>1, <2>2
  <2>3. CASE q # p
    BY <1>1, <2>1, <2>3
  <2> QED
    BY <2>2, <2>3
<1> QED
  BY <1>2, <1>3 DEF MediaInv

(* A row with another stage. *)
LEMMA Staged ==
  ASSUME MediaInv, NEW p \in Post, NEW to \in Stage \ {"absent", "gone"}
  PROVE  /\ [post[p] EXCEPT !.stage = to] \in Posts
         /\ [post[p] EXCEPT !.stage = to].stage = to
         /\ [post[p] EXCEPT !.stage = to].media = post[p].media
         /\ [post[p] EXCEPT !.stage = to].given = post[p].media
BY DEF MediaInv, TypeOK, UsesOK, Posts

LEMMA MovesInv ==
  ASSUME MediaInv, NEW p \in Post, NEW from, NEW to \in Stage \ {"absent", "gone", "publishing"},
         Moves(p, from, to), UNCHANGED <<file, row, variant, attempt, req, leaked, faults>>
  PROVE  MediaInv'
<1> DEFINE n == [post[p] EXCEPT !.stage = to]
<1>1. n \in Posts /\ n.stage = to /\ n.media = post[p].media /\ n.given = n.media
  BY Staged
<1>2. post' = [post EXCEPT ![p] = n]
  BY DEF Moves
<1> HIDE DEF n
<1>3. attempt' \in [Post -> {None} \cup SUBSET Media]
  BY DEF MediaInv, TypeOK
<1> QED
  BY <1>1, <1>2, <1>3, PostMoves

LEMMA ClaimInv ==
  ASSUME MediaInv, NEW p \in Post, Claim(p)
  PROVE  MediaInv'
<1> DEFINE n == [post[p] EXCEPT !.stage = "publishing"]
<1>1. "publishing" \in Stage \ {"absent", "gone"}
  BY DEF Stage
<1>2. n \in Posts /\ n.stage = "publishing" /\ n.media = post[p].media /\ n.given = n.media
  BY <1>1, Staged
<1>3. /\ UNCHANGED <<file, row, variant, req, leaked, faults>>
      /\ post' = [post EXCEPT ![p] = n]
      /\ attempt' = [attempt EXCEPT ![p] = post[p].media]
  BY DEF Claim, Moves
<1> HIDE DEF n
<1>4. /\ attempt' \in [Post -> {None} \cup SUBSET Media]
      /\ attempt'[p] = n.media /\ \A o \in Post : o # p => attempt'[o] = attempt[o]
  BY <1>2, <1>3 DEF MediaInv, TypeOK, Posts
<1> QED
  BY <1>2, <1>3, <1>4, PostMoves

LEMMA ResultInv ==
  ASSUME MediaInv, NEW p \in Post, Result(p)
  PROVE  MediaInv'
<1>1. /\ UNCHANGED <<file, row, variant, req, leaked, faults>>
      /\ attempt' = [attempt EXCEPT ![p] = None]
  BY DEF Result
<1>2. PICK to \in Stage : /\ post' = [post EXCEPT ![p].stage = to]
                          /\ to \in {"absent", "gone"} => to = post[p].stage
  <2>1. post[p].stage \in Stage
    BY DEF MediaInv, TypeOK, Posts
  <2>2. CASE post' = [post EXCEPT ![p].stage = IF @ = "gone" THEN @ ELSE "published"]
    <3>1. (IF post[p].stage = "gone" THEN post[p].stage ELSE "published") \in Stage
      BY <2>1 DEF Stage
    <3>2. post' = [post EXCEPT ![p].stage = IF post[p].stage = "gone" THEN post[p].stage ELSE "published"]
      BY <2>2
    <3> QED
      BY <3>1, <3>2
  <2>3. CASE \E to \in {"failed", "scheduled"} :
               post' = [post EXCEPT ![p].stage = IF @ = "publishing" THEN to ELSE @]
    <3>1. PICK to \in {"failed", "scheduled"} :
            post' = [post EXCEPT ![p].stage = IF post[p].stage = "publishing" THEN to ELSE post[p].stage]
      BY <2>3
    <3>2. (IF post[p].stage = "publishing" THEN to ELSE post[p].stage) \in Stage
      BY <2>1 DEF Stage
    <3> QED
      BY <3>1, <3>2
  <2> QED
    BY <2>2, <2>3 DEF Result
<1>3. PICK n \in Posts : /\ post' = [post EXCEPT ![p] = n]
                         /\ n.stage = to /\ n.media = post[p].media /\ n.given = n.media
  <2> DEFINE n == [post[p] EXCEPT !.stage = to]
  <2>1. n \in Posts /\ n.stage = to /\ n.media = post[p].media /\ n.given = n.media
    BY DEF MediaInv, TypeOK, UsesOK, Posts
  <2>2. post' = [post EXCEPT ![p] = n]
    BY <1>2
  <2> HIDE DEF n
  <2> QED
    BY <2>1, <2>2
<1>4. n.stage \in {"absent", "gone"} => n.media = {}
  BY <1>2, <1>3 DEF MediaInv, UsesOK
<1>5. /\ attempt' \in [Post -> {None} \cup SUBSET Media]
      /\ attempt'[p] = None /\ \A o \in Post : o # p => attempt'[o] = attempt[o]
  BY <1>1 DEF MediaInv, TypeOK
<1> QED
  BY <1>1, <1>3, <1>4, <1>5, PostMoves

LEMMA DeleteInv ==
  ASSUME MediaInv, NEW p \in Post, Delete(p)
  PROVE  MediaInv'
<1> DEFINE n == [NoPost EXCEPT !.stage = "gone"]
<1>1. n \in Posts /\ n.stage = "gone" /\ n.media = {} /\ n.given = {}
  BY DEF NoPost, Posts, Stage
<1>2. UNCHANGED <<file, row, variant, attempt, req, leaked, faults>> /\ post' = [post EXCEPT ![p] = n]
  BY DEF Delete
<1> HIDE DEF n
<1>3. attempt' \in [Post -> {None} \cup SUBSET Media]
  BY <1>2 DEF MediaInv, TypeOK
<1> QED
  BY <1>1, <1>2, <1>3, PostMoves

LEMMA CrashInv == ASSUME MediaInv, Crash PROVE MediaInv'
<1> USE DEF MediaInv
<1> DEFINE F == UNION {req[r].files : r \in Request}
           W == {req[r].one : r \in {o \in Request : req[o].at \in {"write", "row"}}}
<1>1. /\ UNCHANGED <<file, row, post, variant>>
      /\ req' = [r \in Request |-> Idle] /\ attempt' = [p \in Post |-> None]
      /\ faults < MaxFaults /\ faults' = faults + 1
      /\ leaked' = leaked \cup F \cup W
  BY DEF Crash, Fault
<1>2. /\ \A m : m \in F <=> \E r \in Request : m \in req[r].files
      /\ \A m : m \in W <=> \E r \in Request : req[r].at \in {"write", "row"} /\ m = req[r].one
  <2>1. ASSUME NEW m PROVE m \in F <=> \E r \in Request : m \in req[r].files
    OBVIOUS
  <2>2. ASSUME NEW m
        PROVE  m \in W <=> \E r \in Request : req[r].at \in {"write", "row"} /\ m = req[r].one
    OBVIOUS
  <2> QED
    BY <2>1, <2>2
<1> HIDE DEF F, W
<1>3. leaked' \subseteq Media
  <2>1. \A r \in Request : /\ req[r].files \subseteq Media
                           /\ req[r].at \in {"write", "row"} => req[r].one \in Media
    BY DEF TypeOK, Reqs, RequestsOK
  <2> QED
    BY <1>1, <1>2, <2>1 DEF TypeOK
<1>4. faults' \in 0..MaxFaults
  BY <1>1 DEF TypeOK
<1>5. TypeOK'
  BY <1>1, <1>3, <1>4, IdleType DEF TypeOK
<1>6. RequestsOK'
  BY <1>1, IdleType DEF RequestsOK
<1>7. FilesOK'
  <2> SUFFICES ASSUME NEW m \in Media PROVE FilesOK!(m)'
    BY DEF FilesOK
  <2>1. FilesOK!(m)
    BY DEF FilesOK
  <2> QED
    BY <1>1, <1>2, <2>1
<1>8. UsesOK'
  BY <1>1 DEF UsesOK
<1> QED
  BY <1>5, <1>6, <1>7, <1>8

-----------------------------------------------------------------------------
LEMMA StepInv == ASSUME MediaInv, [Next]_vars PROVE MediaInv'
<1>1. CASE UNCHANGED vars
  <2>1. TypeOK' /\ RequestsOK' /\ FilesOK' /\ UsesOK'
    BY <1>1 DEF MediaInv, TypeOK, RequestsOK, FilesOK, UsesOK, vars
  <2> QED
    BY <2>1 DEF MediaInv
<1>2. ASSUME NEW r \in Request,
             NEW declared \in Type \cup {"none", "generic"}, NEW sniffed \in Type, NEW ext \in Type \cup {"none"},
             WriteFile(r, declared, sniffed, ext)
      PROVE  MediaInv'
  BY <1>2, WriteFileInv
<1>3. ASSUME NEW r \in Request,
             \/ \E m \in Media : BeginFile(r, m) \/ RemoveFile(r, m)
             \/ WriteFails(r) \/ CreateMedia(r) \/ CreateMediaFails(r) \/ WritePost(r) \/ WritePostFails(r)
             \/ UseGenerated(r) \/ Deletes(r)
             \/ \E p \in Post, all \in SUBSET Media : CheckMedia(r, p, all)
      PROVE  MediaInv'
  BY <1>3, BeginFileInv, RemoveFileInv, WriteFailsInv, CreateMediaInv, CreateMediaFailsInv,
     WritePostInv, WritePostFailsInv, UseGeneratedInv, DeletesInv, CheckMediaInv
<1>4. ASSUME NEW m \in Media \cup {None}, EditVariant(m) PROVE MediaInv'
  BY <1>4, EditVariantInv
<1>5. ASSUME NEW p \in Post, Schedule(p) \/ Cancel(p) \/ Delete(p) \/ Claim(p) \/ Result(p) \/ Recover(p)
      PROVE  MediaInv'
  <2>1. {"scheduled", "canceled", "failed"} \subseteq Stage \ {"absent", "gone", "publishing"}
    BY DEF Stage
  <2>2. CASE Schedule(p) \/ Cancel(p) \/ Recover(p)
    BY <2>1, <2>2, MovesInv DEF Schedule, Cancel, Recover
  <2> QED
    BY <1>5, <2>2, DeleteInv, ClaimInv, ResultInv
<1> QED
  BY <1>1, <1>2, <1>3, <1>4, <1>5, CrashInv DEF Next

THEOREM Invariance == Spec => []MediaInv
<1>1. MediaInv /\ [Next]_vars => MediaInv'
  BY StepInv
<1> QED
  BY InitMediaInv, <1>1, PTL DEF Spec

(* Every reachable state is well typed. *)
THEOREM TypeCorrect == Spec => []TypeOK
<1>1. MediaInv => TypeOK
  BY DEF MediaInv
<1> QED
  BY Invariance, <1>1, PTL

(* A medium has its file, and a file left behind was left by a fault.  The   *)
(* row is created after the file is whole and deleted before it goes, and    *)
(* no second request knows the id in between.                                *)
THEOREM FilesMatch == Spec => []FilesMatchRows
<1>1. MediaInv => FilesMatchRows
  <2> SUFFICES ASSUME MediaInv PROVE FilesMatchRows
    OBVIOUS
  <2>1. \A m \in Media : There(m) => file[m] = "whole" /\ ~row[m].page
    BY DEF MediaInv, FilesOK, There
  <2>2. ASSUME NEW m \in Media, file[m] # "none", ~There(m)
        PROVE  m \in leaked \/ \E r \in Request : m = req[r].one \/ m \in req[r].files
    <3>1. row[m].is \in {"none", "gone"}
      BY <2>2 DEF MediaInv, TypeOK, There
    <3> QED
      BY <2>2, <3>1 DEF MediaInv, FilesOK
  <2> QED
    BY <2>1, <2>2 DEF FilesMatchRows
<1> QED
  BY Invariance, <1>1, PTL

(* What a post was given stays: a medium is deleted only while no post that  *)
(* can still go out has it, and an attempt reads media that the post keeps   *)
(* until it is over.                                                         *)
THEOREM UsesKept == Spec => []UsesAreKept
<1>1. MediaInv => UsesAreKept
  <2> SUFFICES ASSUME MediaInv, NEW p \in Post PROVE UsesAreKept!(p)
    BY DEF UsesAreKept
  <2>1. UsesOK!(p) /\ post[p].media \subseteq Media
    BY DEF MediaInv, UsesOK, TypeOK, Posts
  <2>2. \A m \in post[p].media : file[m] = "whole"
    BY <2>1 DEF MediaInv, FilesOK
  <2> QED
    BY <2>1, <2>2
<1> QED
  BY Invariance, <1>1, PTL

(* The two ways to delete have one idea of what is unused.                   *)
THEOREM PurgesAgree == Spec => []PurgeAgrees
<1>1. PurgeAgrees
  BY CountedByNone DEF PurgeAgrees, Unused
<1> QED
  BY <1>1, PTL
=============================================================================
