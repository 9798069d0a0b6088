--------------------------- MODULE Networks_proofs ---------------------------
(***************************************************************************)
(* What an attempt to publish keeps, however many media a post may have,   *)
(* an album may hold and answers may be lost.                              *)
(***************************************************************************)
EXTENDS Networks, FiniteSetTheorems, SequenceTheorems, TLAPS

USE NetworksAssumption

InOrder(s) == \A i \in 1..Len(s) : s[i] = i

(* How far the uploads are at each place of the call.                        *)
CallOK ==
  /\ Reachable(post)
  /\ pc \notin {"check", "returned"} =>
       PublishAccepts /\ InOrder(made) /\ Len(made) <= All
  /\ pc \in {"page", "thumbnail", "article"} => post.net = "linkedin"
  /\ pc = "upload" => Len(made) < All /\ post.mode # "comment"
  /\ pc = "wait" => post.net \in {"x", "instagram"} /\ (post.net = "instagram" => Len(made) = All)
  /\ pc \in {"page", "thumbnail", "article", "parent", "publish", "permalink"} => Len(made) = All
  /\ pc # "returned" => err = "none"
  /\ outcome # "open" => pc = "returned"

CopiesOK ==
  \A i \in 1..Len(copies) :
    InOrder(copies[i].media) /\ Len(copies[i].media) = All /\ PublishAccepts

(* What nobody heard of is counted, and what was answered is on its way to   *)
(* the caller.                                                               *)
CountsOK ==
  /\ (outcome = "open" /\ InHand) \/ outcome = "mark" => Len(copies) = unheard + 1
  /\ (outcome = "open" /\ ~InHand) \/ outcome \in {"fail", "defer"} => Len(copies) = unheard

(* A call that has not come to its public request has left no copy yet, but  *)
(* for an article.                                                           *)
CallsOK ==
  /\ \A i \in 1..Len(copies) :
       /\ copies[i].call <= tries
       /\ copies[i].article => post.net = "linkedin"
       /\ pc \notin {"publish", "permalink", "returned"} => copies[i].call < tries
       /\ pc = "publish" => copies[i].call < tries \/ copies[i].article
  /\ \A i, j \in 1..Len(copies) : i < j =>
       copies[i].call < copies[j].call \/ (copies[i].article /\ ~copies[j].article)

NetInv == TypeOK /\ CallOK /\ CopiesOK /\ CountsOK /\ CallsOK

-----------------------------------------------------------------------------
LEMMA PostMedia ==
  ASSUME NEW p \in Post
  PROVE  /\ p.media \in Seq(Kind) /\ Len(p.media) \in 0..MaxMedia
         /\ DOMAIN p.media = 1..Len(p.media)
         /\ p.net \in Net /\ p.mode \in {"root", "reply", "comment"}
<1>1. PICK n \in 0..MaxMedia : p.media \in [1..n -> Kind]
  BY DEF Post
<1>2. p.media \in Seq(Kind) /\ Len(p.media) = n
  BY <1>1
<1> QED
  BY <1>1, <1>2 DEF Post

(* Where there are no media there is none of any kind.                       *)
LEMMA NoneCounted ==
  ASSUME TypeOK, NEW K, All = 0
  PROVE  Count(K) = 0
<1>1. DOMAIN post.media = {}
  BY PostMedia DEF TypeOK, All
<1>2. {i \in DOMAIN post.media : post.media[i] \in K} = {}
  BY <1>1
<1> QED
  BY <1>2, FS_EmptySet DEF Count

LEMMA DirectIsOne ==
  ASSUME TypeOK, CallOK, Direct
  PROVE  All \in 1..MaxMedia /\ (PublishAccepts => All = 1 /\ post.mode # "comment")
<1>1. All \in 0..MaxMedia
  BY PostMedia DEF TypeOK, All
<1>2. All # 0
  BY NoneCounted DEF Direct
<1> HIDE DEF All
<1>3. PublishAccepts => All = 1 /\ post.mode # "comment"
  BY <1>2 DEF PublishAccepts, Direct, MixOK
<1> QED
  BY <1>1, <1>2, <1>3

(* A sequence in order is the one that CopiesAreWhole speaks of.             *)
LEMMA OnlyOneOrder ==
  ASSUME NEW s \in Seq(1..MaxMedia), NEW n \in Nat, Len(s) = n, InOrder(s)
  PROVE  s = [k \in 1..n |-> k]
<1>1. s \in [1..n -> 1..MaxMedia]
  BY LenProperties
<1>2. \A k \in 1..n : s[k] = k
  BY DEF InOrder
<1> QED
  BY <1>1, <1>2

LEMMA InitNetInv == Init => NetInv
<1> SUFFICES ASSUME Init PROVE NetInv
  OBVIOUS
<1>1. post \in Post /\ Reachable(post)
  BY DEF Init
<1>2. /\ pc = "check" /\ made = <<>> /\ job = "none" /\ late = FALSE /\ copies = <<>> /\ unheard = 0
      /\ err = "none" /\ tries = 1 /\ outcome = "open" /\ faults = 0
  BY DEF Init
<1>3. <<>> \in Seq(1..MaxMedia) /\ <<>> \in Seq(Copy) /\ Len(<<>>) = 0
  BY EmptySeq
<1>4. TypeOK
  <2>1. made \in Seq(1..MaxMedia) /\ copies \in Seq(Copy)
    BY <1>2, <1>3
  <2>2. pc \in PC /\ err \in Errors /\ faults \in 0..MaxFaults
    BY <1>2 DEF PC, Errors
  <2>3. late \in BOOLEAN
    BY <1>2
  <2>4. /\ job \in {"none", "running", "ready", "failed"} /\ unheard \in Nat /\ tries \in 1..2
        /\ outcome \in {"open", "mark", "fail", "defer"}
    BY <1>2
  <2> QED
    BY <1>1, <2>1, <2>2, <2>3, <2>4 DEF TypeOK
<1>5. CallOK
  BY <1>1, <1>2 DEF CallOK
<1>6. CopiesOK /\ CountsOK /\ CallsOK
  BY <1>2, <1>3 DEF CopiesOK, CountsOK, CallsOK, InHand
<1> QED
  BY <1>4, <1>5, <1>6 DEF NetInv

(* What the definitions over post say stays, for post does.                  *)
LEMMA SamePost ==
  ASSUME post' = post
  PROVE  /\ All' = All /\ (PublishAccepts' <=> PublishAccepts)
         /\ (Reachable(post)' <=> Reachable(post))
BY DEF All, PublishAccepts, Reachable, AlbumOK, MixOK, InstagramMediaOK, Count

(* A step of the call that makes nothing public and is not its end.          *)
LEMMA QuietStep ==
  ASSUME NetInv, TypeOK', CallOK', outcome = "open",
         UNCHANGED <<post, copies, unheard, tries, outcome>>,
         ~InHand, ~InHand',
         pc \notin {"publish", "permalink", "returned"} \/ pc' = "returned"
  PROVE  NetInv'
<1>1. CopiesOK'
  BY SamePost DEF NetInv, CopiesOK
<1>2. CountsOK'
  BY DEF NetInv, CountsOK
<1>3. CallsOK'
  BY DEF NetInv, CallsOK
<1> QED
  BY <1>1, <1>2, <1>3 DEF NetInv

(* While the call runs every copy is one that nobody heard of.               *)
LEMMA RunningCopies ==
  ASSUME NetInv, pc \notin {"returned", "permalink"}
  PROVE  /\ outcome = "open" /\ ~InHand
         /\ Len(copies) = unheard
<1>1. outcome = "open" /\ ~InHand
  BY DEF NetInv, TypeOK, CallOK, InHand
<1> QED
  BY <1>1 DEF NetInv, CountsOK

LEMMA FailingReads ==
  ASSUME RequestFails
  PROVE  \E e \in {"plain", "auth", "processing"} : Return(e)
<1>1. Readings \subseteq {"plain", "auth", "processing"}
  BY DEF Readings
<1> QED
  BY <1>1 DEF RequestFails

-----------------------------------------------------------------------------
LEMMA CheckInv == ASSUME NetInv, Check PROVE NetInv'
<1> USE DEF NetInv
<1>1. /\ pc = "check"
      /\ \/ ~PublishAccepts /\ pc' = "returned" /\ err' = "shape"
         \/ PublishAccepts /\ pc' = FirstRequest /\ UNCHANGED err
      /\ made' = IF Direct THEN <<1>> ELSE <<>>
      /\ UNCHANGED <<post, job, late, copies, unheard, tries, outcome, faults>>
  BY DEF Check, Return
<1>2. outcome = "open" /\ ~InHand
  BY <1>1, RunningCopies
<1>3. All \in 0..MaxMedia
  BY PostMedia DEF TypeOK, All
<1>4. /\ made' \in Seq(1..MaxMedia) /\ InOrder(made')
      /\ Direct => Len(made') = 1
      /\ ~Direct => Len(made') = 0
  <2>1. CASE Direct
    <3>1. made' = <<1>> /\ 1 \in 1..MaxMedia
      BY <1>1, <1>3, <2>1, DirectIsOne
    <3>2. <<1>> \in Seq(1..MaxMedia) /\ Len(<<1>>) = 1 /\ <<1>>[1] = 1
      BY <3>1
    <3> QED
      BY <2>1, <3>1, <3>2 DEF InOrder
  <2>2. CASE ~Direct
    <3>1. <<>> \in Seq(1..MaxMedia) /\ Len(<<>>) = 0
      BY EmptySeq
    <3> QED
      BY <1>1, <2>2, <3>1 DEF InOrder
  <2> QED
    BY <2>1, <2>2
<1>5. PublishAccepts /\ Direct => All = 1 /\ post.mode # "comment" /\ post.net = "facebook"
  BY DirectIsOne DEF Direct
<1>6. PublishAccepts /\ post.mode = "comment" => All = 0
  BY DEF PublishAccepts
<1>7. CASE ~PublishAccepts /\ pc' = "returned" /\ err' = "shape"
  <2>1. TypeOK'
    BY <1>1, <1>4, <1>7 DEF TypeOK, PC, Errors
  <2>2. CallOK'
    BY <1>1, <1>2, <1>7, SamePost DEF CallOK
  <2>3. ~InHand'
    BY <1>7 DEF InHand
  <2> QED
    BY <1>1, <1>2, <2>1, <2>2, <2>3, QuietStep
<1>8. CASE PublishAccepts /\ pc' = FirstRequest /\ UNCHANGED err
  <2>1. /\ pc' \in {"publish", "page", "upload"}
        /\ pc' = "page" => post.net = "linkedin" /\ All = 0
        /\ pc' = "upload" => All # 0 /\ ~Direct /\ post.mode # "comment"
        /\ pc' = "publish" => All = 0 \/ Direct
    BY <1>6, <1>8 DEF FirstRequest
  <2>2. TypeOK'
    BY <1>1, <1>4, <1>8, <2>1 DEF TypeOK, PC
  <2>3. /\ pc' = "upload" => Len(made') < All
        /\ pc' \in {"page", "publish"} => Len(made') = All
        /\ Len(made') <= All
    <3> HIDE DEF All
    <3>1. Direct => All = 1
      BY <1>5, <1>8
    <3> HIDE DEF Direct, InOrder
    <3>2. CASE Direct
      <4>1. All = 1 /\ Len(made') = 1
        BY <1>4, <3>1, <3>2
      <4>2. pc' = "publish"
        BY <2>1, <3>2, <4>1
      <4> QED
        BY <4>1, <4>2
    <3>3. CASE ~Direct
      BY <1>3, <1>4, <2>1, <3>3
    <3> QED
      BY <3>2, <3>3
  <2>4. CallOK'
    <3>1. Reachable(post)' /\ PublishAccepts' /\ All' = All /\ err' = "none"
      BY <1>1, <1>8, SamePost DEF CallOK
    <3> HIDE DEF All, PublishAccepts, NetInv
    <3> QED
      BY <1>1, <1>2, <1>4, <2>1, <2>3, <3>1 DEF CallOK
  <2>5. ~InHand'
    BY <2>1 DEF InHand
  <2> QED
    BY <1>1, <1>2, <2>2, <2>4, <2>5, QuietStep
<1> QED
  BY <1>1, <1>7, <1>8

LEMMA ReadPageInv == ASSUME NetInv, ReadPage \/ Thumbnail PROVE NetInv'
<1> USE DEF NetInv
<1>1. /\ pc \in {"page", "thumbnail"} /\ pc' \in {"publish", "article", "thumbnail"}
      /\ UNCHANGED <<post, made, job, late, copies, unheard, err, tries, outcome, faults>>
  BY DEF ReadPage, Thumbnail
<1>2. outcome = "open" /\ ~InHand
  BY <1>1, RunningCopies
<1>3. TypeOK'
  BY <1>1 DEF TypeOK, PC
<1>4. CallOK'
  BY <1>1, SamePost DEF CallOK
<1>5. ~InHand'
  BY <1>1 DEF InHand
<1> QED
  BY <1>1, <1>2, <1>3, <1>4, <1>5, QuietStep

(* A failing request ends the call with an error of the kind e.              *)
LEMMA CallFails ==
  ASSUME NetInv, NEW e, Return(e), e \in {"plain", "auth", "processing", "shape"}, pc \notin {"returned", "permalink"},
         UNCHANGED <<post, copies, unheard, tries, outcome, faults>>,
         made' \in Seq(1..MaxMedia), job' \in {"none", "running", "ready", "failed"}, late' \in BOOLEAN
  PROVE  NetInv'
<1>1. pc' = "returned" /\ err' = e
  BY DEF Return
<1>2. outcome = "open" /\ ~InHand
  BY RunningCopies
<1>3. TypeOK'
  BY <1>1 DEF NetInv, TypeOK, PC, Errors
<1>4. CallOK'
  BY <1>1, <1>2, SamePost DEF NetInv, CallOK
<1>5. ~InHand'
  BY <1>1 DEF InHand
<1> QED
  BY <1>1, <1>2, <1>3, <1>4, <1>5, QuietStep

LEMMA UploadInv == ASSUME NetInv, Upload PROVE NetInv'
<1>1. /\ pc = "upload" /\ late' = FALSE /\ UNCHANGED <<post, copies, unheard, tries, outcome, faults>>
      /\ \/ /\ made' = Append(made, Len(made) + 1) /\ pc' = AfterUpload(Len(made) + 1)
            /\ job' \in IF pc' = "wait" THEN {"running"} \cup NoInfo ELSE {"none"}
            /\ UNCHANGED err
         \/ RequestFails /\ UNCHANGED <<made, job>>
         \/ Return("shape") /\ UNCHANGED <<made, job>>
  BY DEF Upload
<1>2. late' \in BOOLEAN
  BY <1>1
<1>3. CASE (RequestFails \/ Return("shape")) /\ UNCHANGED <<made, job>>
  <2>1. PICK e \in {"plain", "auth", "processing", "shape"} : Return(e)
    BY <1>3, FailingReads
  <2>2. made' \in Seq(1..MaxMedia) /\ job' \in {"none", "running", "ready", "failed"}
    BY <1>3 DEF NetInv, TypeOK
  <2> QED
    BY <1>1, <1>2, <2>1, <2>2, CallFails
<1>4. CASE /\ made' = Append(made, Len(made) + 1) /\ pc' = AfterUpload(Len(made) + 1)
           /\ job' \in IF pc' = "wait" THEN {"running"} \cup NoInfo ELSE {"none"}
           /\ UNCHANGED err
  <2>1. /\ Len(made) \in Nat /\ All \in 0..MaxMedia /\ Len(made) < All
        /\ Len(made) + 1 \in 1..MaxMedia /\ InOrder(made) /\ made \in Seq(1..MaxMedia)
        /\ PublishAccepts /\ post.mode # "comment" /\ post.net \in Net
    BY <1>1, PostMedia DEF NetInv, TypeOK, CallOK, All
  <2> DEFINE k == Len(made) + 1
  <2>2. /\ made' \in Seq(1..MaxMedia) /\ Len(made') = k
        /\ \A i \in 1..Len(made) : made'[i] = made[i]
        /\ made'[k] = k
    BY <1>4, <2>1, AppendProperties
  <2>3. InOrder(made')
    BY <2>1, <2>2 DEF InOrder
  <2>4. /\ pc' \in {"wait", "upload", "publish", "parent"}
        /\ pc' = "upload" => k < All
        /\ pc' \in {"publish", "parent"} => k = All
        /\ pc' = "wait" => post.net \in {"x", "instagram"} /\ (post.net = "instagram" => k = All)
    <3> HIDE DEF All, k
    <3>1. k \in Nat /\ All \in Nat /\ k <= All /\ pc' = AfterUpload(k) /\ 0 < All
      BY <1>4, <2>1 DEF k
    <3>2. post.net = "x" => pc' = "wait"
      BY <3>1 DEF AfterUpload, AfterXUpload
    <3>3. post.net = "linkedin" => pc' = AfterLinkedInUpload(k)
      BY <3>1 DEF AfterUpload
    <3>4. post.net = "facebook" => pc' = AfterFacebookPhoto(k)
      BY <3>1 DEF AfterUpload
    <3>5. post.net = "instagram" => pc' = AfterContainer(k)
      BY <3>1 DEF AfterUpload
    <3>6. post.net = "instagram" =>
            pc' = IF All > 1 THEN (IF k < All THEN "upload" ELSE "parent")
                  ELSE (IF post.media[1] \in Video THEN "wait" ELSE "publish")
      BY <3>5 DEF AfterContainer, Carousel
    <3>7. k >= 1
      BY <2>1 DEF k
    <3> QED
      BY <2>1, <3>1, <3>2, <3>3, <3>4, <3>6, <3>7 DEF AfterLinkedInUpload, AfterFacebookPhoto, Net
  <2>5. job' \in {"none", "running", "ready", "failed"}
    BY <1>4 DEF NoInfo
  <2>6. TypeOK'
    BY <1>1, <1>2, <1>4, <2>2, <2>4, <2>5 DEF NetInv, TypeOK, PC
  <2>7. CallOK'
    <3>1. Reachable(post)' /\ PublishAccepts' /\ All' = All /\ err' = "none" /\ outcome' = "open"
      BY <1>1, <1>4, <2>1, SamePost, RunningCopies DEF NetInv, CallOK
    <3> HIDE DEF All, PublishAccepts
    <3> QED
      BY <1>1, <2>1, <2>2, <2>3, <2>4, <3>1 DEF CallOK
  <2>8. ~InHand'
    BY <2>4 DEF InHand
  <2> QED
    BY <1>1, <2>6, <2>7, <2>8, QuietStep, RunningCopies
<1> QED
  BY <1>1, <1>3, <1>4

LEMMA WaitInv == ASSUME NetInv, Process \/ DeadlinePasses PROVE NetInv'
<1>1. /\ UNCHANGED <<post, pc, made, copies, unheard, err, tries, outcome, faults>>
      /\ job' \in {"none", "running", "ready", "failed"}
      /\ late' \in BOOLEAN
  <2>1. CASE Process
    BY <2>1 DEF Process, NetInv, TypeOK
  <2>2. CASE DeadlinePasses
    <3>1. late' \in BOOLEAN
      BY <2>2 DEF DeadlinePasses
    <3> QED
      BY <2>2, <3>1 DEF DeadlinePasses, NetInv, TypeOK
  <2> QED
    BY <2>1, <2>2
<1>2. TypeOK'
  BY <1>1 DEF NetInv, TypeOK
<1>3. CallOK' /\ CopiesOK' /\ CountsOK' /\ CallsOK'
  BY <1>1, SamePost DEF NetInv, CallOK, CopiesOK, CountsOK, CallsOK, InHand
<1> QED
  BY <1>2, <1>3 DEF NetInv

LEMMA PollInv == ASSUME NetInv, Poll \/ Parent PROVE NetInv'
<1>1. /\ pc \in {"wait", "parent"} /\ UNCHANGED <<post, made, late, copies, unheard, tries, outcome, faults>>
      /\ job' \in {job, "none"}
      /\ \/ pc = "wait" /\ Proceed
         \/ pc = "parent" /\ pc' = "publish" /\ UNCHANGED err
         \/ RequestFails
  BY DEF Poll, XPoll, InstagramPoll, Parent
<1>2. /\ Len(made) \in Nat /\ All \in 0..MaxMedia /\ Len(made) <= All /\ PublishAccepts /\ InOrder(made)
      /\ job' \in {"none", "running", "ready", "failed"} /\ made' \in Seq(1..MaxMedia) /\ late' \in BOOLEAN
  BY <1>1, PostMedia DEF NetInv, TypeOK, CallOK, All
<1>3. CASE RequestFails
  <2>1. PICK e \in {"plain", "auth", "processing", "shape"} : Return(e)
    BY <1>3, FailingReads
  <2> QED
    BY <1>1, <1>2, <2>1, CallFails
<1>4. CASE (pc = "wait" /\ Proceed) \/ (pc = "parent" /\ pc' = "publish" /\ UNCHANGED err)
  <2>1. /\ pc' \in {"upload", "publish"} /\ UNCHANGED err
        /\ pc' = "upload" => Len(made) < All
        /\ pc' = "publish" => Len(made) = All
    <3>1. pc = "parent" => Len(made) = All
      BY DEF NetInv, CallOK
    <3> HIDE DEF All
    <3>2. CASE pc = "parent" /\ pc' = "publish" /\ UNCHANGED err
      BY <3>1, <3>2
    <3>3. CASE pc = "wait" /\ Proceed
      <4>1. pc' = (IF Len(made) < All THEN "upload" ELSE "publish") /\ UNCHANGED err
        BY <3>3 DEF Proceed
      <4> QED
        BY <1>2, <4>1
    <3> QED
      BY <1>4, <3>2, <3>3
  <2>2. pc' = "upload" => post.mode # "comment"
    <3>1. PublishAccepts /\ post.mode = "comment" => All = 0
      BY DEF PublishAccepts
    <3> HIDE DEF All
    <3> QED
      BY <1>2, <2>1, <3>1
  <2>3. TypeOK'
    BY <1>1, <1>2, <2>1 DEF NetInv, TypeOK, PC
  <2>4. CallOK'
    <3>1. Reachable(post)' /\ PublishAccepts' /\ All' = All /\ err' = "none" /\ outcome' = "open"
      BY <1>1, <1>2, <2>1, SamePost, RunningCopies DEF NetInv, CallOK
    <3> HIDE DEF All, PublishAccepts
    <3> QED
      BY <1>1, <1>2, <2>1, <2>2, <3>1 DEF CallOK
  <2>5. ~InHand'
    BY <2>1 DEF InHand
  <2> QED
    BY <1>1, <2>3, <2>4, <2>5, QuietStep, RunningCopies
<1> QED
  BY <1>1, <1>3, <1>4

-----------------------------------------------------------------------------
(* The post appears with the media uploaded so far, which are all of them.   *)
(* What the call left before is at most the article.                         *)
LEMMA CopyAdded ==
  ASSUME NetInv, pc \in {"article", "publish"}, Appears(pc = "article"), UNCHANGED <<post, tries>>
  PROVE  /\ copies' \in Seq(Copy) /\ CopiesOK'
         /\ Len(copies) \in Nat /\ Len(copies') = Len(copies) + 1
         /\ \A i \in 1..Len(copies') :
              /\ copies'[i].call <= tries'
              /\ copies'[i].article => post'.net = "linkedin"
              /\ copies'[i].call < tries' \/ copies'[i].article \/ pc = "publish"
         /\ \A i, j \in 1..Len(copies') : i < j =>
              copies'[i].call < copies'[j].call \/ (copies'[i].article /\ ~copies'[j].article)
<1>1. PICK c \in Copy : c = [media |-> made, article |-> (pc = "article"), call |-> tries]
  BY DEF NetInv, TypeOK, Copy
<1>2. /\ InOrder(c.media) /\ Len(c.media) = All /\ PublishAccepts
      /\ c.article <=> pc = "article"
      /\ c.call = tries /\ tries \in 1..2
      /\ pc = "article" => post.net = "linkedin"
  BY <1>1 DEF NetInv, TypeOK, CallOK
<1>3. copies \in Seq(Copy) /\ copies' = Append(copies, c)
  BY <1>1 DEF NetInv, TypeOK, Appears
<1>4. /\ copies' \in Seq(Copy) /\ Len(copies) \in Nat /\ Len(copies') = Len(copies) + 1
      /\ \A i \in 1..Len(copies) : copies'[i] = copies[i]
      /\ copies'[Len(copies) + 1] = c
  BY <1>3, AppendProperties, LenProperties
<1>5. All' = All /\ (PublishAccepts' <=> PublishAccepts)
  BY SamePost
<1>6. CopiesOK'
  <2> SUFFICES ASSUME NEW i \in 1..Len(copies')
               PROVE  InOrder(copies'[i].media) /\ Len(copies'[i].media) = All' /\ PublishAccepts'
    BY DEF CopiesOK
  <2>1. CASE i \in 1..Len(copies)
    BY <1>4, <1>5, <2>1 DEF NetInv, CopiesOK
  <2>2. CASE i = Len(copies) + 1
    BY <1>2, <1>4, <1>5, <2>2
  <2> QED
    BY <1>4, <2>1, <2>2
<1>7. \A i \in 1..Len(copies) :
        /\ copies[i].call <= tries
        /\ copies[i].article => post.net = "linkedin"
        /\ copies[i].call < tries \/ (copies[i].article /\ pc = "publish")
  BY DEF NetInv, CallsOK
<1>8. \A i, j \in 1..Len(copies) : i < j =>
        copies[i].call < copies[j].call \/ (copies[i].article /\ ~copies[j].article)
  BY DEF NetInv, CallsOK
<1>9. ASSUME NEW i \in 1..Len(copies')
      PROVE  /\ copies'[i].call <= tries'
             /\ copies'[i].article => post'.net = "linkedin"
             /\ copies'[i].call < tries' \/ copies'[i].article \/ pc = "publish"
  <2>1. CASE i \in 1..Len(copies)
    BY <1>4, <1>7, <2>1
  <2>2. CASE i = Len(copies) + 1
    BY <1>2, <1>4, <2>2
  <2> QED
    BY <1>4, <2>1, <2>2
<1>10. ASSUME NEW i \in 1..Len(copies'), NEW j \in 1..Len(copies'), i < j
       PROVE  copies'[i].call < copies'[j].call \/ (copies'[i].article /\ ~copies'[j].article)
  <2>1. i \in 1..Len(copies) /\ copies'[i] = copies[i]
    BY <1>4, <1>10
  <2>2. CASE j \in 1..Len(copies)
    BY <1>4, <1>8, <1>10, <2>1, <2>2
  <2>3. CASE j = Len(copies) + 1
    <3>1. copies'[j].call = tries /\ (copies'[j].article <=> pc = "article")
      BY <1>2, <1>4, <2>3
    <3> QED
      BY <1>7, <2>1, <3>1
  <2> QED
    BY <1>4, <2>2, <2>3
<1> QED
  BY <1>4, <1>6, <1>9, <1>10

LEMMA ArticleInv == ASSUME NetInv, Article PROVE NetInv'
<1>1. /\ pc = "article" /\ UNCHANGED <<post, made, job, late, err, tries, outcome>>
      /\ \/ Appears(TRUE) /\ pc' = "permalink" /\ UNCHANGED <<unheard, faults>>
         \/ pc' = "publish" /\ UNCHANGED <<copies, unheard, faults>>
         \/ /\ Appears(TRUE) /\ pc' = "publish" /\ unheard' = unheard + 1
            /\ faults < MaxFaults /\ faults' = faults + 1
  BY DEF Article, GoesUnheard, Fault
<1>2. outcome = "open" /\ ~InHand /\ Len(copies) = unheard
  BY <1>1, RunningCopies
<1>3. /\ faults' \in 0..MaxFaults /\ unheard' \in Nat /\ pc' \in {"publish", "permalink"}
      /\ err' = "none" /\ unheard \in Nat
  <2>1. faults \in 0..MaxFaults /\ unheard \in Nat
    BY DEF NetInv, TypeOK
  <2>2. err' = "none"
    BY <1>1 DEF NetInv, CallOK
  <2>3. /\ pc' \in {"publish", "permalink"}
        /\ \/ UNCHANGED <<unheard, faults>>
           \/ unheard' = unheard + 1 /\ faults < MaxFaults /\ faults' = faults + 1
    BY DEF Article, GoesUnheard, Fault
  <2> QED
    BY <2>1, <2>2, <2>3
<1>4. CallOK'
  BY <1>1, <1>3, SamePost DEF NetInv, CallOK
<1>5. CASE Appears(TRUE)
  <2>1. Appears(pc = "article")
    BY <1>1, <1>5
  <2>2. /\ copies' \in Seq(Copy) /\ CopiesOK' /\ Len(copies) \in Nat /\ Len(copies') = Len(copies) + 1
        /\ \A i \in 1..Len(copies') :
             /\ copies'[i].call <= tries'
             /\ copies'[i].article => post'.net = "linkedin"
             /\ copies'[i].call < tries' \/ copies'[i].article \/ pc = "publish"
        /\ \A i, j \in 1..Len(copies') : i < j =>
             copies'[i].call < copies'[j].call \/ (copies'[i].article /\ ~copies'[j].article)
    BY <1>1, <2>1, CopyAdded
  <2>3. TypeOK'
    BY <1>1, <1>3, <2>2 DEF NetInv, TypeOK, PC
  <2>4. /\ InHand' <=> pc' = "permalink"
        /\ pc' = "permalink" => Len(copies') = unheard' + 1
        /\ pc' = "publish" => Len(copies') = unheard'
    BY <1>1, <1>2, <1>3, <2>2 DEF InHand
  <2>5. CountsOK'
    BY <1>1, <1>2, <1>3, <2>4 DEF CountsOK
  <2>6. CallsOK'
    BY <1>1, <1>3, <2>2 DEF CallsOK
  <2> QED
    BY <1>4, <2>2, <2>3, <2>5, <2>6 DEF NetInv
<1>6. CASE pc' = "publish" /\ UNCHANGED <<copies, unheard, faults>>
  <2>1. TypeOK'
    BY <1>1, <1>6 DEF NetInv, TypeOK, PC
  <2>2. ~InHand'
    BY <1>6 DEF InHand
  <2> QED
    BY <1>1, <1>2, <1>4, <1>6, <2>1, <2>2, QuietStep
<1> QED
  BY <1>1, <1>5, <1>6

(* The answer ends the call, or its URL is all that is left to ask for.      *)
LEMMA AnswerEnds ==
  ASSUME TypeOK, Answered
  PROVE  \/ pc' = "permalink" /\ UNCHANGED err
         \/ pc' = "returned" /\ err' = "none"
<1>1. CASE post.mode = "comment"
  BY <1>1 DEF Answered, CommentAnswered, Return
<1>2. CASE post.mode # "comment" /\ post.net = "x"
  BY <1>2 DEF Answered, XAnswered, AskForURL, Return
<1>3. CASE post.mode # "comment" /\ post.net = "linkedin"
  BY <1>3 DEF Answered, LinkedInAnswered, AskForURL, Return
<1>4. CASE post.mode # "comment" /\ post.net = "facebook"
  BY <1>4 DEF Answered, FacebookAnswered, AskForURL
<1>5. CASE post.mode # "comment" /\ post.net = "instagram"
  BY <1>5 DEF Answered, InstagramAnswered, AskForURL
<1>6. post.net \in Net
  BY PostMedia DEF TypeOK
<1> QED
  BY <1>6, <1>1, <1>2, <1>3, <1>4, <1>5 DEF Net

LEMMA PublishInv == ASSUME NetInv, Publish PROVE NetInv'
<1>1. /\ pc = "publish" /\ UNCHANGED <<post, made, job, late, tries, outcome>>
      /\ \/ Appears(FALSE) /\ Answered /\ UNCHANGED <<unheard, faults>>
         \/ RequestFails /\ UNCHANGED <<copies, unheard, faults>>
         \/ /\ Appears(FALSE) /\ RequestFails /\ unheard' = unheard + 1
            /\ faults < MaxFaults /\ faults' = faults + 1
  BY DEF Publish, GoesUnheard, Fault
<1>2. outcome = "open" /\ ~InHand /\ Len(copies) = unheard
  BY <1>1, RunningCopies
<1>3. /\ faults' \in 0..MaxFaults /\ unheard' \in Nat /\ unheard \in Nat /\ err = "none"
      /\ made' \in Seq(1..MaxMedia) /\ job' \in {"none", "running", "ready", "failed"} /\ late' \in BOOLEAN
  <2>1. faults \in 0..MaxFaults /\ unheard \in Nat /\ made \in Seq(1..MaxMedia)
        /\ job \in {"none", "running", "ready", "failed"} /\ late \in BOOLEAN
    BY DEF NetInv, TypeOK
  <2>2. err = "none"
    BY <1>1 DEF NetInv, CallOK
  <2>3. \/ UNCHANGED <<unheard, faults>>
        \/ unheard' = unheard + 1 /\ faults < MaxFaults /\ faults' = faults + 1
    BY DEF Publish, GoesUnheard, Fault
  <2>4. UNCHANGED <<made, job, late>>
    BY DEF Publish
  <2> QED
    BY <2>1, <2>2, <2>3, <2>4
<1>4. CASE Appears(FALSE) /\ (Answered \/ RequestFails)
  <2>1. /\ copies' \in Seq(Copy) /\ CopiesOK' /\ Len(copies) \in Nat /\ Len(copies') = Len(copies) + 1
        /\ \A i \in 1..Len(copies') :
             /\ copies'[i].call <= tries'
             /\ copies'[i].article => post'.net = "linkedin"
        /\ \A i, j \in 1..Len(copies') : i < j =>
             copies'[i].call < copies'[j].call \/ (copies'[i].article /\ ~copies'[j].article)
    <3>1. Appears(pc = "article") /\ UNCHANGED <<post, tries>>
      BY <1>1, <1>4
    <3> QED
      BY <1>1, <3>1, CopyAdded
  <2>2. copies' # copies
    BY <2>1
  <2>3. CASE Answered /\ UNCHANGED <<unheard, faults>>
    <3>1. \/ pc' = "permalink" /\ err' = "none"
          \/ pc' = "returned" /\ err' = "none"
      BY <1>3, <2>3, AnswerEnds DEF NetInv
    <3>2. TypeOK'
      BY <1>1, <1>3, <2>1, <3>1 DEF NetInv, TypeOK, PC, Errors
    <3>3. CallOK'
      BY <1>1, <1>2, <3>1, SamePost DEF NetInv, CallOK
    <3>4. InHand'
      BY <3>1 DEF InHand
    <3>5. CountsOK'
      BY <1>1, <1>2, <1>3, <2>1, <2>3, <3>4 DEF CountsOK
    <3>6. CallsOK'
      BY <2>1, <3>1 DEF CallsOK
    <3> QED
      BY <2>1, <3>2, <3>3, <3>5, <3>6 DEF NetInv
  <2>4. CASE RequestFails /\ unheard' = unheard + 1
    <3>1. PICK e \in {"plain", "auth", "processing"} : pc' = "returned" /\ err' = e
      BY <2>4, FailingReads DEF Return
    <3>2. TypeOK'
      BY <1>1, <1>3, <2>1, <3>1 DEF NetInv, TypeOK, PC, Errors
    <3>3. CallOK'
      BY <1>1, <1>2, <3>1, SamePost DEF NetInv, CallOK
    <3>4. ~InHand'
      BY <3>1 DEF InHand
    <3>5. CountsOK'
      BY <1>1, <1>2, <1>3, <2>1, <2>4, <3>4 DEF CountsOK
    <3>6. CallsOK'
      BY <2>1, <3>1 DEF CallsOK
    <3> QED
      BY <2>1, <3>2, <3>3, <3>5, <3>6 DEF NetInv
  <2> QED
    BY <1>1, <2>2, <2>3, <2>4
<1>5. CASE RequestFails /\ UNCHANGED <<copies, unheard, faults>>
  <2>1. PICK e \in {"plain", "auth", "processing", "shape"} : Return(e)
    BY <1>5, FailingReads
  <2> QED
    BY <1>1, <1>3, <1>5, <2>1, CallFails
<1> QED
  BY <1>1, <1>4, <1>5

LEMMA PermalinkInv == ASSUME NetInv, Permalink PROVE NetInv'
<1>1. /\ pc = "permalink" /\ pc' = "returned" /\ err' = "none"
      /\ UNCHANGED <<post, made, job, late, copies, unheard, tries, outcome, faults>>
  BY DEF Permalink, Return
<1>2. TypeOK'
  BY <1>1 DEF NetInv, TypeOK, PC, Errors
<1>3. CallOK'
  BY <1>1, SamePost DEF NetInv, CallOK
<1>4. CopiesOK' /\ CountsOK' /\ CallsOK'
  BY <1>1, SamePost DEF NetInv, CallOK, CopiesOK, CountsOK, CallsOK, InHand
<1> QED
  BY <1>2, <1>3, <1>4 DEF NetInv

LEMMA RepeatInv == ASSUME NetInv, Repeat PROVE NetInv'
<1>1. /\ pc = "returned" /\ outcome = "open" /\ err = "auth"
      /\ pc' = "check" /\ err' = "none" /\ tries' = 2
      /\ UNCHANGED <<post, made, job, late, copies, unheard, outcome, faults>>
  BY DEF Repeat
<1>2. TypeOK'
  BY <1>1 DEF NetInv, TypeOK, PC, Errors
<1>3. CallOK'
  BY <1>1, SamePost DEF NetInv, CallOK
<1>4. CopiesOK' /\ CountsOK'
  BY <1>1, SamePost DEF NetInv, CopiesOK, CountsOK, InHand
<1>5. CallsOK'
  <2>1. \A i \in 1..Len(copies) : copies[i].call <= 1
    BY <1>1 DEF NetInv, CallsOK, Repeat
  <2>2. \A i \in 1..Len(copies) : copies[i].call \in 1..2
    <3>1. \A i \in 1..Len(copies) : copies[i] \in Copy
      BY ElementOfSeq DEF NetInv, TypeOK
    <3> QED
      BY <3>1 DEF Copy
  <2> QED
    BY <1>1, <2>1, <2>2 DEF NetInv, CallsOK
<1> QED
  BY <1>2, <1>3, <1>4, <1>5 DEF NetInv

LEMMA SettleInv == ASSUME NetInv, Settle PROVE NetInv'
<1>1. /\ pc = "returned" /\ outcome = "open"
      /\ UNCHANGED <<post, pc, made, job, late, copies, unheard, err, tries, faults>>
      /\ err = "none" => outcome' = "mark"
      /\ err = "processing" => outcome' = "defer"
      /\ err \notin {"none", "processing"} => outcome' = "fail"
  BY DEF Settle
<1>2. TypeOK'
  BY <1>1 DEF NetInv, TypeOK
<1>3. CallOK'
  BY <1>1, SamePost DEF NetInv, CallOK
<1>4. CopiesOK'
  BY <1>1, SamePost DEF NetInv, CopiesOK
<1>5. InHand <=> err = "none"
  BY <1>1 DEF InHand
<1>6. CountsOK'
  BY <1>1, <1>5 DEF NetInv, TypeOK, CountsOK
<1>7. CallsOK'
  BY <1>1 DEF NetInv, CallsOK
<1> QED
  BY <1>2, <1>3, <1>4, <1>6, <1>7 DEF NetInv

LEMMA StepInv == ASSUME NetInv, [Next]_vars PROVE NetInv'
<1>1. CASE UNCHANGED vars
  <2>1. TypeOK'
    BY <1>1 DEF NetInv, TypeOK, vars
  <2>2. CallOK' /\ CopiesOK' /\ CountsOK' /\ CallsOK'
    BY <1>1, SamePost DEF NetInv, CallOK, CopiesOK, CountsOK, CallsOK, InHand, vars
  <2> QED
    BY <2>1, <2>2 DEF NetInv
<1>2. CASE Client
  BY <1>2, CheckInv, ReadPageInv, ArticleInv, UploadInv, PollInv, PublishInv, PermalinkInv,
     RepeatInv, SettleInv DEF Client
<1> QED
  BY <1>1, <1>2, WaitInv DEF Next, Done

THEOREM Invariance == Spec => []NetInv
<1>1. NetInv /\ [Next]_vars => NetInv'
  BY StepInv
<1> QED
  BY InitNetInv, <1>1, PTL DEF Spec

(* Every reachable state is well typed; in particular the call never holds   *)
(* more media than the post has.                                             *)
THEOREM TypeCorrect == Spec => []TypeOK
<1>1. NetInv => TypeOK
  BY DEF NetInv
<1> QED
  BY Invariance, <1>1, PTL

(* Two copies are two answers that were lost, or one and the one that came,  *)
(* whatever the errors of the first call read like: the books balance, and   *)
(* no call leaves more than one copy but LinkedIn's with an article.         *)
THEOREM NoCopyUnaccounted == Spec => []CopiesAccounted
<1>1. NetInv => CopiesAccounted
  <2> SUFFICES ASSUME NetInv PROVE CopiesAccounted
    OBVIOUS
  <2>1. DOMAIN copies = 1..Len(copies)
    BY LenProperties DEF NetInv, TypeOK
  <2> QED
    BY <2>1 DEF NetInv, CountsOK, CallsOK, CopiesAccounted
<1> QED
  BY Invariance, <1>1, PTL

(* A copy shows all the media in their order: a call that is repeated starts *)
(* with none, and no network's upload is left before the last medium.        *)
THEOREM CopiesWhole == Spec => []CopiesAreWhole
<1>1. NetInv => CopiesAreWhole
  <2> SUFFICES ASSUME NetInv, NEW i \in DOMAIN copies
               PROVE  copies[i].media = [n \in 1..All |-> n]
    BY DEF CopiesAreWhole
  <2>1. i \in 1..Len(copies) /\ copies[i] \in Copy
    BY LenProperties, ElementOfSeq DEF NetInv, TypeOK
  <2>2. copies[i].media \in Seq(1..MaxMedia) /\ All \in Nat
    BY <2>1, PostMedia DEF Copy, NetInv, TypeOK, All
  <2> HIDE DEF All
  <2> QED
    BY <2>1, <2>2, OnlyOneOrder DEF NetInv, CopiesOK
<1> QED
  BY Invariance, <1>1, PTL

-----------------------------------------------------------------------------
(* The detailed call is one that the publish cycle expects.                  *)
LEMMA InitCall == Init => Call!Init
<1> SUFFICES ASSUME Init PROVE Call!Init
  OBVIOUS
<1>1. pc = "check" /\ outcome = "open" /\ tries = 1 /\ copies = <<>> /\ unheard = 0
  BY DEF Init
<1>2. Phase = "first"
  BY <1>1 DEF Phase, InHand
<1>3. Len(copies) = 0
  BY <1>1, EmptySeq
<1> QED
  BY <1>1, <1>2, <1>3 DEF Call!Init

(* Most requests say nothing to the publish cycle.                           *)
LEMMA Unnoticed ==
  ASSUME NetInv, outcome = "open", outcome' = "open", tries' = tries,
         InHand' <=> InHand, UNCHANGED <<copies, unheard>>
  PROVE  UNCHANGED Call!pvars
<1>1. Phase' = Phase
  BY DEF Phase
<1> QED
  BY <1>1 DEF Call!pvars

(* A copy goes out: with the answer, or without.                             *)
LEMMA Delivered ==
  ASSUME NetInv, pc \in {"article", "publish"}, Appears(pc = "article"), UNCHANGED <<post, tries, outcome>>,
         InHand' => UNCHANGED unheard,
         ~InHand' => unheard' = unheard + 1
  PROVE  Call!Next
<1>1. Len(copies') = Len(copies) + 1
  BY CopyAdded
<1>2. outcome = "open" /\ ~InHand
  BY RunningCopies
<1>3. Phase \in {"first", "again"}
  BY <1>2 DEF Phase
<1>4. CASE InHand'
  <2>1. Phase' = "mark"
    BY <1>2, <1>4 DEF Phase
  <2>2. Call!Ok
    BY <1>1, <1>3, <1>4, <2>1 DEF Call!Ok, Call!Running
  <2> QED
    BY <2>2 DEF Call!Next
<1>5. CASE ~InHand'
  <2>1. Phase' = Phase
    BY <1>2, <1>5 DEF Phase
  <2>2. Call!Lost
    BY <1>1, <1>3, <1>5, <2>1 DEF Call!Lost, Call!Running
  <2> QED
    BY <2>2 DEF Call!Next
<1> QED
  BY <1>4, <1>5

LEMMA StepCall == ASSUME NetInv, [Next]_vars PROVE [Call!Next]_(Call!pvars)
<1>1. CASE UNCHANGED vars
  <2>1. Phase' = Phase
    BY <1>1 DEF Phase, InHand, vars
  <2> QED
    BY <1>1, <2>1 DEF Call!pvars, vars
<1>2. CASE Check \/ ReadPage \/ Thumbnail \/ Upload \/ Poll \/ Parent \/ Permalink
  <2>1. UNCHANGED <<copies, unheard, tries, outcome>> /\ pc # "returned"
        /\ (pc = "permalink" => Permalink)
    BY <1>2 DEF Check, ReadPage, Thumbnail, Upload, Poll, Parent, Permalink
  <2>2. outcome = "open"
    BY <2>1 DEF NetInv, TypeOK, CallOK
  <2>3. InHand' <=> InHand
    <3>1. CASE Permalink
      BY <3>1 DEF Permalink, Return, InHand
    <3>2. CASE Check
      BY <3>2 DEF Check, Return, FirstRequest, InHand
    <3>3. CASE ReadPage \/ Thumbnail
      BY <3>3 DEF ReadPage, Thumbnail, InHand
    <3>4. CASE Upload
      <4>1. pc = "upload" /\ ((pc' = AfterUpload(Len(made) + 1) /\ UNCHANGED err) \/ RequestFails \/ Return("shape"))
        BY <3>4 DEF Upload
      <4>2. post.net \in Net
        BY PostMedia DEF NetInv, TypeOK
      <4>3. AfterUpload(Len(made) + 1) \in {"wait", "upload", "publish", "parent"}
        <5>1. CASE post.net = "x"
          BY <5>1 DEF AfterUpload, AfterXUpload
        <5>2. CASE post.net = "linkedin"
          BY <5>2 DEF AfterUpload, AfterLinkedInUpload
        <5>3. CASE post.net = "facebook"
          BY <5>3 DEF AfterUpload, AfterFacebookPhoto
        <5>4. CASE post.net = "instagram"
          <6>1. AfterUpload(Len(made) + 1) = AfterContainer(Len(made) + 1)
            BY <5>4 DEF AfterUpload
          <6>2. CASE Carousel
            BY <6>1, <6>2 DEF AfterContainer
          <6>3. CASE ~Carousel
            BY <6>1, <6>3 DEF AfterContainer
          <6> QED
            BY <6>2, <6>3
        <5> QED
          BY <4>2, <5>1, <5>2, <5>3, <5>4 DEF Net
      <4> QED
        BY <4>1, <4>3 DEF RequestFails, Readings, Return, InHand
    <3>5. CASE Poll \/ Parent
      BY <3>5 DEF Poll, Parent, XPoll, InstagramPoll, Proceed, RequestFails, Readings, Return, InHand
    <3> QED
      BY <1>2, <3>1, <3>2, <3>3, <3>4, <3>5
  <2> QED
    BY <2>1, <2>2, <2>3, Unnoticed
<1>3. CASE Process \/ DeadlinePasses
  <2>1. UNCHANGED <<pc, err, copies, unheard, tries, outcome>>
    BY <1>3 DEF Process, DeadlinePasses
  <2>2. Phase' = Phase
    BY <2>1 DEF Phase, InHand
  <2> QED
    BY <2>1, <2>2 DEF Call!pvars
<1>4. CASE Article
  <2>1. /\ pc = "article" /\ UNCHANGED <<post, err, tries, outcome>>
        /\ \/ Appears(TRUE) /\ pc' = "permalink" /\ UNCHANGED unheard
           \/ pc' = "publish" /\ UNCHANGED <<copies, unheard>>
           \/ Appears(TRUE) /\ pc' = "publish" /\ unheard' = unheard + 1
    BY <1>4 DEF Article, GoesUnheard
  <2>2. /\ InHand' <=> pc' = "permalink"
        /\ outcome = "open" /\ ~InHand
    BY <1>4, RunningCopies DEF Article, InHand
  <2>3. CASE Appears(TRUE) /\ (pc' = "permalink" => UNCHANGED unheard)
                           /\ (pc' # "permalink" => unheard' = unheard + 1)
    <3>1. Appears(pc = "article")
      BY <2>1, <2>3
    <3>2. Call!Next
      BY <2>1, <2>2, <2>3, <3>1, Delivered
    <3> QED
      BY <3>2
  <2>4. CASE pc' = "publish" /\ UNCHANGED <<copies, unheard>>
    BY <2>1, <2>2, <2>4, Unnoticed
  <2> QED
    BY <2>1, <2>3, <2>4
<1>5. CASE Publish
  <2>1. /\ pc = "publish" /\ UNCHANGED <<post, tries, outcome>>
        /\ \/ Appears(FALSE) /\ Answered /\ UNCHANGED unheard
           \/ RequestFails /\ UNCHANGED <<copies, unheard>>
           \/ Appears(FALSE) /\ RequestFails /\ unheard' = unheard + 1
    BY <1>5 DEF Publish, GoesUnheard
  <2>2. outcome = "open" /\ ~InHand
    BY <2>1, RunningCopies
  <2>3. CASE Appears(FALSE) /\ Answered /\ UNCHANGED unheard
    <3>1. InHand'
      BY <2>3, AnswerEnds DEF NetInv, InHand
    <3>2. Appears(pc = "article")
      BY <2>1, <2>3
    <3>3. Call!Next
      BY <2>1, <2>3, <3>1, <3>2, Delivered
    <3> QED
      BY <3>3
  <2>4. CASE Appears(FALSE) /\ RequestFails /\ unheard' = unheard + 1
    <3>1. ~InHand'
      BY <2>4, FailingReads DEF Return, InHand
    <3>2. Appears(pc = "article")
      BY <2>1, <2>4
    <3>3. Call!Next
      BY <2>1, <2>4, <3>1, <3>2, Delivered
    <3> QED
      BY <3>3
  <2>5. CASE RequestFails /\ UNCHANGED <<copies, unheard>>
    <3>1. ~InHand'
      BY <2>5, FailingReads DEF Return, InHand
    <3> QED
      BY <2>1, <2>2, <2>5, <3>1, Unnoticed
  <2> QED
    BY <2>1, <2>3, <2>4, <2>5
<1>6. CASE Repeat
  <2>1. /\ pc = "returned" /\ outcome = "open" /\ outcome' = "open" /\ err = "auth" /\ tries = 1
        /\ pc' = "check" /\ tries' = 2 /\ UNCHANGED <<copies, unheard>>
    BY <1>6 DEF Repeat
  <2>2. Phase = "first" /\ Phase' = "again"
    BY <2>1 DEF Phase, InHand
  <2>3. Call!Error
    BY <2>1, <2>2 DEF Call!Error, Call!Running, Call!Falls
  <2> QED
    BY <2>3 DEF Call!Next
<1>7. CASE Settle
  <2>1. /\ pc = "returned" /\ outcome = "open" /\ UNCHANGED <<copies, unheard>>
        /\ err = "none" => outcome' = "mark"
        /\ err # "none" => outcome' \in {"fail", "defer"}
    BY <1>7 DEF Settle
  <2>2. CASE err = "none"
    <3>1. Phase = "mark" /\ Phase' = "mark"
      BY <2>1, <2>2 DEF Phase, InHand
    <3> QED
      BY <2>1, <3>1 DEF Call!pvars
  <2>3. CASE err # "none"
    <3>1. Phase \in {"first", "again"} /\ Phase' \in {"fail", "defer"}
      BY <2>1, <2>3 DEF Phase, InHand
    <3>2. Call!Error
      BY <2>1, <3>1 DEF Call!Error, Call!Running, Call!Falls
    <3> QED
      BY <3>2 DEF Call!Next
  <2> QED
    BY <2>2, <2>3
<1> QED
  BY <1>1, <1>2, <1>3, <1>4, <1>5, <1>6, <1>7 DEF Next, Client, Done

(* To the publish cycle an attempt is at most two calls, of which each gives *)
(* an answer, fails, or leaves a copy that nobody heard of.                  *)
THEOREM KeepsCall == Spec => KeepsToTheCall
<1>1. NetInv /\ [Next]_vars => [Call!Next]_(Call!pvars)
  BY StepCall
<1> QED
  BY InitCall, Invariance, <1>1, PTL DEF Spec, KeepsToTheCall, Call!Spec

-----------------------------------------------------------------------------
(* Drafts that were accepted.                                                *)
LEMMA NoneOfThatKind ==
  ASSUME TypeOK, NEW K
  PROVE  /\ Count(K) \in Nat
         /\ Count(K) = 0 <=> \A n \in 1..All : post.media[n] \notin K
<1> DEFINE S == {i \in DOMAIN post.media : post.media[i] \in K}
<1>1. DOMAIN post.media = 1..All /\ All \in Nat
  BY PostMedia DEF TypeOK, All
<1> HIDE DEF All
<1>2. IsFiniteSet(S)
  <2>1. IsFiniteSet(1..All)
    BY <1>1, FS_Interval
  <2>2. S \subseteq 1..All
    BY <1>1
  <2> HIDE DEF S
  <2> QED
    BY <2>1, <2>2, FS_Subset
<1>3. Count(K) = Cardinality(S)
  BY DEF Count
<1>4. Count(K) \in Nat /\ (Count(K) = 0 <=> S = {})
  <2> HIDE DEF S
  <2> QED
    BY <1>2, <1>3, FS_EmptySet, FS_CardinalityType
<1>5. S = {} <=> \A n \in 1..All : post.media[n] \notin K
  BY <1>1
<1> QED
  BY <1>4, <1>5

LEMMA AcceptedPublishes ==
  ASSUME NetInv, DraftAccepted, ~TakenForVideo
  PROVE  /\ PublishAccepts
         /\ post.net = "linkedin" /\ post.mode # "comment" =>
              \A n \in 1..All : post.media[n] \notin Neither
<1>1. post.net \in Net /\ TypeOK /\ All \in Nat
  BY PostMedia DEF NetInv, TypeOK, All
<1>2. CASE post.mode = "comment"
  BY <1>2 DEF DraftAccepted, FollowUpOK, PublishAccepts
<1>3. CASE post.mode # "comment" /\ post.net = "x"
  BY <1>3 DEF PublishAccepts
<1>4. CASE post.mode # "comment" /\ post.net = "linkedin"
  <2>1. LinkedInDraftOK
    BY <1>4 DEF DraftAccepted
  <2>2. \A n \in 1..All : post.media[n] \notin Neither
    BY <1>1, <2>1, NoneOfThatKind DEF LinkedInDraftOK, AlbumOK
  <2>3. MixOK(Video)
    <3> HIDE DEF All
    <3>1. CASE All = 0
      BY <1>1, <3>1, NoneCounted DEF MixOK
    <3>2. CASE All = 1
      BY <3>2 DEF MixOK
    <3>3. CASE All > 1
      <4>1. Count(OnlyVideo) = 0
        BY <2>1, <3>3 DEF LinkedInDraftOK, MixOK
      <4>2. ~(Count(Image \cap Video) > 0)
        BY <1>4, <3>3 DEF TakenForVideo
      <4>3. Count(Image \cap Video) = 0
        BY <1>1, <4>2, NoneOfThatKind
      <4>4. \A n \in 1..All : post.media[n] \notin OnlyVideo /\ post.media[n] \notin Image \cap Video
        BY <1>1, <4>1, <4>3, NoneOfThatKind
      <4>5. \A n \in 1..All : post.media[n] \notin Video
        BY <4>4 DEF OnlyVideo
      <4>6. Count(Video) = 0
        BY <1>1, <4>5, NoneOfThatKind
      <4> QED
        BY <4>6 DEF MixOK
    <3> QED
      BY <1>1, <3>1, <3>2, <3>3
  <2>4. PublishAccepts
    BY <1>4, <2>3 DEF PublishAccepts
  <2> QED
    BY <2>2, <2>4
<1>5. CASE post.mode # "comment" /\ post.net = "facebook"
  BY <1>5 DEF DraftAccepted, PublishAccepts, FacebookDraftOK
<1>6. CASE post.mode # "comment" /\ post.net = "instagram"
  BY <1>6 DEF DraftAccepted, PublishAccepts
<1> QED
  BY <1>1, <1>2, <1>3, <1>4, <1>5, <1>6 DEF Net

(* Publish counts the image that is taken for a video, and refuses.          *)
LEMMA TakenIsRefused ==
  ASSUME NetInv, TakenForVideo
  PROVE  ~PublishAccepts
<1>1. TypeOK /\ post.net = "linkedin" /\ All > 1 /\ Count(Image \cap Video) > 0
  BY DEF NetInv, TakenForVideo
<1>2. Count(Video) # 0
  <2> HIDE DEF All
  <2>1. Count(Image \cap Video) # 0
    BY <1>1
  <2>2. ~ \A n \in 1..All : post.media[n] \notin Image \cap Video
    BY <1>1, <2>1, NoneOfThatKind
  <2>3. ~ \A n \in 1..All : post.media[n] \notin Video
    BY <2>2
  <2> QED
    BY <1>1, <2>3, NoneOfThatKind
<1>3. ~MixOK(Video) /\ All # 0
  <2> HIDE DEF All
  <2> QED
    BY <1>1, <1>2 DEF MixOK
<1> QED
  BY <1>1, <1>3 DEF PublishAccepts

(* A step that refuses a post for its shape, refuses one that was not        *)
(* accepted, or is taken for a video.                                        *)
LEMMA ShapeIsNew ==
  ASSUME NetInv, [Next]_vars, err' = "shape", err # "shape", ~TakenForVideo
  PROVE  ~DraftAccepted
<1>1. CASE Check
  <2>1. ~PublishAccepts
    BY <1>1 DEF Check
  <2> QED
    BY <2>1, AcceptedPublishes
<1>2. CASE Upload
  <2>1. /\ pc = "upload" /\ post.net = "linkedin"
        /\ post.media[Len(made) + 1] \in Neither
    BY <1>2, FailingReads DEF Upload, Return
  <2>2. post.mode # "comment" /\ Len(made) + 1 \in 1..All
    <3>1. Len(made) \in Nat /\ All \in Nat
      BY PostMedia DEF NetInv, TypeOK, All
    <3> HIDE DEF All
    <3> QED
      BY <2>1, <3>1 DEF NetInv, CallOK
  <2> QED
    BY <2>1, <2>2, AcceptedPublishes
<1>3. CASE Publish
  <2>1. Answered \/ RequestFails
    BY <1>3 DEF Publish
  <2>2. Answered => err' \in {err, "none"}
    BY AnswerEnds DEF NetInv
  <2>3. RequestFails => err' # "shape"
    BY FailingReads DEF Return
  <2> QED
    BY <2>1, <2>2, <2>3
<1>4. CASE UNCHANGED vars
  BY <1>4 DEF vars
<1>5. CASE Poll \/ Parent
  BY <1>5, FailingReads DEF Poll, Parent, XPoll, InstagramPoll, Proceed, Return
<1>6. CASE \/ ReadPage \/ Thumbnail \/ Article \/ Permalink \/ Repeat \/ Settle
           \/ Process \/ DeadlinePasses
  BY <1>6 DEF ReadPage, Thumbnail, Article, Permalink, Return, Repeat, Settle, Process, DeadlinePasses
<1> QED
  BY <1>1, <1>2, <1>3, <1>4, <1>5, <1>6 DEF Next, Client, Done

LEMMA PostStays == ASSUME [Next]_vars PROVE post' = post
BY DEF Next, Client, Check, ReadPage, Thumbnail, Article, Upload, Poll, Parent, Publish, Permalink,
   Repeat, Settle, Process, DeadlinePasses, Done, vars

(* What a draft was accepted with is refused for its shape only where        *)
(* LinkedIn's Publish counts a video that ValidateDraft counted as an image, *)
(* and there always: such a post never goes out.                             *)
THEOREM AcceptedStays == Spec => []AcceptedIsNotRefused
<1> DEFINE Foreseen == DraftAccepted /\ err = "shape" => TakenForVideo
<1>1. Init => Foreseen
  BY DEF Init
<1>2. NetInv /\ Foreseen /\ [Next]_vars => Foreseen'
  <2> SUFFICES ASSUME NetInv, Foreseen, [Next]_vars, DraftAccepted', err' = "shape", ~TakenForVideo'
               PROVE  FALSE
    OBVIOUS
  <2>1. DraftAccepted /\ ~TakenForVideo
    BY PostStays DEF DraftAccepted, FollowUpOK, LinkedInDraftOK, FacebookDraftOK, InstagramMediaOK,
       AlbumOK, MixOK, All, Count, TakenForVideo
  <2> QED
    BY <2>1, ShapeIsNew
<1>3. NetInv /\ Foreseen => AcceptedIsNotRefused
  <2> SUFFICES ASSUME NetInv, TakenForVideo PROVE copies = <<>>
    BY DEF AcceptedIsNotRefused
  <2>1. Len(copies) = 0
    <3>1. Len(copies) \in Nat /\ ~ \E i \in 1..Len(copies) : TRUE
      BY TakenIsRefused, LenProperties DEF NetInv, TypeOK, CopiesOK
    <3> QED
      BY <3>1
  <2> QED
    BY <2>1, EmptySeq DEF NetInv, TypeOK
<1> HIDE DEF Foreseen
<1>4. Spec => []Foreseen
  BY <1>1, <1>2, Invariance, PTL DEF Spec
<1> QED
  BY <1>3, <1>4, Invariance, PTL
=============================================================================
