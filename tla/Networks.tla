------------------------------ MODULE Networks ------------------------------
(***************************************************************************)
(* One attempt of the worker to publish a post: the requests X, LinkedIn,  *)
(* Facebook and Instagram take (internal/postflow), and what the publish   *)
(* cycle makes of the result (publishcycle/runner.go).                     *)
(*                                                                         *)
(* A post on a network is the result of several requests: uploads,         *)
(* containers, polling, then one request that makes it public.  Each may   *)
(* be refused, may never arrive, or may be served and its answer lost.  An *)
(* answer lost after the post went out is a fault; MaxFaults bounds them.  *)
(***************************************************************************)
EXTENDS Naturals, Sequences, FiniteSets

CONSTANTS
  MaxMedia,   \* bound on the media of a post
  AlbumMax,   \* most media of one post (9 on LinkedIn, 10 on Meta's)
  MaxFaults   \* bound on the answers lost after a post went out

ASSUME NetworksAssumption ==
  /\ MaxMedia \in Nat
  /\ AlbumMax \in Nat \ {0, 1}
  /\ MaxFaults \in Nat

VARIABLES
  post,    \* the call's arguments
  pc,      \* where Publish is
  made,    \* media uploaded so far, as positions in post.media
  job,     \* the network's processing of the upload that is waited for
  late,    \* ContainerReadyTimeout has passed
  copies,  \* history: the public copies, each with its media and its call
  unheard, \* history: how many of them were never reported to the caller
  err,     \* the error Publish returned
  tries,   \* calls of Publish in this attempt
  outcome, \* what the runner does with the result
  faults

vars == <<post, pc, made, job, late, copies, unheard, err, tries, outcome, faults>>

Net == {"x", "linkedin", "facebook", "instagram"}

(* A medium is an image by its MIME type or by its name, and a video by its  *)
(* MIME type or by its name: what is uploaded as image/jpeg and is called    *)
(* x.mp4 is both.  Instagram takes some formats of each ("fit").             *)
Fit   == {"no", "unfit", "fit"}
Kind  == [image : Fit, video : Fit]
Image == {k \in Kind : k.image # "no"}
Video == {k \in Kind : k.video # "no"}
Neither == Kind \ (Image \cup Video)

(* page: what the first URL of the text leads to, if there is one.           *)
Post ==
  [net : Net, mode : {"root", "reply", "comment"},
   media : UNION {[1..n -> Kind] : n \in 0..MaxMedia},
   page : {"none", "private", "titled", "pictured"}]

(* The runner replies on X and comments elsewhere; the page matters to       *)
(* LinkedIn's posts without media alone.                                     *)
Reachable(p) ==
  /\ p.mode # "root" => p.mode = (IF p.net = "x" THEN "reply" ELSE "comment")
  /\ p.page # "none" => p.net = "linkedin" /\ p.mode = "root" /\ p.media = <<>>

PC == {"check", "page", "thumbnail", "article", "upload", "wait", "parent",
       "publish", "permalink", "returned"}
Errors == {"none", "shape", "plain", "auth", "processing"}
Copy == [media : Seq(1..MaxMedia), article : BOOLEAN, call : 1..2]

TypeOK ==
  /\ post \in Post
  /\ pc \in PC
  /\ made \in Seq(1..MaxMedia)
  /\ job \in {"none", "running", "ready", "failed"}
  /\ late \in BOOLEAN
  /\ copies \in Seq(Copy)
  /\ unheard \in Nat
  /\ err \in Errors
  /\ tries \in 1..2
  /\ outcome \in {"open", "mark", "fail", "defer"}
  /\ faults \in 0..MaxFaults

Init ==
  /\ post \in {p \in Post : Reachable(p)}
  /\ pc = "check" /\ made = <<>> /\ job = "none" /\ late = FALSE
  /\ copies = <<>> /\ unheard = 0
  /\ err = "none" /\ tries = 1 /\ outcome = "open" /\ faults = 0

Count(kinds) == Cardinality({i \in DOMAIN post.media : post.media[i] \in kinds})
All == Len(post.media)

-----------------------------------------------------------------------------
(* What a draft must look like: ValidateDraft of each provider for the first *)
(* step of a thread, validateFollowUpSegment for the others.                 *)
AlbumOK        == All <= AlbumMax /\ Count(Neither) = 0
MixOK(videos)  == Count(videos) = 0 \/ All = 1

(* The validation asks for an image first: only the rest are videos to it.   *)
OnlyVideo == Video \ Image

InstagramTakes(k) == k \notin Neither /\ k.image # "unfit" /\ k.video # "unfit"

InstagramMediaOK ==
  /\ All \in 1..AlbumMax
  /\ IF All = 1 THEN InstagramTakes(post.media[1])
     ELSE \A n \in 1..All : post.media[n].image = "fit"

FollowUpOK      == All = 0
LinkedInDraftOK == AlbumOK /\ MixOK(OnlyVideo)
FacebookDraftOK == AlbumOK /\ MixOK(OnlyVideo)

(* Mutant: Instagram's album may hold any images. *)
DraftAcceptedLoose ==
  IF post.mode = "comment" THEN FollowUpOK
  ELSE CASE post.net = "x" -> TRUE
         [] post.net = "linkedin" -> LinkedInDraftOK
         [] post.net = "facebook" -> FacebookDraftOK
         [] post.net = "instagram" -> All \in 1..AlbumMax

DraftAccepted ==
  IF post.mode = "comment" THEN FollowUpOK
  ELSE CASE post.net = "x" -> TRUE
         [] post.net = "linkedin" -> LinkedInDraftOK
         [] post.net = "facebook" -> FacebookDraftOK
         [] post.net = "instagram" -> InstagramMediaOK

(* What Publish itself checks before its first request.  LinkedIn's counts   *)
(* all videos here, those that are images by their MIME type too.            *)
PublishAccepts ==
  IF post.mode = "comment" THEN All = 0
  ELSE CASE post.net = "x" -> TRUE
         [] post.net = "linkedin" -> MixOK(Video)
         [] post.net = "facebook" -> AlbumOK /\ MixOK(OnlyVideo)
         [] post.net = "instagram" -> InstagramMediaOK

-----------------------------------------------------------------------------
Return(e) == pc' = "returned" /\ err' = e

(* An error's text is all the runner sees of it, and isAuthFailure finds     *)
(* "401" anywhere in it: in an id of the URL, a local port ("read tcp        *)
(* 10.0.0.5:40124->...: connection reset"), a page that a gateway answered   *)
(* with.  isTransientMediaProcessingError needs the name of Instagram, which *)
(* the errors of its provider begin with, and words a gateway may use.       *)
Readings == {"plain", "auth"} \cup (IF post.net = "instagram" THEN {"processing"} ELSE {})

Fault == faults < MaxFaults /\ faults' = faults + 1

(* A request that fails: refused, no answer, or none that can be used. *)
RequestFails == \E e \in Readings : Return(e)

(* A request that makes the post public, and its copy. *)
Appears(article) ==
  copies' = Append(copies, [media |-> made, article |-> article, call |-> tries])

(* Its answer is lost, is an error of something in between, or is not the    *)
(* JSON with an id that it should be.  LinkedIn's posts make an id up then.  *)
GoesUnheard(article) ==
  /\ Fault
  /\ Appears(article)
  /\ unheard' = unheard + 1

-----------------------------------------------------------------------------
Direct == post.net = "facebook" /\ Count(OnlyVideo) = 1
Carousel == post.net = "instagram" /\ All > 1

(* After the checks: a comment, a text and Facebook's video need no upload;  *)
(* a LinkedIn text may become an article.                                    *)
FirstRequest ==
  IF post.mode = "comment" THEN "publish"
  ELSE IF All = 0 /\ post.net = "linkedin" THEN "page"
  ELSE IF All = 0 \/ Direct THEN "publish"
  ELSE "upload"

Check ==
  /\ pc = "check"
  /\ \/ ~PublishAccepts /\ Return("shape")
     \/ PublishAccepts /\ pc' = FirstRequest /\ UNCHANGED err
  /\ made' = IF Direct THEN <<1>> ELSE <<>>
  /\ UNCHANGED <<post, job, late, copies, unheard, tries, outcome, faults>>

(* Only public hosts are asked, redirects included. *)
Fetchable == post.page # "private"

(* fetchArticleMetadata: without a page that has a title, an ordinary post. *)
ReadPage ==
  /\ pc = "page"
  /\ \/ pc' = "publish"
     \/ Fetchable /\ post.page = "titled" /\ pc' = "article"
     \/ Fetchable /\ post.page = "pictured" /\ pc' = "thumbnail"
  /\ UNCHANGED <<post, made, job, late, copies, unheard, err, tries, outcome, faults>>

(* uploadArticleThumbnail: the article does without one that fails. *)
Thumbnail ==
  /\ pc = "thumbnail"
  /\ pc' = "article"
  /\ UNCHANGED <<post, made, job, late, copies, unheard, err, tries, outcome, faults>>

(* Mutant: the post is published whether or not the article was. *)
ArticleAsWell ==
  /\ pc = "article"
  /\ \/ Appears(TRUE) /\ pc' = "publish" /\ UNCHANGED <<unheard, faults>>
     \/ pc' = "publish" /\ UNCHANGED <<copies, unheard, faults>>
     \/ GoesUnheard(TRUE) /\ pc' = "publish"
  /\ UNCHANGED <<post, made, job, late, err, tries, outcome>>

(* publishArticlePost: any error is dropped and the post is published the    *)
(* ordinary way, the article that went out without an answer included.       *)
Article ==
  /\ pc = "article"
  /\ \/ Appears(TRUE) /\ pc' = "permalink" /\ UNCHANGED <<unheard, faults>>
     \/ pc' = "publish" /\ UNCHANGED <<copies, unheard, faults>>
     \/ GoesUnheard(TRUE) /\ pc' = "publish"
  /\ UNCHANGED <<post, made, job, late, err, tries, outcome>>

(* One medium after the other, and where its upload leads.  X: INIT, APPEND  *)
(* and FINALIZE, then its processing is waited for.                          *)
AfterXUpload == "wait"

(* LinkedIn: an upload is registered, then sent.  Facebook: an unpublished   *)
(* photo.                                                                    *)
AfterLinkedInUpload(n) == IF n < All THEN "upload" ELSE "publish"
AfterFacebookPhoto(n)  == IF n < All THEN "upload" ELSE "publish"

(* Instagram: a container each, of which a video's is waited for.            *)
AfterContainer(n) ==
  CASE Carousel -> IF n < All THEN "upload" ELSE "parent"
    [] OTHER -> IF post.media[1] \in Video THEN "wait" ELSE "publish"

AfterUpload(n) ==
  CASE post.net = "x" -> AfterXUpload
    [] post.net = "linkedin" -> AfterLinkedInUpload(n)
    [] post.net = "facebook" -> AfterFacebookPhoto(n)
    [] post.net = "instagram" -> AfterContainer(n)

(* X need not say anything about the processing of an upload. *)
NoInfo == IF post.net = "x" THEN {"none"} ELSE {}

(* A failing request ends the call and leaves what it uploaded. *)
Upload ==
  /\ pc = "upload"
  /\ LET n == Len(made) + 1
     IN  \/ /\ post.net = "linkedin" => post.media[n] \notin Neither
            /\ made' = Append(made, n)
            /\ pc' = AfterUpload(n)
            /\ job' \in IF pc' = "wait" THEN {"running"} \cup NoInfo ELSE {"none"}
            /\ UNCHANGED err
         \/ RequestFails /\ UNCHANGED <<made, job>>
         \/ /\ post.net = "linkedin" /\ post.media[n] \in Neither
            /\ Return("shape") /\ UNCHANGED <<made, job>>
  /\ late' = FALSE
  /\ UNCHANGED <<post, copies, unheard, tries, outcome, faults>>

(* The network processes an upload, successfully or not. *)
Process ==
  /\ job = "running"
  /\ job' \in {"ready", "failed"}
  /\ UNCHANGED <<post, pc, made, late, copies, unheard, err, tries, outcome, faults>>

DeadlinePasses ==
  /\ pc = "wait" /\ post.net = "instagram" /\ ~late
  /\ late' = TRUE
  /\ UNCHANGED <<post, pc, made, job, copies, unheard, err, tries, outcome, faults>>

(* Mutant: the first medium that is ready will do. *)
ProceedAtOnce == pc' = "publish" /\ UNCHANGED err

(* The wait is over: the next medium of a tweet, or the post. *)
Proceed == pc' = (IF Len(made) < All THEN "upload" ELSE "publish") /\ UNCHANGED err


(* waitForXProcessing polls for as long as the media are being processed,    *)
(* and takes media without processing information for ready.  The reason of  *)
(* a failure is quoted in the error.                                         *)
XPoll ==
  \/ job \in {"none", "ready"} /\ Proceed
  \/ job = "failed" /\ RequestFails

(* waitForInstagramContainerReady gives up at its deadline; the error quotes *)
(* the status it was answered.                                               *)
InstagramPoll ==
  \/ job = "ready" /\ Proceed
  \/ job = "failed" /\ RequestFails
  \/ job = "running" /\ late /\ RequestFails

Poll ==
  /\ pc = "wait"
  /\ \/ post.net = "x" /\ XPoll
     \/ post.net = "instagram" /\ InstagramPoll
     \/ RequestFails
  /\ job' = "none"
  /\ UNCHANGED <<post, made, late, copies, unheard, tries, outcome, faults>>

(* The container of a carousel. *)
Parent ==
  /\ pc = "parent"
  /\ \/ pc' = "publish" /\ UNCHANGED err
     \/ RequestFails
  /\ UNCHANGED <<post, made, job, late, copies, unheard, tries, outcome, faults>>

(* An answer ends the call, for a post after its URL was asked for.          *)
(* LinkedIn's publish goes without the URL when it had to make the id up.    *)
AskForURL == pc' = "permalink" /\ UNCHANGED err

CommentAnswered   == Return("none")
XAnswered         == IF post.mode = "root" THEN AskForURL ELSE Return("none")
LinkedInAnswered  == AskForURL \/ Return("none")
FacebookAnswered  == AskForURL
InstagramAnswered == AskForURL

Answered ==
  IF post.mode = "comment" THEN CommentAnswered
  ELSE CASE post.net = "x" -> XAnswered
         [] post.net = "linkedin" -> LinkedInAnswered
         [] post.net = "facebook" -> FacebookAnswered
         [] post.net = "instagram" -> InstagramAnswered

(* The post is out with an answer, is not, or is out without one. *)
Publish ==
  /\ pc = "publish"
  /\ \/ Appears(FALSE) /\ Answered /\ UNCHANGED <<unheard, faults>>
     \/ RequestFails /\ UNCHANGED <<copies, unheard, faults>>
     \/ GoesUnheard(FALSE) /\ RequestFails
  /\ UNCHANGED <<post, made, job, late, tries, outcome>>

(* The URL of the post is asked for and not needed. *)
Permalink ==
  /\ pc = "permalink"
  /\ Return("none")
  /\ UNCHANGED <<post, made, job, late, copies, unheard, tries, outcome, faults>>

-----------------------------------------------------------------------------
(* Mutant: whatever the error, the call is repeated. *)
RepeatBlindly ==
  /\ pc = "returned" /\ outcome = "open"
  /\ tries = 1
  /\ tries' = 2
  /\ pc' = "check" /\ err' = "none"
  /\ UNCHANGED <<post, made, job, late, copies, unheard, outcome, faults>>

(* The publish cycle with the result.  After a 401 the credentials are       *)
(* refreshed and Publish is called once more.                                *)
Repeat ==
  /\ pc = "returned" /\ outcome = "open"
  /\ err = "auth" /\ tries = 1
  /\ tries' = 2
  /\ pc' = "check" /\ err' = "none"
  /\ UNCHANGED <<post, made, job, late, copies, unheard, outcome, faults>>

(* ... or the refresh fails. *)
Settle ==
  /\ pc = "returned" /\ outcome = "open"
  /\ outcome' = CASE err = "none" -> "mark"
                  [] err = "processing" -> "defer"
                  [] OTHER -> "fail"
  /\ UNCHANGED <<post, pc, made, job, late, copies, unheard, err, tries, faults>>

Client ==
  \/ Check \/ ReadPage \/ Thumbnail \/ Article \/ Upload \/ Poll \/ Parent
  \/ Publish \/ Permalink \/ Repeat \/ Settle

Done == outcome # "open" /\ UNCHANGED vars

Next == Client \/ Process \/ DeadlinePasses \/ Done

Spec == Init /\ [][Next]_vars

(* Every request of the client ends, with its client's timeout at the        *)
(* latest, and time passes.  Nothing is assumed of Instagram's processing;   *)
(* X's has to end, for the code waits for it without a deadline of its own.  *)
FairSpec ==
  /\ Spec
  /\ WF_vars(Client)
  /\ WF_vars(DeadlinePasses)
  /\ WF_vars(post.net = "x" /\ Process)

-----------------------------------------------------------------------------
(* An attempt that is marked as published has one copy with an answer, and   *)
(* whatever else it left on the network, like the copies of an attempt that  *)
(* failed or was put off, is what lost answers stand for.  One call leaves   *)
(* two copies at most, and two only of a LinkedIn text whose article was     *)
(* lost first; any other two copies are of the two calls of the attempt.     *)
(* (linkedin.go:109, runner.go:126, :134)                                    *)
CopiesAccounted ==
  /\ outcome = "mark" => Len(copies) = unheard + 1
  /\ outcome \in {"fail", "defer"} => Len(copies) = unheard
  /\ \A i, j \in DOMAIN copies : i < j =>
       \/ copies[i].call < copies[j].call
       \/ post.net = "linkedin" /\ copies[i].article /\ ~copies[j].article

(* Every copy shows the media of the post, all of them and in their order,   *)
(* whatever was uploaded by a call that had to be repeated.                  *)
CopiesAreWhole ==
  \A i \in DOMAIN copies : copies[i].media = [n \in 1..All |-> n]

(* An album for LinkedIn in which an image is taken for a video. *)
TakenForVideo == post.net = "linkedin" /\ All > 1 /\ Count(Image \cap Video) > 0

(* What the validation of a draft accepts is refused for its shape when its  *)
(* time has come only if it is such an album, for LinkedIn's two checks do   *)
(* not count alike (linkedin.go:61, :118); and then it is never published,   *)
(* however often it is tried.  (ValidateDraft against Publish, per network)  *)
AcceptedIsNotRefused ==
  DraftAccepted => /\ err = "shape" => TakenForVideo
                   /\ TakenForVideo => copies = <<>>


(* The attempt is one the publish cycle is made for. *)
InHand == pc = "permalink" \/ (pc = "returned" /\ err = "none")

Phase ==
  IF outcome # "open" THEN outcome
  ELSE IF InHand THEN "mark"
  ELSE IF tries = 1 THEN "first" ELSE "again"

Call == INSTANCE PublishCall WITH phase <- Phase, copies <- Len(copies)

KeepsToTheCall == Call!Spec
=============================================================================
