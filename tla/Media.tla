-------------------------------- MODULE Media --------------------------------
(***************************************************************************)
(* The media library: files in the data directory and rows in the database *)
(* (internal/api/upload_stream.go, internal/api/mcp_media.go,              *)
(* internal/application/media, internal/db/media.go), with the posts and   *)
(* the content plan variant that use the media.                            *)
(*                                                                         *)
(* A file is written before its row and removed after it; the database     *)
(* enforces its foreign keys.  Ids are random and never used again.  A     *)
(* post is a thread of one step.  MaxFaults bounds the crashes and the     *)
(* files that cannot be written or removed.                                *)
(***************************************************************************)
EXTENDS Naturals, FiniteSets

CONSTANTS Media, Post, Request,
          None,       \* no medium
          MaxFaults

ASSUME MediaAssumption == None \notin Media /\ IsFiniteSet(Post) /\ MaxFaults \in Nat

VARIABLES
  file,    \* the data directory: "none", "part" or "whole" of each file
  row,     \* table media: "none", "there" or "gone", and if it is a page
  post,    \* tables posts and post_media
  variant, \* content_plan_variants.media_id of one variant
  attempt, \* of each post, the media of the attempt to publish it, if any
  req,     \* the requests
  leaked,  \* history: files left behind by a fault
  faults

vars == <<file, row, post, variant, attempt, req, leaked, faults>>

Stage == {"absent", "draft", "scheduled", "publishing", "published", "failed", "canceled", "gone"}
Type  == {"media", "page", "other"} \* image or video; html, xhtml or svg; anything else

(* media: the rows of post_media; given: history, the media it was last      *)
(* given, but for those deleted when it was over or called off.              *)
Posts == [stage : Stage, media : SUBSET Media, given : SUBSET Media]

NoPost == [stage |-> "absent", media |-> {}, given |-> {}]

(* at: what comes next; one: the medium; post, all: a post and its media;    *)
(* files: the files to be removed.                                           *)
Reqs == [at : {"idle", "write", "row", "use", "insert", "edit", "remove"}, one : Media \cup {None},
         post : Post \cup {None}, all : SUBSET Media, files : SUBSET Media]

Idle == [at |-> "idle", one |-> None, post |-> None, all |-> {}, files |-> {}]

TypeOK ==
  /\ file \in [Media -> {"none", "part", "whole"}]
  /\ row \in [Media -> [is : {"none", "there", "gone"}, page : BOOLEAN]]
  /\ post \in [Post -> Posts]
  /\ variant \in Media \cup {None}
  /\ attempt \in [Post -> {None} \cup SUBSET Media]
  /\ req \in [Request -> Reqs]
  /\ leaked \subseteq Media /\ faults \in 0..MaxFaults

Init ==
  /\ file = [m \in Media |-> "none"]
  /\ row = [m \in Media |-> [is |-> "none", page |-> FALSE]]
  /\ post = [p \in Post |-> NoPost]
  /\ variant = None
  /\ attempt = [p \in Post |-> None]
  /\ req = [r \in Request |-> Idle]
  /\ leaked = {} /\ faults = 0

There(m) == row[m].is = "there"
Set(r, q) == req' = [req EXCEPT ![r] = q]
Fault == faults < MaxFaults /\ faults' = faults + 1

-----------------------------------------------------------------------------
(* Uploads and generated images.                                             *)

(* detectUploadedMimeType: "page" is a refusal.  sniffed is what the first   *)
(* bytes look like, ext what the name says; "none" and "generic" say nothing. *)
Detected(declared, sniffed, ext) ==
  IF "page" \in {declared, sniffed} THEN "page"
  ELSE IF sniffed = "media" THEN "media"
  ELSE IF ext # "none" THEN ext
  ELSE IF declared \notin {"none", "generic"} THEN declared
  ELSE sniffed

(* A new id, and the file begun: saveUploadToDisk, mcpUploadMediaTool and    *)
(* PersistGeneratedMedia. *)
BeginFile(r, m) ==
  /\ req[r] = Idle
  /\ file[m] = "none" /\ row[m].is = "none" /\ \A o \in Request : req[o].one # m
  /\ file' = [file EXCEPT ![m] = "part"]
  /\ Set(r, [Idle EXCEPT !.at = "write", !.one = m])
  /\ UNCHANGED <<row, post, variant, attempt, leaked, faults>>

(* The file of an upload that is too large, breaks off or is refused goes. *)
Refused(m) == [file EXCEPT ![m] = "none"]

(* The upload is whole and of type t, or is not kept.                        *)
WriteFile(r, declared, sniffed, ext) ==
  LET m == req[r].one
      t == Detected(declared, sniffed, ext)
  IN  /\ req[r].at = "write"
      /\ \/ /\ t # "page"
            /\ file' = [file EXCEPT ![m] = "whole"]
            /\ row' = [row EXCEPT ![m].page = "page" \in {sniffed, t}]
            /\ Set(r, [req[r] EXCEPT !.at = "row"])
         \/ /\ file' = Refused(m)
            /\ Set(r, Idle)
            /\ UNCHANGED row
      /\ UNCHANGED <<post, variant, attempt, leaked, faults>>

(* os.WriteFile fails, and what is there of the file stays there. *)
WriteFails(r) ==
  /\ req[r].at = "write" /\ Fault
  /\ leaked' = leaked \cup {req[r].one}
  /\ Set(r, Idle)
  /\ UNCHANGED <<file, row, post, variant, attempt>>

(* CreateMedia; a generated image is used next, the id of an upload goes to  *)
(* the client. *)
CreateMedia(r) ==
  /\ req[r].at = "row"
  /\ row' = [row EXCEPT ![req[r].one].is = "there"]
  /\ \/ Set(r, Idle)
     \/ Set(r, [req[r] EXCEPT !.at = "use"])
  /\ UNCHANGED <<file, post, variant, attempt, leaked, faults>>

(* When the row cannot be created the file goes again. *)
CreateMediaFails(r) ==
  /\ req[r].at = "row" /\ Fault
  /\ file' = [file EXCEPT ![req[r].one] = "none"]
  /\ Set(r, Idle)
  /\ UNCHANGED <<row, post, variant, attempt, leaked>>

-----------------------------------------------------------------------------
(* Posts and variants use media.                                             *)

Pending == {"draft", "scheduled", "publishing", "failed"}
Editable == {"draft", "scheduled", "failed", "canceled"}

(* loadThreadSegmentMediaByID: all of them are there when they are looked at. *)
CheckMedia(r, p, all) ==
  /\ req[r] = Idle
  /\ post[p].stage \in Editable \cup {"absent"}
  /\ \A m \in all : There(m)
  /\ Set(r, [Idle EXCEPT !.at = IF post[p].stage = "absent" THEN "insert" ELSE "edit",
                         !.post = p, !.all = all])
  /\ UNCHANGED <<file, row, post, variant, attempt, leaked, faults>>

(* CreatePost, UpdatePostEditable and UpdateThreadEditable with media: a     *)
(* transaction, that a medium deleted meanwhile makes fail.                  *)
WritePost(r) ==
  LET p == req[r].post
  IN  /\ \/ req[r].at = "insert" /\ post[p].stage = "absent"
         \/ req[r].at = "edit" /\ post[p].stage \in Editable
      /\ \A m \in req[r].all : There(m)
      /\ \E to \in {"draft", "scheduled"} :
           post' = [post EXCEPT ![p] = [stage |-> to, media |-> req[r].all, given |-> req[r].all]]
      /\ Set(r, Idle)
      /\ UNCHANGED <<file, row, variant, attempt, leaked, faults>>

WritePostFails(r) ==
  /\ \/ req[r].at \in {"insert", "edit"} /\ \E m \in req[r].all : ~There(m)
     \/ req[r].at = "edit" /\ post[req[r].post].stage \notin Editable
     \/ req[r].at = "insert" /\ post[req[r].post].stage # "absent"
  /\ Set(r, Idle)
  /\ UNCHANGED <<file, row, post, variant, attempt, leaked, faults>>

(* A generated image goes to a campaign's draft, or to the variant it was    *)
(* generated for (CompleteContentPlanVariant), unless it is deleted by then. *)
UseGenerated(r) ==
  LET m == req[r].one
  IN  /\ req[r].at = "use"
      /\ \/ /\ There(m) /\ variant' = m /\ UNCHANGED post
            /\ Set(r, Idle)
         \/ \E p \in Post : /\ post[p].stage = "absent"
                            /\ Set(r, [Idle EXCEPT !.at = "insert", !.post = p, !.all = {m}])
                            /\ UNCHANGED <<post, variant>>
         \/ ~There(m) /\ Set(r, Idle) /\ UNCHANGED <<post, variant>>
      /\ UNCHANGED <<file, row, attempt, leaked, faults>>

(* UpdateContentPlanVariant, ResetContentPlanVariants. *)
EditVariant(m) ==
  /\ m # None => There(m)
  /\ variant' = m
  /\ UNCHANGED <<file, row, post, attempt, req, leaked, faults>>

-----------------------------------------------------------------------------
(* A medium is deleted if nothing uses it.                                   *)

(* Mutant: a post that failed has no use for its media. *)
UsageOfWaiting(m) ==
  Cardinality({p \in Post : m \in post[p].media /\ post[p].stage \in {"draft", "scheduled", "publishing"}})
    + (IF variant = m THEN 1 ELSE 0)

(* Mutant: variants do not count. *)
UsageOfPosts(m) ==
  Cardinality({p \in Post : m \in post[p].media /\ post[p].stage \notin {"published", "canceled"}})

(* The usage count of ListMediaFiltered and DeleteMediaIfUnused. *)
Usage(m) ==
  Cardinality({p \in Post : m \in post[p].media /\ post[p].stage \notin {"published", "canceled"}})
    + (IF variant = m THEN 1 ELSE 0)

(* What DeleteMediaUnusedByPendingPosts looks for. *)
Unused(m) ==
  /\ There(m)
  /\ ~\E p \in Post : m \in post[p].media /\ post[p].stage \notin {"published", "canceled"}
  /\ variant # m

(* Mutant: the files go first. *)
DeleteRowsLast(r, all) ==
  /\ Set(r, [Idle EXCEPT !.at = "remove", !.files = all])
  /\ UNCHANGED <<file, row, post, variant, attempt, leaked, faults>>

(* The rows in one transaction; the files of them afterwards. *)
DeleteRows(r, all) ==
  /\ row' = [m \in Media |-> IF m \in all THEN [row[m] EXCEPT !.is = "gone"] ELSE row[m]]
  /\ post' = [p \in Post |->
       [post[p] EXCEPT !.media = @ \ all,
                       !.given = IF post[p].stage \in {"published", "canceled"} THEN @ \ all ELSE @]]
  /\ Set(r, [Idle EXCEPT !.at = "remove", !.files = all])
  /\ UNCHANGED <<file, variant, attempt, leaked, faults>>

DeleteMediaIfUnused(r, m) ==
  /\ req[r] = Idle
  /\ There(m) /\ Usage(m) = 0
  /\ DeleteRows(r, {m})

DeleteMediaUnusedByPendingPosts(r) ==
  /\ req[r] = Idle
  /\ \E m \in Media : Unused(m)
  /\ DeleteRows(r, {m \in Media : Unused(m)})

(* The request names the medium to delete, or asks for the purge. *)
Deletes(r) == (\E m \in Media : DeleteMediaIfUnused(r, m)) \/ DeleteMediaUnusedByPendingPosts(r)

(* removeFile: each in its turn, and a failure is passed over. *)
RemoveFile(r, m) ==
  LET left == req[r].files \ {m}
  IN  /\ req[r].at = "remove" /\ m \in req[r].files
      /\ \/ file' = [file EXCEPT ![m] = "none"] /\ UNCHANGED <<leaked, faults>>
         \/ Fault /\ leaked' = leaked \cup {m} /\ UNCHANGED file
      /\ Set(r, IF left = {} THEN Idle ELSE [req[r] EXCEPT !.files = left])
      /\ UNCHANGED <<row, post, variant, attempt>>

-----------------------------------------------------------------------------
(* The other moves of a post, and the worker.                                *)
Moves(p, from, to) ==
  /\ post[p].stage \in from
  /\ post' = [post EXCEPT ![p].stage = to]

(* ScheduleDraftPost, and an edit that leaves the media as they are. *)
Schedule(p) == Moves(p, Editable, "scheduled") /\ UNCHANGED <<file, row, variant, attempt, req, leaked, faults>>
Cancel(p)   == Moves(p, {"scheduled"}, "canceled") /\ UNCHANGED <<file, row, variant, attempt, req, leaked, faults>>

(* DeletePostEditable takes the rows of post_media with it. *)
Delete(p) ==
  /\ post[p].stage \in Editable
  /\ post' = [post EXCEPT ![p] = [NoPost EXCEPT !.stage = "gone"]]
  /\ UNCHANGED <<file, row, variant, attempt, req, leaked, faults>>

(* ClaimDuePosts *)
Claim(p) ==
  /\ attempt[p] = None
  /\ Moves(p, {"scheduled"}, "publishing")
  /\ attempt' = [attempt EXCEPT ![p] = post[p].media]
  /\ UNCHANGED <<file, row, variant, req, leaked, faults>>

(* MarkPublished, RecordPublishFailure, ReschedulePublishWithoutAttempt: what *)
(* the last two find no longer in publishing they leave alone.                *)
Result(p) ==
  /\ attempt[p] # None
  /\ attempt' = [attempt EXCEPT ![p] = None]
  /\ \/ post' = [post EXCEPT ![p].stage = IF @ = "gone" THEN @ ELSE "published"]
     \/ \E to \in {"failed", "scheduled"} :
          post' = [post EXCEPT ![p].stage = IF @ = "publishing" THEN to ELSE @]
  /\ UNCHANGED <<file, row, variant, req, leaked, faults>>

(* RecoverStalePublishingPosts, when the attempt has come to nothing. *)
Recover(p) == attempt[p] = None /\ Moves(p, {"publishing"}, "failed") /\ UNCHANGED <<file, row, variant, attempt, req, leaked, faults>>

(* The server stops and starts again. *)
Crash ==
  /\ Fault
  /\ req' = [r \in Request |-> Idle]
  /\ attempt' = [p \in Post |-> None]
  /\ leaked' = leaked \cup (UNION {req[r].files : r \in Request})
                 \cup {req[r].one : r \in {o \in Request : req[o].at \in {"write", "row"}}}
  /\ UNCHANGED <<file, row, post, variant>>

Next ==
  \/ \E r \in Request :
       \/ \E m \in Media : BeginFile(r, m) \/ RemoveFile(r, m)
       \/ \E declared \in Type \cup {"none", "generic"}, sniffed \in Type, ext \in Type \cup {"none"} :
            WriteFile(r, declared, sniffed, ext)
       \/ WriteFails(r) \/ CreateMedia(r) \/ CreateMediaFails(r) \/ WritePost(r) \/ WritePostFails(r)
       \/ UseGenerated(r) \/ Deletes(r)
       \/ \E p \in Post, all \in SUBSET Media : CheckMedia(r, p, all)
  \/ \E m \in Media \cup {None} : EditVariant(m)
  \/ \E p \in Post : Schedule(p) \/ Cancel(p) \/ Delete(p) \/ Claim(p) \/ Result(p) \/ Recover(p)
  \/ Crash

Spec == Init /\ [][Next]_vars

-----------------------------------------------------------------------------
(* A medium that the library lists has its whole file, and the file does not *)
(* read as a page, whatever it is called and declared to be; and without a   *)
(* fault no file is left behind: one that is not a medium's is being written *)
(* or removed.  (upload_stream.go:52, :172, service.go:111)                  *)
FilesMatchRows ==
  /\ \A m \in Media : There(m) => file[m] = "whole" /\ ~row[m].page
  /\ \A m \in Media : file[m] # "none" /\ ~There(m) =>
       m \in leaked \/ \E r \in Request : m = req[r].one \/ m \in req[r].files

(* A post that can still go out has the media it was last given, but for     *)
(* those deleted while it was canceled, and while it is being published the  *)
(* files of the attempt are there.  (media.go:100, :179)                     *)
UsesAreKept ==
  \A p \in Post :
    /\ post[p].stage \in Pending => post[p].media = post[p].given
    /\ post[p].stage = "publishing" /\ attempt[p] # None =>
         \A m \in attempt[p] : file[m] = "whole"

(* The purge takes a medium if and only if it could be deleted by itself,    *)
(* and the library shows as unused what it does.  (media.go:35, :100, :160)  *)
PurgeAgrees == \A m \in Media : There(m) => (Unused(m) <=> Usage(m) = 0)
=============================================================================
