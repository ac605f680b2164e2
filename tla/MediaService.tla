---------------------------- MODULE MediaService ----------------------------
(***************************************************************************)
(* internal/media: the API's handlers for uploads and for deleting media.  *)
(* A handler is a process req[q] that reads, calls the bucket and commits  *)
(* in separate steps, so any number of them interleave.  Between steps it  *)
(* remembers only what the Go code keeps in locals: the media it works on, *)
(* whether the row it read had a thumbnail key (Delete) and until when the *)
(* part URLs it signed are valid (PartURLs).                               *)
(***************************************************************************)
EXTENDS Storage

CONSTANTS
  Req,             \* API requests served at the same time
  NoMedia,
  UploadLifetime   \* uploadLifetime

ASSUME NullMedia == NoMedia \notin Media
ASSUME Lifetime  == UploadLifetime \in Nat \ {0}

VARIABLES
  req,     \* the requests being served
  told,    \* <<answer, media>>: the 2xx answers of Complete and Abort that
           \* reached a client
  doomed   \* media whose deletion was authorised

heard == <<told, doomed>>

Steps == {"idle", "sign", "mark", "assemble", "stat", "mismatch", "release",
          "commit", "abort", "settle", "remove", "remove_thumb", "delete"}

Request(step, m, isThumb, until) ==
  [pc |-> step, media |-> m, thumb |-> isThumb, until |-> until]
Idle        == Request("idle", NoMedia, FALSE, 0)
At(step, m) == Request(step, m, FALSE, 0)

ReqTypeOK ==
  /\ req \in [Req -> [pc : Steps, media : Media \cup {NoMedia},
                      thumb : BOOLEAN, until : Nat]]
  /\ \A q \in Req : req[q].pc # "idle" => req[q].media \in Media

MediaTypeOK ==
  /\ ReqTypeOK
  /\ told \subseteq {"ready", "aborted"} \X Media
  /\ doomed \subseteq Media

MediaInit == req = [q \in Req |-> Idle] /\ told = {} /\ doomed = {}

Goto(q, step, m) == req' = [req EXCEPT ![q] = At(step, m)]
Finish(q)        == req' = [req EXCEPT ![q] = Idle]

\* Any return that changes nothing more: a store or database error, a
\* cancelled request, a crash of the API.
GiveUp(q) ==
  /\ req[q].pc # "idle"
  /\ Finish(q)
  /\ UNCHANGED <<tables, now, store, heard>>

-----------------------------------------------------------------------------
(* Initiate: one transaction under the advisory lock of the key and the    *)
(* row lock of the room, which it holds while S3 starts the multipart.     *)

Unused(m)  == mediaStatus[m] = "none" /\ multipart[m] = "none"

\* Mutant of KeyUsed: only an upload that is not finished is found.
KeyUsed_OpenOnly(k) == \E m \in Media : key[m] = k /\ Open(m)

\* findIdempotentUpload, whatever became of the upload.
KeyUsed(k) == \E m \in Media : key[m] = k /\ mediaStatus[m] # "gone"

\* Mutants of Fits: an off-by-one; the reservations are forgotten.
Fits_OffByOne(r, s) ==
  /\ usedFiles[r] + reservedFiles[r] <= MaxFiles
  /\ usedBytes[r] + reservedBytes[r] + s <= MaxBytes + 1
Fits_UsedOnly(r, s) ==
  /\ usedFiles[r] + 1 <= MaxFiles
  /\ usedBytes[r] + s <= MaxBytes

Fits(r, s) ==
  /\ usedFiles[r] + reservedFiles[r] + 1 <= MaxFiles
  /\ usedBytes[r] + reservedBytes[r] + s <= MaxBytes

\* Mutant of SessionExpiry: the room's expiry is not considered.
SessionExpiry_Uncapped(r) == now + UploadLifetime

SessionExpiry(r) == IF RoomExpiry[r] < now + UploadLifetime THEN RoomExpiry[r]
                                                             ELSE now + UploadLifetime

MayInitiate(m, r, s, k) ==
  /\ ~KeyUsed(k)
  /\ RoomOpen(r) /\ accepting[r] /\ Fits(r, s)
  /\ Unused(m)

Initiate(q, m, r, s, k) ==
  /\ req[q].pc = "idle"
  /\ MayInitiate(m, r, s, k)
  /\ multipart' = IF s > Threshold THEN [multipart EXCEPT ![m] = "open"] ELSE multipart
  /\ mediaStatus' = [mediaStatus EXCEPT ![m] = "pending"]
  /\ sessionStatus' = [sessionStatus EXCEPT ![m] = "initiated"]
  /\ home' = [home EXCEPT ![m] = r]
  /\ size' = [size EXCEPT ![m] = s]
  /\ key' = [key EXCEPT ![m] = k]
  /\ expiresAt' = [expiresAt EXCEPT ![m] = SessionExpiry(r)]
  /\ reservedFiles' = [reservedFiles EXCEPT ![r] = @ + 1]
  /\ reservedBytes' = [reservedBytes EXCEPT ![r] = @ + s]
  /\ IF s > Threshold THEN UNCHANGED req ELSE Goto(q, "sign", m)
  /\ UNCHANGED <<access, usedFiles, usedBytes, thumbCols, now,
                 object, thumb, parts, urlUntil, inflight, heard>>

\* The transaction fails after StartMultipart and the deferred
\* AbortMultipart fails too, or the process dies in between.
InitiateLost(m, r, s, k) ==
  /\ MayInitiate(m, r, s, k) /\ s > Threshold
  /\ multipart' = [multipart EXCEPT ![m] = "open"]
  /\ UNCHANGED <<tables, now, object, thumb, parts, urlUntil, inflight, req, heard>>

\* The same key again: findIdempotentUpload answers from the existing row.
InitiateAgain(q, m) ==
  /\ req[q].pc = "idle"
  /\ Open(m) /\ ~Multipart(m)
  /\ Goto(q, "sign", m)
  /\ UNCHANGED <<tables, now, store, heard>>

\* attachSingleURL, after the commit: what it checks of the row is a copy.
AttachSingleURL(q) == LET m == req[q].media IN
  /\ req[q].pc = "sign"
  /\ now < expiresAt[m]
  /\ urlUntil' = [urlUntil EXCEPT ![m] = PresignUntil(m)]
  /\ Finish(q)
  /\ UNCHANGED <<tables, now, object, thumb, multipart, parts, inflight, heard>>

-----------------------------------------------------------------------------
(* PartURLs: read, sign, then mark the session; the URLs leave with the    *)
(* answer.                                                                 *)

PartURLs(q, m) ==
  /\ req[q].pc = "idle"
  /\ Open(m) /\ Multipart(m) /\ now < expiresAt[m]
  /\ req' = [req EXCEPT ![q] = Request("mark", m, FALSE, PresignUntil(m))]
  /\ UNCHANGED <<tables, now, store, heard>>

\* Mutant of MarkUploading: the UPDATE has no "AND status = 'initiated'".
MarkUploading_Always(q) == LET m == req[q].media IN
  /\ req[q].pc = "mark"
  /\ sessionStatus' = [sessionStatus EXCEPT ![m] = "uploading"]
  /\ urlUntil' = [urlUntil EXCEPT ![m] = IF @ < req[q].until THEN req[q].until ELSE @]
  /\ Finish(q)
  /\ UNCHANGED <<access, counters, mediaStatus, columns, thumbCols, now,
                 object, thumb, multipart, parts, inflight, heard>>

MarkUploading(q) == LET m == req[q].media IN
  /\ req[q].pc = "mark"
  /\ sessionStatus' = IF sessionStatus[m] = "initiated"
                      THEN [sessionStatus EXCEPT ![m] = "uploading"]
                      ELSE sessionStatus
  /\ urlUntil' = [urlUntil EXCEPT ![m] = IF @ < req[q].until THEN req[q].until ELSE @]
  /\ Finish(q)
  /\ UNCHANGED <<access, counters, mediaStatus, columns, thumbCols, now,
                 object, thumb, multipart, parts, inflight, heard>>

-----------------------------------------------------------------------------
(* Complete                                                                *)

\* The answer may be lost on its way.
Answer(q, what, m) == Finish(q) /\ told' \in {told, told \cup {<<what, m>>}}

\* The retry of a completion already done is answered from the session row.
CompleteAlready(q, m) ==
  /\ req[q].pc = "idle"
  /\ sessionStatus[m] = "completed"
  /\ Answer(q, "ready", m)
  /\ UNCHANGED <<tables, now, store, doomed>>

CompleteRead(q, m) ==
  /\ req[q].pc = "idle"
  /\ Open(m) /\ now < expiresAt[m]
  /\ Goto(q, IF Multipart(m) THEN "assemble" ELSE "stat", m)
  /\ UNCHANGED <<tables, now, store, heard>>

CompleteAssemble(q) == LET m == req[q].media IN
  /\ req[q].pc = "assemble"
  /\ Assemble(m)
  /\ Goto(q, "stat", m)
  /\ UNCHANGED <<tables, now, thumb, parts, urlUntil, inflight, heard>>

\* CompleteMultipart fails, but the object is there: an earlier call's answer
\* was lost, or another request joined the parts.
CompleteAssembled(q) == LET m == req[q].media IN
  /\ req[q].pc = "assemble"
  /\ object[m] # 0
  /\ Goto(q, "stat", m)
  /\ UNCHANGED <<tables, now, store, heard>>

\* Mutant of CompleteStat: the size is not compared.
CompleteStat_AnySize(q) == LET m == req[q].media IN
  /\ req[q].pc = "stat"
  /\ object[m] # 0
  /\ Goto(q, "commit", m)
  /\ UNCHANGED <<tables, now, store, heard>>

CompleteStat(q) == LET m == req[q].media IN
  /\ req[q].pc = "stat"
  /\ object[m] # 0
  /\ Goto(q, IF object[m] = size[m] THEN "commit" ELSE "mismatch", m)
  /\ UNCHANGED <<tables, now, store, heard>>

\* The Remove's error is ignored.
CompleteMismatch(q) == LET m == req[q].media IN
  /\ req[q].pc = "mismatch"
  /\ RemoveObject(m) \/ UNCHANGED object
  /\ Goto(q, "release", m)
  /\ UNCHANGED <<tables, now, thumb, multipart, parts, urlUntil, inflight, heard>>

\* Mutants of SettleAs: the session's status is not read again under its lock;
\* the two statuses are swapped.
SettleAs_Blind(m, uploadStatus, newMediaStatus) ==
  ReleaseReservation(m, uploadStatus, newMediaStatus)
SettleAs_Swapped(m, uploadStatus, newMediaStatus) ==
  /\ Open(m)
  /\ ReleaseReservation(m, newMediaStatus, uploadStatus)

\* releaseReservation(upload, uploadStatus, mediaStatus): a request that
\* finds the session closed changes nothing.
SettleAs(m, uploadStatus, newMediaStatus) ==
  /\ sessionStatus[m] \notin {"none", "gone"}
  /\ IF Open(m) THEN ReleaseReservation(m, uploadStatus, newMediaStatus)
                ELSE UNCHANGED <<counters, statuses>>

CompleteReject(q) == LET m == req[q].media IN
  /\ req[q].pc = "release"
  /\ SettleAs(m, "aborted", "failed")
  /\ Finish(q)
  /\ UNCHANGED <<access, columns, thumbCols, now, store, heard>>

CompleteCommit(q) == LET m == req[q].media IN
  /\ req[q].pc = "commit"
  /\ \/ /\ Open(m)
        /\ sessionStatus' = [sessionStatus EXCEPT ![m] = "completed"]
        /\ mediaStatus' = [mediaStatus EXCEPT ![m] = "ready"]
        /\ reservedFiles' = [reservedFiles EXCEPT ![home[m]] = @ - 1]
        /\ reservedBytes' = [reservedBytes EXCEPT ![home[m]] = @ - size[m]]
        /\ usedFiles' = [usedFiles EXCEPT ![home[m]] = @ + 1]
        /\ usedBytes' = [usedBytes EXCEPT ![home[m]] = @ + size[m]]
     \/ sessionStatus[m] = "completed" /\ UNCHANGED <<counters, statuses>>
  /\ Answer(q, "ready", m)
  /\ UNCHANGED <<access, columns, thumbCols, now, store, doomed>>

-----------------------------------------------------------------------------
(* Abort                                                                   *)

AbortAlready(q, m) ==
  /\ req[q].pc = "idle"
  /\ Settled(m)
  /\ Answer(q, "aborted", m)
  /\ UNCHANGED <<tables, now, store, doomed>>

AbortRead(q, m) ==
  /\ req[q].pc = "idle"
  /\ Open(m)
  /\ Goto(q, "abort", m)
  /\ UNCHANGED <<tables, now, store, heard>>

\* A failing AbortMultipart ends the request (GiveUp); a failing Remove of a
\* single object is ignored.
AbortStore(q) == LET m == req[q].media IN
  /\ req[q].pc = "abort"
  /\ IF Multipart(m) THEN Discard(m) /\ UNCHANGED object
                     ELSE /\ RemoveObject(m) \/ UNCHANGED object
                          /\ UNCHANGED <<multipart, parts>>
  /\ Goto(q, "settle", m)
  /\ UNCHANGED <<tables, now, thumb, urlUntil, inflight, heard>>

\* Mutant of AbortSettle: releaseReservation reports no ErrUploadCompleted.
AbortSettle_Always204(q) == LET m == req[q].media IN
  /\ req[q].pc = "settle"
  /\ SettleAs(m, "aborted", "deleted")
  /\ Answer(q, "aborted", m)
  /\ UNCHANGED <<access, columns, thumbCols, now, store, doomed>>

AbortSettle(q) == LET m == req[q].media IN
  /\ req[q].pc = "settle"
  /\ SettleAs(m, "aborted", "deleted")
  /\ IF sessionStatus[m] = "completed" THEN Finish(q) /\ UNCHANGED told
                                       ELSE Answer(q, "aborted", m)
  /\ UNCHANGED <<access, columns, thumbCols, now, store, doomed>>

-----------------------------------------------------------------------------
(* Delete: the objects go first, then the row.                             *)

DeleteRead(q, m) ==
  /\ req[q].pc = "idle"
  /\ mediaStatus[m] \in {"ready", "failed"}
  /\ req' = [req EXCEPT ![q] = Request("remove", m, hasThumb[m], 0)]
  /\ doomed' = doomed \cup {m}
  /\ UNCHANGED <<tables, now, store, told>>

DeleteObject(q) == LET m == req[q].media IN
  /\ req[q].pc = "remove"
  /\ RemoveObject(m)
  /\ Goto(q, IF req[q].thumb THEN "remove_thumb" ELSE "delete", m)
  /\ UNCHANGED <<tables, now, thumb, multipart, parts, urlUntil, inflight, heard>>

DeleteThumb(q) == LET m == req[q].media IN
  /\ req[q].pc = "remove_thumb"
  /\ thumb' = thumb \ {m}
  /\ Goto(q, "delete", m)
  /\ UNCHANGED <<tables, now, object, multipart, parts, urlUntil, inflight, heard>>

DeleteCommit(q) == LET m == req[q].media IN
  /\ req[q].pc = "delete"
  /\ IF mediaStatus[m] \in {"ready", "failed"}
     THEN mediaStatus' = [mediaStatus EXCEPT ![m] = "deleted"]
     ELSE UNCHANGED mediaStatus
  /\ IF mediaStatus[m] = "ready"
     THEN /\ usedFiles' = [usedFiles EXCEPT ![home[m]] = @ - 1]
          /\ usedBytes' = [usedBytes EXCEPT ![home[m]] = @ - size[m]]
     ELSE UNCHANGED <<usedFiles, usedBytes>>
  /\ Finish(q)
  /\ UNCHANGED <<access, reservedFiles, reservedBytes, sessionStatus, columns,
                 thumbCols, now, store, heard>>

-----------------------------------------------------------------------------
Start(q, m) ==
  \/ \E r \in Room, s \in Sizes, k \in Key : Initiate(q, m, r, s, k)
  \/ InitiateAgain(q, m) \/ PartURLs(q, m)
  \/ CompleteAlready(q, m) \/ CompleteRead(q, m)
  \/ AbortAlready(q, m) \/ AbortRead(q, m)
  \/ DeleteRead(q, m)

Continue(q) ==
  \/ AttachSingleURL(q) \/ MarkUploading(q)
  \/ CompleteAssemble(q) \/ CompleteAssembled(q) \/ CompleteStat(q)
  \/ CompleteMismatch(q) \/ CompleteReject(q) \/ CompleteCommit(q)
  \/ AbortStore(q) \/ AbortSettle(q)
  \/ DeleteObject(q) \/ DeleteThumb(q) \/ DeleteCommit(q)
  \/ GiveUp(q)

MediaNext ==
  \/ \E q \in Req, m \in Media : Start(q, m)
  \/ \E q \in Req : Continue(q)
  \/ \E m \in Media, r \in Room, s \in Sizes, k \in Key : InitiateLost(m, r, s, k)
=============================================================================
