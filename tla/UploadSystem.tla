---------------------------- MODULE UploadSystem ----------------------------
(***************************************************************************)
(* The life of a photo: the API's requests, the clients' transfers, the    *)
(* room owner, the cleanup worker and the thumbnail worker over one        *)
(* database, one bucket and one clock.                                     *)
(***************************************************************************)
EXTENDS MediaService, RoomOwner, CleanupWorker, ThumbnailWorker

CONSTANTS
  MaxTime,  \* bound: the clock stops here
  Prompt    \* TRUE: no transfer, request or thumbnail job lasts a clock tick

ASSUME Clock == MaxTime \in Nat /\ Prompt \in BOOLEAN

vars == <<now, tables, store, req, heard, cut, worker, jobs>>

TypeOK == /\ TablesTypeOK /\ StorageTypeOK /\ MediaTypeOK /\ OwnerTypeOK
          /\ WorkerTypeOK /\ ThumbnailTypeOK

Init == /\ TablesInit /\ StorageInit /\ MediaInit /\ OwnerInit
        /\ WorkerInit /\ ThumbnailInit

Quiet == /\ inflight = {}
         /\ \A q \in Req : req[q].pc = "idle"
         /\ \A t \in Thumbnailer : thumbnailer[t].pc = "idle"

Tick == /\ now < MaxTime
        /\ Prompt => Quiet
        /\ now' = now + 1
        /\ UNCHANGED <<tables, store, req, heard, cut, worker, jobs>>

ApiStep     == MediaNext /\ UNCHANGED <<cut, worker, jobs>>
ClientStep  == StorageNext /\ UNCHANGED <<req, heard, cut, worker, jobs>>
OwnerStep   == OwnerNext /\ UNCHANGED <<store, req, heard, worker, jobs>>
CleanupStep == WorkerNext /\ UNCHANGED <<req, heard, cut, jobs>>
ThumbStep   == ThumbnailNext /\ UNCHANGED <<req, heard, cut, worker>>

Next == Tick \/ ApiStep \/ ClientStep \/ OwnerStep \/ CleanupStep \/ ThumbStep

Spec == Init /\ [][Next]_vars

\* What the code's scheduling keeps doing: the ticker starts batches, and a
\* step of the cleanup that can be taken over and over is not skipped, or cut
\* short, every single time.  Nothing is assumed of the clock.
Fairness ==
  \A w \in Worker :
    LET Mine(A) == A /\ UNCHANGED <<req, heard, cut, jobs>> IN
    /\ WF_vars(Mine(BeginBatch(w))) /\ WF_vars(Mine(PurgeUpload(w)))
    /\ SF_vars(Mine(UploadsDone(w))) /\ SF_vars(Mine(RoomsDone(w)))
    /\ SF_vars(Mine(RemovePrefix(w))) /\ SF_vars(Mine(DropRoom(w)))
    /\ \A m \in Media : SF_vars(Mine(ClaimUpload(w, m)))
    /\ \A r \in Room : SF_vars(Mine(ClaimRoom(w, r)))

FairSpec == Spec /\ Fairness

-----------------------------------------------------------------------------
(* Safety                                                                  *)

\* The two rows of an upload change in step although four handlers and the
\* worker write them: an open session has a pending media, a completed one a
\* media that is or was ready, a settled one a media that failed or was
\* deleted; both go with their room (media/service.go, cleanup/service.go).
RowsAgree == \A m \in Media :
  /\ sessionStatus[m] = "none" <=> mediaStatus[m] = "none"
  /\ Open(m) <=> mediaStatus[m] = "pending"
  /\ sessionStatus[m] = "completed" => mediaStatus[m] \in {"ready", "deleted"}
  /\ mediaStatus[m] = "ready" => sessionStatus[m] = "completed"
  /\ Settled(m) => mediaStatus[m] \in {"failed", "deleted"}
  /\ sessionStatus[m] = "gone" <=> mediaStatus[m] = "gone"
  /\ mediaStatus[m] = "gone" <=> home[m] \in Room /\ roomStatus[home[m]] = "gone"

\* The counters of a room are what its rows say, whichever of Complete, Abort,
\* the size check, Delete and the worker reached an upload first: nothing is
\* released twice or left reserved.
CountersExact == \A r \in Room : roomStatus[r] # "gone" =>
  /\ reservedFiles[r] = Cardinality(OpenIn(r))
  /\ usedFiles[r] = Cardinality(ReadyIn(r))
  /\ reservedBytes[r] = Bytes(size, OpenIn(r))
  /\ usedBytes[r] = Bytes(size, ReadyIn(r))

\* A room never holds or promises more than its limits, counted on the rows
\* and not on the counters (lockRoomForUpload).
WithinLimits == \A r \in Room :
  /\ Cardinality(OpenIn(r) \cup ReadyIn(r)) <= MaxFiles
  /\ Bytes(size, OpenIn(r) \cup ReadyIn(r)) <= MaxBytes

\* No client is told that an upload is ready and another that it is aborted,
\* and what was answered stays true while the row lives (Complete, Abort).
AnswersAgree == \A m \in Media :
  /\ <<"ready", m>> \in told => sessionStatus[m] \in {"completed", "gone"}
  /\ <<"aborted", m>> \in told => Settled(m) \/ sessionStatus[m] = "gone"

\* No upload URL outlives its session and no session outlives its room, also
\* the URLs still on their way to the client (effectivePresignTTL, Initiate).
LeaseChain ==
  /\ \A m \in Media : mediaStatus[m] # "none" =>
       urlUntil[m] <= expiresAt[m] /\ expiresAt[m] <= RoomExpiry[home[m]]
  /\ \A q \in Req : req[q].pc = "mark" => req[q].until <= expiresAt[req[q].media]

\* A ready multipart media is in the bucket with its declared size until its
\* deletion or its room's is decided, whatever Abort, a second Complete and
\* the worker did meanwhile.
MultipartReadyStored == \A m \in Media :
  /\ mediaStatus[m] = "ready" /\ Multipart(m)
  /\ m \notin doomed /\ RoomOpen(home[m])
  => object[m] = size[m]

\* Thumbnail status and key of a row tell the same, also when two copies of
\* the worker held the same job (process, markFailed).
ThumbColumnsAgree == \A m \in Media : hasThumb[m] <=> thumbStatus[m] = "ready"

\* Once a room that lived to its expiry is gone, no object of it is left,
\* if no transfer or job outlasts a tick of the clock (runBatch).
ExpiredRoomClean == \A m \in Media :
  /\ home[m] \in Room /\ roomStatus[home[m]] = "gone"
  /\ home[m] \notin cut
  => object[m] = 0 /\ m \notin thumb

\* A thumbnail the gallery offers is in the bucket until its media's deletion
\* or its room's is decided, if no job outlasts a tick and no UPDATE that was
\* committed returned an error: a copy that takes its object back takes no
\* other's (process, Gallery).
ThumbStored == \A m \in Media :
  hasThumb[m] /\ m \notin doomed \cup mislaid /\ RoomOpen(home[m]) => m \in thumb

\* Two copies of the thumbnail worker never share a job, if no job outlasts
\* a tick (claim).
ThumbJobsDisjoint == \A t, u \in Thumbnailer :
  /\ thumbnailer[t].pc # "idle" /\ thumbnailer[u].pc # "idle"
  /\ thumbnailer[t].media = thumbnailer[u].media
  => t = u

-----------------------------------------------------------------------------
(* Action properties                                                       *)

\* A session that ended keeps its end, and a deleted media never comes back,
\* until the room goes: late Completes, Aborts and part-URL requests that read
\* the rows before do not reopen them.
EndsAreFinal == [][\A m \in Media :
  /\ Settled(m) \/ sessionStatus[m] = "completed"
       => sessionStatus'[m] \in {sessionStatus[m], "gone"}
  /\ mediaStatus[m] = "deleted" => mediaStatus'[m] \in {"deleted", "gone"}]_vars

-----------------------------------------------------------------------------
(* Liveness                                                                *)

\* An upload nobody finished by its end does not hold its reservation for
\* ever, also if its room never ends (expireUploads).
AbandonedUploadsEnd == \A m \in Media :
  Open(m) /\ expiresAt[m] <= now ~> ~Open(m)

\* A room that is deleted by its owner or reaches its expiry is removed in
\* the end, whatever fails on the way (claimRoom, RemovePrefix, DELETE).
DueRoomsGo == \A r \in Room :
  roomStatus[r] = "deleting" \/ RoomExpiry[r] <= now ~> roomStatus[r] = "gone"

-----------------------------------------------------------------------------
(* Refinement                                                              *)

LedgerState == [m \in Media |->
  CASE mediaStatus[m] = "none"    -> "free"
    [] mediaStatus[m] = "pending" -> "reserved"
    [] mediaStatus[m] = "ready"   -> "stored"
    [] mediaStatus[m] = "gone"    -> "erased"
    [] OTHER                      -> "released"]

Promise == INSTANCE UploadLedger WITH
  live  <- {r \in Room : roomStatus[r] # "gone"},
  state <- LedgerState, place <- home, bytes <- size, asked <- key

\* The whole system keeps the ledger's promise to each room: the counters
\* admit an upload only when the rows leave room for it, a key that is sent
\* again gets no second one, and every path an upload takes is reserve, keep,
\* release, erase (media, cleanup).
KeepsPromise == Promise!LedgerSpec

-----------------------------------------------------------------------------
(* What the documentation promises and the code does not keep              *)

\* README.md:99: the API checks the size, then makes the media ready.  So a
\* ready media nobody deleted has an object.
ReadyHasObject == \A m \in Media :
  mediaStatus[m] = "ready" /\ m \notin doomed /\ RoomOpen(home[m]) => object[m] # 0

\* README.md:3: after the room's time the worker deletes its media from the
\* bucket, then the rows.
GoneRoomHasNoObject == \A m \in Media :
  home[m] \in Room /\ roomStatus[home[m]] = "gone" => object[m] = 0

\* README.md:8: the worker clears abandoned uploads.
GoneRoomHasNoParts == \A m \in Media :
  home[m] \in Room /\ roomStatus[home[m]] = "gone" => multipart[m] # "open"
=============================================================================
