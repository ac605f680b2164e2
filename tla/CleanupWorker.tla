---------------------------- MODULE CleanupWorker ----------------------------
(***************************************************************************)
(* internal/cleanup: the worker that expires abandoned uploads and deletes *)
(* rooms.  worker[w] is one running copy; several may run, which is what   *)
(* the SKIP LOCKED of its claims is for.  A claim takes any row that is    *)
(* due: the earliest ones may be locked by another transaction, and a pass *)
(* that finds every due row locked ends as if there were none.             *)
(***************************************************************************)
EXTENDS Storage

CONSTANT Worker

VARIABLE worker

None     == "none"
Resting  == [pc |-> "idle", on |-> None]
Busy     == {"idle", "expire", "purge", "rooms", "prefix", "drop"}

WorkerTypeOK ==
  /\ worker \in [Worker -> [pc : Busy, on : Media \cup Room \cup {None}]]
  /\ \A w \in Worker : /\ worker[w].pc = "purge" => worker[w].on \in Media
                       /\ worker[w].pc \in {"prefix", "drop"} => worker[w].on \in Room

WorkerInit == worker = [w \in Worker |-> Resting]

Turn(w, step, on) == worker' = [worker EXCEPT ![w] = [pc |-> step, on |-> on]]

\* Mutants: sessions that never uploaded a part are not expired; a room whose
\* removal was interrupted, or that its owner deleted, is not claimed.
Due_UploadingOnly(m) == sessionStatus[m] = "uploading" /\ expiresAt[m] <= now
DueRoom_ActiveOnly(r) == roomStatus[r] = "active" /\ RoomExpiry[r] <= now

Due(m)     == Open(m) /\ expiresAt[m] <= now
DueRoom(r) == \/ roomStatus[r] = "active" /\ RoomExpiry[r] <= now
              \/ roomStatus[r] = "deleting"

\* The ticker fires: a batch begins with the uploads.
BeginBatch(w) ==
  /\ worker[w].pc = "idle"
  /\ Turn(w, "expire", None)
  /\ UNCHANGED <<tables, now, store>>

ClaimUpload(w, m) ==
  /\ worker[w].pc = "expire"
  /\ Due(m)
  /\ ReleaseReservation(m, "expired", "failed")
  /\ Turn(w, "purge", m)
  /\ UNCHANGED <<access, columns, thumbCols, now, store>>

\* After the commit: a failure here is logged and never tried again.
PurgeUpload(w) == LET m == worker[w].on IN
  /\ worker[w].pc = "purge"
  /\ \/ Multipart(m) /\ Discard(m) /\ UNCHANGED object
     \/ ~Multipart(m) /\ RemoveObject(m) /\ UNCHANGED <<multipart, parts>>
     \/ UNCHANGED <<object, multipart, parts>>
  /\ Turn(w, "expire", None)
  /\ UNCHANGED <<tables, now, thumb, urlUntil, inflight>>

UploadsDone(w) ==
  /\ worker[w].pc = "expire"
  /\ Turn(w, "rooms", None)
  /\ UNCHANGED <<tables, now, store>>

\* A room already 'deleting' is claimed again: by a retry, or by a second worker.
ClaimRoom(w, r) ==
  /\ worker[w].pc = "rooms"
  /\ DueRoom(r)
  /\ roomStatus' = [roomStatus EXCEPT ![r] = "deleting"]
  /\ Turn(w, "prefix", r)
  /\ UNCHANGED <<accepting, counters, statuses, columns, thumbCols, now, store>>

RoomsDone(w) ==
  /\ worker[w].pc = "rooms"
  /\ Turn(w, "idle", None)
  /\ UNCHANGED <<tables, now, store>>

InRoom(r) == {m \in Media : home[m] = r}

\* Mutant of RemovePrefix: only rooms/<id>/originals/ is listed.
RemovePrefix_Originals(w) == LET here == InRoom(worker[w].on) IN
  /\ worker[w].pc = "prefix"
  /\ object' = [m \in Media |-> IF m \in here THEN 0 ELSE object[m]]
  /\ Turn(w, "drop", worker[w].on)
  /\ UNCHANGED <<tables, now, thumb, multipart, parts, urlUntil, inflight>>

\* RemovePrefix lists the objects under rooms/<id>/ and removes them; parts
\* of open multipart uploads are not objects and are not listed.
RemovePrefix(w) == LET here == InRoom(worker[w].on) IN
  /\ worker[w].pc = "prefix"
  /\ object' = [m \in Media |-> IF m \in here THEN 0 ELSE object[m]]
  /\ thumb' = thumb \ here
  /\ Turn(w, "drop", worker[w].on)
  /\ UNCHANGED <<tables, now, multipart, parts, urlUntil, inflight>>

\* It fails after some removals, and the batch ends.
RemovePrefixFails(w) == LET here == InRoom(worker[w].on) IN
  /\ worker[w].pc = "prefix"
  /\ \E gone, goneThumbs \in SUBSET here :
       /\ object' = [m \in Media |-> IF m \in gone THEN 0 ELSE object[m]]
       /\ thumb' = thumb \ goneThumbs
  /\ Turn(w, "idle", None)
  /\ UNCHANGED <<tables, now, multipart, parts, urlUntil, inflight>>

\* DELETE FROM rooms ... AND status = 'deleting'; media and upload_sessions
\* go by ON DELETE CASCADE.
DropRoom(w) == LET r == worker[w].on IN
  /\ worker[w].pc = "drop"
  /\ IF roomStatus[r] = "deleting"
     THEN /\ roomStatus' = [roomStatus EXCEPT ![r] = "gone"]
          /\ mediaStatus' = [m \in Media |-> IF m \in InRoom(r) THEN "gone" ELSE mediaStatus[m]]
          /\ sessionStatus' = [m \in Media |-> IF m \in InRoom(r) THEN "gone" ELSE sessionStatus[m]]
     ELSE UNCHANGED <<roomStatus, statuses>>
  /\ Turn(w, "rooms", None)
  /\ UNCHANGED <<accepting, counters, columns, thumbCols, now, store>>

\* A database error, a cancelled context or a crash ends the batch.
BreakOff(w) ==
  /\ worker[w].pc # "idle"
  /\ Turn(w, "idle", None)
  /\ UNCHANGED <<tables, now, store>>

WorkerNext == \E w \in Worker :
  \/ BeginBatch(w) \/ PurgeUpload(w) \/ UploadsDone(w) \/ RoomsDone(w)
  \/ RemovePrefix(w) \/ RemovePrefixFails(w) \/ DropRoom(w) \/ BreakOff(w)
  \/ \E m \in Media : ClaimUpload(w, m)
  \/ \E r \in Room : ClaimRoom(w, r)
=============================================================================
