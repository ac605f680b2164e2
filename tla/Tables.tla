------------------------------- MODULE Tables -------------------------------
(***************************************************************************)
(* The PostgreSQL rows the API and the worker share: rooms, media and      *)
(* upload_sessions (migrations 00001, 00003, 00004).  One action of a      *)
(* component is one committed transaction or one autocommitted statement:  *)
(* every multi-statement transaction of the code takes the row locks of    *)
(* what it updates, so nothing else changes those rows while it runs.      *)
(*                                                                         *)
(* A media row and its upload session are created together and            *)
(* media_id is UNIQUE in upload_sessions, so both are indexed by Media.    *)
(***************************************************************************)
EXTENDS Integers, FiniteSets

CONSTANTS
  Room,        \* rooms.id
  Media,       \* media.id, the uuids Initiate may draw
  Key,         \* (identity, Idempotency-Key) pairs
  NoRoom,      \* room_id of a media row that does not exist
  NoKey,       \* idempotency key of a session that does not exist
  RoomExpiry,  \* rooms.expires_at, never updated after the INSERT
  MaxFiles,    \* rooms.max_files
  MaxBytes,    \* rooms.max_storage_bytes
  MaxSize      \* the largest size_bytes a client declares or uploads

ASSUME FiniteRows == IsFiniteSet(Media)
ASSUME NullRoom   == NoRoom \notin Room
ASSUME NullKey    == NoKey \notin Key
ASSUME Limits     == /\ RoomExpiry \in [Room -> Nat \ {0}]
                     /\ MaxFiles \in Nat /\ MaxBytes \in Nat
                     /\ MaxSize \in Nat \ {0}

VARIABLES
  now,            \* the clock: time.Now() of the API, now() of PostgreSQL
  roomStatus,     \* rooms.status, "gone" once the row is deleted
  accepting,      \* rooms.accepting_uploads
  usedFiles, usedBytes, reservedFiles, reservedBytes,  \* counters of rooms
  mediaStatus,    \* media.status, "none" before the INSERT, "gone" after the cascade
  sessionStatus,  \* upload_sessions.status, likewise
  home,           \* media.room_id
  size,           \* media.size_bytes
  key,            \* upload_sessions.idempotency_key
  expiresAt,      \* upload_sessions.expires_at
  hasThumb,       \* media.thumbnail_key IS NOT NULL
  thumbStatus,    \* media.thumbnail_status
  thumbAttempts,  \* media.thumbnail_attempts
  thumbAt         \* media.thumbnail_updated_at

access    == <<roomStatus, accepting>>
counters  == <<usedFiles, usedBytes, reservedFiles, reservedBytes>>
statuses  == <<mediaStatus, sessionStatus>>
columns   == <<home, size, key, expiresAt>>
thumbCols == <<hasThumb, thumbStatus, thumbAttempts, thumbAt>>
tables    == <<access, counters, statuses, columns, thumbCols>>

RoomStatus    == {"active", "deleting", "gone"}
MediaStatus   == {"none", "pending", "ready", "failed", "deleted", "gone"}
SessionStatus == {"none", "initiated", "uploading", "completed", "aborted",
                  "expired", "gone"}
ThumbStatus   == {"pending", "processing", "ready", "failed"}
Sizes         == 1..MaxSize

TablesTypeOK ==
  /\ now \in Nat
  /\ roomStatus \in [Room -> RoomStatus]
  /\ accepting \in [Room -> BOOLEAN]
  /\ usedFiles \in [Room -> Int] /\ usedBytes \in [Room -> Int]
  /\ reservedFiles \in [Room -> Int] /\ reservedBytes \in [Room -> Int]
  /\ mediaStatus \in [Media -> MediaStatus]
  /\ sessionStatus \in [Media -> SessionStatus]
  /\ home \in [Media -> Room \cup {NoRoom}]
  /\ size \in [Media -> Nat]
  /\ key \in [Media -> Key \cup {NoKey}]
  /\ expiresAt \in [Media -> Nat]
  /\ hasThumb \in [Media -> BOOLEAN]
  /\ thumbStatus \in [Media -> ThumbStatus]
  /\ thumbAttempts \in [Media -> Nat]
  /\ thumbAt \in [Media -> Nat]

TablesInit ==  \* rooms just created, no upload yet
  /\ now = 0
  /\ roomStatus = [r \in Room |-> "active"]
  /\ accepting = [r \in Room |-> TRUE]
  /\ usedFiles = [r \in Room |-> 0] /\ usedBytes = [r \in Room |-> 0]
  /\ reservedFiles = [r \in Room |-> 0] /\ reservedBytes = [r \in Room |-> 0]
  /\ mediaStatus = [m \in Media |-> "none"]
  /\ sessionStatus = [m \in Media |-> "none"]
  /\ home = [m \in Media |-> NoRoom]
  /\ size = [m \in Media |-> 0]
  /\ key = [m \in Media |-> NoKey]
  /\ expiresAt = [m \in Media |-> 0]
  /\ hasThumb = [m \in Media |-> FALSE]
  /\ thumbStatus = [m \in Media |-> "pending"]
  /\ thumbAttempts = [m \in Media |-> 0]
  /\ thumbAt = [m \in Media |-> 0]

-----------------------------------------------------------------------------
Open(m)     == sessionStatus[m] \in {"initiated", "uploading"}
Settled(m)  == sessionStatus[m] \in {"aborted", "expired"}
RoomOpen(r) == roomStatus[r] = "active" /\ now < RoomExpiry[r]

\* releaseReservation's writes, also those of claimExpiredUpload: session
\* and media get their final status and the room gets its reservation back.
ReleaseReservation(m, uploadStatus, newMediaStatus) ==
  /\ sessionStatus' = [sessionStatus EXCEPT ![m] = uploadStatus]
  /\ mediaStatus' = [mediaStatus EXCEPT ![m] = newMediaStatus]
  /\ reservedFiles' = [reservedFiles EXCEPT ![home[m]] = @ - 1]
  /\ reservedBytes' = [reservedBytes EXCEPT ![home[m]] = @ - size[m]]
  /\ UNCHANGED <<usedFiles, usedBytes>>

\* What the four counters of a room should say.  Bytes(sz, S) is the sum of
\* sz over S, written as the number of byte slots S occupies.
OpenIn(r)    == {m \in Media : home[m] = r /\ Open(m)}
ReadyIn(r)   == {m \in Media : home[m] = r /\ mediaStatus[m] = "ready"}
Bytes(sz, S) == Cardinality({p \in Media \X Sizes : p[1] \in S /\ p[2] <= sz[p[1]]})
=============================================================================
