--------------------------- MODULE ThumbnailWorker ---------------------------
(***************************************************************************)
(* internal/thumbnail: claims a ready media, makes a JPEG of it outside    *)
(* any transaction, stores it and links it to the row.  thumbnailer[t] is  *)
(* one running copy.  mislaid is a history variable.                       *)
(***************************************************************************)
EXTENDS Storage

CONSTANTS
  Thumbnailer,
  MaxAttempts,    \* maxAttempts
  ClaimTimeout    \* the 10 minutes after which 'processing' is claimed again

ASSUME Attempts == MaxAttempts \in Nat /\ ClaimTimeout \in Nat

VARIABLES
  thumbnailer,
  mislaid   \* media whose key was written by an UPDATE that seemed to fail

jobs == <<thumbnailer, mislaid>>

Waiting == [pc |-> "idle", media |-> "none"]
Stages  == {"idle", "render", "put", "link", "undo", "fail"}

ThumbnailTypeOK ==
  /\ thumbnailer \in [Thumbnailer -> [pc : Stages, media : Media \cup {"none"}]]
  /\ \A t \in Thumbnailer : thumbnailer[t].pc # "idle" => thumbnailer[t].media \in Media
  /\ mislaid \subseteq Media

ThumbnailInit == thumbnailer = [t \in Thumbnailer |-> Waiting] /\ mislaid = {}

Work(t, stage, m) == thumbnailer' = [thumbnailer EXCEPT ![t] = [pc |-> stage, media |-> m]]
Rest(t)           == thumbnailer' = [thumbnailer EXCEPT ![t] = Waiting]

\* Mutant of Queued: a job in progress is claimed without waiting.
Queued_Impatient(m) ==
  \/ thumbStatus[m] \in {"pending", "processing"}
  \/ thumbStatus[m] = "failed" /\ thumbAttempts[m] < MaxAttempts

Queued(m) ==
  \/ thumbStatus[m] = "pending"
  \/ thumbStatus[m] = "failed" /\ thumbAttempts[m] < MaxAttempts
  \/ thumbStatus[m] = "processing" /\ thumbAt[m] + ClaimTimeout < now

ClaimThumb(t, m) ==
  /\ thumbnailer[t].pc = "idle"
  /\ mediaStatus[m] = "ready" /\ ~hasThumb[m]
  /\ RoomOpen(home[m])
  /\ Queued(m)
  /\ thumbStatus' = [thumbStatus EXCEPT ![m] = "processing"]
  /\ thumbAttempts' = [thumbAttempts EXCEPT ![m] = @ + 1]
  /\ thumbAt' = [thumbAt EXCEPT ![m] = now]
  /\ Work(t, "render", m)
  /\ UNCHANGED <<access, counters, statuses, columns, hasThumb, now, store, mislaid>>

\* ffmpeg reads the original through an internal URL into a local file.
RenderThumb(t) == LET m == thumbnailer[t].media IN
  /\ thumbnailer[t].pc = "render"
  /\ object[m] # 0
  /\ Work(t, "put", m)
  /\ UNCHANGED <<tables, now, store, mislaid>>

\* PutFile; the room id in the key is the one of the claim.
PutThumb(t) == LET m == thumbnailer[t].media IN
  /\ thumbnailer[t].pc = "put"
  /\ thumb' = thumb \cup {m}
  /\ Work(t, "link", m)
  /\ UNCHANGED <<tables, now, object, multipart, parts, urlUntil, inflight, mislaid>>

\* No source, a file ffmpeg cannot read, or a failing PutFile.
MakeFails(t) ==
  /\ thumbnailer[t].pc \in {"render", "put"}
  /\ Work(t, "fail", thumbnailer[t].media)
  /\ UNCHANGED <<tables, now, store, mislaid>>

\* Mutant of LinkThumb: the key is written and the status left to later.
LinkThumb_KeyOnly(t) == LET m == thumbnailer[t].media IN
  /\ thumbnailer[t].pc = "link"
  /\ IF mediaStatus[m] = "ready"
     THEN hasThumb' = [hasThumb EXCEPT ![m] = TRUE] /\ Rest(t)
     ELSE hasThumb' = hasThumb /\ Work(t, "undo", m)
  /\ UNCHANGED <<access, counters, statuses, columns, thumbStatus, thumbAttempts, thumbAt, now,
                 store, mislaid>>

\* The UPDATE ... WHERE status = 'ready'.
SetKey(m) == /\ mediaStatus[m] = "ready"
             /\ hasThumb' = [hasThumb EXCEPT ![m] = TRUE]
             /\ thumbStatus' = [thumbStatus EXCEPT ![m] = "ready"]
             /\ thumbAt' = [thumbAt EXCEPT ![m] = now]

LinkThumb(t) == LET m == thumbnailer[t].media IN
  /\ thumbnailer[t].pc = "link"
  /\ \/ SetKey(m) /\ Rest(t)
     \/ /\ mediaStatus[m] # "ready"
        /\ Work(t, "undo", m)
        /\ UNCHANGED <<hasThumb, thumbStatus, thumbAt>>
  /\ UNCHANGED <<access, counters, statuses, columns, thumbAttempts, now, store, mislaid>>

\* The UPDATE returns an error, which may also hide that it was committed:
\* the object is taken back as well.
LinkFails(t) == LET m == thumbnailer[t].media IN
  /\ thumbnailer[t].pc = "link"
  /\ \/ SetKey(m) /\ mislaid' = mislaid \cup {m}
     \/ UNCHANGED <<hasThumb, thumbStatus, thumbAt, mislaid>>
  /\ Work(t, "undo", m)
  /\ UNCHANGED <<access, counters, statuses, columns, thumbAttempts, now, store>>

\* The Remove's own error is ignored.
UndoThumb(t) == LET m == thumbnailer[t].media IN
  /\ thumbnailer[t].pc = "undo"
  /\ thumb' = thumb \ {m} \/ UNCHANGED thumb
  /\ Work(t, "fail", m)
  /\ UNCHANGED <<tables, now, object, multipart, parts, urlUntil, inflight, mislaid>>

MarkFailed(t) == LET m == thumbnailer[t].media IN
  /\ thumbnailer[t].pc = "fail"
  /\ IF thumbStatus[m] = "processing" /\ mediaStatus[m] # "gone"
     THEN /\ thumbStatus' = [thumbStatus EXCEPT ![m] = "failed"]
          /\ thumbAt' = [thumbAt EXCEPT ![m] = now]
     ELSE UNCHANGED <<thumbStatus, thumbAt>>
  /\ Rest(t)
  /\ UNCHANGED <<access, counters, statuses, columns, hasThumb, thumbAttempts, now, store, mislaid>>

\* The worker stops or crashes, or marking the failure fails.
DropJob(t) ==
  /\ thumbnailer[t].pc # "idle"
  /\ Rest(t)
  /\ UNCHANGED <<tables, now, store, mislaid>>

ThumbnailNext == \E t \in Thumbnailer :
  \/ RenderThumb(t) \/ PutThumb(t) \/ MakeFails(t) \/ LinkThumb(t) \/ LinkFails(t)
  \/ UndoThumb(t) \/ MarkFailed(t) \/ DropJob(t)
  \/ \E m \in Media : ClaimThumb(t, m)
=============================================================================
