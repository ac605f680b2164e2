------------------------ MODULE UploadSystem_moves ------------------------
(***************************************************************************)
(* What a step of the whole system does to the rows of rooms, media and    *)
(* upload_sessions: it accepts, keeps, releases, deletes or hides one      *)
(* upload, removes one room, or leaves all this alone.  Proved once,       *)
(* action by action, and used by every other proof; here for the agreement *)
(* of the rows, the finality of an upload's end, the answers, leases and   *)
(* the objects of ready multipart uploads; and, if nothing outlasts a tick *)
(* of the clock, thumbnail jobs, thumbnails and what a room leaves behind. *)
(***************************************************************************)
EXTENDS UploadSystem_types

USE DEF access, counters, statuses, columns, thumbCols, tables, store, heard, jobs

FixedCols == <<home, size, key, expiresAt>>

\* The key is one that no upload is known by.
KeyTaken(m) == \E k \in Key : ~KeyUsed(k) /\ key' = [key EXCEPT ![m] = k]

\* Initiate
Accepted(m, r, s) ==
  /\ mediaStatus[m] = "none" /\ roomStatus[r] = "active" /\ Fits(r, s)
  /\ mediaStatus' = [mediaStatus EXCEPT ![m] = "pending"]
  /\ sessionStatus' = [sessionStatus EXCEPT ![m] = "initiated"]
  /\ home' = [home EXCEPT ![m] = r]
  /\ size' = [size EXCEPT ![m] = s]
  /\ KeyTaken(m)
  /\ expiresAt' = [expiresAt EXCEPT ![m] = SessionExpiry(r)]
  /\ reservedFiles' = [reservedFiles EXCEPT ![r] = @ + 1]
  /\ reservedBytes' = [reservedBytes EXCEPT ![r] = @ + s]
  /\ UNCHANGED <<roomStatus, usedFiles, usedBytes>>

\* Abort, Complete of a wrong size, the cleanup worker
Released(m) ==
  /\ Open(m)
  /\ \/ ReleaseReservation(m, "aborted", "failed")
     \/ ReleaseReservation(m, "aborted", "deleted")
     \/ ReleaseReservation(m, "expired", "failed")
  /\ UNCHANGED <<roomStatus, FixedCols>>

\* Complete
Kept(m) ==
  /\ Open(m)
  /\ sessionStatus' = [sessionStatus EXCEPT ![m] = "completed"]
  /\ mediaStatus' = [mediaStatus EXCEPT ![m] = "ready"]
  /\ reservedFiles' = [reservedFiles EXCEPT ![home[m]] = @ - 1]
  /\ reservedBytes' = [reservedBytes EXCEPT ![home[m]] = @ - size[m]]
  /\ usedFiles' = [usedFiles EXCEPT ![home[m]] = @ + 1]
  /\ usedBytes' = [usedBytes EXCEPT ![home[m]] = @ + size[m]]
  /\ UNCHANGED <<roomStatus, FixedCols>>

\* Delete of a ready media
Deleted(m) ==
  /\ mediaStatus[m] = "ready"
  /\ mediaStatus' = [mediaStatus EXCEPT ![m] = "deleted"]
  /\ usedFiles' = [usedFiles EXCEPT ![home[m]] = @ - 1]
  /\ usedBytes' = [usedBytes EXCEPT ![home[m]] = @ - size[m]]
  /\ UNCHANGED <<roomStatus, sessionStatus, reservedFiles, reservedBytes, FixedCols>>

\* Delete of a failed one
Hidden(m) ==
  /\ mediaStatus[m] = "failed"
  /\ mediaStatus' = [mediaStatus EXCEPT ![m] = "deleted"]
  /\ UNCHANGED <<roomStatus, sessionStatus, counters, FixedCols>>

\* DELETE FROM rooms
Removed(r) ==
  /\ roomStatus[r] = "deleting"
  /\ roomStatus' = [roomStatus EXCEPT ![r] = "gone"]
  /\ mediaStatus' = [m \in Media |-> IF m \in InRoom(r) THEN "gone" ELSE mediaStatus[m]]
  /\ sessionStatus' = [m \in Media |-> IF m \in InRoom(r) THEN "gone" ELSE sessionStatus[m]]
  /\ UNCHANGED <<counters, FixedCols>>

\* Everything else: at most a room begins to be deleted, or a session is marked.
Still ==
  /\ UNCHANGED <<mediaStatus, counters, FixedCols>>
  /\ \A r \in Room : roomStatus'[r] = "gone" <=> roomStatus[r] = "gone"
  /\ \A m \in Media : sessionStatus'[m] # sessionStatus[m] =>
       sessionStatus[m] = "initiated" /\ sessionStatus'[m] = "uploading"

Move ==
  \/ \E m \in Media, r \in Room, s \in Sizes : Accepted(m, r, s)
  \/ \E m \in Media : Released(m) \/ Kept(m) \/ Deleted(m) \/ Hidden(m)
  \/ \E r \in Room : Removed(r)
  \/ Still

-----------------------------------------------------------------------------
LEMMA StartMoves ==
  ASSUME TypeOK, NEW q \in Req, NEW m \in Media, Start(q, m)
  PROVE  Move
<1>1. ASSUME NEW r \in Room, NEW s \in Sizes, NEW k \in Key, Initiate(q, m, r, s, k)
      PROVE  Move
  <2>1. Accepted(m, r, s)
    BY <1>1 DEF Accepted, KeyTaken, Initiate, MayInitiate, Unused, RoomOpen
  <2> QED BY <2>1 DEF Move
<1>2. ASSUME InitiateAgain(q, m)
      PROVE  Move
  BY <1>2 DEF Move, Still, FixedCols, InitiateAgain
<1>3. ASSUME PartURLs(q, m)
      PROVE  Move
  BY <1>3 DEF Move, Still, FixedCols, PartURLs
<1>4. ASSUME CompleteAlready(q, m)
      PROVE  Move
  BY <1>4 DEF Move, Still, FixedCols, CompleteAlready
<1>5. ASSUME CompleteRead(q, m)
      PROVE  Move
  BY <1>5 DEF Move, Still, FixedCols, CompleteRead
<1>6. ASSUME AbortAlready(q, m)
      PROVE  Move
  BY <1>6 DEF Move, Still, FixedCols, AbortAlready
<1>7. ASSUME AbortRead(q, m)
      PROVE  Move
  BY <1>7 DEF Move, Still, FixedCols, AbortRead
<1>8. ASSUME DeleteRead(q, m)
      PROVE  Move
  BY <1>8 DEF Move, Still, FixedCols, DeleteRead
<1> QED BY <1>1, <1>2, <1>3, <1>4, <1>5, <1>6, <1>7, <1>8 DEF Start

LEMMA ContinueMoves ==
  ASSUME TypeOK, NEW q \in Req, Continue(q)
  PROVE  Move
<1> USE DEF FixedCols
<1>0. req[q].pc # "idle" => req[q].media \in Media
  BY DEF TypeOK, MediaTypeOK, ReqTypeOK
<1>1. ASSUME AttachSingleURL(q)
      PROVE  Move
  BY <1>1 DEF Move, Still, AttachSingleURL
<1>2. ASSUME CompleteAssemble(q)
      PROVE  Move
  BY <1>2 DEF Move, Still, CompleteAssemble
<1>3. ASSUME CompleteAssembled(q)
      PROVE  Move
  BY <1>3 DEF Move, Still, CompleteAssembled
<1>4. ASSUME CompleteStat(q)
      PROVE  Move
  BY <1>4 DEF Move, Still, CompleteStat
<1>5. ASSUME CompleteMismatch(q)
      PROVE  Move
  BY <1>5 DEF Move, Still, CompleteMismatch
<1>6. ASSUME AbortStore(q)
      PROVE  Move
  BY <1>6 DEF Move, Still, AbortStore
<1>7. ASSUME DeleteObject(q)
      PROVE  Move
  BY <1>7 DEF Move, Still, DeleteObject
<1>8. ASSUME DeleteThumb(q)
      PROVE  Move
  BY <1>8 DEF Move, Still, DeleteThumb
<1>9. ASSUME GiveUp(q)
      PROVE  Move
  BY <1>9 DEF Move, Still, GiveUp
<1>10. ASSUME MarkUploading(q)
      PROVE  Move
  <2>1. Still
    BY <1>10, <1>0 DEF Still, MarkUploading, TypeOK, TablesTypeOK
  <2> QED BY <2>1 DEF Move
<1>11. ASSUME CompleteReject(q)
      PROVE  Move
  <2>1. CASE Open(req[q].media)
    <3>1. Released(req[q].media)
      BY <1>11, <2>1 DEF Released, CompleteReject, SettleAs
    <3> QED BY <1>0, <1>11, <3>1 DEF Move, CompleteReject
  <2>2. CASE ~Open(req[q].media)
    BY <1>11, <2>2 DEF Move, Still, CompleteReject, SettleAs
  <2> QED BY <2>1, <2>2
<1>12. ASSUME CompleteCommit(q)
      PROVE  Move
  <2>1. Kept(req[q].media) \/ Still
    BY <1>12 DEF Kept, Still, CompleteCommit
  <2> QED BY <1>0, <1>12, <2>1 DEF Move, CompleteCommit
<1>13. ASSUME AbortSettle(q)
      PROVE  Move
  <2>1. CASE Open(req[q].media)
    <3>1. Released(req[q].media)
      BY <1>13, <2>1 DEF Released, AbortSettle, SettleAs
    <3> QED BY <1>0, <1>13, <3>1 DEF Move, AbortSettle
  <2>2. CASE ~Open(req[q].media)
    BY <1>13, <2>2 DEF Move, Still, AbortSettle, SettleAs
  <2> QED BY <2>1, <2>2
<1>14. ASSUME DeleteCommit(q)
      PROVE  Move
  <2>1. Deleted(req[q].media) \/ Hidden(req[q].media) \/ Still
    BY <1>14 DEF Deleted, Hidden, Still, DeleteCommit
  <2> QED BY <1>0, <1>14, <2>1 DEF Move, DeleteCommit
<1> QED BY <1>1, <1>2, <1>3, <1>4, <1>5, <1>6, <1>7, <1>8, <1>9, <1>10, <1>11, <1>12, <1>13, <1>14 DEF Continue

LEMMA CleanupMoves ==
  ASSUME TypeOK, CleanupStep
  PROVE  Move
<1> USE DEF FixedCols
<1> PICK w \in Worker :
      \/ BeginBatch(w) \/ PurgeUpload(w) \/ UploadsDone(w) \/ RoomsDone(w)
      \/ RemovePrefix(w) \/ RemovePrefixFails(w) \/ DropRoom(w) \/ BreakOff(w)
      \/ \E m \in Media : ClaimUpload(w, m)
      \/ \E r \in Room : ClaimRoom(w, r)
  BY DEF CleanupStep, WorkerNext
<1>1. ASSUME BeginBatch(w)
      PROVE  Move
  BY <1>1 DEF Move, Still, BeginBatch
<1>2. ASSUME PurgeUpload(w)
      PROVE  Move
  BY <1>2 DEF Move, Still, PurgeUpload
<1>3. ASSUME UploadsDone(w)
      PROVE  Move
  BY <1>3 DEF Move, Still, UploadsDone
<1>4. ASSUME RoomsDone(w)
      PROVE  Move
  BY <1>4 DEF Move, Still, RoomsDone
<1>5. ASSUME RemovePrefix(w)
      PROVE  Move
  BY <1>5 DEF Move, Still, RemovePrefix
<1>6. ASSUME RemovePrefixFails(w)
      PROVE  Move
  BY <1>6 DEF Move, Still, RemovePrefixFails
<1>7. ASSUME BreakOff(w)
      PROVE  Move
  BY <1>7 DEF Move, Still, BreakOff
<1>8. ASSUME DropRoom(w)
      PROVE  Move
  <2>1. worker[w].on \in Room
    BY <1>8 DEF DropRoom, TypeOK, WorkerTypeOK
  <2>2. Removed(worker[w].on) \/ Still
    BY <1>8 DEF Removed, Still, DropRoom
  <2> QED BY <2>1, <2>2 DEF Move
<1>9. ASSUME NEW m \in Media, ClaimUpload(w, m)
      PROVE  Move
  <2>1. Released(m)
    BY <1>9 DEF Released, ClaimUpload, Due
  <2> QED BY <2>1 DEF Move
<1>10. ASSUME NEW r \in Room, ClaimRoom(w, r)
      PROVE  Move
  <2>1. Still
    BY <1>10 DEF Still, ClaimRoom, DueRoom, TypeOK, TablesTypeOK
  <2> QED BY <2>1 DEF Move
<1> QED BY <1>1, <1>2, <1>3, <1>4, <1>5, <1>6, <1>7, <1>8, <1>9, <1>10

LEMMA ThumbMoves ==
  ASSUME ThumbStep
  PROVE  Move
<1> PICK t \in Thumbnailer :
      \/ RenderThumb(t) \/ PutThumb(t) \/ MakeFails(t) \/ LinkThumb(t) \/ LinkFails(t)
      \/ UndoThumb(t) \/ MarkFailed(t) \/ DropJob(t)
      \/ \E m \in Media : ClaimThumb(t, m)
  BY DEF ThumbStep, ThumbnailNext
<1>1. Still
  BY DEF Still, FixedCols, RenderThumb, PutThumb, MakeFails, LinkThumb, LinkFails,
         UndoThumb, MarkFailed, DropJob, ClaimThumb
<1> QED BY <1>1 DEF Move

\* Every step is a move of the rows.
LEMMA StepMoves ==
  ASSUME TypeOK, Next
  PROVE  Move
<1> USE DEF FixedCols
<1>1. CASE Tick
  BY <1>1 DEF Tick, Move, Still
<1>2. CASE ApiStep
  <2>1. CASE \E q \in Req, m \in Media : Start(q, m)
    BY <2>1, StartMoves
  <2>2. CASE \E q \in Req : Continue(q)
    BY <2>2, ContinueMoves
  <2>3. CASE \E m \in Media, r \in Room, s \in Sizes, k \in Key : InitiateLost(m, r, s, k)
    BY <2>3 DEF InitiateLost, Move, Still
  <2> QED BY <1>2, <2>1, <2>2, <2>3 DEF ApiStep, MediaNext
<1>3. CASE ClientStep
  <2>1. Still
    BY <1>3 DEF Still, ClientStep, StorageNext, PutStart, PutLand, PutLost
  <2> QED BY <2>1 DEF Move
<1>4. CASE OwnerStep
  <2>1. Still
    BY <1>4 DEF Still, OwnerStep, OwnerNext, DeleteRoom, UpdateRoom, TypeOK, TablesTypeOK
  <2> QED BY <2>1 DEF Move
<1>5. CASE CleanupStep
  BY <1>5, CleanupMoves
<1>6. CASE ThumbStep
  BY <1>6, ThumbMoves
<1> QED BY <1>1, <1>2, <1>3, <1>4, <1>5, <1>6 DEF Next

LEMMA StutterMoves ==
  ASSUME UNCHANGED vars
  PROVE  Move
BY DEF Move, Still, FixedCols, vars

-----------------------------------------------------------------------------
(* The rows agree.                                                         *)

\* What makes RowsAgree inductive: an upload has a room and a positive size
\* as soon as it has a row.
RowsInv ==
  /\ RowsAgree
  /\ \A m \in Media : /\ home[m] \in Room <=> mediaStatus[m] # "none"
                      /\ mediaStatus[m] # "none" => size[m] \in Sizes

LEMMA RowsInit == Init => RowsInv
BY NullRoom DEF Init, TablesInit, RowsInv, RowsAgree, Open, Settled

LEMMA RowsStep ==
  ASSUME TypeOK, TypeOK', RowsInv, Move
  PROVE  RowsInv'
<1> USE DEF TypeOK, TablesTypeOK, RowsInv, RowsAgree, Open, Settled, FixedCols,
            MediaStatus, SessionStatus, RoomStatus
<1>1. ASSUME NEW m \in Media, NEW r \in Room, NEW s \in Sizes, Accepted(m, r, s)
      PROVE  RowsInv'
  BY <1>1, NullRoom DEF Accepted
<1>2. ASSUME NEW m \in Media, Released(m)
      PROVE  RowsInv'
  BY <1>2 DEF Released, ReleaseReservation
<1>3. ASSUME NEW m \in Media, Kept(m)
      PROVE  RowsInv'
  BY <1>3 DEF Kept
<1>4. ASSUME NEW m \in Media, Deleted(m)
      PROVE  RowsInv'
  BY <1>4 DEF Deleted
<1>5. ASSUME NEW m \in Media, Hidden(m)
      PROVE  RowsInv'
  BY <1>5 DEF Hidden
<1>6. ASSUME NEW r \in Room, Removed(r)
      PROVE  RowsInv'
  BY <1>6 DEF Removed, InRoom
<1>7. CASE Still
  BY <1>7 DEF Still
<1> QED BY <1>1, <1>2, <1>3, <1>4, <1>5, <1>6, <1>7 DEF Move

LEMMA RowsNext ==
  ASSUME TypeOK, TypeOK', RowsInv, [Next]_vars
  PROVE  Move /\ RowsInv'
BY StepMoves, StutterMoves, RowsStep

LEMMA RowsInvariant == Spec => [](TypeOK /\ RowsInv)
<1>1. Init => TypeOK /\ RowsInv
  BY InitTypes, RowsInit
<1>2. TypeOK /\ RowsInv /\ [Next]_vars => TypeOK' /\ RowsInv'
  BY NextTypes, RowsNext
<1> QED BY <1>1, <1>2, PTL DEF Spec

\* The rows of every upload agree in every reachable state.
THEOREM RowsAlwaysAgree == Spec => []RowsAgree
<1>1. RowsInv => RowsAgree
  BY DEF RowsInv
<1> QED BY <1>1, RowsInvariant, PTL

-----------------------------------------------------------------------------
(* An end is final.                                                        *)

Final ==
  /\ \A m \in Media :
       /\ Settled(m) \/ sessionStatus[m] = "completed"
            => sessionStatus'[m] \in {sessionStatus[m], "gone"}
       /\ mediaStatus[m] = "deleted" => mediaStatus'[m] \in {"deleted", "gone"}
  /\ \A m \in Media : sessionStatus[m] = "gone" => sessionStatus'[m] = "gone"

LEMMA MoveFinal ==
  ASSUME TypeOK, RowsInv, Move
  PROVE  Final
<1> USE DEF TypeOK, TablesTypeOK, RowsInv, RowsAgree, Open, Settled, FixedCols,
            MediaStatus, SessionStatus, Final
<1>1. ASSUME NEW m \in Media, NEW r \in Room, NEW s \in Sizes, Accepted(m, r, s)
      PROVE  Final
  BY <1>1 DEF Accepted
<1>2. ASSUME NEW m \in Media, Released(m)
      PROVE  Final
  BY <1>2 DEF Released, ReleaseReservation
<1>3. ASSUME NEW m \in Media, Kept(m) \/ Deleted(m) \/ Hidden(m)
      PROVE  Final
  BY <1>3 DEF Kept, Deleted, Hidden
<1>4. ASSUME NEW r \in Room, Removed(r)
      PROVE  Final
  BY <1>4 DEF Removed, InRoom
<1>5. CASE Still
  BY <1>5 DEF Still
<1> QED BY <1>1, <1>2, <1>3, <1>4, <1>5 DEF Move

\* No request and no worker reopens an upload that ended, and no deleted media
\* comes back.
THEOREM EndsStayFinal == Spec => EndsAreFinal
<1> DEFINE A == \A m \in Media :
      /\ Settled(m) \/ sessionStatus[m] = "completed"
           => sessionStatus'[m] \in {sessionStatus[m], "gone"}
      /\ mediaStatus[m] = "deleted" => mediaStatus'[m] \in {"deleted", "gone"}
<1>1. TypeOK /\ RowsInv /\ [Next]_vars => A
  BY StepMoves, StutterMoves, MoveFinal DEF Final
<1>2. EndsAreFinal <=> [][A]_vars
  BY DEF EndsAreFinal
<1> HIDE DEF A
<1> QED BY <1>1, <1>2, RowsInvariant, PTL DEF Spec

-----------------------------------------------------------------------------
(* What was answered stays true.                                           *)

\* An answer is true when it is given.
LEMMA NewAnswers ==
  ASSUME TypeOK, TypeOK', Next, NEW what, NEW x \in Media,
         <<what, x>> \in told', <<what, x>> \notin told
  PROVE  \/ what = "ready" /\ sessionStatus'[x] = "completed"
         \/ what = "aborted" /\ sessionStatus'[x] \in {"aborted", "expired"}
<1>1. PICK q \in Req : (\E m \in Media : Start(q, m)) \/ Continue(q)
  <2>1. ApiStep
    BY DEF Next, Tick, ClientStep, OwnerStep, CleanupStep, ThumbStep
  <2> QED BY <2>1 DEF ApiStep, MediaNext, InitiateLost
<1> USE DEF TypeOK, TablesTypeOK, MediaTypeOK, ReqTypeOK, Open, Settled
<1>2. ASSUME NEW m \in Media, Start(q, m)
      PROVE  CompleteAlready(q, m) \/ AbortAlready(q, m)
  BY <1>2 DEF Start, Initiate, InitiateAgain, PartURLs, CompleteRead, AbortRead, DeleteRead
<1>3. ASSUME Continue(q)
      PROVE  CompleteCommit(q) \/ AbortSettle(q)
  BY <1>3 DEF Continue, AttachSingleURL, MarkUploading, CompleteAssemble, CompleteAssembled,
      CompleteStat, CompleteMismatch, CompleteReject, AbortStore, DeleteObject, DeleteThumb,
      DeleteCommit, GiveUp
<1>4. ASSUME NEW m \in Media, CompleteAlready(q, m) \/ AbortAlready(q, m)
      PROVE  \/ what = "ready" /\ sessionStatus'[x] = "completed"
             \/ what = "aborted" /\ sessionStatus'[x] \in {"aborted", "expired"}
  BY <1>4 DEF CompleteAlready, AbortAlready, Answer
<1>5. ASSUME CompleteCommit(q)
      PROVE  what = "ready" /\ sessionStatus'[x] = "completed"
  BY <1>5 DEF CompleteCommit, Answer
<1>6. ASSUME AbortSettle(q)
      PROVE  what = "aborted" /\ sessionStatus'[x] \in {"aborted", "expired"}
  BY <1>6 DEF AbortSettle, Answer, SettleAs, ReleaseReservation, SessionStatus
<1> QED BY <1>1, <1>2, <1>3, <1>4, <1>5, <1>6

\* Complete and Abort never contradict each other, nor what follows.
THEOREM AnswersStayTrue == Spec => []AnswersAgree
<1>1. Init => AnswersAgree
  BY DEF Init, MediaInit, AnswersAgree
<1>2. TypeOK /\ RowsInv /\ TypeOK' /\ AnswersAgree /\ [Next]_vars => AnswersAgree'
  <2> SUFFICES ASSUME TypeOK, RowsInv, TypeOK', AnswersAgree, [Next]_vars
               PROVE  AnswersAgree'
    OBVIOUS
  <2>1. CASE UNCHANGED vars
    BY <2>1 DEF vars, AnswersAgree, Settled
  <2>2. CASE Next
    <3>1. Final
      BY <2>2, StepMoves, MoveFinal
    <3>2. ASSUME NEW what \in {"ready", "aborted"}, NEW x \in Media,
                 <<what, x>> \in told', <<what, x>> \notin told
          PROVE  \/ what = "ready" /\ sessionStatus'[x] = "completed"
                 \/ what = "aborted" /\ sessionStatus'[x] \in {"aborted", "expired"}
      BY <2>2, <3>2, NewAnswers
    <3> QED BY <3>1, <3>2 DEF Final, AnswersAgree, Settled
  <2> QED BY <2>1, <2>2
<1> QED BY <1>1, <1>2, RowsInvariant, PTL DEF Spec

-----------------------------------------------------------------------------
(* Leases                                                                  *)

\* What makes LeaseChain inductive: requests work on uploads that have a row,
\* and an upload without row has no URL.
LeaseInv ==
  /\ LeaseChain
  /\ \A m \in Media : mediaStatus[m] = "none" => urlUntil[m] = 0
  /\ \A q \in Req : req[q].pc # "idle" => mediaStatus[req[q].media] # "none"

\* Rows stay, and their expiry with them.
LEMMA RowsStay ==
  ASSUME TypeOK, Move, NEW x \in Media
  PROVE  mediaStatus[x] # "none" =>
           /\ mediaStatus'[x] # "none"
           /\ home'[x] = home[x] /\ expiresAt'[x] = expiresAt[x] /\ size'[x] = size[x]
BY DEF Move, Accepted, Released, ReleaseReservation, Kept, Deleted, Hidden, Removed, Still,
       FixedCols, TypeOK, TablesTypeOK, MediaStatus

\* A new row is leased no longer than its room.
LEMMA RowsBegin ==
  ASSUME TypeOK, Move, NEW x \in Media, mediaStatus[x] = "none", mediaStatus'[x] # "none",
         RowsInv
  PROVE  expiresAt'[x] <= RoomExpiry[home'[x]]
<1>1. PICK m \in Media, r \in Room, s \in Sizes : Accepted(m, r, s)
  BY DEF Move, Released, ReleaseReservation, Kept, Deleted, Hidden, Removed, Still,
         RowsInv, RowsAgree, Open, InRoom, TypeOK, TablesTypeOK
<1>2. x = m
  BY <1>1 DEF Accepted, TypeOK, TablesTypeOK
<1>3. home'[x] = r /\ expiresAt'[x] = SessionExpiry(r)
  BY <1>1, <1>2 DEF Accepted, TypeOK, TablesTypeOK
<1>4. SessionExpiry(r) <= RoomExpiry[r]
  BY Limits, Lifetime DEF SessionExpiry, TypeOK, TablesTypeOK
<1> QED BY <1>3, <1>4

\* A URL is extended by a request that holds the upload, within its lease.
LEMMA UrlStep ==
  ASSUME TypeOK, LeaseInv, Next, NEW x \in Media
  PROVE  \/ urlUntil'[x] = urlUntil[x]
         \/ mediaStatus[x] # "none" /\ urlUntil'[x] <= expiresAt[x]
<1> USE DEF TypeOK, TablesTypeOK, StorageTypeOK, MediaTypeOK, ReqTypeOK
<1>1. CASE UNCHANGED urlUntil
  BY <1>1
<1>2. ASSUME NEW q \in Req, AttachSingleURL(q)
      PROVE  \/ urlUntil'[x] = urlUntil[x]
             \/ mediaStatus[x] # "none" /\ urlUntil'[x] <= expiresAt[x]
  <2>1. req[q].media \in Media /\ mediaStatus[req[q].media] # "none"
    BY <1>2 DEF AttachSingleURL, LeaseInv
  <2>2. PresignUntil(x) <= expiresAt[x]
    BY StoreLimits DEF PresignUntil
  <2>3. urlUntil' = [urlUntil EXCEPT ![req[q].media] = PresignUntil(req[q].media)]
    BY <1>2 DEF AttachSingleURL
  <2> QED BY <2>1, <2>2, <2>3
<1>3. ASSUME NEW q \in Req, MarkUploading(q)
      PROVE  \/ urlUntil'[x] = urlUntil[x]
             \/ mediaStatus[x] # "none" /\ urlUntil'[x] <= expiresAt[x]
  BY <1>3 DEF MarkUploading, LeaseInv, LeaseChain
<1>4. UNCHANGED urlUntil \/ \E q \in Req : AttachSingleURL(q) \/ MarkUploading(q)
  <2>1. CASE ApiStep
    <3>1. ASSUME NEW q \in Req, NEW m \in Media, Start(q, m)
          PROVE  UNCHANGED urlUntil
      BY <3>1 DEF Start, Initiate, InitiateAgain, PartURLs, CompleteAlready, CompleteRead,
                  AbortAlready, AbortRead, DeleteRead
    <3>2. ASSUME NEW q \in Req, Continue(q)
          PROVE  UNCHANGED urlUntil \/ AttachSingleURL(q) \/ MarkUploading(q)
      BY <3>2 DEF Continue, CompleteAssemble, CompleteAssembled, CompleteStat, CompleteMismatch,
                  CompleteReject, CompleteCommit, AbortStore, AbortSettle, DeleteObject,
                  DeleteThumb, DeleteCommit, GiveUp
    <3> QED BY <2>1, <3>1, <3>2 DEF ApiStep, MediaNext, InitiateLost
  <2>2. CASE CleanupStep
    BY <2>2 DEF CleanupStep, WorkerNext, BeginBatch, ClaimUpload, PurgeUpload, UploadsDone,
                ClaimRoom, RoomsDone, RemovePrefix, RemovePrefixFails, DropRoom, BreakOff
  <2>3. CASE ThumbStep
    BY <2>3 DEF ThumbStep, ThumbnailNext, ClaimThumb, RenderThumb, PutThumb, MakeFails,
                LinkThumb, LinkFails, UndoThumb, MarkFailed, DropJob
  <2>4. CASE Tick \/ ClientStep \/ OwnerStep
    BY <2>4 DEF Tick, ClientStep, StorageNext, PutStart, PutLand, PutLost, OwnerStep
  <2> QED BY <2>1, <2>2, <2>3, <2>4 DEF Next
<1> QED BY <1>1, <1>2, <1>3, <1>4

\* A request works on an upload that has a row, and signs within its lease.
LEMMA ReqStep ==
  ASSUME TypeOK, RowsInv, LeaseInv, Next, NEW p \in Req, req'[p].pc # "idle"
  PROVE  /\ req'[p].media \in Media
         /\ mediaStatus'[req'[p].media] # "none"
         /\ req'[p].pc = "mark" => req'[p].until <= expiresAt'[req'[p].media]
<1> USE DEF TypeOK, TablesTypeOK, MediaTypeOK, ReqTypeOK
<1>m. Move
  BY StepMoves
<1>1. CASE req'[p] = req[p]
  BY <1>1, <1>m, RowsStay DEF LeaseInv, LeaseChain
<1>2. ASSUME NEW m \in Media, Start(p, m), req'[p] # req[p]
      PROVE  /\ req'[p].media = m /\ mediaStatus'[m] # "none"
             /\ req'[p].pc = "mark" => req'[p].until <= expiresAt'[m]
  <2>1. ASSUME NEW r \in Room, NEW s \in Sizes, NEW k \in Key, Initiate(p, m, r, s, k)
        PROVE  /\ req'[p].media = m /\ mediaStatus'[m] # "none"
               /\ req'[p].pc # "mark"
    BY <1>2, <2>1 DEF Initiate, Goto, At, Request
  <2>2. CASE PartURLs(p, m)
    <3>1. PresignUntil(m) <= expiresAt[m]
      BY StoreLimits DEF PresignUntil
    <3>2. /\ req'[p].media = m /\ req'[p].until = PresignUntil(m)
          /\ expiresAt' = expiresAt /\ mediaStatus' = mediaStatus /\ Open(m)
      BY <2>2 DEF PartURLs, Request
    <3> QED BY <3>1, <3>2 DEF RowsInv, RowsAgree
  <2>3. CASE InitiateAgain(p, m) \/ CompleteRead(p, m) \/ AbortRead(p, m)
    <3>1. /\ req'[p].media = m /\ req'[p].pc # "mark"
          /\ mediaStatus' = mediaStatus /\ Open(m)
      BY <2>3 DEF InitiateAgain, CompleteRead, AbortRead, Goto, At, Request
    <3> QED BY <3>1 DEF RowsInv, RowsAgree
  <2>4. CASE DeleteRead(p, m)
    BY <2>4 DEF DeleteRead, Request
  <2>5. CASE CompleteAlready(p, m) \/ AbortAlready(p, m)
    BY <2>5 DEF CompleteAlready, AbortAlready, Answer, Finish, Idle, Request
  <2> QED BY <1>2, <2>1, <2>2, <2>3, <2>4, <2>5 DEF Start
<1>3. ASSUME Continue(p), req'[p] # req[p]
      PROVE  /\ req[p].pc # "idle" /\ req'[p].media = req[p].media /\ req'[p].pc # "mark"
  BY <1>3 DEF Continue, AttachSingleURL, MarkUploading, CompleteAssemble, CompleteAssembled,
      CompleteStat, CompleteMismatch, CompleteReject, CompleteCommit, AbortStore, AbortSettle,
      DeleteObject, DeleteThumb, DeleteCommit, GiveUp, Answer, Goto, Finish, At, Idle, Request
<1>4. ASSUME req'[p] # req[p]
      PROVE  (\E m \in Media : Start(p, m)) \/ Continue(p)
  <2>1. ApiStep
    BY <1>4 DEF Next, Tick, ClientStep, OwnerStep, CleanupStep, ThumbStep
  <2>2. ASSUME NEW q \in Req, NEW m \in Media, Start(q, m)
        PROVE  req' = req \/ \E v : req' = [req EXCEPT ![q] = v]
    BY <2>2 DEF Start, Initiate, InitiateAgain, PartURLs, CompleteAlready, CompleteRead,
                AbortAlready, AbortRead, DeleteRead, Goto, Answer, Finish
  <2>3. ASSUME NEW q \in Req, Continue(q)
        PROVE  \E v : req' = [req EXCEPT ![q] = v]
    BY <2>3 DEF Continue, AttachSingleURL, MarkUploading, CompleteAssemble, CompleteAssembled,
      CompleteStat, CompleteMismatch, CompleteReject, CompleteCommit, AbortStore, AbortSettle,
      DeleteObject, DeleteThumb, DeleteCommit, GiveUp, Answer, Goto, Finish
  <2> QED BY <1>4, <2>1, <2>2, <2>3 DEF ApiStep, MediaNext, InitiateLost
<1>5. ASSUME req[p].pc # "idle", req'[p].media = req[p].media
      PROVE  req'[p].media \in Media /\ mediaStatus'[req'[p].media] # "none"
  BY <1>5, <1>m, RowsStay DEF LeaseInv
<1> QED BY <1>1, <1>2, <1>3, <1>4, <1>5

LEMMA LeaseStep ==
  ASSUME TypeOK, TypeOK', RowsInv, RowsInv', LeaseInv, Next
  PROVE  LeaseInv'
<1>m. Move
  BY StepMoves
<1> USE DEF TypeOK, TablesTypeOK, StorageTypeOK
<1>1. ASSUME NEW x \in Media, mediaStatus'[x] # "none"
      PROVE  urlUntil'[x] <= expiresAt'[x] /\ expiresAt'[x] <= RoomExpiry[home'[x]]
  <2>1. CASE mediaStatus[x] = "none"
    <3>1. urlUntil'[x] = 0
      BY <2>1, UrlStep DEF LeaseInv
    <3> QED BY <1>1, <1>m, <2>1, <3>1, RowsBegin
  <2>2. CASE mediaStatus[x] # "none"
    BY <2>2, <1>m, RowsStay, UrlStep DEF LeaseInv, LeaseChain
  <2> QED BY <2>1, <2>2
<1>2. ASSUME NEW x \in Media, mediaStatus'[x] = "none"
      PROVE  urlUntil'[x] = 0
  BY <1>2, <1>m, RowsStay, UrlStep DEF LeaseInv
<1> QED BY <1>1, <1>2, ReqStep DEF LeaseInv, LeaseChain

LEMMA LeaseInvariant == Spec => [](TypeOK /\ RowsInv /\ LeaseInv)
<1>1. Init => LeaseInv
  BY DEF Init, TablesInit, StorageInit, MediaInit, LeaseInv, LeaseChain, Idle, Request
<1>2. TypeOK /\ RowsInv /\ TypeOK' /\ RowsInv' /\ LeaseInv /\ [Next]_vars => LeaseInv'
  <2>1. CASE UNCHANGED vars
    BY <2>1 DEF vars, LeaseInv, LeaseChain
  <2> QED BY <2>1, LeaseStep
<1> QED BY <1>1, <1>2, RowsInvariant, PTL DEF Spec

\* No upload URL outlives its session, no session its room.
THEOREM LeasesHold == Spec => []LeaseChain
<1>1. LeaseInv => LeaseChain
  BY DEF LeaseInv
<1> QED BY <1>1, LeaseInvariant, PTL

-----------------------------------------------------------------------------
(* Ready multipart objects                                                 *)

Joined(m) == multipart[m] = "closed" /\ parts[m] = size[m]

\* The object of a multipart upload is made once, of parts that no longer
\* change, so whoever compares its size gets the same answer; and only a
\* deletion or a wrong size takes it away.
StoredRow(m) ==
  /\ mediaStatus[m] = "none" => object[m] = 0 /\ multipart[m] # "closed"
  /\ mediaStatus[m] # "none" /\ Multipart(m) =>
       /\ object[m] # 0 => multipart[m] = "closed" /\ object[m] = parts[m]
       /\ Joined(m) /\ m \notin doomed /\ RoomOpen(home[m]) => object[m] = size[m]
       /\ mediaStatus[m] = "ready" => Joined(m)

StoredReq(q) ==
  /\ req[q].pc = "mismatch" /\ Multipart(req[q].media) =>
       multipart[req[q].media] = "closed" /\ parts[req[q].media] # size[req[q].media]
  /\ req[q].pc = "commit" /\ Multipart(req[q].media) => Joined(req[q].media)
  /\ req[q].pc = "remove" => req[q].media \in doomed

StoredInv ==
  /\ \A m \in Media : StoredRow(m)
  /\ \A q \in Req : StoredReq(q)
  /\ \A p \in inflight : mediaStatus[p[1]] # "none"
  /\ \A w \in Worker :
       /\ worker[w].pc = "prefix" => roomStatus[worker[w].on] # "active"
       /\ worker[w].pc = "purge" => mediaStatus[worker[w].on] # "none"

\* Why the object of x may go.
MayGo(x) ==
  \/ \E q \in Req : req[q].pc = "mismatch" /\ req[q].media = x
  \/ x \in doomed
  \/ home[x] \in Room /\ roomStatus[home[x]] # "active"

\* What a step does to the bucket, for one upload.
Touch(x) ==
  \/ UNCHANGED <<object[x], multipart[x], parts[x]>>
  \/ /\ mediaStatus[x] = "none" /\ UNCHANGED <<object[x], parts[x]>>
     /\ multipart[x] = "none" /\ multipart'[x] = "open"
  \/ /\ mediaStatus[x] # "none" /\ multipart[x] = "open" /\ multipart'[x] = "closed"
     /\ \/ parts[x] > 0 /\ object'[x] = parts[x] /\ parts'[x] = parts[x]
        \/ object'[x] = object[x] /\ parts'[x] = 0
  \/ /\ mediaStatus[x] # "none" /\ multipart[x] = "open" /\ UNCHANGED <<object[x], multipart[x]>>
  \/ mediaStatus[x] # "none" /\ ~Multipart(x) /\ UNCHANGED <<multipart[x], parts[x]>>
  \/ MayGo(x) /\ object'[x] = 0 /\ UNCHANGED <<multipart[x], parts[x]>>

LEMMA ApiTouches ==
  ASSUME TypeOK, LeaseInv, StoredInv, ApiStep, NEW x \in Media
  PROVE  Touch(x)
<1> USE DEF TypeOK, StorageTypeOK, MediaTypeOK, ReqTypeOK
<1>1. ASSUME NEW q \in Req, NEW m \in Media, Start(q, m)
      PROVE  Touch(x)
  <2>1. ASSUME NEW r \in Room, NEW s \in Sizes, NEW k \in Key, Initiate(q, m, r, s, k)
        PROVE  Touch(x)
    BY <2>1 DEF Initiate, MayInitiate, Unused, Touch
  <2> QED
    BY <1>1, <2>1 DEF Start, InitiateAgain, PartURLs, CompleteAlready, CompleteRead,
                      AbortAlready, AbortRead, DeleteRead, Touch
<1>2. ASSUME NEW q \in Req, Continue(q)
      PROVE  Touch(x)
  <2>0. req[q].pc # "idle" => req[q].media \in Media /\ mediaStatus[req[q].media] # "none"
    BY DEF LeaseInv
  <2>1. CASE CompleteAssemble(q)
    BY <2>0, <2>1 DEF CompleteAssemble, Assemble, Touch
  <2>2. CASE CompleteMismatch(q)
    BY <2>0, <2>2 DEF CompleteMismatch, RemoveObject, Touch, MayGo
  <2>3. CASE AbortStore(q)
    BY <2>0, <2>3 DEF AbortStore, Discard, RemoveObject, Touch
  <2>4. CASE DeleteObject(q)
    BY <2>0, <2>4 DEF DeleteObject, RemoveObject, Touch, MayGo, StoredInv, StoredReq
  <2> QED
    BY <1>2, <2>1, <2>2, <2>3, <2>4 DEF Continue, AttachSingleURL, MarkUploading, CompleteAssembled,
      CompleteStat, CompleteReject, CompleteCommit, AbortSettle, DeleteThumb, DeleteCommit, GiveUp, Touch
<1>3. ASSUME NEW m \in Media, NEW r \in Room, NEW s \in Sizes, NEW k \in Key, InitiateLost(m, r, s, k)
      PROVE  Touch(x)
  BY <1>3 DEF InitiateLost, MayInitiate, Unused, Touch
<1> QED
  BY <1>1, <1>2, <1>3 DEF ApiStep, MediaNext

LEMMA Touches ==
  ASSUME TypeOK, RowsInv, LeaseInv, StoredInv, [Next]_vars, NEW x \in Media
  PROVE  Touch(x)
<1> USE DEF TypeOK, StorageTypeOK
<1>1. CASE ApiStep
  BY <1>1, ApiTouches
<1>2. CASE ClientStep
  <2>1. PICK m \in Media, s \in Sizes : PutStart(m, s) \/ PutLand(m, s) \/ PutLost(m, s)
    BY <1>2 DEF ClientStep, StorageNext
  <2>2. CASE PutLand(m, s)
    <3>1. mediaStatus[m] # "none"
      BY <2>2 DEF PutLand, StoredInv
    <3> QED
      BY <2>2, <3>1 DEF PutLand, Touch
  <2> QED
    BY <2>1, <2>2 DEF PutStart, PutLost, Touch
<1>3. CASE CleanupStep
  <2>1. PICK w \in Worker :
          \/ BeginBatch(w) \/ PurgeUpload(w) \/ UploadsDone(w) \/ RoomsDone(w)
          \/ RemovePrefix(w) \/ RemovePrefixFails(w) \/ DropRoom(w) \/ BreakOff(w)
          \/ \E m \in Media : ClaimUpload(w, m)
          \/ \E r \in Room : ClaimRoom(w, r)
    BY <1>3 DEF CleanupStep, WorkerNext
  <2>2. CASE PurgeUpload(w)
    <3>1. worker[w].on \in Media /\ mediaStatus[worker[w].on] # "none"
      BY <2>2 DEF PurgeUpload, WorkerTypeOK, StoredInv
    <3> QED
      BY <2>2, <3>1 DEF PurgeUpload, Discard, RemoveObject, Touch
  <2>3. CASE RemovePrefix(w) \/ RemovePrefixFails(w)
    <3>1. worker[w].on \in Room /\ roomStatus[worker[w].on] # "active"
      BY <2>3 DEF RemovePrefix, RemovePrefixFails, WorkerTypeOK, StoredInv
    <3>2. UNCHANGED <<multipart, parts>> /\ (object'[x] = object[x] \/ (object'[x] = 0 /\ home[x] = worker[w].on))
      BY <2>3 DEF RemovePrefix, RemovePrefixFails, InRoom
    <3> QED
      BY <3>1, <3>2 DEF Touch, MayGo
  <2> QED
    BY <2>1, <2>2, <2>3 DEF BeginBatch, UploadsDone, RoomsDone, DropRoom, BreakOff, ClaimUpload,
                            ClaimRoom, Touch
<1>4. CASE ThumbStep
  BY <1>4 DEF ThumbStep, ThumbnailNext, ClaimThumb, RenderThumb, PutThumb, MakeFails, LinkThumb,
              LinkFails, UndoThumb, MarkFailed, DropJob, Touch
<1>5. CASE Tick \/ OwnerStep \/ UNCHANGED vars
  BY <1>5 DEF Tick, OwnerStep, vars, Touch
<1> QED
  BY <1>1, <1>2, <1>3, <1>4, <1>5 DEF Next

\* An upload becomes ready only by the commit of a Complete.
LEMMA ReadyJoined ==
  ASSUME TypeOK, RowsInv, StoredInv, Next, NEW x \in Media,
         mediaStatus'[x] = "ready", mediaStatus[x] # "ready"
  PROVE  mediaStatus[x] # "none" /\ (Multipart(x) => Joined(x))
<1> USE DEF TypeOK, TablesTypeOK, MediaTypeOK, ReqTypeOK
<1>1. \E q \in Req : CompleteCommit(q) /\ req[q].media = x /\ Open(x)
  <2>1. CASE ApiStep
    <3>1. ASSUME NEW q \in Req, NEW m \in Media, Start(q, m)
          PROVE  FALSE
      BY <3>1 DEF Start, Initiate, InitiateAgain, PartURLs, CompleteAlready, CompleteRead,
                  AbortAlready, AbortRead, DeleteRead
    <3>2. ASSUME NEW q \in Req, CompleteCommit(q)
          PROVE  req[q].media = x /\ Open(x)
      BY <3>2 DEF CompleteCommit
    <3>3. ASSUME NEW q \in Req, CompleteReject(q) \/ AbortSettle(q) \/ DeleteCommit(q)
          PROVE  FALSE
      BY <3>3 DEF CompleteReject, AbortSettle, DeleteCommit, SettleAs, ReleaseReservation
    <3>4. ASSUME NEW q \in Req, Continue(q), ~CompleteCommit(q), ~CompleteReject(q),
                 ~AbortSettle(q), ~DeleteCommit(q)
          PROVE  FALSE
      BY <3>4 DEF Continue, AttachSingleURL, MarkUploading, CompleteAssemble, CompleteAssembled,
                  CompleteStat, CompleteMismatch, AbortStore, DeleteObject, DeleteThumb, GiveUp
    <3>5. PICK q \in Req : Continue(q)
      BY <2>1, <3>1 DEF ApiStep, MediaNext, InitiateLost
    <3> QED
      BY <3>2, <3>3, <3>4, <3>5
  <2>2. CASE CleanupStep
    BY <2>2 DEF CleanupStep, WorkerNext, BeginBatch, ClaimUpload, ReleaseReservation, PurgeUpload,
                UploadsDone, ClaimRoom, RoomsDone, RemovePrefix, RemovePrefixFails, DropRoom, BreakOff
  <2>3. CASE ThumbStep
    BY <2>3 DEF ThumbStep, ThumbnailNext, ClaimThumb, RenderThumb, PutThumb, MakeFails,
                LinkThumb, LinkFails, UndoThumb, MarkFailed, DropJob
  <2>4. CASE Tick \/ ClientStep \/ OwnerStep
    BY <2>4 DEF Tick, ClientStep, StorageNext, PutStart, PutLand, PutLost,
                OwnerStep, OwnerNext, DeleteRoom, UpdateRoom
  <2> QED
    BY <2>1, <2>2, <2>3, <2>4 DEF Next
<1> QED
  BY <1>1 DEF CompleteCommit, StoredInv, StoredReq, RowsInv, RowsAgree

\* A room does not open again, and what is authorised stays so.
LEMMA RoomsStayClosed ==
  ASSUME TypeOK, RowsInv, Next
  PROVE  /\ \A r \in Room : roomStatus'[r] = "active" => roomStatus[r] = "active"
         /\ now <= now'
         /\ doomed \subseteq doomed'
<1> USE DEF TypeOK, TablesTypeOK
<1>1. CASE ApiStep
  <2>1. ASSUME NEW q \in Req, NEW m \in Media, Start(q, m)
        PROVE  now' = now /\ doomed \subseteq doomed' /\ roomStatus' = roomStatus
    BY <2>1 DEF Start, Initiate, InitiateAgain, PartURLs, CompleteAlready, CompleteRead,
                AbortAlready, AbortRead, DeleteRead
  <2>2. ASSUME NEW q \in Req, Continue(q)
        PROVE  now' = now /\ doomed' = doomed /\ roomStatus' = roomStatus
    BY <2>2 DEF Continue, AttachSingleURL, MarkUploading, CompleteAssemble, CompleteAssembled,
      CompleteStat, CompleteMismatch, CompleteReject, CompleteCommit, AbortStore, AbortSettle,
      DeleteObject, DeleteThumb, DeleteCommit, GiveUp
  <2> QED
    BY <1>1, <2>1, <2>2 DEF ApiStep, MediaNext, InitiateLost
<1>2. CASE CleanupStep
  <2>1. now' = now /\ doomed' = doomed
    BY <1>2 DEF CleanupStep, WorkerNext, BeginBatch, ClaimUpload, PurgeUpload, UploadsDone, ClaimRoom,
                RoomsDone, RemovePrefix, RemovePrefixFails, DropRoom, BreakOff
  <2>2. ASSUME NEW r \in Room, roomStatus'[r] = "active"
        PROVE  roomStatus[r] = "active"
    BY <1>2, <2>2 DEF CleanupStep, WorkerNext, BeginBatch, ClaimUpload, PurgeUpload, UploadsDone,
                ClaimRoom, RoomsDone, RemovePrefix, RemovePrefixFails, DropRoom, BreakOff
  <2> QED
    BY <2>1, <2>2
<1>3. CASE Tick
  BY <1>3 DEF Tick
<1>4. CASE ClientStep
  BY <1>4 DEF ClientStep, StorageNext, PutStart, PutLand, PutLost
<1>5. CASE OwnerStep
  BY <1>5 DEF OwnerStep, OwnerNext, DeleteRoom, UpdateRoom
<1>6. CASE ThumbStep
  BY <1>6 DEF ThumbStep, ThumbnailNext, ClaimThumb, RenderThumb, PutThumb, MakeFails,
         LinkThumb, LinkFails, UndoThumb, MarkFailed, DropJob
<1> QED
  BY <1>1, <1>2, <1>3, <1>4, <1>5, <1>6 DEF Next

LEMMA RowStored ==
  ASSUME TypeOK, TypeOK', RowsInv, LeaseInv, StoredInv, Next, NEW x \in Media
  PROVE  StoredRow(x)'
<1> USE DEF TypeOK, TablesTypeOK, StorageTypeOK
<1>t. Touch(x)
  BY Touches
<1>m. Move
  BY StepMoves
<1>o. StoredRow(x)
  BY DEF StoredInv
<1>1. CASE mediaStatus[x] = "none"
  <2>1. object'[x] = 0 /\ multipart'[x] # "closed"
    BY <1>t, <1>o, <1>1 DEF Touch, StoredRow, StoredInv
  <2>2. mediaStatus'[x] # "ready"
    BY <1>1, ReadyJoined
  <2> QED
    BY <2>1, <2>2 DEF StoredRow, Joined
<1>2. CASE mediaStatus[x] # "none" /\ ~Multipart(x)
  BY <1>2, <1>m, RowsStay DEF StoredRow, Multipart
<1>3. CASE mediaStatus[x] # "none" /\ Multipart(x)
  <2>0. /\ mediaStatus'[x] # "none" /\ size'[x] = size[x] /\ home'[x] = home[x]
    BY <1>3, <1>m, RowsStay
  <2>1. object'[x] # 0 => multipart'[x] = "closed" /\ object'[x] = parts'[x]
    BY <1>t, <1>o, <1>3 DEF Touch, StoredRow
  <2>2. Joined(x) => Joined(x)'
    BY <1>t, <1>3, <2>0 DEF Touch, Joined
  <2>3. ASSUME Joined(x)', x \notin doomed', home[x] \in Room,
               roomStatus'[home[x]] = "active", now' < RoomExpiry[home[x]]
        PROVE  object'[x] = size'[x]
    <3>1. x \notin doomed /\ RoomOpen(home[x])
      BY <2>3, RoomsStayClosed, Limits DEF RoomOpen
    <3>2. CASE UNCHANGED <<object[x], multipart[x], parts[x]>>
      BY <1>o, <1>3, <2>0, <2>3, <3>1, <3>2 DEF StoredRow, Joined
    <3>3. CASE multipart[x] = "open"
      BY <1>t, <1>3, <2>0, <2>3, <3>3, StoreLimits DEF Touch, Joined, Multipart
    <3>4. ~MayGo(x) \/ parts'[x] # parts[x]
      BY <1>3, <2>0, <2>3, <3>1 DEF MayGo, StoredInv, StoredReq, Joined, RoomOpen
    <3> QED
      BY <1>t, <1>3, <3>2, <3>3, <3>4 DEF Touch
  <2>4. mediaStatus'[x] = "ready" => Joined(x)'
    BY <1>o, <1>3, <2>2, ReadyJoined DEF StoredRow
  <2>5. home[x] \in Room
    BY <1>3 DEF RowsInv
  <2> QED
    BY <2>0, <2>1, <2>3, <2>4, <2>5 DEF StoredRow, RoomOpen
<1> QED
  BY <1>1, <1>2, <1>3

\* What a request learns of an upload when it compares the size or deletes.
LEMMA RequestLearns ==
  ASSUME TypeOK, Next, NEW q \in Req, req'[q] # req[q],
         req'[q].pc \in {"mismatch", "commit", "remove"}
  PROVE  \/ CompleteStat(q)
         \/ \E m \in Media : DeleteRead(q, m)
<1> USE DEF TypeOK, MediaTypeOK, ReqTypeOK
<1>1. ApiStep
  BY DEF Next, Tick, ClientStep, OwnerStep, CleanupStep, ThumbStep
<1>2. ASSUME NEW p \in Req, NEW m \in Media, Start(p, m)
      PROVE  p = q /\ DeleteRead(q, m)
  <2>1. ASSUME NEW r \in Room, NEW s \in Sizes, NEW k \in Key, Initiate(p, m, r, s, k)
        PROVE  FALSE
    BY <2>1 DEF Initiate, Goto, At, Request
  <2>2. ASSUME InitiateAgain(p, m) \/ PartURLs(p, m) \/ CompleteRead(p, m) \/ AbortRead(p, m)
        PROVE  FALSE
    BY <2>2 DEF InitiateAgain, PartURLs, CompleteRead, AbortRead, Goto, At, Request
  <2>3. ASSUME CompleteAlready(p, m) \/ AbortAlready(p, m)
        PROVE  FALSE
    BY <2>3 DEF CompleteAlready, AbortAlready, Answer, Finish, Idle, Request
  <2>4. CASE DeleteRead(p, m)
    BY <2>4 DEF DeleteRead
  <2> QED
    BY <1>2, <2>1, <2>2, <2>3, <2>4 DEF Start
<1>3. ASSUME NEW p \in Req, Continue(p)
      PROVE  p = q /\ CompleteStat(q)
  <2>1. CASE CompleteStat(p)
    BY <2>1 DEF CompleteStat, Goto
  <2> QED
    BY <1>3, <2>1 DEF Continue, AttachSingleURL, MarkUploading, CompleteAssemble, CompleteAssembled,
      CompleteMismatch, CompleteReject, CompleteCommit, AbortStore, AbortSettle, DeleteObject,
      DeleteThumb, DeleteCommit, GiveUp, Goto, Answer, Finish, At, Idle, Request
<1> QED
  BY <1>1, <1>2, <1>3 DEF ApiStep, MediaNext, InitiateLost

LEMMA ReqStored ==
  ASSUME TypeOK, TypeOK', RowsInv, LeaseInv, StoredInv, Next, NEW q \in Req
  PROVE  StoredReq(q)'
<1> USE DEF TypeOK, StorageTypeOK, MediaTypeOK, ReqTypeOK
<1>1. CASE req'[q] = req[q] /\ req[q].pc \in {"mismatch", "commit", "remove"}
  <2>0. PICK x \in Media : x = req[q].media
    BY <1>1
  <2>1. mediaStatus[x] # "none"
    BY <1>1, <2>0 DEF LeaseInv
  <2>2. size'[x] = size[x]
    BY <2>1, StepMoves, RowsStay
  <2>3. Touch(x)
    BY <2>1, Touches
  <2>4. doomed \subseteq doomed'
    BY RoomsStayClosed
  <2>5. StoredReq(q)
    BY DEF StoredInv
  <2>6. multipart[x] = "closed" => multipart'[x] = "closed" /\ (Multipart(x) => parts'[x] = parts[x])
    BY <2>1, <2>3 DEF Touch
  <2> QED
    BY <1>1, <2>0, <2>1, <2>2, <2>4, <2>5, <2>6 DEF StoredReq, Joined, Multipart
<1>2. CASE CompleteStat(q)
  <2>0. PICK x \in Media : x = req[q].media
    BY <1>2 DEF CompleteStat
  <2>1. mediaStatus[x] # "none" /\ StoredRow(x)
    BY <1>2, <2>0 DEF CompleteStat, LeaseInv, StoredInv
  <2>2. req'[q] = At(IF object[x] = size[x] THEN "commit" ELSE "mismatch", x)
    BY <1>2, <2>0 DEF CompleteStat, Goto
  <2>3. object[x] # 0 /\ UNCHANGED <<size, object, multipart, parts>>
    BY <1>2, <2>0 DEF CompleteStat
  <2> QED
    BY <2>1, <2>2, <2>3 DEF StoredRow, StoredReq, Joined, Multipart, At, Request
<1>3. ASSUME NEW m \in Media, DeleteRead(q, m)
      PROVE  StoredReq(q)'
  BY <1>3 DEF DeleteRead, StoredReq, Request
<1>4. CASE req'[q].pc \notin {"mismatch", "commit", "remove"}
  BY <1>4 DEF StoredReq
<1> QED
  BY <1>1, <1>2, <1>3, <1>4, RequestLearns

\* Only a client begins a transfer.
LEMMA NewTransfers ==
  ASSUME TypeOK, Next, NEW p \in inflight', p \notin inflight
  PROVE  \E m \in Media, s \in Sizes : PutStart(m, s) /\ p = <<m, s>>
<1> USE DEF TypeOK, TablesTypeOK, StorageTypeOK
<1>1. ClientStep
  <2>1. ASSUME NEW q \in Req, NEW m \in Media, Start(q, m)
        PROVE  inflight' = inflight
    BY <2>1 DEF Start, Initiate, InitiateAgain, PartURLs, CompleteAlready, CompleteRead,
                AbortAlready, AbortRead, DeleteRead
  <2>2. ASSUME NEW q \in Req, Continue(q)
        PROVE  inflight' = inflight
    BY <2>2 DEF Continue, AttachSingleURL, MarkUploading, CompleteAssemble, CompleteAssembled,
      CompleteStat, CompleteMismatch, CompleteReject, CompleteCommit, AbortStore, AbortSettle,
      DeleteObject, DeleteThumb, DeleteCommit, GiveUp
  <2>3. ApiStep => inflight' = inflight
    BY <2>1, <2>2 DEF ApiStep, MediaNext, InitiateLost
  <2>4. CleanupStep => inflight' = inflight
    BY DEF CleanupStep, WorkerNext, BeginBatch, ClaimUpload, PurgeUpload, UploadsDone, ClaimRoom,
           RoomsDone, RemovePrefix, RemovePrefixFails, DropRoom, BreakOff
  <2>5. ThumbStep => inflight' = inflight
    BY DEF ThumbStep, ThumbnailNext, ClaimThumb, RenderThumb, PutThumb, MakeFails, LinkThumb,
           LinkFails, UndoThumb, MarkFailed, DropJob
  <2>6. Tick \/ OwnerStep => inflight' = inflight
    BY DEF Tick, OwnerStep
  <2> QED
    BY <2>3, <2>4, <2>5, <2>6 DEF Next
<1>2. PICK m \in Media, s \in Sizes : PutStart(m, s)
  BY <1>1 DEF ClientStep, StorageNext, PutStart, PutLand, PutLost
<1> QED BY <1>2 DEF PutStart

\* Only a request whose URL is still valid begins a transfer.
LEMMA TransfersStored ==
  ASSUME TypeOK, LeaseInv, StoredInv, Next, NEW p \in inflight'
  PROVE  mediaStatus'[p[1]] # "none"
<1> USE DEF TypeOK, TablesTypeOK, StorageTypeOK
<1>1. CASE p \in inflight
  <2>1. p[1] \in Media /\ mediaStatus[p[1]] # "none"
    BY <1>1 DEF StoredInv
  <2> QED
    BY <2>1, StepMoves, RowsStay
<1>2. CASE p \notin inflight
  <2>2. PICK m \in Media, s \in Sizes : PutStart(m, s) /\ p = <<m, s>>
    BY <1>2, NewTransfers
  <2>3. p = <<m, s>> /\ now < urlUntil[m] /\ mediaStatus' = mediaStatus
    BY <1>2, <2>2 DEF PutStart
  <2>4. urlUntil[m] # 0
    BY <2>3
  <2> QED
    BY <2>3, <2>4 DEF LeaseInv
<1> QED
  BY <1>1, <1>2

\* The worker purges what had a row and lists the prefix of a room it closed.
LEMMA WorkersStored ==
  ASSUME TypeOK, RowsInv, StoredInv, Next, NEW w \in Worker
  PROVE  /\ worker'[w].pc = "prefix" => roomStatus'[worker'[w].on] # "active"
         /\ worker'[w].pc = "purge" => mediaStatus'[worker'[w].on] # "none"
<1> USE DEF TypeOK, TablesTypeOK, WorkerTypeOK
<1>1. CASE worker'[w] = worker[w]
  <2>1. CASE worker[w].pc = "prefix"
    BY <1>1, <2>1, RoomsStayClosed DEF StoredInv
  <2>2. CASE worker[w].pc = "purge"
    <3>1. worker[w].on \in Media /\ mediaStatus[worker[w].on] # "none"
      BY <2>2 DEF StoredInv
    <3> QED
      BY <1>1, <2>2, <3>1, StepMoves, RowsStay
  <2> QED
    BY <1>1, <2>1, <2>2
<1>2. CASE worker'[w] # worker[w]
  <2>1. PICK v \in Worker :
          \/ BeginBatch(v) \/ PurgeUpload(v) \/ UploadsDone(v) \/ RoomsDone(v)
          \/ RemovePrefix(v) \/ RemovePrefixFails(v) \/ DropRoom(v) \/ BreakOff(v)
          \/ \E m \in Media : ClaimUpload(v, m)
          \/ \E r \in Room : ClaimRoom(v, r)
    BY <1>2 DEF Next, Tick, ApiStep, ClientStep, OwnerStep, ThumbStep, CleanupStep, WorkerNext
  <2>2. ASSUME NEW m \in Media, ClaimUpload(v, m)
        PROVE  worker'[w].pc = "purge" /\ mediaStatus'[worker'[w].on] # "none"
    BY <1>2, <2>2 DEF ClaimUpload, ReleaseReservation, Turn
  <2>3. ASSUME NEW r \in Room, ClaimRoom(v, r)
        PROVE  worker'[w].pc = "prefix" /\ roomStatus'[worker'[w].on] # "active"
    BY <1>2, <2>3 DEF ClaimRoom, Turn
  <2>4. ASSUME BeginBatch(v) \/ PurgeUpload(v) \/ UploadsDone(v) \/ RoomsDone(v)
               \/ RemovePrefix(v) \/ RemovePrefixFails(v) \/ DropRoom(v) \/ BreakOff(v)
        PROVE  worker'[w].pc \notin {"prefix", "purge"}
    BY <1>2, <2>4 DEF BeginBatch, PurgeUpload, UploadsDone, RoomsDone, RemovePrefix,
                      RemovePrefixFails, DropRoom, BreakOff, Turn
  <2> QED
    <3>1. CASE \E m \in Media : ClaimUpload(v, m)
      BY <3>1, <2>2
    <3>2. CASE \E r \in Room : ClaimRoom(v, r)
      BY <3>2, <2>3
    <3> QED
      BY <2>1, <2>4, <3>1, <3>2
<1> QED
  BY <1>1, <1>2

LEMMA StoredInvariant == Spec => [](TypeOK /\ RowsInv /\ LeaseInv /\ StoredInv)
<1>1. Init => StoredInv
  BY DEF Init, TablesInit, StorageInit, MediaInit, WorkerInit, StoredInv, StoredRow, StoredReq,
         Idle, Request, Resting
<1>2. TypeOK /\ RowsInv /\ LeaseInv /\ TypeOK' /\ StoredInv /\ [Next]_vars => StoredInv'
  <2>1. CASE UNCHANGED vars
    BY <2>1 DEF vars, StoredInv, StoredRow, StoredReq, Joined, Multipart, RoomOpen
  <2>2. ASSUME TypeOK, RowsInv, LeaseInv, TypeOK', StoredInv, Next
        PROVE  StoredInv'
    BY <2>2, RowStored, ReqStored, TransfersStored, WorkersStored DEF StoredInv
  <2> QED
    BY <2>1, <2>2
<1> QED
  BY <1>1, <1>2, LeaseInvariant, PTL DEF Spec

\* A ready media of several parts is in the bucket until its end is decided.
THEOREM MultipartStaysStored == Spec => []MultipartReadyStored
<1>1. StoredInv => MultipartReadyStored
  BY DEF StoredInv, StoredRow, MultipartReadyStored
<1> QED
  BY <1>1, StoredInvariant, PTL

-----------------------------------------------------------------------------
(* Prompt: no transfer, request or thumbnail job lasts a clock tick        *)

Holds(t, m) == thumbnailer[t].pc # "idle" /\ thumbnailer[t].media = m

\* What a held job has: a claim of this very tick, on a row that has no key unless
\* a failing UPDATE wrote it, in a room that is not yet due.
HeldJob(t) == LET m == thumbnailer[t].media IN
  /\ mediaStatus[m] # "none" /\ now < RoomExpiry[home[m]]
  /\ \/ ~hasThumb[m] /\ thumbStatus[m] = "processing" /\ thumbAt[m] = now
     \/ hasThumb[m] /\ m \in mislaid /\ thumbnailer[t].pc \in {"undo", "fail"}

JobsInv ==
  /\ ThumbJobsDisjoint
  /\ \A t \in Thumbnailer : thumbnailer[t].pc # "idle" => HeldJob(t)

\* What makes ThumbStored inductive: a job that is about to write the key has
\* stored its object, and only an authorised Delete removes it by request.
ThumbInv ==
  /\ ThumbStored
  /\ \A m \in Media : hasThumb[m] => mediaStatus[m] # "none"
  /\ \A t \in Thumbnailer : LET m == thumbnailer[t].media IN
       thumbnailer[t].pc = "link" /\ m \notin doomed /\ RoomOpen(home[m]) => m \in thumb
  /\ \A q \in Req : req[q].pc = "remove_thumb" => req[q].media \in doomed

Clean(r) == \A m \in InRoom(r) : object[m] = 0 /\ m \notin thumb

\* What makes ExpiredRoomClean inductive: nothing that can still store an
\* object is under way for a room that is due, so it stays clean once listed.
CleanInv ==
  /\ \A p \in inflight : now < RoomExpiry[home[p[1]]]
  /\ \A q \in Req : req[q].pc = "assemble" => now < RoomExpiry[home[req[q].media]]
  /\ \A r \in Room : roomStatus[r] = "active" \/ r \in cut \/ RoomExpiry[r] <= now
  /\ \A w \in Worker : worker[w].pc = "drop" =>
       worker[w].on \in cut \/ (roomStatus[worker[w].on] # "active" /\ Clean(worker[w].on))
  /\ \A r \in Room : roomStatus[r] = "gone" => r \in cut \/ Clean(r)

ThumbAction(t) ==
  \/ RenderThumb(t) \/ PutThumb(t) \/ MakeFails(t) \/ LinkThumb(t) \/ LinkFails(t)
  \/ UndoThumb(t) \/ MarkFailed(t) \/ DropJob(t)
  \/ \E m \in Media : ClaimThumb(t, m)

\* A step of the thumbnail worker is one copy's; it leaves the rows alone but
\* for the thumbnail columns of the media it holds or claims.
LEMMA OneCopy ==
  ASSUME TypeOK, NEW t \in Thumbnailer, ThumbAction(t)
  PROVE  /\ UNCHANGED <<now, mediaStatus, home, roomStatus>>
         /\ mislaid \subseteq mislaid'
         /\ \A u \in Thumbnailer : u # t => thumbnailer'[u] = thumbnailer[u]
         /\ \A m \in Media : ~Holds(t, m) /\ ~ClaimThumb(t, m) =>
              UNCHANGED <<hasThumb[m], thumbStatus[m], thumbAt[m]>>
<1> USE DEF TypeOK, TablesTypeOK, ThumbnailTypeOK, StorageTypeOK
<1> DEFINE Goal == /\ UNCHANGED <<now, mediaStatus, home, roomStatus>>
                   /\ mislaid \subseteq mislaid'
                   /\ \A u \in Thumbnailer : u # t => thumbnailer'[u] = thumbnailer[u]
                   /\ \A m \in Media : ~Holds(t, m) /\ ~ClaimThumb(t, m) =>
                        UNCHANGED <<hasThumb[m], thumbStatus[m], thumbAt[m]>>
<1>1. CASE RenderThumb(t) \/ PutThumb(t) \/ MakeFails(t) \/ UndoThumb(t) \/ DropJob(t)
  BY <1>1 DEF RenderThumb, PutThumb, MakeFails, UndoThumb, DropJob, Work, Rest
<1>2. CASE LinkThumb(t) \/ LinkFails(t)
  BY <1>2 DEF LinkThumb, LinkFails, SetKey, Work, Rest, Holds
<1>3. CASE MarkFailed(t)
  BY <1>3 DEF MarkFailed, Rest, Holds
<1>4. ASSUME NEW m \in Media, ClaimThumb(t, m)
      PROVE  Goal
  BY <1>4 DEF ClaimThumb, Work, Holds
<1> QED BY <1>1, <1>2, <1>3, <1>4 DEF ThumbAction

\* What the copy that takes the step has afterwards.
LEMMA CopyHolds ==
  ASSUME TypeOK, RowsInv, JobsInv, NEW t \in Thumbnailer, ThumbAction(t),
         thumbnailer'[t].pc # "idle"
  PROVE  /\ HeldJob(t)'
         /\ \/ Holds(t, thumbnailer'[t].media)
            \/ ClaimThumb(t, thumbnailer'[t].media)
<1> USE DEF TypeOK, TablesTypeOK, ThumbnailTypeOK
<1> DEFINE m == thumbnailer[t].media
<1>0. UNCHANGED <<now, mediaStatus, home>>
  BY OneCopy
<1>1. CASE RenderThumb(t) \/ PutThumb(t) \/ MakeFails(t) \/ UndoThumb(t)
  <2>1. /\ thumbnailer[t].pc # "idle" /\ m \in Media
        /\ UNCHANGED <<hasThumb, thumbStatus, thumbAt, mislaid>>
        /\ thumbnailer'[t].media = m
        /\ thumbnailer[t].pc \in {"undo", "fail"} => thumbnailer'[t].pc \in {"undo", "fail"}
    BY <1>1 DEF RenderThumb, PutThumb, MakeFails, UndoThumb, Work
  <2>2. HeldJob(t)
    BY <2>1 DEF JobsInv
  <2> QED BY <1>0, <2>1, <2>2 DEF HeldJob, Holds
<1>2. CASE LinkThumb(t)
  <2>1. /\ thumbnailer[t].pc = "link" /\ m \in Media
        /\ UNCHANGED <<hasThumb, thumbStatus, thumbAt, mislaid>>
        /\ thumbnailer'[t].media = m
    BY <1>2 DEF LinkThumb, Work, Rest, Waiting
  <2>2. HeldJob(t)
    BY <2>1 DEF JobsInv
  <2> QED BY <1>0, <2>1, <2>2 DEF HeldJob, Holds
<1>3. CASE LinkFails(t)
  <2>1. /\ thumbnailer[t].pc = "link" /\ m \in Media
        /\ thumbnailer'[t].media = m /\ thumbnailer'[t].pc = "undo"
    BY <1>3 DEF LinkFails, Work
  <2>2. HeldJob(t)
    BY <2>1 DEF JobsInv
  <2>3. CASE UNCHANGED <<hasThumb, thumbStatus, thumbAt, mislaid>>
    BY <1>0, <2>1, <2>2, <2>3 DEF HeldJob, Holds
  <2>4. CASE SetKey(m) /\ mislaid' = mislaid \cup {m}
    BY <1>0, <2>1, <2>2, <2>4 DEF HeldJob, Holds, SetKey
  <2> QED BY <1>3, <2>3, <2>4 DEF LinkFails
<1>4. CASE MarkFailed(t) \/ DropJob(t)
  BY <1>4 DEF MarkFailed, DropJob, Rest, Waiting
<1>5. ASSUME NEW n \in Media, ClaimThumb(t, n)
      PROVE  HeldJob(t)' /\ ClaimThumb(t, thumbnailer'[t].media)
  <2>1. thumbnailer'[t].media = n /\ thumbnailer'[t].pc = "render"
    BY <1>5 DEF ClaimThumb, Work
  <2>2. /\ mediaStatus[n] = "ready" /\ ~hasThumb[n] /\ hasThumb' = hasThumb
        /\ thumbStatus'[n] = "processing" /\ thumbAt'[n] = now /\ now < RoomExpiry[home[n]]
    BY <1>5 DEF ClaimThumb, RoomOpen
  <2> QED BY <1>0, <1>5, <2>1, <2>2 DEF HeldJob
<1> QED BY <1>1, <1>2, <1>3, <1>4, <1>5 DEF ThumbAction

LEMMA ClockElsewhere ==
  ASSUME ApiStep \/ ClientStep \/ OwnerStep \/ CleanupStep
  PROVE  UNCHANGED <<now, jobs>>
<1>1. CASE ApiStep
  <2>1. ASSUME NEW q \in Req, NEW m \in Media, Start(q, m)
        PROVE  UNCHANGED now
    BY <2>1 DEF Start, Initiate, InitiateAgain, PartURLs, CompleteAlready, CompleteRead,
                AbortAlready, AbortRead, DeleteRead
  <2>2. ASSUME NEW q \in Req, Continue(q)
        PROVE  UNCHANGED now
    BY <2>2 DEF Continue, AttachSingleURL, MarkUploading, CompleteAssemble, CompleteAssembled,
                CompleteStat, CompleteMismatch, CompleteReject, CompleteCommit, AbortStore,
                AbortSettle, DeleteObject, DeleteThumb, DeleteCommit, GiveUp
  <2> QED BY <1>1, <2>1, <2>2 DEF ApiStep, MediaNext, InitiateLost
<1>2. CASE ClientStep
  BY <1>2 DEF ClientStep, StorageNext, PutStart, PutLand, PutLost
<1>3. CASE OwnerStep
  BY <1>3 DEF OwnerStep, OwnerNext, DeleteRoom, UpdateRoom
<1>4. CASE CleanupStep
  BY <1>4 DEF CleanupStep, WorkerNext, BeginBatch, ClaimUpload, PurgeUpload, UploadsDone,
              ClaimRoom, RoomsDone, RemovePrefix, RemovePrefixFails, DropRoom, BreakOff
<1> QED BY <1>1, <1>2, <1>3, <1>4

\* A job that is held is not claimed.
LEMMA HeldNotClaimed ==
  ASSUME TypeOK, JobsInv, NEW t \in Thumbnailer, NEW u \in Thumbnailer, NEW m \in Media,
         Holds(u, m)
  PROVE  ~ClaimThumb(t, m)
<1>1. HeldJob(u) /\ thumbnailer[u].media = m
  BY DEF JobsInv, Holds
<1>2. now \in Nat
  BY DEF TypeOK, TablesTypeOK
<1> QED BY <1>1, <1>2, Attempts DEF HeldJob, ClaimThumb, Queued

LEMMA JobsStep ==
  ASSUME Prompt, TypeOK, TypeOK', RowsInv, JobsInv, Next
  PROVE  JobsInv'
<1> USE DEF TypeOK, ThumbnailTypeOK
<1>1. CASE Tick
  BY <1>1 DEF Tick, Quiet, JobsInv, ThumbJobsDisjoint
<1>2. CASE ApiStep \/ ClientStep \/ OwnerStep \/ CleanupStep
  <2>1. UNCHANGED <<hasThumb, thumbStatus, thumbAt, now, jobs>>
    BY <1>2, ColumnsElsewhere, ClockElsewhere
  <2>2. ASSUME NEW t \in Thumbnailer, thumbnailer[t].pc # "idle" PROVE HeldJob(t)'
    <3>1. HeldJob(t) /\ thumbnailer[t].media \in Media
      BY <2>2 DEF JobsInv
    <3>2. /\ mediaStatus'[thumbnailer[t].media] # "none"
          /\ home'[thumbnailer[t].media] = home[thumbnailer[t].media]
      BY <3>1, StepMoves, RowsStay DEF HeldJob
    <3> QED BY <2>1, <3>1, <3>2 DEF HeldJob
  <2> QED BY <2>1, <2>2 DEF JobsInv, ThumbJobsDisjoint
<1>3. CASE ThumbStep
  <2>1. PICK t \in Thumbnailer : ThumbAction(t)
    BY <1>3 DEF ThumbStep, ThumbnailNext, ThumbAction
  <2>2. ASSUME NEW u \in Thumbnailer, u # t, thumbnailer'[u].pc # "idle"
        PROVE  /\ thumbnailer'[u] = thumbnailer[u] /\ HeldJob(u)'
               /\ ~(thumbnailer'[t].pc # "idle" /\ thumbnailer'[t].media = thumbnailer[u].media)
    <3>1. thumbnailer'[u] = thumbnailer[u]
      BY <2>1, <2>2, OneCopy
    <3>2. PICK m \in Media : m = thumbnailer[u].media
      BY <2>2, <3>1
    <3>3. HeldJob(u) /\ Holds(u, m)
      BY <2>2, <3>1, <3>2 DEF JobsInv, Holds
    <3>4. ~Holds(t, m) /\ ~ClaimThumb(t, m)
      BY <2>2, <3>3, HeldNotClaimed DEF JobsInv, ThumbJobsDisjoint, Holds
    <3>5. /\ UNCHANGED <<hasThumb[m], thumbStatus[m], thumbAt[m], now, mediaStatus, home>>
          /\ mislaid \subseteq mislaid'
      BY <2>1, <3>4, OneCopy
    <3>6. HeldJob(u)'
      BY <3>1, <3>2, <3>3, <3>5 DEF HeldJob
    <3>7. ~(thumbnailer'[t].pc # "idle" /\ thumbnailer'[t].media = m)
      BY <2>1, <3>4, CopyHolds
    <3> QED BY <3>1, <3>2, <3>6, <3>7
  <2>3. thumbnailer'[t].pc # "idle" => HeldJob(t)'
    BY <2>1, CopyHolds
  <2>4. \A u, v \in Thumbnailer :
          /\ thumbnailer'[u].pc # "idle" /\ thumbnailer'[v].pc # "idle"
          /\ thumbnailer'[u].media = thumbnailer'[v].media
          => u = v
    <3>1. SUFFICES ASSUME NEW u \in Thumbnailer, NEW v \in Thumbnailer, u # v,
                          thumbnailer'[u].pc # "idle", thumbnailer'[v].pc # "idle",
                          thumbnailer'[u].media = thumbnailer'[v].media
                   PROVE  FALSE
      OBVIOUS
    <3>2. CASE u = t \/ v = t
      BY <2>2, <3>1, <3>2
    <3>3. CASE u # t /\ v # t
      BY <2>2, <3>1, <3>3 DEF JobsInv, ThumbJobsDisjoint
    <3> QED BY <3>2, <3>3
  <2> QED BY <2>2, <2>3, <2>4 DEF JobsInv, ThumbJobsDisjoint
<1> QED BY <1>1, <1>2, <1>3 DEF Next

\* Who takes a thumbnail out of the bucket and who puts one in.
LEMMA ThumbFlow ==
  ASSUME TypeOK, RowsInv, LeaseInv, StoredInv, Next, NEW x \in Media
  PROVE  /\ x \in thumb /\ x \notin thumb' =>
              \/ \E t \in Thumbnailer : UndoThumb(t) /\ thumbnailer[t].media = x
              \/ \E q \in Req : req[q].pc = "remove_thumb" /\ req[q].media = x
              \/ home[x] \in Room /\ roomStatus[home[x]] # "active"
         /\ x \notin thumb /\ x \in thumb' =>
              \E t \in Thumbnailer : PutThumb(t) /\ thumbnailer[t].media = x
<1> USE DEF TypeOK, StorageTypeOK
<1>1. CASE ApiStep
  <2>1. ASSUME NEW q \in Req, NEW m \in Media, Start(q, m)
        PROVE  thumb' = thumb
    BY <2>1 DEF Start, Initiate, InitiateAgain, PartURLs, CompleteAlready, CompleteRead,
                AbortAlready, AbortRead, DeleteRead
  <2>2. ASSUME NEW q \in Req, Continue(q)
        PROVE  \/ thumb' = thumb
               \/ req[q].pc = "remove_thumb" /\ thumb' = thumb \ {req[q].media}
    BY <2>2 DEF Continue, AttachSingleURL, MarkUploading, CompleteAssemble, CompleteAssembled,
                CompleteStat, CompleteMismatch, CompleteReject, CompleteCommit, AbortStore,
                AbortSettle, DeleteObject, DeleteThumb, DeleteCommit, GiveUp
  <2> QED BY <1>1, <2>1, <2>2 DEF ApiStep, MediaNext, InitiateLost
<1>2. CASE CleanupStep
  <2>1. PICK w \in Worker :
          \/ BeginBatch(w) \/ PurgeUpload(w) \/ UploadsDone(w) \/ RoomsDone(w)
          \/ RemovePrefix(w) \/ RemovePrefixFails(w) \/ DropRoom(w) \/ BreakOff(w)
          \/ \E m \in Media : ClaimUpload(w, m)
          \/ \E r \in Room : ClaimRoom(w, r)
    BY <1>2 DEF CleanupStep, WorkerNext
  <2>2. CASE RemovePrefix(w) \/ RemovePrefixFails(w)
    <3>1. worker[w].on \in Room /\ roomStatus[worker[w].on] # "active"
      BY <2>2 DEF RemovePrefix, RemovePrefixFails, WorkerTypeOK, StoredInv
    <3>2. thumb' \subseteq thumb /\ (x \in thumb /\ x \notin thumb' => home[x] = worker[w].on)
      BY <2>2 DEF RemovePrefix, RemovePrefixFails, InRoom
    <3> QED BY <3>1, <3>2
  <2> QED BY <2>1, <2>2 DEF BeginBatch, PurgeUpload, UploadsDone, RoomsDone, DropRoom, BreakOff,
                            ClaimUpload, ClaimRoom
<1>3. CASE ThumbStep
  <2>1. PICK t \in Thumbnailer : ThumbAction(t)
    BY <1>3 DEF ThumbStep, ThumbnailNext, ThumbAction
  <2>2. \/ thumb' = thumb
        \/ UndoThumb(t) /\ thumb' = thumb \ {thumbnailer[t].media}
        \/ PutThumb(t) /\ thumb' = thumb \cup {thumbnailer[t].media}
    BY <2>1 DEF ThumbAction, RenderThumb, PutThumb, MakeFails, LinkThumb, LinkFails, UndoThumb,
                MarkFailed, DropJob, ClaimThumb
  <2> QED BY <2>2
<1>4. CASE Tick \/ ClientStep \/ OwnerStep
  BY <1>4 DEF Tick, ClientStep, StorageNext, PutStart, PutLand, PutLost, OwnerStep
<1> QED BY <1>1, <1>2, <1>3, <1>4 DEF Next

\* Who writes a thumbnail's key, and who is about to.
LEMMA KeyFlow ==
  ASSUME TypeOK, Next
  PROVE  /\ mislaid \subseteq mislaid'
         /\ \A x \in Media : hasThumb'[x] /\ ~hasThumb[x] =>
              \E t \in Thumbnailer : thumbnailer[t].media = x /\ (LinkThumb(t) \/ x \in mislaid')
                                     /\ thumbnailer[t].pc = "link" /\ thumb' = thumb
         /\ \A t \in Thumbnailer : thumbnailer'[t].pc = "link" =>
              thumbnailer'[t] = thumbnailer[t] \/ PutThumb(t)
<1> USE DEF TypeOK, TablesTypeOK, ThumbnailTypeOK
<1>1. CASE ThumbStep
  <2>1. PICK t \in Thumbnailer : ThumbAction(t)
    BY <1>1 DEF ThumbStep, ThumbnailNext, ThumbAction
  <2>2. ASSUME NEW x \in Media, hasThumb'[x], ~hasThumb[x]
        PROVE  /\ thumbnailer[t].media = x /\ (LinkThumb(t) \/ x \in mislaid')
               /\ thumbnailer[t].pc = "link" /\ thumb' = thumb
    <3>1. CASE LinkThumb(t) \/ LinkFails(t)
      BY <2>2, <3>1 DEF LinkThumb, LinkFails, SetKey
    <3> QED BY <2>1, <2>2, <3>1 DEF ThumbAction, RenderThumb, PutThumb, MakeFails, UndoThumb,
                                    MarkFailed, DropJob, ClaimThumb
  <2>3. ASSUME NEW u \in Thumbnailer, thumbnailer'[u].pc = "link"
        PROVE  thumbnailer'[u] = thumbnailer[u] \/ PutThumb(u)
    <3>1. CASE u # t
      BY <2>1, <3>1, OneCopy
    <3>2. CASE u = t
      BY <2>1, <2>3, <3>2 DEF ThumbAction, RenderThumb, MakeFails, LinkThumb, LinkFails, UndoThumb,
                              MarkFailed, DropJob, ClaimThumb, Work, Rest, Waiting
    <3> QED BY <3>1, <3>2
  <2> QED BY <2>1, <2>2, <2>3, OneCopy
<1>2. CASE ApiStep \/ ClientStep \/ OwnerStep \/ CleanupStep
  BY <1>2, ColumnsElsewhere, ClockElsewhere
<1>3. CASE Tick
  BY <1>3 DEF Tick
<1> QED BY <1>1, <1>2, <1>3 DEF Next

\* Only Delete, which authorised it before, takes a thumbnail by request.
LEMMA ThumbRequests ==
  ASSUME TypeOK, StoredInv, Next, NEW q \in Req, req'[q].pc = "remove_thumb"
  PROVE  \/ req'[q] = req[q]
         \/ req[q].pc = "remove" /\ req'[q].media = req[q].media
<1> USE DEF TypeOK, MediaTypeOK, ReqTypeOK
<1>1. ASSUME NEW p \in Req, NEW m \in Media, Start(p, m)
      PROVE  req'[q] = req[q]
  <2>1. ASSUME NEW r \in Room, NEW s \in Sizes, NEW k \in Key, Initiate(p, m, r, s, k)
        PROVE  req'[q] = req[q]
    BY <2>1 DEF Initiate, Goto, At, Request
  <2> QED BY <1>1, <2>1 DEF Start, InitiateAgain, PartURLs, CompleteAlready, CompleteRead,
             AbortAlready, AbortRead, DeleteRead, Goto, Answer, Finish, At, Idle, Request
<1>2. ASSUME NEW p \in Req, Continue(p)
      PROVE  \/ req'[q] = req[q]
             \/ req[q].pc = "remove" /\ req'[q].media = req[q].media
  <2>1. CASE DeleteObject(p)
    BY <2>1 DEF DeleteObject, Goto, At, Request
  <2>2. CASE CompleteStat(p)
    BY <2>2 DEF CompleteStat, Goto, At, Request
  <2> QED BY <1>2, <2>1, <2>2 DEF Continue, AttachSingleURL, MarkUploading, CompleteAssemble,
      CompleteAssembled, CompleteMismatch, CompleteReject, CompleteCommit, AbortStore, AbortSettle,
      DeleteThumb, DeleteCommit, GiveUp, Goto, Answer, Finish, At, Idle, Request
<1>3. ApiStep => (\E p \in Req, m \in Media : Start(p, m)) \/ (\E p \in Req : Continue(p)) \/ req' = req
  BY DEF ApiStep, MediaNext, InitiateLost
<1>4. ClientStep \/ OwnerStep \/ CleanupStep \/ ThumbStep \/ Tick => req' = req
  BY DEF ClientStep, OwnerStep, CleanupStep, ThumbStep, Tick
<1> QED BY <1>1, <1>2, <1>3, <1>4 DEF Next

LEMMA ThumbsStep ==
  ASSUME TypeOK, TypeOK', RowsInv, RowsInv', LeaseInv, StoredInv, JobsInv, JobsInv', ThumbInv, Next
  PROVE  ThumbInv'
<1> USE DEF TypeOK, ThumbnailTypeOK, TablesTypeOK
<1>m. Move
  BY StepMoves
<1>1. ASSUME NEW x \in Media, mediaStatus[x] # "none", x \in thumb, x \notin doomed,
             RoomOpen(home[x])', \A t \in Thumbnailer : ~(UndoThumb(t) /\ thumbnailer[t].media = x)
      PROVE  x \in thumb'
  <2>1. home[x] \in Room /\ home'[x] = home[x]
    BY <1>1, <1>m, RowsStay DEF RowsInv
  <2>2. roomStatus[home[x]] = "active"
    BY <1>1, <2>1, RoomsStayClosed DEF RoomOpen
  <2>3. \A q \in Req : ~(req[q].pc = "remove_thumb" /\ req[q].media = x)
    BY <1>1 DEF ThumbInv
  <2> QED BY <1>1, <2>2, <2>3, ThumbFlow
<1>2. ASSUME NEW x \in Media, mediaStatus[x] # "none", RoomOpen(home[x])', x \notin doomed'
      PROVE  RoomOpen(home[x]) /\ x \notin doomed
  <2>1. home[x] \in Room /\ home'[x] = home[x]
    BY <1>2, <1>m, RowsStay DEF RowsInv
  <2>2. now \in Nat /\ now' \in Nat /\ RoomExpiry[home[x]] \in Nat
    BY <2>1, Limits
  <2> QED BY <1>2, <2>1, <2>2, RoomsStayClosed DEF RoomOpen
<1>3. ThumbStored'
  <2>1. SUFFICES ASSUME NEW x \in Media, hasThumb'[x], x \notin doomed', x \notin mislaid',
                        RoomOpen(home[x])'
                 PROVE  x \in thumb'
    BY DEF ThumbStored
  <2>2. CASE hasThumb[x]
    <3>1. mediaStatus[x] # "none" /\ x \notin mislaid
      BY <2>1, <2>2, KeyFlow DEF ThumbInv
    <3>2. x \in thumb
      BY <1>2, <2>1, <2>2, <3>1 DEF ThumbInv, ThumbStored
    <3>3. ASSUME NEW t \in Thumbnailer, UndoThumb(t), thumbnailer[t].media = x PROVE FALSE
      BY <2>2, <3>1, <3>3 DEF UndoThumb, JobsInv, HeldJob
    <3> QED BY <1>1, <1>2, <2>1, <3>1, <3>2, <3>3
  <2>3. CASE ~hasThumb[x]
    <3>1. PICK t \in Thumbnailer : thumbnailer[t].media = x /\ thumbnailer[t].pc = "link" /\ thumb' = thumb
      BY <2>1, <2>3, KeyFlow
    <3>2. mediaStatus[x] # "none"
      BY <3>1 DEF JobsInv, HeldJob
    <3> QED BY <1>2, <2>1, <3>1, <3>2 DEF ThumbInv
  <2> QED BY <2>2, <2>3
<1>4. ASSUME NEW x \in Media, hasThumb'[x] PROVE mediaStatus'[x] # "none"
  <2>1. mediaStatus[x] # "none"
    <3>1. CASE hasThumb[x]
      BY <3>1 DEF ThumbInv
    <3>2. CASE ~hasThumb[x]
      BY <1>4, <3>2, KeyFlow DEF JobsInv, HeldJob
    <3> QED BY <3>1, <3>2
  <2> QED BY <1>m, <2>1, RowsStay
<1>5. ASSUME NEW t \in Thumbnailer, NEW x \in Media, x = thumbnailer'[t].media,
             thumbnailer'[t].pc = "link", x \notin doomed', RoomOpen(home[x])'
      PROVE  x \in thumb'
  <2>1. CASE PutThumb(t)
    BY <1>5, <2>1 DEF PutThumb, Work
  <2>2. CASE thumbnailer'[t] = thumbnailer[t]
    <3>1. thumbnailer[t].pc = "link" /\ thumbnailer[t].media = x /\ mediaStatus[x] # "none"
      BY <1>5, <2>2 DEF JobsInv, HeldJob
    <3>2. x \in thumb
      BY <1>2, <1>5, <3>1 DEF ThumbInv
    <3>3. ASSUME NEW u \in Thumbnailer, UndoThumb(u), thumbnailer[u].media = x PROVE FALSE
      BY <3>1, <3>3 DEF UndoThumb, JobsInv, ThumbJobsDisjoint
    <3> QED BY <1>1, <1>2, <1>5, <3>1, <3>2, <3>3
  <2> QED BY <1>5, <2>1, <2>2, KeyFlow
<1>6. ASSUME NEW q \in Req, req'[q].pc = "remove_thumb" PROVE req'[q].media \in doomed'
  <2>1. req'[q].media \in doomed
    BY <1>6, ThumbRequests DEF ThumbInv, StoredInv, StoredReq
  <2> QED BY <2>1, RoomsStayClosed
<1> QED BY <1>3, <1>4, <1>5, <1>6 DEF ThumbInv

\* An object comes into the bucket with a transfer or the joining of parts.
LEMMA ObjectFlow ==
  ASSUME TypeOK, Next, NEW x \in Media, object[x] = 0, object'[x] # 0
  PROVE  \/ \E p \in inflight : p[1] = x
         \/ \E q \in Req : req[q].pc = "assemble" /\ req[q].media = x
<1> USE DEF TypeOK, StorageTypeOK
<1>1. CASE ApiStep
  <2>1. ASSUME NEW q \in Req, NEW m \in Media, Start(q, m)
        PROVE  object' = object
    BY <2>1 DEF Start, Initiate, InitiateAgain, PartURLs, CompleteAlready, CompleteRead,
                AbortAlready, AbortRead, DeleteRead
  <2>2. ASSUME NEW q \in Req, Continue(q)
        PROVE  \/ object'[x] = object[x] \/ object'[x] = 0
               \/ req[q].pc = "assemble" /\ req[q].media = x
    BY <2>2 DEF Continue, AttachSingleURL, MarkUploading, CompleteAssemble, CompleteAssembled,
                CompleteStat, CompleteMismatch, CompleteReject, CompleteCommit, AbortStore,
                AbortSettle, DeleteObject, DeleteThumb, DeleteCommit, GiveUp, Assemble, RemoveObject
  <2> QED BY <1>1, <2>1, <2>2 DEF ApiStep, MediaNext, InitiateLost
<1>2. CASE ClientStep
  <2>1. PICK m \in Media, s \in Sizes : PutStart(m, s) \/ PutLand(m, s) \/ PutLost(m, s)
    BY <1>2 DEF ClientStep, StorageNext
  <2>2. PutLand(m, s) /\ x = m
    BY <2>1 DEF PutStart, PutLand, PutLost
  <2> QED BY <2>2 DEF PutLand
<1>3. CASE CleanupStep
  <2>1. object'[x] = object[x] \/ object'[x] = 0
    BY <1>3 DEF CleanupStep, WorkerNext, BeginBatch, ClaimUpload, PurgeUpload, RemoveObject,
                UploadsDone, ClaimRoom, RoomsDone, RemovePrefix, RemovePrefixFails, DropRoom, BreakOff
  <2> QED BY <2>1
<1>4. CASE ThumbStep
  BY <1>4 DEF ThumbStep, ThumbnailNext, ClaimThumb, RenderThumb, PutThumb, MakeFails, LinkThumb,
              LinkFails, UndoThumb, MarkFailed, DropJob
<1>5. CASE Tick \/ OwnerStep
  BY <1>5 DEF Tick, OwnerStep
<1> QED BY <1>1, <1>2, <1>3, <1>4, <1>5 DEF Next

\* Rooms that are closed get no new upload.
LEMMA ClosedRoomsKeep ==
  ASSUME TypeOK, RowsInv, Next, NEW r \in Room, roomStatus[r] # "active",
         NEW x \in Media, home'[x] = r
  PROVE  home[x] = r
<1>1. Move
  BY StepMoves
<1> QED BY <1>1 DEF Move, Accepted, Released, ReleaseReservation, Kept, Deleted, Hidden, Removed,
                    Still, FixedCols, TypeOK, TablesTypeOK

\* What is due stays clean once it is clean.
LEMMA CleanStays ==
  ASSUME TypeOK, RowsInv, LeaseInv, StoredInv, JobsInv, CleanInv, Next,
         NEW r \in Room, roomStatus[r] # "active", RoomExpiry[r] <= now, Clean(r)
  PROVE  Clean(r)'
<1>1. SUFFICES ASSUME NEW x \in Media, home'[x] = r
               PROVE  object'[x] = 0 /\ x \notin thumb'
  BY DEF Clean, InRoom
<1>2. home[x] = r /\ object[x] = 0 /\ x \notin thumb
  BY <1>1, ClosedRoomsKeep DEF Clean, InRoom
<1>3. now \in Nat /\ RoomExpiry[r] \in Nat
  BY Limits DEF TypeOK, TablesTypeOK
<1>4. ~\E p \in inflight : p[1] = x
  BY <1>2, <1>3 DEF CleanInv
<1>5. ~\E q \in Req : req[q].pc = "assemble" /\ req[q].media = x
  BY <1>2, <1>3 DEF CleanInv
<1>6. ~\E t \in Thumbnailer : PutThumb(t) /\ thumbnailer[t].media = x
  BY <1>2, <1>3 DEF JobsInv, HeldJob, PutThumb
<1> QED BY <1>2, <1>4, <1>5, <1>6, ObjectFlow, ThumbFlow

LEMMA WhoAssembles ==
  ASSUME TypeOK, Next, NEW q \in Req, req'[q] # req[q], req'[q].pc = "assemble"
  PROVE  \E m \in Media : CompleteRead(q, m)
<1> USE DEF TypeOK, MediaTypeOK, ReqTypeOK
<1>1. ASSUME NEW p \in Req, NEW m \in Media, Start(p, m)
      PROVE  p = q /\ CompleteRead(q, m)
  <2>1. ASSUME NEW r \in Room, NEW s \in Sizes, NEW k \in Key, Initiate(p, m, r, s, k)
        PROVE  FALSE
    BY <2>1 DEF Initiate, Goto, At, Request
  <2>2. CASE CompleteRead(p, m)
    BY <2>2 DEF CompleteRead, Goto
  <2> QED BY <1>1, <2>1, <2>2 DEF Start, InitiateAgain, PartURLs, CompleteAlready,
             AbortAlready, AbortRead, DeleteRead, Goto, Answer, Finish, At, Idle, Request
<1>2. ASSUME NEW p \in Req, Continue(p)
      PROVE  FALSE
  <2>1. CASE CompleteStat(p) \/ DeleteObject(p)
    BY <2>1 DEF CompleteStat, DeleteObject, Goto, At, Request
  <2> QED BY <1>2, <2>1 DEF Continue, AttachSingleURL, MarkUploading, CompleteAssemble,
      CompleteAssembled, CompleteMismatch, CompleteReject, CompleteCommit, AbortStore, AbortSettle,
      DeleteThumb, DeleteCommit, GiveUp, Goto, Answer, Finish, At, Idle, Request
<1>3. ApiStep
  BY DEF Next, Tick, ClientStep, OwnerStep, CleanupStep, ThumbStep
<1> QED BY <1>1, <1>2, <1>3 DEF ApiStep, MediaNext, InitiateLost

\* A transfer that begins, and a Complete that will join parts, are in time.
LEMMA InTime ==
  ASSUME Prompt, TypeOK, TypeOK', RowsInv, LeaseInv, StoredInv, CleanInv, Next
  PROVE  /\ \A p \in inflight' : now' < RoomExpiry[home'[p[1]]]
         /\ \A q \in Req : req'[q].pc = "assemble" => now' < RoomExpiry[home'[req'[q].media]]
<1> USE DEF TypeOK, TablesTypeOK, StorageTypeOK, MediaTypeOK, ReqTypeOK
<1>m. Move
  BY StepMoves
<1>t. CASE Tick
  BY <1>t DEF Tick, Quiet
<1>n. CASE ~Tick
  <2>0. now' = now
    BY <1>n, ClockElsewhere, OneCopy DEF Next, ThumbStep, ThumbnailNext, ThumbAction
  <2>1. ASSUME NEW x \in Media, mediaStatus[x] # "none", now < expiresAt[x]
        PROVE  now' < RoomExpiry[home'[x]]
    <3>1. expiresAt[x] <= RoomExpiry[home[x]] /\ home[x] \in Room /\ home'[x] = home[x]
      BY <1>m, <2>1, RowsStay DEF LeaseInv, LeaseChain, RowsInv
    <3>2. RoomExpiry[home[x]] \in Nat /\ now \in Nat /\ expiresAt[x] \in Nat
      BY <3>1, Limits
    <3> QED BY <2>0, <2>1, <3>1, <3>2
  <2>2. ASSUME NEW p \in inflight' PROVE now' < RoomExpiry[home'[p[1]]]
    <3>1. CASE p \in inflight
      <4>1. p[1] \in Media /\ mediaStatus[p[1]] # "none" /\ now < RoomExpiry[home[p[1]]]
        BY <3>1 DEF StoredInv, CleanInv
      <4> QED BY <1>m, <2>0, <4>1, RowsStay
    <3>2. CASE p \notin inflight
      <4>1. PICK m \in Media, s \in Sizes : PutStart(m, s) /\ p = <<m, s>>
        BY <2>2, <3>2, NewTransfers
      <4>2. mediaStatus[m] # "none" /\ now < urlUntil[m] /\ urlUntil[m] <= expiresAt[m]
        BY <4>1 DEF PutStart, LeaseInv, LeaseChain
      <4>3. urlUntil[m] \in Nat /\ expiresAt[m] \in Nat /\ now \in Nat
        OBVIOUS
      <4> QED BY <2>1, <4>1, <4>2, <4>3
    <3> QED BY <3>1, <3>2
  <2>3. ASSUME NEW q \in Req, req'[q].pc = "assemble"
        PROVE  now' < RoomExpiry[home'[req'[q].media]]
    <3>1. CASE req'[q] = req[q]
      <4>1. req[q].media \in Media /\ mediaStatus[req[q].media] # "none"
            /\ now < RoomExpiry[home[req[q].media]]
        BY <2>3, <3>1 DEF LeaseInv, CleanInv
      <4> QED BY <1>m, <2>0, <3>1, <4>1, RowsStay
    <3>2. CASE req'[q] # req[q]
      <4>1. PICK m \in Media : CompleteRead(q, m)
        BY <2>3, <3>2, WhoAssembles
      <4>2. req'[q].media = m /\ now < expiresAt[m] /\ mediaStatus[m] # "none"
        BY <4>1 DEF CompleteRead, Goto, At, Request, RowsInv, RowsAgree
      <4> QED BY <2>1, <4>2
    <3> QED BY <3>1, <3>2
  <2> QED BY <2>2, <2>3
<1> QED BY <1>t, <1>n

\* A room ends by its owner or when it is due, and goes by the worker that
\* removed its objects.
LEMMA RoomsEnd ==
  ASSUME TypeOK, Next, NEW r \in Room
  PROVE  /\ cut \subseteq cut'
         /\ roomStatus[r] = "active" /\ roomStatus'[r] # "active" => r \in cut' \/ RoomExpiry[r] <= now
         /\ roomStatus[r] # "gone" /\ roomStatus'[r] = "gone" =>
              /\ roomStatus[r] = "deleting"
              /\ \E w \in Worker : worker[w].pc = "drop" /\ worker[w].on = r
<1> USE DEF TypeOK, TablesTypeOK, OwnerTypeOK
<1>1. CASE ApiStep
  <2>1. ASSUME NEW q \in Req, NEW m \in Media, Start(q, m)
        PROVE  roomStatus' = roomStatus
    BY <2>1 DEF Start, Initiate, InitiateAgain, PartURLs, CompleteAlready, CompleteRead,
                AbortAlready, AbortRead, DeleteRead
  <2>2. ASSUME NEW q \in Req, Continue(q)
        PROVE  roomStatus' = roomStatus
    BY <2>2 DEF Continue, AttachSingleURL, MarkUploading, CompleteAssemble, CompleteAssembled,
                CompleteStat, CompleteMismatch, CompleteReject, CompleteCommit, AbortStore,
                AbortSettle, DeleteObject, DeleteThumb, DeleteCommit, GiveUp
  <2> QED BY <1>1, <2>1, <2>2 DEF ApiStep, MediaNext, InitiateLost
<1>2. CASE OwnerStep
  BY <1>2 DEF OwnerStep, OwnerNext, DeleteRoom, UpdateRoom
<1>3. CASE CleanupStep
  <2>1. PICK w \in Worker :
          \/ BeginBatch(w) \/ PurgeUpload(w) \/ UploadsDone(w) \/ RoomsDone(w)
          \/ RemovePrefix(w) \/ RemovePrefixFails(w) \/ DropRoom(w) \/ BreakOff(w)
          \/ \E m \in Media : ClaimUpload(w, m)
          \/ \E x \in Room : ClaimRoom(w, x)
    BY <1>3 DEF CleanupStep, WorkerNext
  <2>2. CASE DropRoom(w)
    BY <1>3, <2>2 DEF DropRoom, CleanupStep
  <2>3. ASSUME NEW x \in Room, ClaimRoom(w, x)
        PROVE  /\ roomStatus' = [roomStatus EXCEPT ![x] = "deleting"]
               /\ roomStatus[x] = "active" => RoomExpiry[x] <= now
    BY <2>3 DEF ClaimRoom, DueRoom
  <2> QED BY <1>3, <2>1, <2>2, <2>3 DEF CleanupStep, BeginBatch, PurgeUpload, UploadsDone, RoomsDone,
                RemovePrefix, RemovePrefixFails, BreakOff, ClaimUpload
<1>4. CASE ThumbStep
  BY <1>4, OneCopy DEF ThumbStep, ThumbnailNext, ThumbAction
<1>5. CASE Tick \/ ClientStep
  BY <1>5 DEF Tick, ClientStep, StorageNext, PutStart, PutLand, PutLost
<1>6. ApiStep \/ ThumbStep => cut' = cut
  BY DEF ApiStep, ThumbStep
<1> QED BY <1>1, <1>2, <1>3, <1>4, <1>5, <1>6 DEF Next

LEMMA BeforeDrop ==
  ASSUME TypeOK, Next, NEW w \in Worker, worker'[w].pc = "drop"
  PROVE  worker'[w] = worker[w] \/ (RemovePrefix(w) /\ worker'[w].on = worker[w].on)
<1> USE DEF TypeOK, WorkerTypeOK
<1>1. CASE CleanupStep
  <2>1. PICK v \in Worker :
          \/ BeginBatch(v) \/ PurgeUpload(v) \/ UploadsDone(v) \/ RoomsDone(v)
          \/ RemovePrefix(v) \/ RemovePrefixFails(v) \/ DropRoom(v) \/ BreakOff(v)
          \/ \E m \in Media : ClaimUpload(v, m)
          \/ \E r \in Room : ClaimRoom(v, r)
    BY <1>1 DEF CleanupStep, WorkerNext
  <2>2. CASE RemovePrefix(v)
    BY <2>2 DEF RemovePrefix, Turn
  <2> QED BY <2>1, <2>2 DEF BeginBatch, PurgeUpload, UploadsDone, RoomsDone, RemovePrefixFails,
                            DropRoom, BreakOff, ClaimUpload, ClaimRoom, Turn
<1>2. CASE ApiStep \/ ClientStep \/ OwnerStep \/ ThumbStep \/ Tick
  BY <1>2 DEF ApiStep, ClientStep, OwnerStep, ThumbStep, Tick
<1> QED BY <1>1, <1>2 DEF Next

LEMMA CleanStep ==
  ASSUME Prompt, TypeOK, TypeOK', RowsInv, LeaseInv, StoredInv, JobsInv, CleanInv, Next
  PROVE  CleanInv'
<1> USE DEF TypeOK, TablesTypeOK
<1>1. \A r \in Room : roomStatus'[r] = "active" \/ r \in cut' \/ RoomExpiry[r] <= now'
  <2>1. SUFFICES ASSUME NEW r \in Room
                 PROVE  roomStatus'[r] = "active" \/ r \in cut' \/ RoomExpiry[r] <= now'
    OBVIOUS
  <2>2. now \in Nat /\ now' \in Nat /\ RoomExpiry[r] \in Nat /\ now <= now'
    BY Limits, RoomsStayClosed
  <2> QED BY <2>2, RoomsEnd DEF CleanInv
<1>2. ASSUME NEW r \in Room, roomStatus[r] # "active", r \in cut \/ Clean(r)
      PROVE  roomStatus'[r] # "active" /\ (r \in cut' \/ Clean(r)')
  <2>1. roomStatus'[r] # "active" /\ cut \subseteq cut'
    BY <1>2, RoomsStayClosed, RoomsEnd
  <2>2. r \in cut \/ RoomExpiry[r] <= now
    BY <1>2 DEF CleanInv
  <2> QED BY <1>2, <2>1, <2>2, CleanStays
<1>3. ASSUME NEW w \in Worker, worker'[w].pc = "drop"
      PROVE  (worker[w].on \in cut \/ (roomStatus[worker[w].on] # "active" /\ Clean(worker[w].on)))'
  <2>1. CASE worker'[w] = worker[w]
    <3>1. PICK r \in Room : r = worker[w].on
      BY <1>3, <2>1 DEF WorkerTypeOK
    <3>2. r \in cut \/ (roomStatus[r] # "active" /\ Clean(r))
      BY <1>3, <2>1, <3>1 DEF CleanInv
    <3>3. cut \subseteq cut'
      BY <3>1, RoomsEnd
    <3>4. r \in cut' \/ (roomStatus'[r] # "active" /\ Clean(r)')
      BY <1>2, <3>2, <3>3
    <3> QED BY <2>1, <3>1, <3>4 DEF Clean, InRoom
  <2>2. CASE RemovePrefix(w) /\ worker'[w].on = worker[w].on
    <3>1. PICK r \in Room : r = worker[w].on
      BY <2>2 DEF RemovePrefix, WorkerTypeOK
    <3>2. roomStatus[r] # "active" /\ roomStatus' = roomStatus
      BY <2>2, <3>1 DEF RemovePrefix, StoredInv
    <3>3. Clean(r)'
      BY <2>2, <3>1 DEF RemovePrefix, Clean, InRoom
    <3> QED BY <2>2, <3>1, <3>2, <3>3 DEF Clean, InRoom
  <2> QED BY <1>3, <2>1, <2>2, BeforeDrop
<1>4. ASSUME NEW r \in Room, roomStatus'[r] = "gone" PROVE r \in cut' \/ Clean(r)'
  <2>1. roomStatus[r] # "active" /\ (r \in cut \/ Clean(r))
    BY <1>4, RoomsEnd DEF CleanInv
  <2> QED BY <1>2, <2>1
<1> QED BY <1>1, <1>3, <1>4, InTime DEF CleanInv

PromptInv == JobsInv /\ ThumbInv /\ CleanInv

LEMMA PromptInvariant == Spec => [](Prompt => PromptInv)
<1>1. Init => PromptInv
  <2> SUFFICES ASSUME Init PROVE PromptInv
    OBVIOUS
  <2> USE DEF Init, TablesInit, StorageInit, MediaInit, OwnerInit, WorkerInit, ThumbnailInit
  <2>1. JobsInv
    BY DEF JobsInv, ThumbJobsDisjoint, Waiting
  <2>2. ThumbInv
    BY DEF ThumbInv, ThumbStored, Waiting, Idle, Request
  <2>3. CleanInv
    BY DEF CleanInv, Idle, Request, Resting
  <2> QED BY <2>1, <2>2, <2>3 DEF PromptInv
<1>2. /\ TypeOK /\ RowsInv /\ LeaseInv /\ StoredInv /\ TypeOK' /\ RowsInv'
      /\ (Prompt => PromptInv) /\ [Next]_vars
      => (Prompt => PromptInv)'
  <2> SUFFICES ASSUME TypeOK, RowsInv, LeaseInv, StoredInv, TypeOK', RowsInv', Prompt, PromptInv,
                      [Next]_vars
               PROVE  PromptInv'
    OBVIOUS
  <2>1. CASE Next
    BY <2>1, JobsStep, ThumbsStep, CleanStep DEF PromptInv
  <2>2. CASE UNCHANGED vars
    <3> USE <2>2 DEF vars
    <3>1. JobsInv'
      BY DEF PromptInv, JobsInv, ThumbJobsDisjoint, HeldJob
    <3>2. ThumbInv'
      BY DEF PromptInv, ThumbInv, ThumbStored, RoomOpen
    <3>3. CleanInv'
      BY DEF PromptInv, CleanInv, Clean, InRoom
    <3> QED BY <3>1, <3>2, <3>3 DEF PromptInv
  <2> QED BY <2>1, <2>2
<1> QED BY <1>1, <1>2, StoredInvariant, PTL DEF Spec

\* If nothing outlasts a tick, two copies of the thumbnail worker never work
\* on one media, in every behaviour and however many copies run (claim).
THEOREM JobsStayDisjoint == Spec => [](Prompt => ThumbJobsDisjoint)
<1>1. (Prompt => PromptInv) => (Prompt => ThumbJobsDisjoint)
  BY DEF PromptInv, JobsInv
<1> QED BY <1>1, PromptInvariant, PTL

\* If nothing outlasts a tick, the gallery offers no thumbnail that a copy of
\* the worker, Delete or the cleanup took away, but for one whose UPDATE was
\* committed without an answer (process, Gallery).
THEOREM ThumbsStayStored == Spec => [](Prompt => ThumbStored)
<1>1. (Prompt => PromptInv) => (Prompt => ThumbStored)
  BY DEF PromptInv, ThumbInv
<1> QED BY <1>1, PromptInvariant, PTL

\* If nothing outlasts a tick, a room that reached its expiry leaves no object
\* and no thumbnail when its row goes, whatever failed on the way (runBatch).
THEOREM ExpiredRoomsEndClean == Spec => [](Prompt => ExpiredRoomClean)
<1>1. (Prompt => PromptInv) => (Prompt => ExpiredRoomClean)
  BY DEF PromptInv, CleanInv, Clean, InRoom, ExpiredRoomClean
<1> QED BY <1>1, PromptInvariant, PTL
=============================================================================
