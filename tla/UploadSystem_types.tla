------------------------ MODULE UploadSystem_types ------------------------
(***************************************************************************)
(* Type correctness of UploadSystem, for every value of its constants:     *)
(* component by component, then action by action.                          *)
(***************************************************************************)
EXTENDS UploadSystem, TLAPS

USE DEF access, counters, statuses, columns, thumbCols, tables, store, heard, jobs

-----------------------------------------------------------------------------
(* What the helpers that move a process to its next step preserve.         *)

LEMMA RequestTypes ==
  ASSUME ReqTypeOK, NEW q \in Req, NEW step \in Steps, NEW m \in Media,
         NEW th \in BOOLEAN, NEW until \in Nat,
         req' = [req EXCEPT ![q] = Request(step, m, th, until)]
  PROVE  ReqTypeOK'
<1> DEFINE R == [pc : Steps, media : Media \cup {NoMedia}, thumb : BOOLEAN, until : Nat]
<1>1. Request(step, m, th, until) \in R
  BY DEF Request
<1>2. req' \in [Req -> R]
  BY <1>1 DEF ReqTypeOK
<1>3. \A p \in Req : req'[p].pc # "idle" => req'[p].media \in Media
  BY DEF ReqTypeOK, Request
<1> QED BY <1>2, <1>3 DEF ReqTypeOK

LEMMA GotoTypes ==
  ASSUME ReqTypeOK, NEW q \in Req, NEW step \in Steps, NEW m \in Media,
         Goto(q, step, m)
  PROVE  ReqTypeOK'
BY RequestTypes DEF Goto, At

LEMMA FinishTypes ==
  ASSUME ReqTypeOK, NEW q \in Req, Finish(q)
  PROVE  ReqTypeOK'
<1> DEFINE R == [pc : Steps, media : Media \cup {NoMedia}, thumb : BOOLEAN, until : Nat]
<1>1. Idle \in R
  BY DEF Idle, Request, Steps
<1>2. req' \in [Req -> R]
  BY <1>1 DEF ReqTypeOK, Finish
<1>3. \A p \in Req : req'[p].pc # "idle" => req'[p].media \in Media
  BY DEF ReqTypeOK, Finish, Idle, Request
<1> QED BY <1>2, <1>3 DEF ReqTypeOK

LEMMA TurnTypes ==
  ASSUME WorkerTypeOK, NEW w \in Worker, NEW step \in Busy,
         NEW on \in Media \cup Room \cup {None}, Turn(w, step, on),
         step = "purge" => on \in Media, step \in {"prefix", "drop"} => on \in Room
  PROVE  WorkerTypeOK'
<1> DEFINE R == [pc : Busy, on : Media \cup Room \cup {None}]
<1>1. [pc |-> step, on |-> on] \in R
  OBVIOUS
<1>2. worker' \in [Worker -> R]
  BY <1>1 DEF WorkerTypeOK, Turn
<1>3. ASSUME NEW v \in Worker
      PROVE  /\ worker'[v].pc = "purge" => worker'[v].on \in Media
             /\ worker'[v].pc \in {"prefix", "drop"} => worker'[v].on \in Room
  BY DEF WorkerTypeOK, Turn
<1> QED BY <1>2, <1>3 DEF WorkerTypeOK

LEMMA WorkTypes ==
  ASSUME ThumbnailTypeOK, NEW t \in Thumbnailer, NEW stage \in Stages, NEW m \in Media,
         Work(t, stage, m) \/ Rest(t), mislaid' \subseteq Media
  PROVE  ThumbnailTypeOK'
<1> DEFINE R == [pc : Stages, media : Media \cup {"none"}]
<1>1. [pc |-> stage, media |-> m] \in R /\ Waiting \in R
  BY DEF Waiting, Stages
<1>2. thumbnailer' \in [Thumbnailer -> R]
  BY <1>1 DEF ThumbnailTypeOK, Work, Rest
<1>3. \A u \in Thumbnailer : thumbnailer'[u].pc # "idle" => thumbnailer'[u].media \in Media
  BY DEF ThumbnailTypeOK, Work, Rest, Waiting
<1> QED BY <1>2, <1>3 DEF ThumbnailTypeOK

-----------------------------------------------------------------------------
(* The API                                                                 *)

Typed == TablesTypeOK /\ StorageTypeOK /\ MediaTypeOK

\* A request keeps working on the media it holds.
LEMMA HeldMedia ==
  ASSUME ReqTypeOK, NEW q \in Req, req[q].pc # "idle"
  PROVE  req[q].media \in Media /\ req[q].until \in Nat /\ req[q].thumb \in BOOLEAN
BY DEF ReqTypeOK

LEMMA TypedSizes == Sizes \subseteq Nat /\ \A r \in Room : RoomExpiry[r] \in Nat
BY Limits DEF Sizes

LEMMA StartTypes ==
  ASSUME Typed, NEW q \in Req, NEW m \in Media, Start(q, m)
  PROVE  Typed'
<1>1. ASSUME NEW r \in Room, NEW s \in Sizes, NEW k \in Key, Initiate(q, m, r, s, k)
      PROVE  Typed'
  <2>0. s \in Nat /\ SessionExpiry(r) \in Nat
    BY TypedSizes, Lifetime DEF SessionExpiry, Typed, TablesTypeOK
  <2>1. TablesTypeOK'
    BY <1>1, <2>0 DEF Typed, TablesTypeOK, Initiate, MediaStatus, SessionStatus
  <2>2. StorageTypeOK'
    BY <1>1 DEF Typed, TablesTypeOK, StorageTypeOK, Initiate
  <2>3. MediaTypeOK'
    <3>1. ReqTypeOK'
      BY <1>1, GotoTypes DEF Typed, MediaTypeOK, Steps, Initiate, ReqTypeOK
    <3> QED BY <1>1, <3>1 DEF Typed, MediaTypeOK, Initiate
  <2> QED BY <2>1, <2>2, <2>3 DEF Typed
<1>2. ASSUME InitiateAgain(q, m)
      PROVE  Typed'
  <2>1. TablesTypeOK'
    BY <1>2 DEF Typed, TablesTypeOK, InitiateAgain
  <2>2. StorageTypeOK'
    BY <1>2 DEF Typed, TablesTypeOK, StorageTypeOK, InitiateAgain
  <2>3. MediaTypeOK'
    <3>1. ReqTypeOK'
      BY <1>2, GotoTypes DEF Typed, MediaTypeOK, Steps, InitiateAgain
    <3> QED BY <1>2, <3>1 DEF Typed, MediaTypeOK, InitiateAgain
  <2> QED BY <2>1, <2>2, <2>3 DEF Typed
<1>3. ASSUME PartURLs(q, m)
      PROVE  Typed'
  <2>1. TablesTypeOK'
    BY <1>3 DEF Typed, TablesTypeOK, PartURLs
  <2>2. StorageTypeOK'
    BY <1>3 DEF Typed, TablesTypeOK, StorageTypeOK, PartURLs
  <2>3. MediaTypeOK'
    <3>1. PresignUntil(m) \in Nat
      BY StoreLimits DEF Typed, TablesTypeOK, PresignUntil
    <3>2. ReqTypeOK'
      BY <1>3, <3>1, RequestTypes DEF Typed, MediaTypeOK, Steps, PartURLs
    <3> QED BY <1>3, <3>2 DEF Typed, MediaTypeOK, PartURLs
  <2> QED BY <2>1, <2>2, <2>3 DEF Typed
<1>4. ASSUME CompleteAlready(q, m)
      PROVE  Typed'
  <2>1. TablesTypeOK'
    BY <1>4 DEF Typed, TablesTypeOK, CompleteAlready
  <2>2. StorageTypeOK'
    BY <1>4 DEF Typed, TablesTypeOK, StorageTypeOK, CompleteAlready
  <2>3. MediaTypeOK'
    <3>1. ReqTypeOK'
      BY <1>4, FinishTypes DEF Typed, MediaTypeOK, CompleteAlready, Answer
    <3> QED BY <1>4, <3>1 DEF Typed, MediaTypeOK, CompleteAlready, Answer
  <2> QED BY <2>1, <2>2, <2>3 DEF Typed
<1>5. ASSUME CompleteRead(q, m)
      PROVE  Typed'
  <2>1. TablesTypeOK'
    BY <1>5 DEF Typed, TablesTypeOK, CompleteRead
  <2>2. StorageTypeOK'
    BY <1>5 DEF Typed, TablesTypeOK, StorageTypeOK, CompleteRead
  <2>3. MediaTypeOK'
    <3>1. ReqTypeOK'
      BY <1>5, GotoTypes DEF Typed, MediaTypeOK, Steps, CompleteRead
    <3> QED BY <1>5, <3>1 DEF Typed, MediaTypeOK, CompleteRead
  <2> QED BY <2>1, <2>2, <2>3 DEF Typed
<1>6. ASSUME AbortAlready(q, m)
      PROVE  Typed'
  <2>1. TablesTypeOK'
    BY <1>6 DEF Typed, TablesTypeOK, AbortAlready
  <2>2. StorageTypeOK'
    BY <1>6 DEF Typed, TablesTypeOK, StorageTypeOK, AbortAlready
  <2>3. MediaTypeOK'
    <3>1. ReqTypeOK'
      BY <1>6, FinishTypes DEF Typed, MediaTypeOK, AbortAlready, Answer
    <3> QED BY <1>6, <3>1 DEF Typed, MediaTypeOK, AbortAlready, Answer
  <2> QED BY <2>1, <2>2, <2>3 DEF Typed
<1>7. ASSUME AbortRead(q, m)
      PROVE  Typed'
  <2>1. TablesTypeOK'
    BY <1>7 DEF Typed, TablesTypeOK, AbortRead
  <2>2. StorageTypeOK'
    BY <1>7 DEF Typed, TablesTypeOK, StorageTypeOK, AbortRead
  <2>3. MediaTypeOK'
    <3>1. ReqTypeOK'
      BY <1>7, GotoTypes DEF Typed, MediaTypeOK, Steps, AbortRead
    <3> QED BY <1>7, <3>1 DEF Typed, MediaTypeOK, AbortRead
  <2> QED BY <2>1, <2>2, <2>3 DEF Typed
<1>8. ASSUME DeleteRead(q, m)
      PROVE  Typed'
  <2>1. TablesTypeOK'
    BY <1>8 DEF Typed, TablesTypeOK, DeleteRead
  <2>2. StorageTypeOK'
    BY <1>8 DEF Typed, TablesTypeOK, StorageTypeOK, DeleteRead
  <2>3. MediaTypeOK'
    <3>1. ReqTypeOK'
      BY <1>8, RequestTypes DEF Typed, TablesTypeOK, MediaTypeOK, Steps, DeleteRead
    <3> QED BY <1>8, <3>1 DEF Typed, MediaTypeOK, DeleteRead
  <2> QED BY <2>1, <2>2, <2>3 DEF Typed
<1> QED BY <1>1, <1>2, <1>3, <1>4, <1>5, <1>6, <1>7, <1>8 DEF Start

LEMMA ContinueTypes ==
  ASSUME Typed, NEW q \in Req, Continue(q)
  PROVE  Typed'
<1> DEFINE m == req[q].media
<1>0. req[q].pc # "idle" => m \in Media /\ req[q].until \in Nat /\ size[m] \in Nat
  BY HeldMedia DEF Typed, TablesTypeOK, MediaTypeOK
<1>1. ASSUME AttachSingleURL(q)
      PROVE  Typed'
  <2>0. PresignUntil(m) \in Nat
    BY <1>1, <1>0, StoreLimits DEF Typed, TablesTypeOK, PresignUntil, AttachSingleURL
  <2>1. TablesTypeOK'
    BY <1>1, <1>0 DEF Typed, TablesTypeOK, AttachSingleURL
  <2>2. StorageTypeOK'
    BY <1>1, <1>0, <2>0 DEF Typed, TablesTypeOK, StorageTypeOK, AttachSingleURL
  <2>3. MediaTypeOK'
    <3>1. ReqTypeOK'
      BY <1>1, FinishTypes DEF Typed, MediaTypeOK, AttachSingleURL
    <3> QED BY <1>1, <1>0, <3>1 DEF Typed, MediaTypeOK, AttachSingleURL
  <2> QED BY <2>1, <2>2, <2>3 DEF Typed
<1>2. ASSUME MarkUploading(q)
      PROVE  Typed'
  <2>1. TablesTypeOK'
    BY <1>2, <1>0 DEF Typed, TablesTypeOK, MarkUploading, SessionStatus
  <2>2. StorageTypeOK'
    BY <1>2, <1>0 DEF Typed, TablesTypeOK, StorageTypeOK, MarkUploading
  <2>3. MediaTypeOK'
    <3>1. ReqTypeOK'
      BY <1>2, FinishTypes DEF Typed, MediaTypeOK, MarkUploading
    <3> QED BY <1>2, <1>0, <3>1 DEF Typed, MediaTypeOK, MarkUploading
  <2> QED BY <2>1, <2>2, <2>3 DEF Typed
<1>3. ASSUME CompleteAssemble(q)
      PROVE  Typed'
  <2>1. TablesTypeOK'
    BY <1>3, <1>0 DEF Typed, TablesTypeOK, CompleteAssemble
  <2>2. StorageTypeOK'
    BY <1>3, <1>0 DEF Typed, TablesTypeOK, StorageTypeOK, CompleteAssemble, Assemble
  <2>3. MediaTypeOK'
    <3>1. ReqTypeOK'
      BY <1>3, <1>0, GotoTypes DEF Typed, MediaTypeOK, Steps, CompleteAssemble
    <3> QED BY <1>3, <1>0, <3>1 DEF Typed, MediaTypeOK, CompleteAssemble
  <2> QED BY <2>1, <2>2, <2>3 DEF Typed
<1>4. ASSUME CompleteAssembled(q)
      PROVE  Typed'
  <2>1. TablesTypeOK'
    BY <1>4, <1>0 DEF Typed, TablesTypeOK, CompleteAssembled
  <2>2. StorageTypeOK'
    BY <1>4, <1>0 DEF Typed, TablesTypeOK, StorageTypeOK, CompleteAssembled
  <2>3. MediaTypeOK'
    <3>1. ReqTypeOK'
      BY <1>4, <1>0, GotoTypes DEF Typed, MediaTypeOK, Steps, CompleteAssembled
    <3> QED BY <1>4, <1>0, <3>1 DEF Typed, MediaTypeOK, CompleteAssembled
  <2> QED BY <2>1, <2>2, <2>3 DEF Typed
<1>5. ASSUME CompleteStat(q)
      PROVE  Typed'
  <2>1. TablesTypeOK'
    BY <1>5, <1>0 DEF Typed, TablesTypeOK, CompleteStat
  <2>2. StorageTypeOK'
    BY <1>5, <1>0 DEF Typed, TablesTypeOK, StorageTypeOK, CompleteStat
  <2>3. MediaTypeOK'
    <3>1. ReqTypeOK'
      BY <1>5, <1>0, GotoTypes DEF Typed, MediaTypeOK, Steps, CompleteStat
    <3> QED BY <1>5, <1>0, <3>1 DEF Typed, MediaTypeOK, CompleteStat
  <2> QED BY <2>1, <2>2, <2>3 DEF Typed
<1>6. ASSUME CompleteMismatch(q)
      PROVE  Typed'
  <2>1. TablesTypeOK'
    BY <1>6, <1>0 DEF Typed, TablesTypeOK, CompleteMismatch
  <2>2. StorageTypeOK'
    BY <1>6, <1>0 DEF Typed, TablesTypeOK, StorageTypeOK, CompleteMismatch, RemoveObject
  <2>3. MediaTypeOK'
    <3>1. ReqTypeOK'
      BY <1>6, <1>0, GotoTypes DEF Typed, MediaTypeOK, Steps, CompleteMismatch
    <3> QED BY <1>6, <1>0, <3>1 DEF Typed, MediaTypeOK, CompleteMismatch
  <2> QED BY <2>1, <2>2, <2>3 DEF Typed
<1>7. ASSUME CompleteReject(q)
      PROVE  Typed'
  <2>1. TablesTypeOK'
    BY <1>7, <1>0 DEF Typed, TablesTypeOK, CompleteReject, SettleAs, ReleaseReservation, MediaStatus, SessionStatus
  <2>2. StorageTypeOK'
    BY <1>7, <1>0 DEF Typed, TablesTypeOK, StorageTypeOK, CompleteReject
  <2>3. MediaTypeOK'
    <3>1. ReqTypeOK'
      BY <1>7, FinishTypes DEF Typed, MediaTypeOK, CompleteReject
    <3> QED BY <1>7, <1>0, <3>1 DEF Typed, MediaTypeOK, CompleteReject
  <2> QED BY <2>1, <2>2, <2>3 DEF Typed
<1>8. ASSUME CompleteCommit(q)
      PROVE  Typed'
  <2>1. TablesTypeOK'
    BY <1>8, <1>0 DEF Typed, TablesTypeOK, CompleteCommit, MediaStatus, SessionStatus
  <2>2. StorageTypeOK'
    BY <1>8, <1>0 DEF Typed, TablesTypeOK, StorageTypeOK, CompleteCommit
  <2>3. MediaTypeOK'
    <3>1. ReqTypeOK'
      BY <1>8, FinishTypes DEF Typed, MediaTypeOK, CompleteCommit, Answer
    <3> QED BY <1>8, <1>0, <3>1 DEF Typed, MediaTypeOK, CompleteCommit, Answer
  <2> QED BY <2>1, <2>2, <2>3 DEF Typed
<1>9. ASSUME AbortStore(q)
      PROVE  Typed'
  <2>1. TablesTypeOK'
    BY <1>9, <1>0 DEF Typed, TablesTypeOK, AbortStore
  <2>2. StorageTypeOK'
    BY <1>9, <1>0 DEF Typed, TablesTypeOK, StorageTypeOK, AbortStore, Discard, RemoveObject
  <2>3. MediaTypeOK'
    <3>1. ReqTypeOK'
      BY <1>9, <1>0, GotoTypes DEF Typed, MediaTypeOK, Steps, AbortStore
    <3> QED BY <1>9, <1>0, <3>1 DEF Typed, MediaTypeOK, AbortStore
  <2> QED BY <2>1, <2>2, <2>3 DEF Typed
<1>10. ASSUME AbortSettle(q)
      PROVE  Typed'
  <2>1. TablesTypeOK'
    BY <1>10, <1>0 DEF Typed, TablesTypeOK, AbortSettle, SettleAs, ReleaseReservation, MediaStatus, SessionStatus
  <2>2. StorageTypeOK'
    BY <1>10, <1>0 DEF Typed, TablesTypeOK, StorageTypeOK, AbortSettle
  <2>3. MediaTypeOK'
    <3>1. ReqTypeOK'
      BY <1>10, FinishTypes DEF Typed, MediaTypeOK, AbortSettle, Answer
    <3> QED BY <1>10, <1>0, <3>1 DEF Typed, MediaTypeOK, AbortSettle, Answer
  <2> QED BY <2>1, <2>2, <2>3 DEF Typed
<1>11. ASSUME DeleteObject(q)
      PROVE  Typed'
  <2>1. TablesTypeOK'
    BY <1>11, <1>0 DEF Typed, TablesTypeOK, DeleteObject
  <2>2. StorageTypeOK'
    BY <1>11, <1>0 DEF Typed, TablesTypeOK, StorageTypeOK, DeleteObject, RemoveObject
  <2>3. MediaTypeOK'
    <3>1. ReqTypeOK'
      BY <1>11, <1>0, GotoTypes DEF Typed, MediaTypeOK, Steps, DeleteObject
    <3> QED BY <1>11, <1>0, <3>1 DEF Typed, MediaTypeOK, DeleteObject
  <2> QED BY <2>1, <2>2, <2>3 DEF Typed
<1>12. ASSUME DeleteThumb(q)
      PROVE  Typed'
  <2>1. TablesTypeOK'
    BY <1>12, <1>0 DEF Typed, TablesTypeOK, DeleteThumb
  <2>2. StorageTypeOK'
    BY <1>12, <1>0 DEF Typed, TablesTypeOK, StorageTypeOK, DeleteThumb
  <2>3. MediaTypeOK'
    <3>1. ReqTypeOK'
      BY <1>12, <1>0, GotoTypes DEF Typed, MediaTypeOK, Steps, DeleteThumb
    <3> QED BY <1>12, <1>0, <3>1 DEF Typed, MediaTypeOK, DeleteThumb
  <2> QED BY <2>1, <2>2, <2>3 DEF Typed
<1>13. ASSUME DeleteCommit(q)
      PROVE  Typed'
  <2>1. TablesTypeOK'
    BY <1>13, <1>0 DEF Typed, TablesTypeOK, DeleteCommit, MediaStatus
  <2>2. StorageTypeOK'
    BY <1>13, <1>0 DEF Typed, TablesTypeOK, StorageTypeOK, DeleteCommit
  <2>3. MediaTypeOK'
    <3>1. ReqTypeOK'
      BY <1>13, FinishTypes DEF Typed, MediaTypeOK, DeleteCommit
    <3> QED BY <1>13, <1>0, <3>1 DEF Typed, MediaTypeOK, DeleteCommit
  <2> QED BY <2>1, <2>2, <2>3 DEF Typed
<1>14. ASSUME GiveUp(q)
      PROVE  Typed'
  <2>1. TablesTypeOK'
    BY <1>14, <1>0 DEF Typed, TablesTypeOK, GiveUp
  <2>2. StorageTypeOK'
    BY <1>14, <1>0 DEF Typed, TablesTypeOK, StorageTypeOK, GiveUp
  <2>3. MediaTypeOK'
    <3>1. ReqTypeOK'
      BY <1>14, FinishTypes DEF Typed, MediaTypeOK, GiveUp
    <3> QED BY <1>14, <1>0, <3>1 DEF Typed, MediaTypeOK, GiveUp
  <2> QED BY <2>1, <2>2, <2>3 DEF Typed
<1> QED BY <1>1, <1>2, <1>3, <1>4, <1>5, <1>6, <1>7, <1>8, <1>9, <1>10, <1>11, <1>12, <1>13, <1>14 DEF Continue

LEMMA ApiTypes ==
  ASSUME Typed, MediaNext
  PROVE  Typed'
<1>1. ASSUME NEW m \in Media, NEW r \in Room, NEW s \in Sizes, NEW k \in Key,
             InitiateLost(m, r, s, k)
      PROVE  Typed'
  BY <1>1 DEF Typed, TablesTypeOK, StorageTypeOK, MediaTypeOK, ReqTypeOK, InitiateLost
<1> QED BY <1>1, StartTypes, ContinueTypes DEF MediaNext

-----------------------------------------------------------------------------
(* The other components                                                    *)

LEMMA ClientTypes ==
  ASSUME TablesTypeOK, StorageTypeOK, StorageNext
  PROVE  TablesTypeOK' /\ StorageTypeOK'
<1> PICK m \in Media, s \in Sizes : PutStart(m, s) \/ PutLand(m, s) \/ PutLost(m, s)
  BY DEF StorageNext
<1>1. CASE PutStart(m, s)
  BY <1>1 DEF PutStart, TablesTypeOK, StorageTypeOK
<1>2. CASE PutLand(m, s)
  <2>1. s \in Nat
    BY TypedSizes
  <2> QED BY <1>2, <2>1 DEF PutLand, TablesTypeOK, StorageTypeOK
<1>3. CASE PutLost(m, s)
  BY <1>3 DEF PutLost, TablesTypeOK, StorageTypeOK
<1> QED BY <1>1, <1>2, <1>3

LEMMA OwnerTypes ==
  ASSUME TablesTypeOK, OwnerTypeOK, OwnerNext
  PROVE  TablesTypeOK' /\ OwnerTypeOK'
<1>1. ASSUME NEW r \in Room, DeleteRoom(r)
      PROVE  TablesTypeOK' /\ OwnerTypeOK'
  BY <1>1 DEF DeleteRoom, RoomStatus, TablesTypeOK, OwnerTypeOK
<1>2. ASSUME NEW r \in Room, NEW open \in BOOLEAN, UpdateRoom(r, open)
      PROVE  TablesTypeOK' /\ OwnerTypeOK'
  BY <1>2 DEF UpdateRoom, TablesTypeOK, OwnerTypeOK
<1> QED BY <1>1, <1>2 DEF OwnerNext

\* home[m] need not be a room as far as types go.
LEMMA ReleaseTypes ==
  ASSUME TablesTypeOK, NEW m \in Media, NEW us, NEW ms, ReleaseReservation(m, us, ms)
  PROVE  reservedFiles' \in [Room -> Int] /\ reservedBytes' \in [Room -> Int]
<1>1. size[m] \in Int
  BY DEF TablesTypeOK
<1>2. reservedFiles' = [r \in Room |-> IF r = home[m] THEN reservedFiles[r] - 1 ELSE reservedFiles[r]]
  BY DEF ReleaseReservation, TablesTypeOK
<1>3. reservedBytes' = [r \in Room |-> IF r = home[m] THEN reservedBytes[r] - size[m]
                                                     ELSE reservedBytes[r]]
  BY DEF ReleaseReservation, TablesTypeOK
<1> HIDE DEF ReleaseReservation
<1> QED BY <1>1, <1>2, <1>3 DEF TablesTypeOK

LEMMA CleanupTypes ==
  ASSUME TablesTypeOK, StorageTypeOK, WorkerTypeOK, WorkerNext
  PROVE  TablesTypeOK' /\ StorageTypeOK' /\ WorkerTypeOK'
<1> DEFINE Goal == TablesTypeOK' /\ StorageTypeOK' /\ WorkerTypeOK'
<1> PICK w \in Worker :
      \/ BeginBatch(w) \/ PurgeUpload(w) \/ UploadsDone(w) \/ RoomsDone(w)
      \/ RemovePrefix(w) \/ RemovePrefixFails(w) \/ DropRoom(w) \/ BreakOff(w)
      \/ \E m \in Media : ClaimUpload(w, m)
      \/ \E r \in Room : ClaimRoom(w, r)
  BY DEF WorkerNext
<1>1. CASE BeginBatch(w)
  <2>1. WorkerTypeOK'
    BY <1>1, TurnTypes DEF BeginBatch, Busy
  <2> QED BY <1>1, <2>1 DEF BeginBatch, TablesTypeOK, StorageTypeOK
<1>2. CASE UploadsDone(w)
  <2>1. WorkerTypeOK'
    BY <1>2, TurnTypes DEF UploadsDone, Busy
  <2> QED BY <1>2, <2>1 DEF UploadsDone, TablesTypeOK, StorageTypeOK
<1>3. CASE RoomsDone(w)
  <2>1. WorkerTypeOK'
    BY <1>3, TurnTypes DEF RoomsDone, Busy
  <2> QED BY <1>3, <2>1 DEF RoomsDone, TablesTypeOK, StorageTypeOK
<1>4. CASE BreakOff(w)
  <2>1. WorkerTypeOK'
    BY <1>4, TurnTypes DEF BreakOff, Busy
  <2> QED BY <1>4, <2>1 DEF BreakOff, TablesTypeOK, StorageTypeOK
<1>5. CASE PurgeUpload(w)
  <2>1. WorkerTypeOK'
    BY <1>5, TurnTypes DEF PurgeUpload, Busy
  <2>2. worker[w].on \in Media
    BY <1>5 DEF PurgeUpload, WorkerTypeOK
  <2> QED BY <1>5, <2>1, <2>2 DEF PurgeUpload, Discard, RemoveObject, TablesTypeOK, StorageTypeOK
<1>6. CASE RemovePrefix(w)
  <2>1. worker[w].on \in Room
    BY <1>6 DEF RemovePrefix, WorkerTypeOK
  <2>2. WorkerTypeOK'
    BY <1>6, <2>1, TurnTypes DEF RemovePrefix, Busy
  <2> QED BY <1>6, <2>2 DEF RemovePrefix, TablesTypeOK, StorageTypeOK
<1>7. CASE RemovePrefixFails(w)
  <2>1. WorkerTypeOK'
    BY <1>7, TurnTypes DEF RemovePrefixFails, Busy
  <2> QED BY <1>7, <2>1 DEF RemovePrefixFails, TablesTypeOK, StorageTypeOK
<1>8. CASE DropRoom(w)
  <2>1. WorkerTypeOK'
    BY <1>8, TurnTypes DEF DropRoom, Busy
  <2>2. TablesTypeOK'
    BY <1>8 DEF DropRoom, TablesTypeOK, RoomStatus, MediaStatus, SessionStatus
  <2> QED BY <1>8, <2>1, <2>2 DEF DropRoom, TablesTypeOK, StorageTypeOK
<1>9. ASSUME NEW m \in Media, ClaimUpload(w, m)
      PROVE  Goal
  <2>1. WorkerTypeOK'
    BY <1>9, TurnTypes DEF ClaimUpload, Busy
  <2>2. ReleaseReservation(m, "expired", "failed")
        /\ UNCHANGED <<access, columns, thumbCols, now>>
    BY <1>9 DEF ClaimUpload
  <2>3. TablesTypeOK'
    BY <2>2, ReleaseTypes DEF ReleaseReservation, TablesTypeOK, MediaStatus, SessionStatus
  <2>4. StorageTypeOK'
    BY <1>9 DEF ClaimUpload, StorageTypeOK
  <2> QED BY <2>1, <2>3, <2>4
<1>10. ASSUME NEW r \in Room, ClaimRoom(w, r)
      PROVE  Goal
  <2>1. WorkerTypeOK'
    BY <1>10, TurnTypes DEF ClaimRoom, Busy
  <2> QED BY <1>10, <2>1 DEF ClaimRoom, TablesTypeOK, StorageTypeOK, RoomStatus
<1> QED BY <1>1, <1>2, <1>3, <1>4, <1>5, <1>6, <1>7, <1>8, <1>9, <1>10

LEMMA KeyTypes ==
  ASSUME TablesTypeOK, NEW m \in Media,
         SetKey(m) \/ UNCHANGED <<hasThumb, thumbStatus, thumbAt>>
  PROVE  /\ hasThumb' \in [Media -> BOOLEAN]
         /\ thumbStatus' \in [Media -> ThumbStatus] /\ thumbAt' \in [Media -> Nat]
<1>1. CASE SetKey(m)
  BY <1>1 DEF SetKey, TablesTypeOK, ThumbStatus
<1>2. CASE UNCHANGED <<hasThumb, thumbStatus, thumbAt>>
  BY <1>2 DEF TablesTypeOK
<1> QED BY <1>1, <1>2

LEMMA ThumbTypes ==
  ASSUME TablesTypeOK, StorageTypeOK, ThumbnailTypeOK, ThumbnailNext
  PROVE  TablesTypeOK' /\ StorageTypeOK' /\ ThumbnailTypeOK'
<1> DEFINE Goal == TablesTypeOK' /\ StorageTypeOK' /\ ThumbnailTypeOK'
<1> PICK t \in Thumbnailer :
      \/ RenderThumb(t) \/ PutThumb(t) \/ MakeFails(t) \/ LinkThumb(t) \/ LinkFails(t)
      \/ UndoThumb(t) \/ MarkFailed(t) \/ DropJob(t)
      \/ \E m \in Media : ClaimThumb(t, m)
  BY DEF ThumbnailNext
<1> DEFINE m == thumbnailer[t].media
<1>0. thumbnailer[t].pc # "idle" => m \in Media
  BY DEF ThumbnailTypeOK
<1>1. CASE RenderThumb(t)
  <2>1. ThumbnailTypeOK'
    BY <1>1, <1>0, WorkTypes DEF RenderThumb, Stages, ThumbnailTypeOK
  <2> QED BY <1>1, <1>0, <2>1 DEF RenderThumb, TablesTypeOK, StorageTypeOK, ThumbStatus
<1>2. CASE PutThumb(t)
  <2>1. ThumbnailTypeOK'
    BY <1>2, <1>0, WorkTypes DEF PutThumb, Stages, ThumbnailTypeOK
  <2> QED BY <1>2, <1>0, <2>1 DEF PutThumb, TablesTypeOK, StorageTypeOK, ThumbStatus
<1>3. CASE MakeFails(t)
  <2>1. ThumbnailTypeOK'
    BY <1>3, <1>0, WorkTypes DEF MakeFails, Stages, ThumbnailTypeOK
  <2> QED BY <1>3, <1>0, <2>1 DEF MakeFails, TablesTypeOK, StorageTypeOK, ThumbStatus
<1>4. CASE LinkThumb(t)
  <2>1. ThumbnailTypeOK'
    BY <1>4, <1>0, WorkTypes DEF LinkThumb, Stages, ThumbnailTypeOK
  <2>0. /\ hasThumb' \in [Media -> BOOLEAN]
        /\ thumbStatus' \in [Media -> ThumbStatus] /\ thumbAt' \in [Media -> Nat]
    BY <1>4, <1>0, KeyTypes DEF LinkThumb
  <2>2. TablesTypeOK'
    BY <1>4, <2>0 DEF LinkThumb, TablesTypeOK
  <2>3. StorageTypeOK'
    BY <1>4 DEF LinkThumb, StorageTypeOK
  <2> QED BY <2>1, <2>2, <2>3
<1>5. CASE LinkFails(t)
  <2>1. ThumbnailTypeOK'
    BY <1>5, <1>0, WorkTypes DEF LinkFails, Stages, ThumbnailTypeOK
  <2>0. /\ hasThumb' \in [Media -> BOOLEAN]
        /\ thumbStatus' \in [Media -> ThumbStatus] /\ thumbAt' \in [Media -> Nat]
    BY <1>5, <1>0, KeyTypes DEF LinkFails
  <2>2. TablesTypeOK'
    BY <1>5, <2>0 DEF LinkFails, TablesTypeOK
  <2>3. StorageTypeOK'
    BY <1>5 DEF LinkFails, StorageTypeOK
  <2> QED BY <2>1, <2>2, <2>3
<1>6. CASE UndoThumb(t)
  <2>1. ThumbnailTypeOK'
    BY <1>6, <1>0, WorkTypes DEF UndoThumb, Stages, ThumbnailTypeOK
  <2> QED BY <1>6, <1>0, <2>1 DEF UndoThumb, TablesTypeOK, StorageTypeOK, ThumbStatus
<1>7. CASE MarkFailed(t)
  <2>1. ThumbnailTypeOK'
    BY <1>7, <1>0, WorkTypes DEF MarkFailed, Stages, ThumbnailTypeOK
  <2> QED BY <1>7, <1>0, <2>1 DEF MarkFailed, TablesTypeOK, StorageTypeOK, ThumbStatus
<1>8. CASE DropJob(t)
  <2>1. ThumbnailTypeOK'
    BY <1>8, <1>0, WorkTypes DEF DropJob, Stages, ThumbnailTypeOK
  <2> QED BY <1>8, <2>1 DEF DropJob, TablesTypeOK, StorageTypeOK
<1>9. ASSUME NEW n \in Media, ClaimThumb(t, n)
      PROVE  Goal
  <2>1. ThumbnailTypeOK'
    BY <1>9, WorkTypes DEF ClaimThumb, Stages, ThumbnailTypeOK
  <2> QED BY <1>9, <2>1 DEF ClaimThumb, TablesTypeOK, StorageTypeOK, ThumbStatus
<1> QED BY <1>1, <1>2, <1>3, <1>4, <1>5, <1>6, <1>7, <1>8, <1>9

-----------------------------------------------------------------------------
(* The system                                                              *)

LEMMA InitTypes == Init => TypeOK
<1> SUFFICES ASSUME Init PROVE TypeOK
  OBVIOUS
<1>1. TablesTypeOK
  BY DEF Init, TablesInit, TablesTypeOK, RoomStatus, MediaStatus, SessionStatus, ThumbStatus
<1>2. StorageTypeOK
  BY DEF Init, StorageInit, StorageTypeOK
<1>3. MediaTypeOK
  BY DEF Init, MediaInit, MediaTypeOK, ReqTypeOK, Idle, Request, Steps
<1>4. OwnerTypeOK
  BY DEF Init, OwnerInit, OwnerTypeOK
<1>5. WorkerTypeOK
  BY DEF Init, WorkerInit, WorkerTypeOK, Resting, Busy
<1>6. ThumbnailTypeOK
  BY DEF Init, ThumbnailInit, ThumbnailTypeOK, Waiting, Stages
<1> QED BY <1>1, <1>2, <1>3, <1>4, <1>5, <1>6 DEF TypeOK

LEMMA NextTypes == TypeOK /\ [Next]_vars => TypeOK'
<1> SUFFICES ASSUME TypeOK, [Next]_vars PROVE TypeOK'
  OBVIOUS
<1> USE DEF TypeOK
<1>1. CASE ApiStep
  <2>1. Typed'
    BY <1>1, ApiTypes DEF ApiStep, Typed
  <2> QED BY <1>1, <2>1 DEF ApiStep, Typed, OwnerTypeOK, WorkerTypeOK, ThumbnailTypeOK
<1>2. CASE ClientStep
  BY <1>2, ClientTypes
     DEF ClientStep, MediaTypeOK, ReqTypeOK, OwnerTypeOK, WorkerTypeOK, ThumbnailTypeOK
<1>3. CASE OwnerStep
  BY <1>3, OwnerTypes
     DEF OwnerStep, StorageTypeOK, MediaTypeOK, ReqTypeOK, WorkerTypeOK, ThumbnailTypeOK
<1>4. CASE CleanupStep
  BY <1>4, CleanupTypes
     DEF CleanupStep, MediaTypeOK, ReqTypeOK, OwnerTypeOK, ThumbnailTypeOK
<1>5. CASE ThumbStep
  BY <1>5, ThumbTypes
     DEF ThumbStep, MediaTypeOK, ReqTypeOK, OwnerTypeOK, WorkerTypeOK
<1>6. CASE Tick
  BY <1>6 DEF Tick, TablesTypeOK, StorageTypeOK, MediaTypeOK, ReqTypeOK, OwnerTypeOK,
              WorkerTypeOK, ThumbnailTypeOK
<1>7. CASE UNCHANGED vars
  BY <1>7 DEF vars, TablesTypeOK, StorageTypeOK, MediaTypeOK, ReqTypeOK, OwnerTypeOK,
              WorkerTypeOK, ThumbnailTypeOK
<1> QED BY <1>1, <1>2, <1>3, <1>4, <1>5, <1>6, <1>7 DEF Next

\* Every row, object, request, worker and ghost keeps its type, in every
\* behaviour of the API and the workers.
THEOREM TypeCorrect == Spec => []TypeOK
<1> QED BY InitTypes, NextTypes, PTL DEF Spec

-----------------------------------------------------------------------------
(* The thumbnail columns                                                   *)

LEMMA ColumnsInit == Init => ThumbColumnsAgree
BY DEF Init, TablesInit, ThumbColumnsAgree

\* Only the thumbnail worker writes these columns.
LEMMA ColumnsElsewhere ==
  ASSUME ApiStep \/ ClientStep \/ OwnerStep \/ CleanupStep \/ Tick
  PROVE  UNCHANGED <<hasThumb, thumbStatus, thumbAt>>
<1> DEFINE Kept == UNCHANGED <<hasThumb, thumbStatus, thumbAt>>
<1>1. CASE ApiStep
  <2>1. ASSUME NEW q \in Req, NEW m \in Media, Start(q, m)
        PROVE  Kept
    BY <2>1 DEF Start, Initiate, InitiateAgain, PartURLs, CompleteAlready, CompleteRead, AbortAlready,
                AbortRead, DeleteRead
  <2>2. ASSUME NEW q \in Req, Continue(q)
        PROVE  Kept
    BY <2>2 DEF Continue, AttachSingleURL, MarkUploading, CompleteAssemble, CompleteAssembled,
                CompleteStat, CompleteMismatch, CompleteReject, CompleteCommit, SettleAs, AbortStore,
                AbortSettle, DeleteObject, DeleteThumb, DeleteCommit, GiveUp
  <2>3. ASSUME NEW m \in Media, NEW r \in Room, NEW s \in Sizes, NEW k \in Key, InitiateLost(m, r, s, k)
        PROVE  Kept
    BY <2>3 DEF InitiateLost
  <2> QED BY <1>1, <2>1, <2>2, <2>3 DEF ApiStep, MediaNext
<1>2. CASE ClientStep
  BY <1>2 DEF ClientStep, StorageNext, PutStart, PutLand, PutLost
<1>3. CASE OwnerStep
  BY <1>3 DEF OwnerStep, OwnerNext, DeleteRoom, UpdateRoom
<1>4. CASE CleanupStep
  BY <1>4 DEF CleanupStep, WorkerNext, BeginBatch, ClaimUpload, ReleaseReservation, PurgeUpload, UploadsDone, ClaimRoom,
              RoomsDone, RemovePrefix, RemovePrefixFails, DropRoom, BreakOff
<1>5. CASE Tick
  BY <1>5 DEF Tick
<1> QED BY <1>1, <1>2, <1>3, <1>4, <1>5

\* A worker writes both columns or, when it marks a failure or claims a job,
\* the status of a row that has no key.
LEMMA ColumnsThumbStep ==
  ASSUME TypeOK, ThumbColumnsAgree, ThumbStep
  PROVE  ThumbColumnsAgree'
<1> USE DEF ThumbColumnsAgree, TypeOK, TablesTypeOK, ThumbnailTypeOK
<1> PICK t \in Thumbnailer :
      \/ RenderThumb(t) \/ PutThumb(t) \/ MakeFails(t) \/ LinkThumb(t) \/ LinkFails(t)
      \/ UndoThumb(t) \/ MarkFailed(t) \/ DropJob(t)
      \/ \E m \in Media : ClaimThumb(t, m)
  BY DEF ThumbStep, ThumbnailNext
<1>1. CASE RenderThumb(t) \/ PutThumb(t) \/ MakeFails(t) \/ UndoThumb(t) \/ DropJob(t)
  BY <1>1 DEF RenderThumb, PutThumb, MakeFails, UndoThumb, DropJob
<1>2. CASE LinkThumb(t) \/ LinkFails(t)
  BY <1>2 DEF LinkThumb, LinkFails, SetKey
<1>3. CASE MarkFailed(t)
  BY <1>3 DEF MarkFailed
<1>4. ASSUME NEW m \in Media, ClaimThumb(t, m)
      PROVE  ThumbColumnsAgree'
  BY <1>4 DEF ClaimThumb
<1> QED BY <1>1, <1>2, <1>3, <1>4

LEMMA ColumnsStep == TypeOK /\ ThumbColumnsAgree /\ [Next]_vars => ThumbColumnsAgree'
<1> SUFFICES ASSUME TypeOK, ThumbColumnsAgree, [Next]_vars PROVE ThumbColumnsAgree'
  OBVIOUS
<1>1. CASE ThumbStep
  BY <1>1, ColumnsThumbStep
<1>2. CASE ApiStep \/ ClientStep \/ OwnerStep \/ CleanupStep \/ Tick
  BY <1>2, ColumnsElsewhere DEF ThumbColumnsAgree
<1>3. CASE UNCHANGED vars
  BY <1>3 DEF vars, ThumbColumnsAgree
<1> QED BY <1>1, <1>2, <1>3 DEF Next

\* However many copies of the worker hold one job, and however long ago their
\* claims timed out, status and key of a row tell the same (process, markFailed).
THEOREM ThumbColumnsAlwaysAgree == Spec => []ThumbColumnsAgree
<1> QED BY TypeCorrect, ColumnsInit, ColumnsStep, PTL DEF Spec

=============================================================================
