------------------------------ MODULE Storage ------------------------------
(***************************************************************************)
(* The bucket (MinIO/R2) as internal/objectstore uses it, and the clients  *)
(* that send bytes straight to it through presigned URLs.                  *)
(*                                                                         *)
(* An object is its size, 0 when the key is absent; the key of a media's   *)
(* original and of its thumbnail carry the room and media ids, so both are *)
(* indexed by Media.  A PUT whose request began while its URL was valid    *)
(* may be stored at any later time.                                        *)
(***************************************************************************)
EXTENDS Tables

CONSTANTS
  Threshold,   \* multipartThreshold
  PresignTTL   \* Store.presignTTL

ASSUME StoreLimits == Threshold \in Nat /\ PresignTTL \in Nat \ {0}

VARIABLES
  object,     \* size of rooms/<room>/originals/<media>, 0: no such object
  thumb,      \* the media whose rooms/<room>/thumbnails/<media>.jpg exists
  multipart,  \* S3's state of the multipart upload
  parts,      \* bytes in the parts uploaded so far
  urlUntil,   \* when the last upload URL handed out stops being accepted
  inflight    \* <<media, bytes>>: PUT requests begun and not yet stored

store == <<object, thumb, multipart, parts, urlUntil, inflight>>

Multipart(m) == size[m] > Threshold

\* effectivePresignTTL: the URL never outlives the session it serves.
PresignUntil(m) == IF now + PresignTTL < expiresAt[m] THEN now + PresignTTL
                                                      ELSE expiresAt[m]

StorageTypeOK ==
  /\ object \in [Media -> Nat]
  /\ thumb \subseteq Media
  /\ multipart \in [Media -> {"none", "open", "closed"}]
  /\ parts \in [Media -> Nat]
  /\ urlUntil \in [Media -> Nat]
  /\ inflight \subseteq Media \X Sizes

StorageInit ==
  /\ object = [m \in Media |-> 0]
  /\ thumb = {}
  /\ multipart = [m \in Media |-> "none"]
  /\ parts = [m \in Media |-> 0]
  /\ urlUntil = [m \in Media |-> 0]
  /\ inflight = {}

-----------------------------------------------------------------------------
\* The client begins to send s bytes to the URL it was given.  Nothing in the
\* signature binds the length, so s need not be the declared size.
PutStart(m, s) ==
  /\ now < urlUntil[m]
  /\ inflight' = inflight \cup {<<m, s>>}
  /\ UNCHANGED <<tables, now, object, thumb, multipart, parts, urlUntil>>

\* The body is stored: as the object, or as the parts of an open multipart
\* upload (S3 refuses a part of an upload that was completed or aborted).
PutLand(m, s) ==
  /\ <<m, s>> \in inflight
  /\ inflight' = inflight \ {<<m, s>>}
  /\ IF Multipart(m)
     THEN /\ parts' = IF multipart[m] = "open" THEN [parts EXCEPT ![m] = s] ELSE parts
          /\ UNCHANGED object
     ELSE object' = [object EXCEPT ![m] = s] /\ UNCHANGED parts
  /\ UNCHANGED <<tables, now, thumb, multipart, urlUntil>>

\* The connection breaks before the body is stored.
PutLost(m, s) ==
  /\ <<m, s>> \in inflight
  /\ inflight' = inflight \ {<<m, s>>}
  /\ UNCHANGED <<tables, now, object, thumb, multipart, parts, urlUntil>>

\* Store.Remove of the original, as a state change on the bucket.
RemoveObject(m) == object' = [object EXCEPT ![m] = 0]

\* Store.CompleteMultipart: S3 joins the parts into the object.
Assemble(m) ==
  /\ multipart[m] = "open" /\ parts[m] > 0
  /\ multipart' = [multipart EXCEPT ![m] = "closed"]
  /\ object' = [object EXCEPT ![m] = parts[m]]

\* Store.AbortMultipart: S3 drops the parts.  An upload that is not open
\* answers NoSuchUpload.
Discard(m) ==
  /\ multipart[m] = "open"
  /\ multipart' = [multipart EXCEPT ![m] = "closed"]
  /\ parts' = [parts EXCEPT ![m] = 0]

StorageNext ==
  \E m \in Media, s \in Sizes : PutStart(m, s) \/ PutLand(m, s) \/ PutLost(m, s)
=============================================================================
