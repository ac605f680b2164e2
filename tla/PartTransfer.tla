---------------------------- MODULE PartTransfer ----------------------------
(***************************************************************************)
(* The transfer of a large file: uploadMultipart and put of upload.ts,     *)
(* PartURLs and the check of the parts in Complete, and the multipart      *)
(* upload of the bucket.  The client asks for the URLs of a batch of       *)
(* parts, sends them one after another, each again when it does not hear   *)
(* of it, and lists what it sent; the bucket joins the listed parts.       *)
(*                                                                         *)
(* A body is the bytes of the file it has, from first up to end; its ETag  *)
(* names it.                                                               *)
(***************************************************************************)
EXTENDS Naturals, Sequences

CONSTANTS
  PartSize,     \* multipartPartSize
  Threshold,    \* multipartThreshold
  MaxFile,      \* bound: the largest file
  URLBatch,     \* PART_URL_BATCH
  PartsBatch,   \* maxPartsBatch
  MaxAttempts,  \* MAX_ATTEMPTS
  URLTime,      \* Store.presignTTL
  SessionEnd,   \* when the upload session expires
  MaxMinute     \* bound: the clock stops here

ASSUME PartConstants ==
  /\ PartSize \in Nat \ {0} /\ Threshold \in Nat /\ MaxFile \in Nat
  /\ URLBatch \in Nat \ {0} /\ PartsBatch \in Nat /\ MaxAttempts \in Nat \ {0}
  /\ URLTime \in Nat /\ SessionEnd \in Nat /\ MaxMinute \in Nat
\* The client knows how many parts the server signs at once.
ASSUME BatchesFit == URLBatch <= PartsBatch

VARIABLES
  minute,     \* the clock
  fileSize,   \* file.size, 0 before one is picked
  phase,      \* how far uploadFile is
  offset,     \* the first part of the batch
  urls,       \* the parts of the batch that are not sent yet, with their URLs
  attempt,    \* put's attempt at the first of them
  completed,  \* the parts sent, with the ETags heard
  late,       \* attempts given up that the bucket may still store
  stored,     \* the bucket's parts: the body of each number
  s3,         \* the bucket's multipart upload
  object,     \* the bodies it was joined of, in order
  refused     \* history: the server has found a list of parts wrong

client       == <<fileSize, phase, offset, urls, attempt, completed>>
bucket       == <<late, stored, s3, object>>
transferVars == <<minute, client, bucket, refused>>

\* Mutant of PartCount: the remainder is forgotten.
PartCount_Floor(size) == size \div PartSize

\* parts_count
PartCount(size) == (size + PartSize - 1) \div PartSize

PartNumber == 1..PartCount(MaxFile)
Lesser(a, b) == IF a < b THEN a ELSE b

Body   == [first : 0..MaxFile, end : 0..MaxFile]
NoBody == [first |-> 0, end |-> 0]
Sent   == [number : PartNumber, body : Body]

\* Every part is sent or has a URL, and no part is tried too often.
PartsTypeOK ==
  /\ minute \in 0..MaxMinute /\ fileSize \in 0..MaxFile
  /\ phase \in {"none", "urls", "put", "complete", "abort", "ready", "over"}
  /\ offset \in Nat
  /\ urls \in Seq([number : PartNumber, until : Nat])
  /\ attempt \in 1..MaxAttempts
  /\ completed \in Seq(Sent) /\ late \subseteq Sent
  /\ stored \in [PartNumber -> Body]
  /\ s3 \in {"none", "open", "closed"} /\ object \in Seq(Body)
  /\ refused \in BOOLEAN
  /\ phase = "urls" => Len(completed) = offset - 1
  /\ phase = "put" => urls # <<>> /\ Head(urls).number = Len(completed) + 1

TransferInit ==
  /\ minute = 0 /\ fileSize = 0 /\ phase = "none"
  /\ offset = 1 /\ urls = <<>> /\ attempt = 1 /\ completed = <<>>
  /\ late = {} /\ stored = [n \in PartNumber |-> NoBody] /\ s3 = "none" /\ object = <<>>
  /\ refused = FALSE

-----------------------------------------------------------------------------
\* media.initiate, of a file above the threshold.
Begin(size) ==
  /\ phase = "none" /\ size > Threshold
  /\ fileSize' = size /\ phase' = "urls" /\ s3' = "open"
  /\ UNCHANGED <<minute, offset, urls, attempt, completed, late, stored, object, refused>>

LastOfBatch == Lesser(offset + URLBatch - 1, PartCount(fileSize))

\* PartURLs: at most maxPartsBatch numbers,
BatchAllowed == LastOfBatch - offset + 1 \in 1..PartsBatch

\* each that of a part.
InRange == LastOfBatch <= PartCount(fileSize)

\* No URL outlives the session.
Until == Lesser(minute + URLTime, SessionEnd)

\* PartURLs.  A session that was settled or is past its end, or any error, ends
\* the client's transfer (GiveUp); that the session is marked is no part of it.
AskURLs ==
  /\ phase = "urls" /\ minute < SessionEnd
  /\ IF BatchAllowed /\ InRange
     THEN /\ phase' = "put" /\ attempt' = 1
          /\ urls' = [i \in 1..(LastOfBatch - offset + 1) |-> [number |-> offset + i - 1, until |-> Until]]
          /\ UNCHANGED refused
     ELSE phase' = "abort" /\ refused' = TRUE /\ UNCHANGED <<urls, attempt>>
  /\ UNCHANGED <<minute, fileSize, offset, completed, bucket>>

\* file.slice, which cuts at the end of the file.
Chunk(n) ==
  LET start == (n - 1) * PartSize
  IN  [first |-> Lesser(start, fileSize), end |-> Lesser(start + PartSize, fileSize)]

ToSend == LET n == Head(urls).number IN [number |-> n, body |-> Chunk(n)]

\* S3 looks at the URL's expiry when the request begins.
Signed == minute < Head(urls).until

Put(part) == stored' = [stored EXCEPT ![part.number] = part.body]

\* The part is stored and its ETag heard; then the next, the next batch or the
\* end.
PutHeard ==
  /\ phase = "put" /\ Signed
  /\ Put(ToSend)
  /\ completed' = Append(completed, ToSend)
  /\ urls' = Tail(urls) /\ attempt' = 1
  /\ IF Tail(urls) # <<>> THEN UNCHANGED <<phase, offset>>
     ELSE /\ offset' = offset + URLBatch
          /\ phase' = IF offset + URLBatch <= PartCount(fileSize) THEN "urls" ELSE "complete"
  /\ UNCHANGED <<minute, fileSize, late, s3, object, refused>>

MayRepeat == attempt < MaxAttempts

NextAttempt == attempt + 1

\* No answer, or one that can be repeated: the bucket has the body, will have
\* it at any later time, or never.
PutUnheard ==
  /\ phase = "put" /\ MayRepeat
  /\ attempt' = NextAttempt
  /\ late' \in {late} \cup (IF Signed THEN {late \cup {ToSend}} ELSE {})
  /\ UNCHANGED <<minute, fileSize, phase, offset, urls, completed, stored, s3, object, refused>>

\* The last attempt, a cancelled upload, a session or a URL past its end, any
\* other error: uploadFile catches it.
GiveUp ==
  /\ phase \in {"urls", "put", "complete"}
  /\ phase' = "abort"
  /\ UNCHANGED <<minute, fileSize, offset, urls, attempt, completed, bucket, refused>>

\* The bucket stores an attempt that was given up, unless the upload has ended.
Land(part) ==
  /\ part \in late /\ late' = late \ {part}
  /\ IF s3 = "open" THEN Put(part) ELSE UNCHANGED stored
  /\ UNCHANGED <<minute, client, s3, object, refused>>

\* validateCompletedParts: every part once.
AllListed == /\ Len(completed) = PartCount(fileSize)
             /\ {completed[i].number : i \in DOMAIN completed} = 1..PartCount(fileSize)

\* The bucket has each part with the ETag that is listed.
Matches == \A i \in DOMAIN completed : stored[completed[i].number] = completed[i].body

\* Complete, whose answer may be lost.
CompleteParts ==
  /\ phase = "complete" /\ minute < SessionEnd
  /\ IF AllListed
     THEN /\ Matches
          /\ object' = [n \in 1..PartCount(fileSize) |-> stored[n]] /\ s3' = "closed"
          /\ phase' \in {"ready", "abort"} /\ UNCHANGED refused
     ELSE phase' = "abort" /\ refused' = TRUE /\ UNCHANGED <<object, s3>>
  /\ UNCHANGED <<minute, fileSize, offset, urls, attempt, completed, late, stored>>

\* media.abort, whatever comes of it.
Abort ==
  /\ phase = "abort" /\ phase' = "over"
  /\ s3' \in {s3, "closed"}
  /\ UNCHANGED <<minute, fileSize, offset, urls, attempt, completed, late, stored, object, refused>>

Wait ==
  /\ minute < MaxMinute /\ minute' = minute + 1
  /\ UNCHANGED <<client, bucket, refused>>

ClientGoesOn == AskURLs \/ PutHeard \/ PutUnheard \/ GiveUp \/ CompleteParts \/ Abort

TransferNext ==
  \/ ClientGoesOn \/ Wait
  \/ \E size \in 0..MaxFile : Begin(size)
  \/ \E part \in late : Land(part)

\* Every await of the client ends, with an answer or an error.
TransferSpec == TransferInit /\ [][TransferNext]_transferVars /\ WF_transferVars(ClientGoesOn)

-----------------------------------------------------------------------------
\* The bodies joined are the file, from its first byte to its last, with
\* nothing twice.
WholeFile ==
  /\ object[1].first = 0 /\ object[Len(object)].end = fileSize
  /\ \A n \in 1..Len(object) - 1 : object[n].end = object[n + 1].first
  /\ \A n \in 1..Len(object) : object[n].first < object[n].end

\* Client and server agree on the parts: the server finds no list of them wrong
\* (PartURLs, validateCompletedParts), and what the bucket joins is the file,
\* whatever the last part's size, however the parts fall into batches, and
\* whichever attempts are stored late (Initiate, uploadMultipart).
PartsAgree == ~refused /\ (object # <<>> => WholeFile)

\* The transfer of a file comes to an end, whatever is lost, repeated or late
\* (uploadFile).
TransferEnds == <>[](phase \in {"none", "ready", "over"})
=============================================================================
