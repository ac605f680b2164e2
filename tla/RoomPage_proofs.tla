--------------------------- MODULE RoomPage_proofs ---------------------------
(***************************************************************************)
(* What the room's page keeps for every value of the constants: the parts  *)
(* of a large file join to that file, the queue leaves no upload open and  *)
(* says of a file what the server has of it, and whoever walks the gallery *)
(* in order is shown every item that stayed, once and in its place.        *)
(***************************************************************************)
EXTENDS MCRoomPage, SequenceTheorems, FiniteSetTheorems, TLAPS

-----------------------------------------------------------------------------
(* The transfer of parts                                                   *)

LEMMA Division ==
  ASSUME NEW a \in Nat, NEW b \in Nat \ {0}
  PROVE  /\ a \div b \in Nat
         /\ (a \div b) * b <= a
         /\ a < ((a \div b) + 1) * b
BY SMT

LEMMA TimesMonotone ==
  ASSUME NEW a \in Nat, NEW b \in Nat, NEW c \in Nat, a <= b
  PROVE  a * c <= b * c
BY SMT

\* The last part begins before the end of the file and does not end before it.
LEMMA PartsCover ==
  ASSUME NEW size \in Nat \ {0}
  PROVE  /\ PartCount(size) \in Nat \ {0}
         /\ (PartCount(size) - 1) * PartSize < size
         /\ size <= PartCount(size) * PartSize
<1> DEFINE k == PartCount(size)
<1>1. k = (size + PartSize - 1) \div PartSize
  BY DEF PartCount
<1>2. size + PartSize - 1 \in Nat /\ PartSize \in Nat \ {0} /\ PartSize >= 1
  BY PartConstants
<1>3. /\ k \in Nat
      /\ k * PartSize <= size + PartSize - 1
      /\ size + PartSize - 1 < (k + 1) * PartSize
  BY <1>1, <1>2, Division
<1>4. (k + 1) * PartSize = k * PartSize + PartSize /\ (k - 1) * PartSize = k * PartSize - PartSize
  BY <1>2, <1>3
<1>5. k # 0
  <2>1. SUFFICES ASSUME k = 0 PROVE FALSE
    OBVIOUS
  <2>2. (k + 1) * PartSize = PartSize
    BY <1>2, <2>1
  <2> QED BY <1>2, <1>3, <2>2
<1>6. k * PartSize \in Nat
  BY <1>2, <1>3
<1> HIDE DEF k
<1>7. (k - 1) * PartSize < size /\ size <= k * PartSize
  BY <1>2, <1>3, <1>4, <1>6
<1> QED BY <1>3, <1>5, <1>7 DEF k

LEMMA PartCountMonotone ==
  ASSUME NEW size \in Nat \ {0}, NEW most \in Nat, size <= most
  PROVE  PartCount(size) <= PartCount(most)
<1>1. most # 0
  OBVIOUS
<1> DEFINE k == PartCount(size)
           l == PartCount(most)
<1>2. /\ k \in Nat \ {0} /\ l \in Nat \ {0}
      /\ (k - 1) * PartSize < size /\ most <= l * PartSize
  BY <1>1, PartsCover
<1> HIDE DEF k, l
<1>3. SUFFICES ASSUME ~(k <= l) PROVE FALSE
  BY DEF k, l
<1>4. l \in Nat /\ k - 1 \in Nat /\ PartSize \in Nat /\ l <= k - 1
  BY <1>2, <1>3, PartConstants
<1>5. l * PartSize <= (k - 1) * PartSize
  BY <1>4, TimesMonotone
<1>6. l * PartSize \in Nat /\ (k - 1) * PartSize \in Nat
  BY <1>4
<1> QED BY <1>2, <1>5, <1>6

\* The parts lie end to end and the last one ends with the file.
LEMMA Chunks ==
  ASSUME fileSize \in Nat \ {0}, NEW n \in 1..PartCount(fileSize)
  PROVE  /\ Chunk(n) = [first |-> Chunk(n).first, end |-> Chunk(n).end]
         /\ Chunk(n).first \in Nat /\ Chunk(n).end \in Nat
         /\ Chunk(n).first = (n - 1) * PartSize
         /\ Chunk(n).first < Chunk(n).end /\ Chunk(n).end <= fileSize
         /\ n < PartCount(fileSize) => Chunk(n).end = n * PartSize
         /\ n = PartCount(fileSize) => Chunk(n).end = fileSize
<1> DEFINE k == PartCount(fileSize)
           start == (n - 1) * PartSize
<1>1. /\ k \in Nat \ {0} /\ (k - 1) * PartSize < fileSize /\ fileSize <= k * PartSize
      /\ PartSize \in Nat \ {0} /\ n - 1 \in Nat /\ n - 1 <= k - 1 /\ k - 1 \in Nat /\ n \in Nat
  BY PartsCover, PartConstants
<1>2. Chunk(n) = [first |-> Lesser(start, fileSize), end |-> Lesser(start + PartSize, fileSize)]
  BY DEF Chunk
<1>3. start \in Nat /\ start + PartSize = n * PartSize
  BY <1>1
<1>4. start <= (k - 1) * PartSize /\ (k - 1) * PartSize \in Nat
  BY <1>1, TimesMonotone
<1>5. start < fileSize
  BY <1>1, <1>3, <1>4
<1>6. ASSUME n < k PROVE start + PartSize < fileSize
  <2>1. n <= k - 1
    BY <1>1, <1>6
  <2>2. n * PartSize <= (k - 1) * PartSize
    BY <1>1, <2>1, TimesMonotone
  <2> QED BY <1>1, <1>3, <1>4, <2>2
<1>7. ASSUME n = k PROVE fileSize <= start + PartSize
  BY <1>1, <1>3, <1>7
<1> HIDE DEF k, start
<1>8. /\ Lesser(start, fileSize) = start
      /\ n < k => Lesser(start + PartSize, fileSize) = start + PartSize
      /\ n = k => Lesser(start + PartSize, fileSize) = fileSize
  BY <1>1, <1>3, <1>5, <1>6, <1>7 DEF Lesser
<1>9. n < k \/ n = k
  BY <1>1
<1> QED BY <1>1, <1>2, <1>3, <1>5, <1>6, <1>8, <1>9 DEF k, start

LEMMA SameFile ==
  ASSUME fileSize' = fileSize
  PROVE  /\ \A n : Chunk(n)' = Chunk(n)
         /\ PartCount(fileSize)' = PartCount(fileSize)
BY DEF Chunk, PartCount

\* The parts sent so far, in their order, each with the bytes of its place.
SentInOrder == \A i \in 1..Len(completed) : completed[i] = [number |-> i, body |-> Chunk(i)]

\* The URLs left are those of the parts that follow, up to the end of the batch.
BatchFollows ==
  /\ phase = "urls" => offset <= PartCount(fileSize)
  /\ phase = "put" => /\ \A i \in 1..Len(urls) : urls[i].number = Len(completed) + i
                      /\ Len(completed) + Len(urls) = LastOfBatch
  /\ phase = "complete" => Len(completed) = PartCount(fileSize)

Joined == object = [n \in 1..PartCount(fileSize) |-> Chunk(n)]

\* WholeFile and the server's checks need to know where the client is: which
\* parts it has sent, and which it has URLs for.
PartsInv ==
  /\ PartsTypeOK /\ ~refused
  /\ offset \in Nat \ {0}
  /\ phase = "none" => completed = <<>> /\ object = <<>> /\ late = {} /\ offset = 1
  /\ phase # "none" => fileSize # 0 /\ Len(completed) <= PartCount(fileSize)
  /\ SentInOrder /\ BatchFollows
  /\ object # <<>> => Joined

LEMMA SentTyped ==
  ASSUME fileSize \in 0..MaxFile, fileSize # 0, NEW n \in 1..PartCount(fileSize)
  PROVE  /\ n \in PartNumber /\ Chunk(n) \in Body
         /\ [number |-> n, body |-> Chunk(n)] \in Sent
<1>1. fileSize \in Nat \ {0} /\ MaxFile \in Nat /\ fileSize <= MaxFile
  BY PartConstants
<1>2. PartCount(fileSize) <= PartCount(MaxFile) /\ PartCount(fileSize) \in Nat
  BY <1>1, PartCountMonotone, PartsCover
<1>3. PartCount(MaxFile) \in Nat
  BY <1>1, PartsCover
<1>4. n \in PartNumber
  BY <1>2, <1>3 DEF PartNumber
<1>5. /\ Chunk(n) = [first |-> Chunk(n).first, end |-> Chunk(n).end]
      /\ Chunk(n).first \in 0..MaxFile /\ Chunk(n).end \in 0..MaxFile
  BY <1>1, Chunks
<1>6. Chunk(n) \in Body
  BY <1>5 DEF Body
<1> QED BY <1>4, <1>6 DEF Sent

LEMMA PartsInit == TransferInit => PartsInv
<1> SUFFICES ASSUME TransferInit PROVE PartsInv
  OBVIOUS
<1>1. NoBody \in Body
  BY PartConstants DEF NoBody, Body
<1>2. stored \in [PartNumber -> Body]
  BY <1>1 DEF TransferInit
<1>3. /\ urls \in Seq([number : PartNumber, until : Nat])
      /\ completed \in Seq(Sent) /\ object \in Seq(Body)
  BY EmptySeq DEF TransferInit
<1>4. minute \in 0..MaxMinute /\ fileSize \in 0..MaxFile /\ attempt \in 1..MaxAttempts
  BY PartConstants DEF TransferInit
<1>6. PartsTypeOK
  BY <1>2, <1>3, <1>4 DEF TransferInit, PartsTypeOK
<1>5. SentInOrder /\ BatchFollows
  BY DEF TransferInit, SentInOrder, BatchFollows
<1> QED BY <1>5, <1>6 DEF TransferInit, PartsInv

LEMMA SameJoined ==
  ASSUME UNCHANGED <<fileSize, object>>, object # <<>> => Joined
  PROVE  (object # <<>> => Joined)'
<1>1. Joined => Joined'
  BY SameFile DEF Joined
<1> QED BY <1>1

\* A step that leaves alone what the client knows and what was joined.
LEMMA ClientRests ==
  ASSUME PartsInv, PartsTypeOK', phase = "none" => late' = {},
         UNCHANGED <<fileSize, phase, offset, urls, completed, object, refused>>
  PROVE  PartsInv'
<1>1. SentInOrder'
  BY SameFile DEF PartsInv, SentInOrder
<1>2. BatchFollows'
  BY SameFile DEF PartsInv, BatchFollows, LastOfBatch
<1>3. (object # <<>> => Joined)'
  BY SameJoined DEF PartsInv
<1> QED BY <1>1, <1>2, <1>3, SameFile DEF PartsInv

LEMMA BeginParts ==
  ASSUME PartsInv, NEW size \in 0..MaxFile, Begin(size)
  PROVE  PartsInv'
<1> USE DEF Begin, PartsInv
<1>1. size \in Nat \ {0} /\ fileSize' = size
  BY PartConstants
<1>2. PartCount(fileSize') \in Nat \ {0}
  BY <1>1, PartsCover
<1>3. PartsTypeOK'
  BY DEF PartsTypeOK
<1>4. SentInOrder' /\ BatchFollows'
  BY <1>2 DEF SentInOrder, BatchFollows, PartCount
<1> QED BY <1>1, <1>2, <1>3, <1>4 DEF PartCount

LEMMA AskParts ==
  ASSUME PartsInv, AskURLs
  PROVE  PartsInv'
<1> USE DEF AskURLs, bucket
<1> DEFINE k == PartCount(fileSize)
           n == LastOfBatch - offset + 1
<1>1. phase = "urls" /\ fileSize \in Nat \ {0} /\ offset \in Nat \ {0} /\ offset <= k
      /\ fileSize \in 0..MaxFile /\ Len(completed) = offset - 1
  BY DEF PartsInv, PartsTypeOK, BatchFollows
<1>2. k \in Nat \ {0} /\ URLBatch \in Nat \ {0} /\ PartsBatch \in Nat /\ URLBatch <= PartsBatch
  BY <1>1, PartsCover, PartConstants, BatchesFit
<1> HIDE DEF k
<1>3. LastOfBatch \in offset..k /\ n \in 1..PartsBatch
  BY <1>1, <1>2 DEF LastOfBatch, Lesser, k
<1>4. BatchAllowed /\ InRange
  BY <1>3 DEF BatchAllowed, InRange, k
<1>5. /\ phase' = "put" /\ attempt' = 1 /\ refused' = refused
      /\ urls' = [i \in 1..n |-> [number |-> offset + i - 1, until |-> Until]]
      /\ UNCHANGED <<minute, fileSize, offset, completed, late, stored, s3, object>>
  BY <1>4
<1>6. Until \in Nat
  BY PartConstants DEF Until, Lesser, PartsInv, PartsTypeOK
<1>7. \A i \in 1..n : [number |-> offset + i - 1, until |-> Until] \in [number : PartNumber, until : Nat]
  <2>1. SUFFICES ASSUME NEW i \in 1..n PROVE offset + i - 1 \in PartNumber
    BY <1>6
  <2>2. offset + i - 1 \in 1..k
    BY <1>1, <1>2, <1>3
  <2> QED BY <1>1, <2>2, SentTyped DEF k
<1>8. /\ urls' \in Seq([number : PartNumber, until : Nat])
      /\ Len(urls') = n
      /\ \A i \in 1..n : urls'[i].number = offset + i - 1
  <2>1. n \in Nat
    BY <1>3
  <2>2. urls' \in [1..n -> [number : PartNumber, until : Nat]]
    BY <1>5, <1>7
  <2> HIDE DEF n
  <2> QED BY <1>5, <2>1, <2>2
<1>9. /\ \A i \in 1..Len(urls') : urls'[i].number = Len(completed') + i
      /\ Len(completed') + Len(urls') = LastOfBatch'
      /\ urls' # <<>> /\ Head(urls').number = Len(completed') + 1
  BY <1>1, <1>3, <1>5, <1>8, SameFile DEF LastOfBatch
<1>10. PartsTypeOK'
  BY <1>5, <1>8, <1>9, PartConstants DEF PartsInv, PartsTypeOK
<1>11. SentInOrder'
  BY <1>5, SameFile DEF PartsInv, SentInOrder
<1>14. BatchFollows'
  BY <1>5, <1>9 DEF BatchFollows
<1>12. (object # <<>> => Joined)'
  BY <1>5, SameJoined DEF PartsInv
<1>13. fileSize' # 0 /\ Len(completed') <= PartCount(fileSize')
  BY <1>1, <1>5, SameFile DEF PartsInv
<1> HIDE DEF AskURLs
<1> QED BY <1>1, <1>5, <1>10, <1>11, <1>12, <1>13, <1>14 DEF PartsInv

\* What is sent in the phase "put": the part after those that were sent.
LEMMA NextPart ==
  ASSUME PartsInv, phase = "put"
  PROVE  /\ fileSize \in 0..MaxFile /\ fileSize # 0 /\ fileSize \in Nat \ {0}
         /\ Len(completed) + 1 \in 1..PartCount(fileSize)
         /\ ToSend = [number |-> Len(completed) + 1, body |-> Chunk(Len(completed) + 1)]
         /\ ToSend \in Sent
<1>1. /\ fileSize \in 0..MaxFile /\ fileSize # 0 /\ fileSize \in Nat \ {0}
      /\ urls \in Seq([number : PartNumber, until : Nat]) /\ urls # <<>>
      /\ Head(urls).number = Len(completed) + 1 /\ Len(completed) \in Nat
      /\ Len(completed) + Len(urls) = LastOfBatch /\ offset \in Nat
  BY LenProperties DEF PartsInv, PartsTypeOK, BatchFollows
<1>2. Len(urls) \in Nat /\ Len(urls) >= 1
  BY <1>1, EmptySeq
<1>3. PartCount(fileSize) \in Nat /\ URLBatch \in Nat
  BY <1>1, PartsCover, PartConstants
<1>4. LastOfBatch <= PartCount(fileSize)
  BY <1>1, <1>3 DEF LastOfBatch, Lesser
<1>5. Len(completed) + 1 \in 1..PartCount(fileSize)
  BY <1>1, <1>2, <1>3, <1>4
<1>6. ToSend = [number |-> Len(completed) + 1, body |-> Chunk(Len(completed) + 1)]
  BY <1>1 DEF ToSend
<1> QED BY <1>1, <1>5, <1>6, SentTyped

LEMMA PutTyped ==
  ASSUME stored \in [PartNumber -> Body], NEW part \in Sent, Put(part)
  PROVE  stored' \in [PartNumber -> Body]
BY DEF Put, Sent

LEMMA HeardParts ==
  ASSUME PartsInv, PutHeard
  PROVE  PartsInv'
<1> DEFINE k == PartCount(fileSize)
<1>1. /\ phase = "put" /\ Put(ToSend) /\ attempt' = 1
      /\ completed' = Append(completed, ToSend) /\ urls' = Tail(urls)
      /\ UNCHANGED <<minute, fileSize, late, s3, object, refused>>
      /\ Tail(urls) # <<>> => UNCHANGED <<phase, offset>>
      /\ Tail(urls) = <<>> =>
           /\ offset' = offset + URLBatch
           /\ phase' = IF offset + URLBatch <= k THEN "urls" ELSE "complete"
  BY DEF PutHeard
<1>2. /\ completed \in Seq(Sent) /\ ToSend \in Sent
      /\ urls \in Seq([number : PartNumber, until : Nat]) /\ urls # <<>>
      /\ Len(completed) \in Nat /\ Len(completed) + 1 \in 1..k
      /\ offset \in Nat \ {0} /\ k \in Nat /\ URLBatch \in Nat \ {0} /\ MaxAttempts \in Nat \ {0}
  BY <1>1, NextPart, LenProperties, PartsCover, PartConstants DEF PartsInv, PartsTypeOK
<1>3. /\ completed' \in Seq(Sent) /\ Len(completed') = Len(completed) + 1
      /\ \A i \in 1..Len(completed) : completed'[i] = completed[i]
      /\ completed'[Len(completed) + 1] = ToSend
  BY <1>1, <1>2, AppendProperties
<1>4. /\ Tail(urls) \in Seq([number : PartNumber, until : Nat])
      /\ Len(Tail(urls)) = Len(urls) - 1 /\ Len(urls) \in Nat
      /\ \A i \in 1..Len(Tail(urls)) : Tail(urls)[i] = urls[i + 1]
  BY <1>2, HeadTailProperties, LenProperties
<1>5. /\ \A i \in 1..Len(urls) : urls[i].number = Len(completed) + i
      /\ Len(completed) + Len(urls) = LastOfBatch
  BY <1>1 DEF PartsInv, BatchFollows
<1>6. SentInOrder'
  <2>1. SUFFICES ASSUME NEW i \in 1..(Len(completed) + 1)
                 PROVE  completed'[i] = [number |-> i, body |-> Chunk(i)]
    BY <1>1, <1>3, SameFile DEF SentInOrder
  <2>2. CASE i \in 1..Len(completed)
    BY <1>3, <2>2 DEF PartsInv, SentInOrder
  <2>3. CASE i = Len(completed) + 1
    BY <1>1, <1>3, <2>3, NextPart
  <2> QED BY <1>2, <2>2, <2>3
<1> HIDE DEF k
<1> DEFINE rest == Tail(urls)
<1>14. /\ rest \in Seq([number : PartNumber, until : Nat]) /\ urls' = rest
       /\ Len(rest) \in Nat /\ Len(completed) + 1 + Len(rest) = LastOfBatch
       /\ \A i \in 1..Len(rest) : rest[i].number = Len(completed) + 1 + i
  <2>1. Len(rest) \in Nat /\ Len(rest) = Len(urls) - 1
    BY <1>4, LenProperties
  <2>2. ASSUME NEW i \in 1..Len(rest) PROVE rest[i].number = Len(completed) + 1 + i
    <3>1. i + 1 \in 1..Len(urls) /\ i \in Nat
      BY <1>4, <2>1
    <3>2. rest[i].number = Len(completed) + (i + 1)
      BY <1>4, <1>5, <3>1
    <3> QED BY <1>2, <3>1, <3>2
  <2>3. Len(completed) + 1 + Len(rest) = LastOfBatch
    <3> HIDE DEF rest
    <3> QED BY <1>2, <1>4, <1>5, <2>1
  <2> QED BY <1>1, <1>4, <2>1, <2>2, <2>3
<1>15. Len(rest) = 0 <=> rest = <<>>
  BY <1>14, EmptySeq
<1>16. /\ rest # <<>> => UNCHANGED <<phase, offset>>
       /\ rest = <<>> => /\ offset' = offset + URLBatch
                         /\ phase' = IF offset + URLBatch <= k THEN "urls" ELSE "complete"
  BY <1>1
<1> HIDE DEF rest
<1>7. ASSUME rest # <<>>
      PROVE  /\ phase' = "put" /\ offset' \in Nat \ {0} /\ BatchFollows'
             /\ urls' # <<>> /\ Head(urls').number = Len(completed') + 1
  <2>1. phase' = "put" /\ offset' = offset /\ urls' = rest
    BY <1>1, <1>7, <1>14, <1>16
  <2>2. 1 \in 1..Len(rest)
    BY <1>7, <1>14, <1>15
  <2>3. Head(rest).number = Len(completed) + 1 + 1
    BY <1>7, <1>14, <2>2
  <2>4. LastOfBatch' = LastOfBatch
    BY <1>1, <2>1, SameFile DEF LastOfBatch
  <2> QED BY <1>2, <1>3, <1>7, <1>14, <2>1, <2>3, <2>4 DEF BatchFollows
<1>8. ASSUME rest = <<>>
      PROVE  /\ phase' \in {"urls", "complete"} /\ offset' \in Nat \ {0} /\ BatchFollows'
             /\ phase' = "urls" => Len(completed') = offset' - 1
  <2>1. offset' = offset + URLBatch /\ phase' = (IF offset + URLBatch <= k THEN "urls" ELSE "complete")
    BY <1>8, <1>16
  <2>2. Len(completed') = LastOfBatch
    BY <1>2, <1>3, <1>8, <1>14, <1>15
  <2>3. LastOfBatch = IF offset + URLBatch - 1 < k THEN offset + URLBatch - 1 ELSE k
    BY DEF LastOfBatch, Lesser, k
  <2>4. PartCount(fileSize)' = k
    BY <1>1, SameFile DEF k
  <2> QED BY <1>2, <2>1, <2>2, <2>3, <2>4 DEF BatchFollows
<1>9. /\ offset' \in Nat \ {0} /\ BatchFollows' /\ phase' \in {"put", "urls", "complete"}
      /\ phase' = "urls" => Len(completed') = offset' - 1
      /\ phase' = "put" => urls' # <<>> /\ Head(urls').number = Len(completed') + 1
  BY <1>7, <1>8
<1>10. stored' \in [PartNumber -> Body]
  BY <1>1, <1>2, PutTyped DEF PartsInv, PartsTypeOK
<1>11. PartsTypeOK'
  <2>1. attempt' \in 1..MaxAttempts
    BY <1>1, <1>2
  <2> QED BY <1>1, <1>3, <1>4, <1>9, <1>10, <2>1 DEF PartsInv, PartsTypeOK
<1>12. (object # <<>> => Joined)'
  BY <1>1, SameJoined DEF PartsInv
<1>13. fileSize' # 0 /\ Len(completed') <= PartCount(fileSize')
  BY <1>1, <1>2, <1>3, NextPart, SameFile DEF k
<1> QED BY <1>1, <1>6, <1>9, <1>11, <1>12, <1>13 DEF PartsInv

LEMMA UnheardParts ==
  ASSUME PartsInv, PutUnheard
  PROVE  PartsInv'
<1>1. /\ phase = "put" /\ attempt < MaxAttempts /\ attempt' = attempt + 1
      /\ late' \in {late, late \cup {ToSend}}
      /\ UNCHANGED <<fileSize, phase, offset, urls, completed, object, refused, minute, stored, s3>>
  BY DEF PutUnheard, MayRepeat, NextAttempt
<1>2. late' \subseteq Sent
  BY <1>1, NextPart DEF PartsInv, PartsTypeOK
<1>3. attempt' \in 1..MaxAttempts
  BY <1>1, PartConstants DEF PartsInv, PartsTypeOK
<1>4. PartsTypeOK'
  BY <1>1, <1>2, <1>3 DEF PartsInv, PartsTypeOK
<1> QED BY <1>1, <1>4, ClientRests

LEMMA LandParts ==
  ASSUME PartsInv, NEW part \in late, Land(part)
  PROVE  PartsInv'
<1>1. /\ UNCHANGED <<minute, client, s3, object, refused>>
      /\ late' = late \ {part} /\ (Put(part) \/ stored' = stored)
  BY DEF Land
<1>2. part \in Sent
  BY DEF PartsInv, PartsTypeOK
<1>3. stored' \in [PartNumber -> Body]
  BY <1>1, <1>2, PutTyped DEF PartsInv, PartsTypeOK
<1>4. PartsTypeOK'
  BY <1>1, <1>3 DEF PartsInv, PartsTypeOK, client
<1>5. phase = "none" => late' = {}
  BY DEF PartsInv
<1> QED BY <1>1, <1>4, <1>5, ClientRests DEF client

LEMMA GiveUpParts ==
  ASSUME PartsInv, phase \in {"urls", "put", "complete", "abort"}, phase' \in {"abort", "over"},
         s3' \in {"none", "open", "closed"},
         UNCHANGED <<minute, fileSize, offset, urls, attempt, completed, late, stored, object, refused>>
  PROVE  PartsInv'
<1>1. PartsTypeOK'
  BY DEF PartsInv, PartsTypeOK
<1>2. SentInOrder' /\ BatchFollows'
  BY SameFile DEF PartsInv, SentInOrder, BatchFollows
<1>3. (object # <<>> => Joined)'
  BY SameJoined DEF PartsInv
<1> QED BY <1>1, <1>2, <1>3, SameFile DEF PartsInv

\* The server finds every part once in what the client lists.
LEMMA ListIsFull ==
  ASSUME PartsInv, phase = "complete"
  PROVE  AllListed
<1> DEFINE k == PartCount(fileSize)
<1>1. completed \in Seq(Sent) /\ Len(completed) = k /\ k \in Nat
  BY LenProperties DEF PartsInv, PartsTypeOK, BatchFollows
<1> HIDE DEF k
<1>2. DOMAIN completed = 1..k
  BY <1>1
<1>3. \A i \in 1..k : completed[i].number = i
  BY <1>1 DEF PartsInv, SentInOrder
<1> QED BY <1>1, <1>2, <1>3 DEF AllListed, k

LEMMA CompletedParts ==
  ASSUME PartsInv, CompleteParts
  PROVE  PartsInv'
<1> DEFINE k == PartCount(fileSize)
<1>1. phase = "complete" /\ AllListed
  BY ListIsFull DEF CompleteParts
<1>2. /\ Matches /\ object' = [n \in 1..k |-> stored[n]] /\ s3' = "closed"
      /\ phase' \in {"ready", "abort"} /\ refused' = refused
      /\ UNCHANGED <<minute, fileSize, offset, urls, attempt, completed, late, stored>>
  BY <1>1 DEF CompleteParts
<1>3. completed \in Seq(Sent) /\ Len(completed) = k /\ k \in Nat
  BY <1>1, LenProperties DEF PartsInv, PartsTypeOK, BatchFollows
<1>4. stored \in [PartNumber -> Body] /\ fileSize \in 0..MaxFile /\ fileSize # 0
  BY <1>1 DEF PartsInv, PartsTypeOK
<1>5. \A n \in 1..k : n \in PartNumber /\ stored[n] \in Body
  BY <1>4, SentTyped
<1> HIDE DEF k
<1>6. \A n \in 1..k : completed[n] = [number |-> n, body |-> Chunk(n)]
  BY <1>3 DEF PartsInv, SentInOrder
<1>7. \A n \in 1..k : stored[n] = Chunk(n)
  BY <1>2, <1>3, <1>6 DEF Matches
<1>8. object' = [n \in 1..k |-> Chunk(n)]
  BY <1>2, <1>7
<1>9. Joined'
  BY <1>2, <1>8, SameFile DEF Joined, k
<1>10. object' \in Seq(Body)
  BY <1>2, <1>3, <1>5
<1>11. PartsTypeOK'
  BY <1>2, <1>10 DEF PartsInv, PartsTypeOK
<1>12. SentInOrder' /\ BatchFollows'
  BY <1>2, SameFile DEF PartsInv, SentInOrder, BatchFollows
<1> QED BY <1>1, <1>2, <1>9, <1>11, <1>12, SameFile DEF PartsInv

LEMMA WaitParts ==
  ASSUME PartsInv, Wait
  PROVE  PartsInv'
<1>1. PartsTypeOK'
  BY PartConstants DEF Wait, client, bucket, PartsInv, PartsTypeOK
<1> QED BY <1>1, ClientRests DEF Wait, client, bucket, PartsInv

LEMMA PartsStep ==
  ASSUME PartsInv, [TransferNext]_transferVars
  PROVE  PartsInv'
<1>1. ASSUME AskURLs PROVE PartsInv'
  BY <1>1, AskParts
<1>2. ASSUME PutHeard PROVE PartsInv'
  BY <1>2, HeardParts
<1>3. ASSUME PutUnheard PROVE PartsInv'
  BY <1>3, UnheardParts
<1>4. ASSUME GiveUp PROVE PartsInv'
  BY <1>4, GiveUpParts DEF GiveUp, bucket, PartsInv, PartsTypeOK
<1>5. ASSUME CompleteParts PROVE PartsInv'
  BY <1>5, CompletedParts
<1>6. ASSUME Abort PROVE PartsInv'
  BY <1>6, GiveUpParts DEF Abort, PartsInv, PartsTypeOK
<1>7. ASSUME Wait PROVE PartsInv'
  BY <1>7, WaitParts
<1>8. ASSUME NEW size \in 0..MaxFile, Begin(size) PROVE PartsInv'
  BY <1>8, BeginParts
<1>9. ASSUME NEW part \in late, Land(part) PROVE PartsInv'
  BY <1>9, LandParts
<1>10. ASSUME UNCHANGED transferVars PROVE PartsInv'
  <2>1. PartsTypeOK'
    BY <1>10 DEF transferVars, client, bucket, PartsInv, PartsTypeOK
  <2> QED BY <1>10, <2>1, ClientRests DEF transferVars, client, bucket, PartsInv
<1> QED BY <1>1, <1>2, <1>3, <1>4, <1>5, <1>6, <1>7, <1>8, <1>9, <1>10 DEF TransferNext, ClientGoesOn

\* The parts of a file, one after the other, are the file.
LEMMA JoinedWhole ==
  ASSUME PartsInv, object # <<>>
  PROVE  WholeFile
<1> DEFINE k == PartCount(fileSize)
<1>1. Joined /\ fileSize \in Nat \ {0}
  BY PartConstants DEF PartsInv, PartsTypeOK
<1>2. k \in Nat \ {0}
  BY <1>1, PartsCover
<1>3. object = [n \in 1..k |-> Chunk(n)]
  BY <1>1 DEF Joined
<1>4. /\ \A n \in 1..k : Chunk(n).first = (n - 1) * PartSize /\ Chunk(n).first < Chunk(n).end
      /\ \A n \in 1..k : n < k => Chunk(n).end = n * PartSize
      /\ Chunk(k).end = fileSize
  BY <1>1, <1>2, Chunks
<1> HIDE DEF k
<1>5. Len(object) = k /\ \A n \in 1..k : object[n] = Chunk(n)
  BY <1>2, <1>3
<1>6. object[1].first = 0
  <2>1. 1 \in 1..k /\ PartSize \in Nat /\ (1 - 1) * PartSize = 0
    BY <1>2, PartConstants
  <2> QED BY <1>4, <1>5, <2>1
<1>7. object[k].end = fileSize
  BY <1>2, <1>4, <1>5
<1>8. ASSUME NEW n \in 1..k - 1 PROVE object[n].end = object[n + 1].first
  <2>1. n \in 1..k /\ n + 1 \in 1..k /\ n < k /\ (n + 1) - 1 = n
    BY <1>2
  <2> QED BY <1>4, <1>5, <2>1
<1> QED BY <1>4, <1>5, <1>6, <1>7, <1>8 DEF WholeFile

LEMMA PartsAlways == TransferSpec => []PartsInv
<1>1. PartsInv /\ [TransferNext]_transferVars => PartsInv'
  BY PartsStep
<1> QED BY <1>1, PartsInit, PTL DEF TransferSpec

LEMMA AgreeHolds == PartsInv => PartsAgree
BY JoinedWhole DEF PartsInv, PartsAgree

\* The client and the server agree on the parts of a file of any size, however
\* the parts fall into batches and whichever attempts the bucket stores late:
\* no list of parts is refused, and what the bucket joins is the file.
THEOREM PartsAlwaysAgree == TransferSpec => []PartsAgree
BY AgreeHolds, PartsAlways, PTL

\* The parts of a transfer stay what they are declared to be: every part is
\* sent or has a URL, and none is tried too often.
THEOREM PartsTyped == TransferSpec => []PartsTypeOK
<1>1. PartsInv => PartsTypeOK
  BY DEF PartsInv
<1> QED BY <1>1, PartsAlways, PTL

-----------------------------------------------------------------------------
(* The upload queue                                                        *)

QueueTyped ==
  /\ batch \in [File -> 0..Files]
  /\ item \in [File -> {"absent", "queued", "uploading", "done", "error"}]
  /\ kept \subseteq File /\ controller \in [File -> Try \cup {NoTry}]
  /\ cancelled \subseteq File \X Try
  /\ try \in [File -> [Try -> {"off", "initiate", "put", "complete", "abort", "over"}]]
  /\ upload \in [File -> [Try -> {"none", "open", "ready", "aborted"}]]
  /\ unsure \subseteq File /\ hasty \subseteq File

\* A file waits for its first try until that begins.
WaitsForFirst(f) ==
  /\ batch[f] = 0 => try[f][0] = "off"
  /\ item[f] = "queued" => try[f][0] = "off"
  /\ try[f][0] = "off" =>
       /\ \A n \in Try : try[f][n] = "off"
       /\ item[f] = IF batch[f] = 0 THEN "absent" ELSE "queued"
       /\ controller[f] = IF batch[f] = 0 THEN NoTry ELSE 0

\* What the server has of a file goes by how far its tries are.
UploadFollows(f) ==
  /\ \A n \in Try : try[f][n] \in {"off", "initiate"} => upload[f][n] = "none"
  /\ f \notin unsure =>
       \A n \in Try : upload[f][n] = "open" => try[f][n] \in {"put", "complete", "abort"}
  /\ item[f] = "done" => \E n \in Try : upload[f][n] = "ready"

\* Without haste one try is under way at most, and its controller is the one
\* that "cancel" reaches.
OneTry(f) ==
  f \notin hasty =>
    /\ \A n \in Try : try[f][n] \notin {"off", "over"} =>
         /\ controller[f] = n /\ item[f] \in {"uploading", "error"}
         /\ item[f] = "error" => <<f, n>> \in cancelled
    /\ item[f] \in {"queued", "uploading", "error"} => f \in kept
    /\ controller[f] # NoTry /\ item[f] # "queued" =>
         controller[f] \in Try /\ try[f][controller[f]] \notin {"off", "over"}

\* And nothing is stored of a file that is not shown as done.
StoredOnce(f) ==
  f \notin hasty \cup unsure =>
    /\ \A n \in Try : upload[f][n] = "ready" => item[f] \in {"done", "absent"}
    /\ \A n, m \in Try : upload[f][n] = "ready" /\ upload[f][m] = "ready" => n = m

FileInv(f) == WaitsForFirst(f) /\ UploadFollows(f) /\ OneTry(f) /\ StoredOnce(f)

QueueInv == QueueTyped /\ \A f \in File : FileInv(f)


LEMMA FirstTry == 0 \in Try /\ NoTry \notin Try /\ File \subseteq Nat \ {0} /\ Try \subseteq Nat
BY QueueBounds DEF Try, File

LEMMA QueueStarts == QueueInit => QueueInv
BY FirstTry, QueueBounds
   DEF QueueInit, QueueInv, QueueTyped, FileInv, WaitsForFirst, UploadFollows, OneTry, StoredOnce

FileSame(g) ==
  /\ batch'[g] = batch[g] /\ item'[g] = item[g] /\ controller'[g] = controller[g]
  /\ try'[g] = try[g] /\ upload'[g] = upload[g]
  /\ g \in kept => g \in kept'
  /\ \A n \in Try : <<g, n>> \in cancelled => <<g, n>> \in cancelled'
  /\ (g \in unsure' <=> g \in unsure) /\ (g \in hasty' <=> g \in hasty)

LEMMA FileRests ==
  ASSUME NEW g \in File, FileInv(g), FileSame(g)
  PROVE  FileInv(g)'
<1> USE DEF FileSame
<1>1. WaitsForFirst(g)'
  BY DEF FileInv, WaitsForFirst
<1>2. UploadFollows(g)'
  BY DEF FileInv, UploadFollows
<1>3. OneTry(g)'
  BY DEF FileInv, OneTry
<1>4. StoredOnce(g)'
  BY DEF FileInv, StoredOnce
<1> QED BY <1>1, <1>2, <1>3, <1>4 DEF FileInv

\* A step of one file leaves the others alone.
LEMMA Elsewhere ==
  ASSUME QueueTyped, NEW f \in File, NEW g \in File, g # f,
         StartNext(f) \/ Cancel(f) \/ \E n \in Try : Retry(f, n) \/ TryStep(f, n)
  PROVE  FileSame(g)
<1> USE DEF QueueTyped, FileSame, Move, Rests
<1>1. CASE StartNext(f)
  BY <1>1 DEF StartNext, hindsight
<1>2. CASE Cancel(f)
  BY <1>2 DEF Cancel, hindsight
<1>3. ASSUME NEW n \in Try, Retry(f, n) PROVE FileSame(g)
  BY <1>3 DEF Retry
<1>4. ASSUME NEW n \in Try, Initiated(f, n) PROVE FileSame(g)
  BY <1>4 DEF Initiated, hindsight
<1>5. ASSUME NEW n \in Try, NotInitiated(f, n) PROVE FileSame(g)
  BY <1>5 DEF NotInitiated, Undone, Shows, Over
<1>6. ASSUME NEW n \in Try, PutDone(f, n) PROVE FileSame(g)
  BY <1>6 DEF PutDone, hindsight
<1>7. ASSUME NEW n \in Try, PutFailed(f, n) PROVE FileSame(g)
  BY <1>7 DEF PutFailed, hindsight
<1>8. ASSUME NEW n \in Try, Completed(f, n) PROVE FileSame(g)
  BY <1>8 DEF Completed, Complete, Done, Shows, Over, hindsight
<1>9. ASSUME NEW n \in Try, NotCompleted(f, n) PROVE FileSame(g)
  BY <1>9 DEF NotCompleted, Complete
<1>10. ASSUME NEW n \in Try, Aborted(f, n) PROVE FileSame(g)
  BY <1>10 DEF Aborted, Undone, Shows, Over, hindsight
<1>11. ASSUME NEW n \in Try, NotAborted(f, n) PROVE FileSame(g)
  BY <1>11 DEF NotAborted, Undone, Shows, Over
<1> QED BY <1>1, <1>2, <1>3, <1>4, <1>5, <1>6, <1>7, <1>8, <1>9, <1>10, <1>11 DEF TryStep

LEMMA AcceptFiles ==
  ASSUME QueueInv, NEW first \in File, NEW last \in File, Accept(first, last)
  PROVE  QueueInv'
<1> USE DEF Accept, QueueInv, hindsight
<1>1. QueueTyped'
  <2>1. first..last \subseteq File /\ first \in 0..Files
    BY QueueBounds DEF File
  <2>2. \A f \in File : WithoutDone(f) \in {"absent", "queued", "uploading", "error"}
    BY DEF WithoutDone, QueueTyped
  <2>3. /\ batch' \in [File -> 0..Files] /\ kept' \subseteq File
        /\ controller' \in [File -> Try \cup {NoTry}]
    BY <2>1, FirstTry DEF QueueTyped
  <2>4. item' \in [File -> {"absent", "queued", "uploading", "done", "error"}]
    BY <2>2
  <2> QED BY <2>3, <2>4 DEF QueueTyped
<1>2. ASSUME NEW f \in File PROVE FileInv(f)'
  <2> USE DEF FileInv
  <2>1. CASE f \in first..last
    <3>1. /\ batch[f] = 0 /\ batch'[f] = first /\ first # 0 /\ item'[f] = "queued" /\ controller'[f] = 0
          /\ f \in kept' /\ UNCHANGED <<try, upload, cancelled, unsure, hasty>>
      BY <2>1, FirstTry DEF QueueTyped, File
    <3>2. try[f][0] = "off" /\ \A n \in Try : try[f][n] = "off"
      BY <3>1 DEF WaitsForFirst
    <3>3. \A n \in Try : upload[f][n] = "none"
      BY <3>2 DEF UploadFollows
    <3> QED BY <3>1, <3>2, <3>3 DEF WaitsForFirst, UploadFollows, OneTry, StoredOnce
  <2>2. CASE f \notin first..last
    <3>1. /\ batch'[f] = batch[f] /\ controller'[f] = controller[f]
          /\ item'[f] = WithoutDone(f)
          /\ kept \subseteq kept' /\ UNCHANGED <<try, upload, cancelled, unsure, hasty>>
      BY <2>2 DEF QueueTyped
    <3>2. item'[f] = IF item[f] = "done" THEN "absent" ELSE item[f]
      BY <3>1 DEF WithoutDone
    <3>3. WaitsForFirst(f)'
      BY <3>1, <3>2 DEF WaitsForFirst
    <3>4. UploadFollows(f)'
      BY <3>1, <3>2 DEF UploadFollows
    <3>5. OneTry(f)'
      BY <3>1, <3>2 DEF OneTry
    <3>6. StoredOnce(f)'
      BY <3>1, <3>2 DEF StoredOnce
    <3> QED BY <3>3, <3>4, <3>5, <3>6
  <2> QED BY <2>1, <2>2
<1> QED BY <1>1, <1>2

LEMMA DoneGo ==
  ASSUME QueueInv, ClearDone
  PROVE  QueueInv'
<1> USE DEF ClearDone, QueueInv, hindsight
<1>1. QueueTyped'
  BY DEF QueueTyped, WithoutDone
<1>2. ASSUME NEW f \in File PROVE FileInv(f)'
  <2>1. /\ UNCHANGED <<batch, controller, kept, try, upload, cancelled, unsure, hasty>>
        /\ item'[f] = IF item[f] = "done" THEN "absent" ELSE item[f]
    BY DEF WithoutDone, QueueTyped
  <2>2. WaitsForFirst(f)'
    BY <2>1 DEF WaitsForFirst, FileInv
  <2>3. UploadFollows(f)'
    BY <2>1 DEF UploadFollows, FileInv
  <2>4. OneTry(f)'
    BY <2>1 DEF OneTry, FileInv
  <2>5. StoredOnce(f)'
    BY <2>1 DEF StoredOnce, FileInv
  <2> QED BY <2>2, <2>3, <2>4, <2>5 DEF FileInv
<1> QED BY <1>1, <1>2

\* A step of the file f, of which the others know nothing.
LEMMA OneFile ==
  ASSUME QueueInv, QueueTyped', NEW f \in File, FileInv(f)',
         StartNext(f) \/ Cancel(f) \/ \E n \in Try : Retry(f, n) \/ TryStep(f, n)
  PROVE  QueueInv'
<1>1. ASSUME NEW g \in File, g # f PROVE FileInv(g)'
  BY <1>1, Elsewhere, FileRests DEF QueueInv
<1> QED BY <1>1 DEF QueueInv

LEMMA FirstTryBegins ==
  ASSUME QueueInv, NEW f \in File, StartNext(f)
  PROVE  QueueInv'
<1> USE DEF StartNext, Move, hindsight
<1>1. QueueTyped'
  BY FirstTry DEF QueueInv, QueueTyped
<1>2. /\ batch[f] # 0 /\ \A n \in Try : try[f][n] = "off"
      /\ item[f] = "queued" /\ controller[f] = 0
      /\ \A n \in Try : upload[f][n] = "none"
      /\ f \notin hasty => f \in kept
  BY DEF QueueInv, FileInv, WaitsForFirst, UploadFollows, OneTry
<1>3. /\ item'[f] = "uploading" /\ try'[f] = [try[f] EXCEPT ![0] = "initiate"]
      /\ UNCHANGED <<batch, kept, controller, cancelled, upload, unsure, hasty>>
  BY DEF QueueInv, QueueTyped
<1>4. try'[f][0] = "initiate" /\ \A n \in Try : n # 0 => try'[f][n] = "off"
  BY <1>2, <1>3, FirstTry DEF QueueInv, QueueTyped
<1>5. WaitsForFirst(f)'
  BY <1>2, <1>3, <1>4 DEF WaitsForFirst
<1>6. UploadFollows(f)'
  BY <1>2, <1>3, <1>4 DEF UploadFollows
<1>7. OneTry(f)'
  BY <1>2, <1>3, <1>4, FirstTry DEF OneTry
<1>8. StoredOnce(f)'
  BY <1>2, <1>3, <1>4 DEF StoredOnce
<1> QED BY <1>1, <1>5, <1>6, <1>7, <1>8, OneFile DEF FileInv

LEMMA CancelFile ==
  ASSUME QueueInv, NEW f \in File, Cancel(f)
  PROVE  QueueInv'
<1> USE DEF Cancel, hindsight
<1>1. QueueTyped'
  BY FirstTry DEF QueueInv, QueueTyped
<1>2. /\ item[f] = "uploading" /\ item'[f] = "error" /\ cancelled \subseteq cancelled'
      /\ controller[f] \in Try => <<f, controller[f]>> \in cancelled'
      /\ UNCHANGED <<batch, kept, controller, try, upload, unsure, hasty>>
  BY FirstTry DEF QueueInv, QueueTyped
<1>3. WaitsForFirst(f)'
  BY <1>2 DEF QueueInv, FileInv, WaitsForFirst
<1>4. UploadFollows(f)'
  BY <1>2 DEF QueueInv, FileInv, UploadFollows
<1>5. OneTry(f)'
  BY <1>2 DEF QueueInv, FileInv, OneTry
<1>6. StoredOnce(f)'
  BY <1>2 DEF QueueInv, FileInv, StoredOnce
<1> QED BY <1>1, <1>3, <1>4, <1>5, <1>6, OneFile DEF FileInv

LEMMA RetryFile ==
  ASSUME QueueInv, NEW f \in File, NEW n \in Try, Retry(f, n)
  PROVE  QueueInv'
<1> USE DEF Retry, Move
<1>1. QueueTyped'
  BY DEF QueueInv, QueueTyped
<1>2. /\ item[f] = "error" /\ f \in kept /\ try[f][n] = "off"
      /\ item'[f] = "uploading" /\ controller'[f] = n /\ controller'[f] # NoTry
      /\ try'[f][n] = "initiate" /\ \A m \in Try : m # n => try'[f][m] = try[f][m]
      /\ UNCHANGED <<batch, kept, cancelled, upload, unsure>>
      /\ f \notin hasty' => f \notin hasty /\ UnderWay(f) = {}
  BY FirstTry DEF QueueInv, QueueTyped
<1>3. batch[f] # 0 /\ try[f][0] # "off" /\ try'[f][0] # "off"
  BY <1>2, FirstTry DEF QueueInv, FileInv, WaitsForFirst
<1>4. WaitsForFirst(f)'
  BY <1>2, <1>3 DEF WaitsForFirst
<1>5. UploadFollows(f)'
  BY <1>2 DEF QueueInv, FileInv, UploadFollows
<1>6. OneTry(f)'
  BY <1>2 DEF QueueInv, FileInv, OneTry, UnderWay
<1>7. StoredOnce(f)'
  BY <1>2 DEF QueueInv, FileInv, StoredOnce
<1> QED BY <1>1, <1>4, <1>5, <1>6, <1>7, OneFile DEF FileInv

\* A try that is under way, of a file that is tried without haste.
LEMMA TryGoing ==
  ASSUME QueueInv, NEW f \in File, NEW n \in Try, try[f][n] \notin {"off", "over"}
  PROVE  /\ batch[f] # 0 /\ item[f] # "queued" /\ try[f][0] # "off"
         /\ f \notin hasty =>
              /\ controller[f] = n /\ item[f] \in {"uploading", "error"} /\ f \in kept
              /\ item[f] = "error" => <<f, n>> \in cancelled
              /\ \A m \in Try : m # n => try[f][m] \in {"off", "over"}
         /\ f \notin hasty \cup unsure => \A m \in Try : upload[f][m] # "ready"
<1>1. try[f][0] # "off"
  BY DEF QueueInv, FileInv, WaitsForFirst
<1>2. batch[f] # 0 /\ item[f] # "queued"
  BY <1>1 DEF QueueInv, FileInv, WaitsForFirst
<1>3. ASSUME f \notin hasty
      PROVE  /\ controller[f] = n /\ item[f] \in {"uploading", "error"} /\ f \in kept
             /\ item[f] = "error" => <<f, n>> \in cancelled
             /\ \A m \in Try : m # n => try[f][m] \in {"off", "over"}
  <2>1. /\ \A m \in Try : try[f][m] \notin {"off", "over"} =>
             /\ controller[f] = m /\ item[f] \in {"uploading", "error"}
             /\ item[f] = "error" => <<f, m>> \in cancelled
        /\ item[f] \in {"queued", "uploading", "error"} => f \in kept
    BY <1>3 DEF QueueInv, FileInv, OneTry
  <2>2. /\ controller[f] = n /\ item[f] \in {"uploading", "error"} /\ f \in kept
        /\ item[f] = "error" => <<f, n>> \in cancelled
    BY <2>1
  <2>3. ASSUME NEW m \in Try, m # n PROVE try[f][m] \in {"off", "over"}
    BY <2>1, <2>2, <2>3
  <2> QED BY <2>2, <2>3
<1> QED BY <1>1, <1>2, <1>3 DEF QueueInv, FileInv, StoredOnce

\* uploadFile goes on, with the file as it is shown.
LEMMA TryGoesOn ==
  ASSUME QueueInv, NEW f \in File, NEW n \in Try, TryStep(f, n), try[f][n] \notin {"off", "over"},
         NEW to \in {"put", "complete", "abort"}, Move(f, n, to),
         NEW had \in {"none", "open", "ready", "aborted"},
         upload' = [upload EXCEPT ![f][n] = had],
         had = "ready" => upload[f][n] = "ready" \/ f \in unsure',
         unsure' \in {unsure, unsure \cup {f}},
         UNCHANGED <<batch, item, kept, controller, cancelled, hasty>>,
         item[f] = "done" => \E m \in Try : upload'[f][m] = "ready"
  PROVE  QueueInv'
<1> USE DEF Move
<1>1. QueueTyped'
  BY DEF QueueInv, QueueTyped
<1>2. /\ try'[f][n] = to /\ \A m \in Try : m # n => try'[f][m] = try[f][m]
      /\ upload'[f][n] = had /\ \A m \in Try : m # n => upload'[f][m] = upload[f][m]
  BY DEF QueueInv, QueueTyped
<1>3. WaitsForFirst(f)'
  <2>1. batch[f] # 0 /\ item[f] # "queued" /\ try[f][0] # "off"
    BY TryGoing
  <2>2. try'[f][0] # "off"
    BY <1>2, <2>1, FirstTry
  <2> QED BY <2>1, <2>2 DEF WaitsForFirst
<1>4. UploadFollows(f)'
  BY <1>2 DEF QueueInv, FileInv, UploadFollows
<1>5. OneTry(f)'
  BY <1>2, TryGoing DEF QueueInv, FileInv, OneTry
<1>6. StoredOnce(f)'
  BY <1>2, TryGoing DEF QueueInv, FileInv, StoredOnce
<1> QED BY <1>1, <1>3, <1>4, <1>5, <1>6, OneFile DEF FileInv

\* A try is over: the file is shown as done if it was stored, or as failed.
LEMMA TryEnds ==
  ASSUME QueueInv, NEW f \in File, NEW n \in Try, TryStep(f, n), try[f][n] \notin {"off", "over"},
         NEW state \in {"done", "error"}, Shows(f, state), Over(f, n),
         controller' = [controller EXCEPT ![f] = NoTry],
         kept' \subseteq File, kept \ {f} \subseteq kept',
         NEW had \in {"none", "open", "ready", "aborted"},
         upload' = [upload EXCEPT ![f][n] = had],
         unsure' \in {unsure, unsure \cup {f}}, UNCHANGED <<batch, hasty>>,
         had = "open" => f \in unsure',
         state = "done" => upload[f][n] = "open" /\ had = "ready" /\ <<f, n>> \notin cancelled,
         state = "error" => kept' = kept,
         had = "ready" /\ state = "error" => upload[f][n] = "ready" 
  PROVE  QueueInv'
<1> USE DEF Move, Over, Shows
<1>1. QueueTyped'
  BY DEF QueueInv, QueueTyped
<1>2. /\ try'[f][n] = "over" /\ \A m \in Try : m # n => try'[f][m] = try[f][m]
      /\ upload'[f][n] = had /\ \A m \in Try : m # n => upload'[f][m] = upload[f][m]
      /\ controller'[f] = NoTry /\ item'[f] \in {item[f], state}
      /\ item'[f] = IF item[f] = "absent" THEN "absent" ELSE state
      /\ f \in unsure => f \in unsure'
      /\ f \notin hasty => f \in kept
  BY TryGoing DEF QueueInv, QueueTyped
<1>3. WaitsForFirst(f)'
  BY <1>2, TryGoing, FirstTry DEF WaitsForFirst
<1>4. UploadFollows(f)'
  BY <1>2 DEF QueueInv, FileInv, UploadFollows
<1>5. OneTry(f)'
  BY <1>2, TryGoing DEF OneTry
<1>6. StoredOnce(f)'
  BY <1>2, TryGoing DEF QueueInv, FileInv, StoredOnce
<1> QED BY <1>1, <1>3, <1>4, <1>5, <1>6, OneFile DEF FileInv

LEMMA TryStepKeeps ==
  ASSUME QueueInv, NEW f \in File, NEW n \in Try, TryStep(f, n)
  PROVE  QueueInv'
<1> USE DEF Rests, hindsight
<1> DEFINE had == upload[f][n]
<1>1. /\ had \in {"none", "open", "ready", "aborted"}
      /\ upload = [upload EXCEPT ![f][n] = had]
      /\ item[f] = "done" => \E m \in Try : upload[f][m] = "ready"
      /\ kept \subseteq File /\ kept \ {f} \subseteq File
      /\ f \notin unsure /\ had = "open" => try[f][n] \in {"put", "complete", "abort"}
  BY DEF QueueInv, QueueTyped, FileInv, UploadFollows
<1>2. ASSUME NEW to \in {"none", "open", "ready", "aborted"}, upload' = [upload EXCEPT ![f][n] = to],
             had # "ready", item' = item
      PROVE  item'[f] = "done" => \E m \in Try : upload'[f][m] = "ready"
  <2>1. \A m \in Try : m # n => upload'[f][m] = upload[f][m]
    BY <1>2 DEF QueueInv, QueueTyped
  <2> QED BY <1>1, <1>2, <2>1
<1>3. CASE Initiated(f, n)
  <2>1. had = "none"
    BY <1>3 DEF Initiated, QueueInv, FileInv, UploadFollows
  <2> HIDE DEF had
  <2> QED BY <1>1, <1>2, <1>3, <2>1, TryGoesOn DEF Initiated
<1>4. CASE NotInitiated(f, n)
  <2>1. had = "none"
    BY <1>4 DEF NotInitiated, QueueInv, FileInv, UploadFollows
  <2>2. CASE UNCHANGED <<upload, unsure>>
    BY <1>1, <1>4, <2>1, <2>2, TryEnds DEF NotInitiated, Undone
  <2>3. CASE upload' = [upload EXCEPT ![f][n] = "open"] /\ unsure' = unsure \cup {f}
    BY <1>1, <1>4, <2>1, <2>3, TryEnds DEF NotInitiated, Undone
  <2> QED BY <1>4, <2>2, <2>3 DEF NotInitiated
<1>5. CASE PutDone(f, n)
  BY <1>1, <1>5, TryGoesOn DEF PutDone
<1>6. CASE PutFailed(f, n)
  BY <1>1, <1>6, TryGoesOn DEF PutFailed
<1>7. CASE Completed(f, n)
  BY <1>1, <1>7, TryEnds DEF Completed, Complete, Done, Goes
<1>8. CASE NotCompleted(f, n)
  <2>1. CASE UNCHANGED <<upload, unsure>>
    BY <1>1, <1>8, <2>1, TryGoesOn DEF NotCompleted
  <2>2. CASE Complete(f, n) /\ unsure' = unsure \cup {f}
    <3>1. CASE had = "open"
      <4>1. upload' = [upload EXCEPT ![f][n] = "ready"]
        BY <2>2, <3>1 DEF Complete
      <4>2. item[f] = "done" => \E m \in Try : upload'[f][m] = "ready"
        BY <1>1, <1>2, <1>8, <3>1, <4>1 DEF NotCompleted
      <4> QED BY <1>1, <1>8, <2>2, <4>1, <4>2, TryGoesOn DEF NotCompleted
    <3>2. CASE had # "open"
      BY <1>1, <1>8, <2>2, <3>2, TryGoesOn DEF NotCompleted, Complete
    <3> QED BY <3>1, <3>2
  <2> QED BY <1>8, <2>1, <2>2 DEF NotCompleted
<1>9. CASE Aborted(f, n)
  <2>1. CASE had = "open"
    BY <1>1, <1>9, <2>1, TryEnds DEF Aborted, Undone
  <2>2. CASE had # "open"
    BY <1>1, <1>9, <2>2, TryEnds DEF Aborted, Undone
  <2> QED BY <2>1, <2>2
<1>10. CASE NotAborted(f, n)
  BY <1>1, <1>10, TryEnds DEF NotAborted, Undone
<1> QED BY <1>3, <1>4, <1>5, <1>6, <1>7, <1>8, <1>9, <1>10 DEF TryStep

LEMMA QueueStep ==
  ASSUME QueueInv, [QueueNext]_queueVars
  PROVE  QueueInv'
<1>1. ASSUME UNCHANGED queueVars PROVE QueueInv'
  <2>1. \A f \in File : FileSame(f)
    BY <1>1 DEF queueVars, hindsight, FileSame
  <2>2. QueueTyped'
    BY <1>1 DEF queueVars, hindsight, QueueInv, QueueTyped
  <2> QED BY <2>1, <2>2, FileRests DEF QueueInv
<1> QED BY <1>1, AcceptFiles, DoneGo, FirstTryBegins, CancelFile, RetryFile, TryStepKeeps DEF QueueNext

LEMMA QueueAlways == QueueSpec => []QueueInv
<1>1. QueueInv /\ [QueueNext]_queueVars => QueueInv'
  BY QueueStep
<1> QED BY <1>1, QueueStarts, PTL DEF QueueSpec

LEMMA QueueTypesHold == QueueInv => QueueTypeOK
<1>1. ASSUME QueueInv, NEW f \in File \ hasty, controller[f] # NoTry, item[f] # "queued"
      PROVE  controller[f] \in UnderWay(f)
  BY <1>1 DEF QueueInv, FileInv, OneTry, UnderWay
<1> QED BY <1>1 DEF QueueInv, QueueTyped, QueueTypeOK

\* Every part of the queue stays what it is declared to be, and no controller
\* outlives its try: what "cancel" reaches is under way, for any number of
\* files, lanes and tries.
THEOREM QueueTypes == QueueSpec => []QueueTypeOK
BY QueueTypesHold, QueueAlways, PTL

LEMMA LeavesNothing == QueueInv => NothingLeftOpen
<1>1. ASSUME QueueInv, NEW f \in File \ unsure, UnderWay(f) = {}, NEW n \in Try
      PROVE  upload[f][n] # "open"
  <2>1. try[f][n] \in {"off", "over"}
    BY <1>1 DEF UnderWay
  <2> QED BY <1>1, <2>1 DEF QueueInv, FileInv, UploadFollows
<1> QED BY <1>1 DEF NothingLeftOpen

\* Once its tries are over no upload of a file stays open at the server and
\* holds its reservation, wherever it was cancelled or failed.
THEOREM QueueLeavesNothing == QueueSpec => []NothingLeftOpen
BY LeavesNothing, QueueAlways, PTL

LEMMA TellsTruth == QueueInv => ShownIsTrue
<1>1. ASSUME QueueInv, NEW f \in File, item[f] = "done" PROVE Stored(f) # {}
  BY <1>1 DEF QueueInv, FileInv, UploadFollows, Stored
<1>2. ASSUME QueueInv, NEW f \in File, f \notin unsure \cup hasty
      PROVE  /\ Cardinality(Stored(f)) <= 1
             /\ item[f] = "error" => f \in kept /\ Stored(f) = {}
  <2>1. \A n, m \in Stored(f) : n = m
    BY <1>2 DEF QueueInv, FileInv, StoredOnce, Stored
  <2>2. Stored(f) = {} \/ \E n : Stored(f) = {n}
    BY <2>1
  <2>3. Cardinality(Stored(f)) <= 1
    <3>1. CASE Stored(f) = {}
      BY <3>1, FS_EmptySet
    <3>2. ASSUME NEW n, Stored(f) = {n} PROVE Cardinality(Stored(f)) = 1
      BY <3>2, FS_Singleton
    <3> QED BY <2>2, <3>1, <3>2
  <2>4. item[f] = "error" => Stored(f) = {}
    BY <1>2 DEF QueueInv, FileInv, StoredOnce, Stored
  <2>5. item[f] = "error" => f \in kept
    BY <1>2 DEF QueueInv, FileInv, OneTry
  <2> QED BY <2>3, <2>4, <2>5
<1> QED BY <1>1, <1>2 DEF ShownIsTrue

\* What the queue shows of a file is what the server has of it: a file shown as
\* done is stored, and without lost answers and haste it is stored once, and
\* not at all while it is shown as failed.
THEOREM QueueTellsTruth == QueueSpec => []ShownIsTrue
BY TellsTruth, QueueAlways, PTL

-----------------------------------------------------------------------------
(* Sets in their order                                                     *)

LEMMA UpToNumber ==
  ASSUME NEW n \in Nat
  PROVE  IsFiniteSet(1..n) /\ Cardinality(1..n) = n
BY FS_Interval

LEMMA FiniteNumbers ==
  ASSUME NEW n \in Nat, NEW S \in SUBSET (1..n)
  PROVE  /\ IsFiniteSet(S) /\ Cardinality(S) \in Nat /\ Cardinality(S) <= n
         /\ S \subseteq Nat
<1>1. IsFiniteSet(1..n) /\ Cardinality(1..n) = n
  BY UpToNumber
<1>2. IsFiniteSet(S) /\ Cardinality(S) <= n
  BY <1>1, FS_Subset
<1>3. Cardinality(S) \in Nat
  BY <1>2, FS_CardinalityType
<1>4. S \subseteq Nat
  OBVIOUS
<1> QED BY <1>2, <1>3, <1>4

\* R orders S.
Orders(R, S) ==
  /\ \A i \in S : <<i, i>> \in R
  /\ \A i, j \in S : <<i, j>> \in R \/ <<j, i>> \in R
  /\ \A i, j \in S : <<i, j>> \in R /\ <<j, i>> \in R => i = j
  /\ \A i, j, k \in S : <<i, j>> \in R /\ <<j, k>> \in R => <<i, k>> \in R

UpTo(R, S, i) == {j \in S : <<j, i>> \in R}

\* An element has less elements up to itself than one that comes after it.
LEMMA MoreUpTo ==
  ASSUME NEW S, IsFiniteSet(S), NEW R, Orders(R, S), NEW i \in S, NEW j \in S
  PROVE  /\ IsFiniteSet(UpTo(R, S, i)) /\ Cardinality(UpTo(R, S, i)) \in 1..Cardinality(S)
         /\ Cardinality(S) \in Nat
         /\ <<i, j>> \in R => Cardinality(UpTo(R, S, i)) <= Cardinality(UpTo(R, S, j))
         /\ <<i, j>> \in R /\ i # j => Cardinality(UpTo(R, S, i)) < Cardinality(UpTo(R, S, j))
<1> DEFINE I == UpTo(R, S, i)
           J == UpTo(R, S, j)
<1>1. I \in SUBSET S /\ J \in SUBSET S /\ i \in I /\ j \in J
  BY DEF UpTo, Orders
<1>2. <<i, j>> \in R => I \in SUBSET J
  BY DEF UpTo, Orders
<1>3. <<i, j>> \in R /\ i # j => j \notin I
  BY DEF UpTo, Orders
<1> HIDE DEF I, J
<1>4. IsFiniteSet(I) /\ IsFiniteSet(J) /\ Cardinality(I) <= Cardinality(S)
  BY <1>1, FS_Subset
<1>5. Cardinality(I) \in Nat /\ Cardinality(J) \in Nat /\ Cardinality(S) \in Nat
  BY <1>4, FS_CardinalityType
<1>6. Cardinality(I) # 0
  BY <1>1, <1>4, FS_EmptySet
<1>7. <<i, j>> \in R => Cardinality(I) <= Cardinality(J)
  BY <1>2, <1>4, FS_Subset
<1>8. <<i, j>> \in R /\ i # j => Cardinality(J) # Cardinality(I)
  BY <1>1, <1>2, <1>3, <1>4, FS_Subset
<1> QED BY <1>4, <1>5, <1>6, <1>7, <1>8 DEF I, J

\* So the elements of a finite set can be counted in their order.
LEMMA Counted ==
  ASSUME NEW S, IsFiniteSet(S), NEW R, Orders(R, S), NEW k \in 1..Cardinality(S)
  PROVE  \E i \in S : Cardinality(UpTo(R, S, i)) = k
<1> DEFINE n == Cardinality(S)
           rank == [i \in S |-> Cardinality(UpTo(R, S, i))]
<1>1. n \in Nat
  BY FS_CardinalityType
<1>2. rank \in [S -> 1..n]
  BY MoreUpTo
<1>3. ASSUME NEW i \in S, NEW j \in S, rank[i] = rank[j] PROVE i = j
  <2>1. SUFFICES ASSUME i # j PROVE FALSE
    OBVIOUS
  <2>2. rank[i] \in 1..n /\ rank[j] \in 1..n
    BY <1>2
  <2>3. CASE <<i, j>> \in R
    BY <1>3, <2>1, <2>2, <2>3, MoreUpTo
  <2>4. CASE <<j, i>> \in R
    BY <1>3, <2>1, <2>2, <2>4, MoreUpTo
  <2> QED BY <2>3, <2>4 DEF Orders
<1> HIDE DEF n, rank
<1>4. rank \in Injection(S, 1..n)
  BY <1>2, <1>3 DEF Injection, IsInjective
<1>5. IsFiniteSet(1..n) /\ Cardinality(1..n) = n
  BY <1>1, FS_Interval
<1>6. rank \in Surjection(S, 1..n)
  BY <1>4, <1>5, FS_Injection DEF n
<1>7. \E i \in S : rank[i] = k
  BY <1>6 DEF Surjection, n
<1> QED BY <1>7 DEF rank

Up   == {p \in Nat \X Nat : p[1] <= p[2]}
Down == {p \in Nat \X Nat : p[1] >= p[2]}

LEMMA UpDownOrder ==
  ASSUME NEW S \in SUBSET Nat
  PROVE  /\ Orders(Up, S) /\ \A i \in S : UpTo(Up, S, i) = {j \in S : j <= i}
         /\ Orders(Down, S) /\ \A i \in S : UpTo(Down, S, i) = {j \in S : j >= i}
<1>1. \A i, j \in S : <<i, j>> \in Up <=> i <= j
  BY DEF Up
<1>2. \A i, j \in S : <<i, j>> \in Down <=> i >= j
  BY DEF Down
<1>3. Orders(Up, S) /\ \A i \in S : UpTo(Up, S, i) = {j \in S : j <= i}
  <2>1. \A i \in S : UpTo(Up, S, i) = {j \in S : j <= i}
    BY <1>1 DEF UpTo
  <2>2. \A i, j \in S : i \in Nat /\ j \in Nat
    OBVIOUS
  <2>3. \A i, j, k \in S : i <= j /\ j <= k => i <= k
    BY <2>2
  <2>4. \A i, j \in S : (i <= j \/ j <= i) /\ i <= i /\ (i <= j /\ j <= i => i = j)
    BY <2>2
  <2> QED BY <1>1, <2>1, <2>3, <2>4 DEF Orders
<1>4. Orders(Down, S) /\ \A i \in S : UpTo(Down, S, i) = {j \in S : j >= i}
  <2>1. \A i \in S : UpTo(Down, S, i) = {j \in S : j >= i}
    BY <1>2 DEF UpTo
  <2>2. \A i, j \in S : i \in Nat /\ j \in Nat
    OBVIOUS
  <2>3. \A i, j, k \in S : i >= j /\ j >= k => i >= k
    BY <2>2
  <2>4. \A i, j \in S : (i >= j \/ j >= i) /\ i >= i /\ (i >= j /\ j >= i => i = j)
    BY <2>2
  <2> QED BY <1>2, <2>1, <2>3, <2>4 DEF Orders
<1> QED BY <1>3, <1>4

Descends(s) == \A k, l \in 1..Len(s) : k < l => s[k] > s[l]


\* The newest of a set: in descending order, and whoever is not among them is
\* older than all, and then there are as many as asked for.
LEMMA NewestOfSet ==
  ASSUME NEW S, IsFiniteSet(S), S \subseteq Nat, NEW n \in Nat \ {0}
  PROVE  /\ Newest(S, n) \in Seq(S) /\ Len(Newest(S, n)) \in 0..n /\ Descends(Newest(S, n))
         /\ \A i \in S : \/ i \in ToSet(Newest(S, n))
                         \/ /\ Len(Newest(S, n)) = n
                            /\ \A k \in 1..n : i < Newest(S, n)[k]
<1> DEFINE all == Cardinality(S)
           few == IF n < all THEN n ELSE all
           r(i) == Cardinality(UpTo(Down, S, i))
           pick(k) == CHOOSE i \in S : Cardinality({j \in S : j >= i}) = k
           q == Newest(S, n)
<1>1. IsFiniteSet(S) /\ all \in Nat /\ S \subseteq Nat
  BY FS_CardinalityType
<1>2. Orders(Down, S) /\ \A i \in S : UpTo(Down, S, i) = {j \in S : j >= i}
  BY <1>1, UpDownOrder
<1>3. few \in 0..n /\ few <= all /\ (few = n \/ few = all)
  BY <1>1
<1>4. q = [k \in 1..few |-> pick(k)]
  BY DEF Newest
<1>5. \A i \in S : r(i) = Cardinality({j \in S : j >= i})
  BY <1>2
<1>6. ASSUME NEW k \in 1..all PROVE pick(k) \in S /\ r(pick(k)) = k
  <2>1. \E i \in S : r(i) = k
    <3>1. \A l \in 1..Cardinality(S) : \E i \in S : Cardinality(UpTo(Down, S, i)) = l
      <4> HIDE DEF all, few, r, pick, q
      <4>1. IsFiniteSet(S) /\ Orders(Down, S)
        BY <1>1, <1>2
      <4> QED BY ONLY <4>1, Counted
    <3> QED BY <3>1
  <2>2. \E i \in S : Cardinality({j \in S : j >= i}) = k
    BY <1>5, <2>1
  <2>3. pick(k) \in S /\ Cardinality({j \in S : j >= pick(k)}) = k
    BY <2>2
  <2> QED BY <1>5, <2>3
<1>7. \A i \in S : r(i) \in 1..all
  BY <1>1, <1>2, MoreUpTo
<1>8. \A i, j \in S : i >= j => r(i) <= r(j)
  <2>1. \A i, j \in S : i >= j => <<i, j>> \in Down
    BY <1>1 DEF Down
  <2> QED BY <1>1, <1>2, <2>1, MoreUpTo
<1>9. \A i, j \in S : r(i) = r(j) => i = j
  <2>1. SUFFICES ASSUME NEW i \in S, NEW j \in S, r(i) = r(j), i # j PROVE FALSE
    OBVIOUS
  <2>2. r(i) \in Nat /\ r(j) \in Nat
    BY <1>7
  <2>3. <<i, j>> \in Down => r(i) < r(j)
    BY <1>1, <1>2, <2>1, MoreUpTo
  <2>4. <<j, i>> \in Down => r(j) < r(i)
    BY <1>1, <1>2, <2>1, MoreUpTo
  <2> QED BY <1>2, <2>1, <2>2, <2>3, <2>4 DEF Orders
<1> HIDE DEF all, few, r, pick, q
<1>10. \A k \in 1..few : k \in 1..all
  BY <1>1, <1>3
<1>11. q \in Seq(S) /\ Len(q) = few /\ DOMAIN q = 1..few /\ \A k \in 1..few : q[k] \in S /\ r(q[k]) = k
  <2>1. q \in [1..few -> S] /\ few \in Nat
    BY <1>3, <1>4, <1>6, <1>10
  <2> QED BY <1>4, <1>6, <1>10, <2>1
<1>12. Descends(q)
  <2>1. SUFFICES ASSUME NEW k \in 1..few, NEW l \in 1..few, k < l PROVE q[k] > q[l]
    BY <1>11 DEF Descends
  <2>2. q[k] \in Nat /\ q[l] \in Nat /\ few \in Nat
    BY <1>1, <1>3, <1>11
  <2>3. ~(q[l] >= q[k])
    BY <1>8, <1>11, <2>1, <2>2
  <2> QED BY <2>2, <2>3
<1>13. ASSUME NEW i \in S, i \notin ToSet(q)
       PROVE  few = n /\ \A k \in 1..n : i < q[k]
  <2>1. r(i) \notin 1..few
    BY <1>9, <1>11, <1>13 DEF ToSet
  <2>2. r(i) \in Nat /\ r(i) > few /\ few = n
    BY <1>1, <1>3, <1>7, <2>1
  <2>3. ASSUME NEW k \in 1..n PROVE i < q[k]
    <3>1. q[k] \in S /\ r(q[k]) = k /\ k <= few
      BY <1>3, <1>11, <2>2
    <3>2. i \in Nat /\ q[k] \in Nat /\ few \in Nat
      BY <1>1, <1>3, <3>1
    <3>3. i >= q[k] => r(i) <= k
      BY <1>8, <3>1
    <3>4. ~(i >= q[k])
      BY <2>2, <3>1, <3>2, <3>3
    <3> QED BY <3>2, <3>4
  <2> QED BY <2>2, <2>3
<1> QED BY <1>3, <1>11, <1>12, <1>13 DEF q

\* Each place in a finite set of numbers is taken by one of them.
LEMMA CountedNumbers ==
  ASSUME NEW T \in SUBSET Nat, IsFiniteSet(T), NEW k \in 1..Cardinality(T)
  PROVE  \E i \in T : Cardinality({j \in T : j <= i}) = k
<1>1. Orders(Up, T)
  BY UpDownOrder
<1>2. \A i \in T : UpTo(Up, T, i) = {j \in T : j <= i}
  BY UpDownOrder
<1>3. PICK i \in T : Cardinality(UpTo(Up, T, i)) = k
  BY <1>1, Counted
<1>4. Cardinality({j \in T : j <= i}) = k
  BY <1>2, <1>3, Zenon
<1> QED BY <1>4

\* A list without some items has all the others, in their order.
LEMMA WithoutItems ==
  ASSUME NEW s \in Seq(Nat), NEW S
  PROVE  /\ Without(s, S) \in Seq(ToSet(s) \ S)
         /\ Len(Without(s, S)) \in 0..Len(s)
         /\ ToSet(Without(s, S)) = ToSet(s) \ S
         /\ Descends(s) => Descends(Without(s, S))
<1> DEFINE staying == {k \in DOMAIN s : s[k] \notin S}
           all == Cardinality(staying)
           r(i) == Cardinality(UpTo(Up, staying, i))
           pos(k) == CHOOSE i \in staying : Cardinality({j \in staying : j <= i}) = k
           w == Without(s, S)
<1>1. Len(s) \in Nat /\ DOMAIN s = 1..Len(s) /\ staying \in SUBSET (1..Len(s))
  BY LenProperties
<1>2. IsFiniteSet(staying) /\ all \in Nat /\ all <= Len(s) /\ staying \subseteq Nat
  BY <1>1, FiniteNumbers
<1>3. Orders(Up, staying) /\ \A i \in staying : UpTo(Up, staying, i) = {j \in staying : j <= i}
  BY <1>2, UpDownOrder
<1>4. w = [k \in 1..all |-> s[pos(k)]]
  BY DEF Without
<1>5. \A i \in staying : r(i) = Cardinality({j \in staying : j <= i})
  BY <1>3
<1>6. ASSUME NEW k \in 1..all PROVE pos(k) \in staying /\ r(pos(k)) = k
  <2>1. \E i \in staying : Cardinality({j \in staying : j <= i}) = k
    BY <1>2, CountedNumbers
  <2>2. pos(k) \in staying /\ Cardinality({j \in staying : j <= pos(k)}) = k
    BY <2>1
  <2> QED BY <1>5, <2>2
<1>7. \A i \in staying : r(i) \in 1..all
  BY <1>2, <1>3, MoreUpTo
<1>8. \A i, j \in staying : i <= j => r(i) <= r(j)
  <2>1. \A i, j \in staying : i <= j => <<i, j>> \in Up
    BY <1>2 DEF Up
  <2> QED BY <1>2, <1>3, <2>1, MoreUpTo
<1>9. \A i, j \in staying : r(i) = r(j) => i = j
  <2>1. SUFFICES ASSUME NEW i \in staying, NEW j \in staying, r(i) = r(j), i # j PROVE FALSE
    OBVIOUS
  <2>2. r(i) \in Nat /\ r(j) \in Nat
    BY <1>7
  <2>3. <<i, j>> \in Up => r(i) < r(j)
    BY <1>2, <1>3, <2>1, MoreUpTo
  <2>4. <<j, i>> \in Up => r(j) < r(i)
    BY <1>2, <1>3, <2>1, MoreUpTo
  <2> QED BY <1>3, <2>1, <2>2, <2>3, <2>4 DEF Orders
<1>10. \A i \in staying : i \in 1..Len(s) /\ s[i] \notin S /\ s[i] \in ToSet(s) /\ s[i] \in Nat
  BY <1>1, ElementOfSeq DEF ToSet
<1>11. \A i \in 1..Len(s) : s[i] \notin S => i \in staying
  BY <1>1
<1> HIDE DEF staying, all, r, pos, w
<1>12. /\ w \in Seq(ToSet(s) \ S) /\ Len(w) = all /\ DOMAIN w = 1..all
       /\ \A k \in 1..all : w[k] = s[pos(k)]
  <2>1. w \in [1..all -> ToSet(s) \ S]
    BY <1>4, <1>6, <1>10
  <2> QED BY <1>2, <1>4, <2>1
<1>13. ToSet(w) = ToSet(s) \ S
  <2>1. ToSet(w) \subseteq ToSet(s) \ S
    BY <1>6, <1>10, <1>12 DEF ToSet
  <2>2. ASSUME NEW x \in ToSet(s), x \notin S PROVE x \in ToSet(w)
    <3>1. PICK i \in 1..Len(s) : x = s[i]
      BY <1>1 DEF ToSet
    <3>2. i \in staying
      BY <1>11, <2>2, <3>1
    <3>3. r(i) \in 1..all /\ pos(r(i)) = i
      BY <1>6, <1>7, <1>9, <3>2
    <3> QED BY <1>12, <3>1, <3>3 DEF ToSet
  <2> QED BY <2>1, <2>2
<1>14. ASSUME Descends(s) PROVE Descends(w)
  <2>1. SUFFICES ASSUME NEW k \in 1..all, NEW l \in 1..all, k < l PROVE w[k] > w[l]
    BY <1>12 DEF Descends
  <2>2. pos(k) \in staying /\ pos(l) \in staying /\ r(pos(k)) = k /\ r(pos(l)) = l
    BY <1>6
  <2>3. ~(pos(l) <= pos(k))
    <3>1. pos(l) <= pos(k) => r(pos(l)) <= r(pos(k))
      BY <1>8, <2>2
    <3> QED BY <1>2, <2>1, <2>2, <3>1
  <2>4. pos(k) \in 1..Len(s) /\ pos(l) \in 1..Len(s) /\ pos(k) < pos(l)
    BY <1>10, <2>2, <2>3
  <2>5. s[pos(k)] > s[pos(l)]
    BY <1>14, <2>4 DEF Descends
  <2> QED BY <1>12, <2>5
<1> QED BY <1>2, <1>12, <1>13, <1>14 DEF w

-----------------------------------------------------------------------------
(* The gallery's walk                                                      *)

PageRecord == [items : Seq(Item), next : {NoCursor} \cup Item, more : BOOLEAN]
CallRecord == [kind : {"load", "more", "refresh"}, from : {NoCursor} \cup Item, n : 0..Clicks,
               answered : BOOLEAN, page : PageRecord]

\* An answer is a page: newest first, full if there is more, and then continued
\* after its last item.
PageWell(p) ==
  /\ p \in PageRecord /\ Len(p.items) <= PageSize /\ Descends(p.items)
  /\ p.more => Len(p.items) = PageSize /\ p.next = p.items[PageSize]
  /\ ~p.more => p.next = NoCursor

CallWell(c) ==
  /\ c \in CallRecord /\ PageWell(c.page)
  /\ ~c.answered => (c.kind = "more" <=> c.from # NoCursor)

\* What is there, whether or not an answer met a list it was not made for.
PageKept ==
  /\ status \in [Item -> {"pending", "ready", "deleted"}]
  /\ steady \subseteq Item /\ removing \subseteq Item
  /\ shown \in Seq(Item)
  /\ cursor \in {NoCursor} \cup Item /\ (hasMore <=> cursor # NoCursor) /\ hasMore \in BOOLEAN
  /\ pastFirst \in BOOLEAN /\ refreshing \in BOOLEAN /\ orderly \in BOOLEAN
  /\ \A c \in calls : CallWell(c)
  /\ ~pastFirst => Len(shown) <= PageSize
  /\ \A i \in steady : status[i] = "ready"
  /\ \A i \in removing : status[i] = "deleted"

\* An item of the set S is missed by a list that goes on, if it does, at the
\* cursor "from".
Misses(S, list, goesOn, from) == \E i \in S : i \notin ToSet(list) /\ ~(goesOn /\ i < from)

\* A page from the top misses nothing; one that was asked for further down goes
\* on where the list that is shown may end.
CallFits(c) ==
  IF c.kind # "more" THEN c.answered => ~Misses(steady, c.page.items, c.page.more, c.page.next)
  ELSE IF c.answered
       THEN /\ \A i \in ToSet(shown), j \in ToSet(c.page.items) : i > j
            /\ ~Misses(steady \ ToSet(shown), c.page.items, c.page.more, c.page.next)
       ELSE (\A i \in ToSet(shown) : c.from <= i) /\ ~Misses(steady, shown, TRUE, c.from)

\* The list that is shown and the pages under way fit, as long as every answer
\* met the list it was made for.
WalkFits ==
  /\ Descends(shown)
  /\ shown # <<>> => ~Misses(steady, shown, hasMore, cursor)
  /\ hasMore => \A i \in ToSet(shown) : cursor <= i
  /\ \A c \in calls : CallFits(c)

WalkInv == PageKept /\ (orderly => WalkFits)

LEMMA InItems ==
  ASSUME NEW s \in Seq(Item)
  PROVE  /\ Len(s) \in Nat /\ DOMAIN s = 1..Len(s) /\ s \in Seq(Nat)
         /\ \A k \in 1..Len(s) : s[k] \in Item /\ s[k] \in Nat /\ s[k] \in ToSet(s)
         /\ ToSet(s) \subseteq Item /\ ToSet(s) \subseteq Nat
         /\ \A x \in ToSet(s) : \E k \in 1..Len(s) : x = s[k]
<1>1. Item \subseteq Nat
  BY DEF Item
<1>2. Len(s) \in Nat /\ DOMAIN s = 1..Len(s) /\ \A k \in 1..Len(s) : s[k] \in Item
  BY LenProperties, ElementOfSeq
<1>3. s \in Seq(Nat)
  BY <1>1, SeqMonotonic
<1> QED BY <1>1, <1>2, <1>3 DEF ToSet

\* A page is in order, holds what is listed at its cursor, and misses nothing
\* of it.
LEMMA PageIsWell ==
  ASSUME NEW c \in {NoCursor} \cup Item
  PROVE  /\ PageWell(Page(c))
         /\ ToSet(Page(c).items) \subseteq Listed(c)
         /\ ~Misses(Listed(c), Page(c).items, Page(c).more, Page(c).next)
<1> DEFINE found == Newest(Listed(c), PageSize + 1)
           more  == Len(found) > PageSize
           items == IF more THEN Front(found) ELSE found
           next  == IF more THEN Last(items) ELSE NoCursor
<1>1. Page(c) = [items |-> items, next |-> next, more |-> more]
  BY DEF Page
<1>2. PageSize \in Nat \ {0} /\ PageSize + 1 \in Nat \ {0} /\ Items \in Nat
  BY GalleryBounds
<1>3. Listed(c) \subseteq Item /\ Listed(c) \in SUBSET (1..Items)
  BY DEF Listed, Item
<1>4. IsFiniteSet(Listed(c)) /\ Listed(c) \subseteq Nat
  BY <1>2, <1>3, FiniteNumbers
<1>5. /\ found \in Seq(Listed(c)) /\ Len(found) \in 0..(PageSize + 1) /\ Descends(found)
      /\ \A i \in Listed(c) : \/ i \in ToSet(found)
                              \/ /\ Len(found) = PageSize + 1
                                 /\ \A k \in 1..(PageSize + 1) : i < found[k]
  BY <1>2, <1>4, NewestOfSet
<1> HIDE DEF found
<1>6. /\ found \in Seq(Item) /\ DOMAIN found = 1..Len(found)
      /\ \A k \in 1..Len(found) : found[k] \in Listed(c) /\ found[k] \in Item /\ found[k] \in Nat
  BY <1>3, <1>4, <1>5, SeqMonotonic, LenProperties, ElementOfSeq
<1>7. /\ items \in Seq(Item) /\ Len(items) = IF more THEN PageSize ELSE Len(found)
      /\ \A k \in 1..Len(items) : items[k] = found[k]
  <2>1. CASE more
    <3>1. Len(found) = PageSize + 1 /\ Len(found) - 1 = PageSize
      BY <1>2, <1>5, <2>1
    <3>2. items = SubSeq(found, 1, PageSize)
      BY <2>1, <3>1 DEF Front
    <3>3. \A k \in 1..PageSize : found[k] \in Item
      BY <1>2, <1>6, <3>1
    <3>4. /\ SubSeq(found, 1, PageSize) \in Seq(Item)
          /\ Len(SubSeq(found, 1, PageSize)) = IF 1 <= PageSize THEN PageSize - 1 + 1 ELSE 0
          /\ \A k \in 1..(PageSize - 1 + 1) : SubSeq(found, 1, PageSize)[k] = found[1 + k - 1]
      BY <1>2, <3>3, SubSeqProperties
    <3>5. Len(items) = PageSize
      BY <1>2, <3>2, <3>4
    <3>6. ASSUME NEW k \in 1..PageSize PROVE items[k] = found[k]
      <4>1. k \in 1..(PageSize - 1 + 1) /\ 1 + k - 1 = k
        BY <1>2
      <4> QED BY <3>2, <3>4, <4>1
    <3> QED BY <2>1, <3>2, <3>4, <3>5, <3>6
  <2>2. CASE ~more
    BY <1>6, <2>2
  <2> QED BY <2>1, <2>2
<1>8. Len(items) \in 0..PageSize /\ Len(items) <= Len(found) /\ (more => Len(items) = PageSize)
  BY <1>2, <1>5, <1>7
<1>9. more => next = items[PageSize]
  BY <1>8 DEF Last
<1>10. ~more => next = NoCursor
  OBVIOUS
<1> HIDE DEF items, next
<1>11. \A k \in 1..Len(items) : k \in 1..Len(found)
  BY <1>5, <1>8
<1>12. Descends(items)
  BY <1>7, <1>11, <1>5 DEF Descends
<1>13. ToSet(items) \subseteq Listed(c)
  <2>1. SUFFICES ASSUME NEW x \in ToSet(items) PROVE x \in Listed(c)
    OBVIOUS
  <2>2. PICK k \in 1..Len(items) : x = items[k]
    BY <1>7, <2>1, InItems
  <2> QED BY <1>6, <1>7, <1>11, <2>2
<1>14. ASSUME NEW i \in Listed(c), i \notin ToSet(items) PROVE more /\ i < next
  <2>1. i \in Nat /\ i \in Item
    BY <1>3, <1>4
  <2>2. CASE i \in ToSet(found)
    <3>1. PICK k \in 1..Len(found) : i = found[k]
      BY <1>6, <2>2 DEF ToSet
    <3>2. ~(k <= Len(items))
      <4>1. SUFFICES ASSUME k <= Len(items) PROVE FALSE
        OBVIOUS
      <4>2. k \in 1..Len(items)
        BY <1>8, <4>1
      <4> QED BY <1>7, <1>14, <3>1, <4>2, InItems
    <3>3. more
      BY <1>5, <1>7, <3>1, <3>2
    <3>4. PageSize \in 1..Len(found) /\ PageSize < k /\ PageSize \in 1..Len(items)
      BY <1>2, <1>5, <1>8, <3>1, <3>2, <3>3
    <3>5. found[PageSize] > i
      BY <1>5, <3>1, <3>4 DEF Descends
    <3>6. next = found[PageSize] /\ found[PageSize] \in Nat
      BY <1>6, <1>7, <1>9, <3>3, <3>4
    <3> QED BY <2>1, <3>3, <3>5, <3>6
  <2>3. CASE i \notin ToSet(found)
    <3>1. Len(found) = PageSize + 1 /\ \A k \in 1..(PageSize + 1) : i < found[k]
      BY <1>5, <2>3
    <3>2. more /\ PageSize \in 1..(PageSize + 1) /\ PageSize \in 1..Len(items)
      BY <1>2, <1>8, <3>1
    <3> QED BY <1>7, <1>9, <3>1, <3>2
  <2> QED BY <2>2, <2>3
<1>15. more \in BOOLEAN
  OBVIOUS
<1> HIDE DEF more
<1>19. Page(c) = [items |-> items, next |-> next, more |-> more]
  BY <1>1
<1>16. Page(c).items = items /\ Page(c).more = more /\ Page(c).next = next
  BY <1>19
<1>18. next \in {NoCursor} \cup Item
  <2>1. more => PageSize \in 1..Len(items)
    BY <1>2, <1>8
  <2> QED BY <1>7, <1>9, <1>10, <2>1, InItems
<1>17. PageWell(Page(c))
  BY <1>2, <1>7, <1>8, <1>9, <1>10, <1>12, <1>15, <1>16, <1>18, <1>19 DEF PageWell, PageRecord
<1> QED BY <1>13, <1>14, <1>16, <1>17 DEF Misses

LEMMA Joins ==
  ASSUME NEW s \in Seq(Item), NEW t \in Seq(Item)
  PROVE  /\ s \o t \in Seq(Item) /\ Len(s \o t) = Len(s) + Len(t)
         /\ ToSet(s \o t) = ToSet(s) \cup ToSet(t)
         /\ Descends(s) /\ Descends(t) /\ (\A i \in ToSet(s), j \in ToSet(t) : i > j)
              => Descends(s \o t)
<1> DEFINE st == s \o t
<1>1. /\ st \in Seq(Item) /\ Len(st) = Len(s) + Len(t)
      /\ \A i \in 1..(Len(s) + Len(t)) : st[i] = IF i <= Len(s) THEN s[i] ELSE t[i - Len(s)]
  BY ConcatProperties
<1> HIDE DEF st
<1>2. /\ Len(s) \in Nat /\ Len(t) \in Nat
      /\ DOMAIN st = 1..Len(st) /\ DOMAIN s = 1..Len(s) /\ DOMAIN t = 1..Len(t)
  BY <1>1, InItems
<1>3. \A i \in 1..Len(s) : i \in 1..Len(st) /\ st[i] = s[i]
  BY <1>1, <1>2
<1>4. \A i \in 1..Len(t) : Len(s) + i \in 1..Len(st) /\ st[Len(s) + i] = t[i]
  <2>1. SUFFICES ASSUME NEW i \in 1..Len(t) PROVE Len(s) + i \in 1..Len(st) /\ st[Len(s) + i] = t[i]
    OBVIOUS
  <2>2. /\ Len(s) + i \in 1..(Len(s) + Len(t)) /\ ~(Len(s) + i <= Len(s))
        /\ (Len(s) + i) - Len(s) = i
    BY <1>2
  <2> QED BY <1>1, <2>2
<1>5. \A i \in 1..Len(st) :
        \/ i \in 1..Len(s)
        \/ i - Len(s) \in 1..Len(t) /\ st[i] = t[i - Len(s)] /\ i > Len(s)
  BY <1>1, <1>2
<1>6. ToSet(st) = ToSet(s) \cup ToSet(t)
  <2>1. ToSet(s) \subseteq ToSet(st) /\ ToSet(t) \subseteq ToSet(st)
    BY <1>2, <1>3, <1>4 DEF ToSet
  <2>2. ASSUME NEW x \in ToSet(st) PROVE x \in ToSet(s) \cup ToSet(t)
    <3>1. PICK i \in 1..Len(st) : x = st[i]
      BY <1>1, <2>2, InItems
    <3> QED BY <1>2, <1>3, <1>5, <3>1, InItems
  <2> QED BY <2>1, <2>2
<1>7. ASSUME Descends(s), Descends(t), \A i \in ToSet(s), j \in ToSet(t) : i > j,
             NEW k \in 1..Len(st), NEW l \in 1..Len(st), k < l
      PROVE  st[k] > st[l]
  <2>1. CASE l \in 1..Len(s)
    <3>1. k \in 1..Len(s)
      BY <1>2, <1>7, <2>1
    <3> QED BY <1>3, <1>7, <2>1, <3>1 DEF Descends
  <2>2. CASE k \in 1..Len(s) /\ l \notin 1..Len(s)
    <3>1. st[k] = s[k] /\ s[k] \in ToSet(s)
      BY <1>3, <2>2, InItems
    <3>2. st[l] = t[l - Len(s)] /\ t[l - Len(s)] \in ToSet(t)
      BY <1>5, <2>2, InItems
    <3> QED BY <1>7, <3>1, <3>2
  <2>3. CASE k \notin 1..Len(s)
    <3>1. l \notin 1..Len(s)
      BY <1>2, <1>7, <2>3
    <3>2. /\ k - Len(s) \in 1..Len(t) /\ st[k] = t[k - Len(s)]
          /\ l - Len(s) \in 1..Len(t) /\ st[l] = t[l - Len(s)] /\ k - Len(s) < l - Len(s)
      BY <1>2, <1>5, <1>7, <2>3, <3>1
    <3> QED BY <1>7, <3>2 DEF Descends
  <2> QED BY <2>1, <2>2, <2>3
<1> QED BY <1>1, <1>6, <1>7 DEF Descends, st

LEMMA EmptyList ==
  ASSUME NEW s \in Seq(Item)
  PROVE  (s = <<>> <=> Len(s) = 0) /\ (s = <<>> <=> ToSet(s) = {})
<1>1. Len(s) = 0 <=> s = <<>>
  BY EmptySeq
<1>2. Len(s) # 0 => 1 \in 1..Len(s)
  BY InItems
<1>3. ToSet(s) # {} => Len(s) # 0
  BY InItems
<1> QED BY <1>1, <1>2, <1>3, InItems

LEMMA WhatIsBehind ==
  ASSUME shown \in Seq(Item)
  PROVE  /\ Behind \in Seq(Item)
         /\ ToSet(Behind) \subseteq ToSet(shown)
         /\ \A k \in 1..Len(shown) : k > PageSize => shown[k] \in ToSet(Behind)
         /\ Descends(shown) => Descends(Behind)
<1> DEFINE n == Len(shown)
<1>1. n \in Nat /\ PageSize \in Nat \ {0} /\ PageSize + 1 \in Int /\ n \in Int
  BY GalleryBounds, InItems
<1>2. \A k \in (PageSize + 1)..n : shown[k] \in Item
  BY <1>1, InItems
<1>3. /\ Behind \in Seq(Item)
      /\ Len(Behind) = IF PageSize + 1 <= n THEN n - (PageSize + 1) + 1 ELSE 0
      /\ \A k \in 1..(n - (PageSize + 1) + 1) : Behind[k] = shown[PageSize + 1 + k - 1]
  BY <1>1, <1>2, SubSeqProperties DEF Behind
<1> HIDE DEF n
<1>4. Len(Behind) = IF PageSize < n THEN n - PageSize ELSE 0
  BY <1>1, <1>3
<1>5. \A k \in 1..Len(Behind) : PageSize + k \in 1..n /\ Behind[k] = shown[PageSize + k]
  <2>1. ASSUME NEW k \in 1..Len(Behind)
        PROVE  /\ k \in 1..(n - (PageSize + 1) + 1)
               /\ PageSize + 1 + k - 1 = PageSize + k
               /\ PageSize + k \in 1..n
    BY <1>1, <1>4
  <2> QED BY <1>3, <2>1
<1>6. ToSet(Behind) \subseteq ToSet(shown)
  <2>1. SUFFICES ASSUME NEW x \in ToSet(Behind) PROVE x \in ToSet(shown)
    OBVIOUS
  <2>2. PICK k \in 1..Len(Behind) : x = Behind[k]
    BY <1>3, <2>1, InItems
  <2> QED BY <1>5, <2>2, InItems DEF n
<1>7. ASSUME NEW k \in 1..n, k > PageSize PROVE shown[k] \in ToSet(Behind)
  <2>1. k - PageSize \in 1..Len(Behind) /\ PageSize + (k - PageSize) = k
    BY <1>1, <1>4, <1>7
  <2>2. Behind[k - PageSize] = shown[k]
    BY <1>5, <2>1
  <2> QED BY <1>3, <2>1, <2>2, InItems
<1>8. ASSUME Descends(shown), NEW k \in 1..Len(Behind), NEW l \in 1..Len(Behind), k < l
      PROVE  Behind[k] > Behind[l]
  <2>1. PageSize + k \in 1..n /\ PageSize + l \in 1..n /\ PageSize + k < PageSize + l
    BY <1>1, <1>5, <1>8
  <2> QED BY <1>5, <1>8, <2>1 DEF Descends, n
<1> QED BY <1>3, <1>6, <1>7, <1>8 DEF Descends, n

LEMMA WhatIsMerged ==
  ASSUME shown \in Seq(Item), NEW items \in Seq(Item)
  PROVE  /\ Merged(items) \in Seq(Item)
         /\ ToSet(items) \subseteq ToSet(Merged(items))
         /\ ToSet(Merged(items)) \subseteq ToSet(items) \cup ToSet(shown)
         /\ Len(shown) <= PageSize => Merged(items) = items
         /\ \A k \in 1..Len(shown) : k > PageSize => shown[k] \in ToSet(Merged(items))
         /\ /\ Descends(shown) /\ Descends(items)
            /\ Len(shown) > PageSize =>
                 \A i \in ToSet(Behind) \ ToSet(items), j \in ToSet(items) : ~(i > j)
            => Descends(Merged(items))
<1> DEFINE rest == Without(Behind, ToSet(items))
<1>1. Len(shown) \in Nat /\ PageSize \in Nat
  BY GalleryBounds, InItems
<1>2. CASE Len(shown) <= PageSize
  <2>1. Merged(items) = items
    BY <1>2 DEF Merged
  <2>2. \A k \in 1..Len(shown) : ~(k > PageSize)
    BY <1>1, <1>2
  <2> QED BY <2>1, <2>2
<1>3. CASE ~(Len(shown) <= PageSize)
  <2>1. Merged(items) = items \o rest
    BY <1>3 DEF Merged
  <2>2. /\ Behind \in Seq(Item) /\ Behind \in Seq(Nat)
        /\ ToSet(Behind) \subseteq ToSet(shown) /\ ToSet(Behind) \subseteq Item
    BY WhatIsBehind, InItems
  <2>3. /\ rest \in Seq(ToSet(Behind) \ ToSet(items)) /\ ToSet(rest) = ToSet(Behind) \ ToSet(items)
        /\ Descends(Behind) => Descends(rest)
    BY <2>2, WithoutItems
  <2>4. rest \in Seq(Item)
    BY <2>2, <2>3, SeqMonotonic
  <2> HIDE DEF rest
  <2>5. items \o rest \in Seq(Item) /\ ToSet(items \o rest) = ToSet(items) \cup ToSet(rest)
    BY <2>4, Joins
  <2>6. \A k \in 1..Len(shown) : k > PageSize => shown[k] \in ToSet(items \o rest)
    BY <2>3, <2>5, WhatIsBehind
  <2>7. ASSUME Descends(shown), Descends(items),
               \A i \in ToSet(Behind) \ ToSet(items), j \in ToSet(items) : ~(i > j)
        PROVE  Descends(items \o rest)
    <3>1. \A j \in ToSet(items), i \in ToSet(rest) : j > i
      <4>1. SUFFICES ASSUME NEW j \in ToSet(items), NEW i \in ToSet(rest) PROVE j > i
        OBVIOUS
      <4>2. i \in ToSet(Behind) /\ i \notin ToSet(items) /\ i \in Nat /\ j \in Nat /\ i # j
        BY <2>2, <2>3, InItems
      <4>3. ~(i > j)
        BY <2>7, <4>2
      <4> QED BY <4>2, <4>3
    <3>2. Descends(rest)
      BY <2>3, <2>7, WhatIsBehind
    <3> QED BY <2>4, <2>7, <3>1, <3>2, Joins
  <2>8. ToSet(items \o rest) \subseteq ToSet(items) \cup ToSet(shown)
    BY <2>2, <2>3, <2>5
  <2>9. Len(shown) > PageSize
    BY <1>1, <1>3
  <2> QED BY <1>3, <2>1, <2>5, <2>6, <2>7, <2>8, <2>9
<1> QED BY <1>2, <1>3

\* A page that brings nothing new has every item of the first page that is not
\* older than all of it.
LEMMA PageFromTop ==
  ASSUME shown \in Seq(Item), Descends(shown), NEW items \in Seq(Item), Descends(items),
         Len(items) = PageSize, ToSet(items) \subseteq ToSet(shown),
         NEW k \in 1..Len(shown), k <= PageSize, shown[k] \notin ToSet(items),
         shown[k] < items[PageSize]
  PROVE  FALSE
<1> DEFINE place == [l \in 1..PageSize |-> CHOOSE m \in 1..Len(shown) : shown[m] = items[l]]
<1>1. PageSize \in Nat \ {0} /\ Len(shown) \in Nat /\ k \in Nat /\ k - 1 \in Nat
  BY GalleryBounds, InItems
<1>2. ASSUME NEW l \in 1..PageSize PROVE place[l] \in 1..(k - 1) /\ shown[place[l]] = items[l]
  <2>7. l \in 1..Len(items) /\ PageSize \in 1..Len(items) /\ PageSize \in 1..PageSize
    BY <1>1
  <2>1. items[l] \in ToSet(shown) /\ items[l] \in Nat /\ items[PageSize] \in Nat
    BY <2>7, InItems
  <2>2. \E m \in 1..Len(shown) : shown[m] = items[l]
    BY <2>1, InItems
  <2>3. place[l] \in 1..Len(shown) /\ shown[place[l]] = items[l]
    BY <2>2
  <2> HIDE DEF place
  <2>4. items[l] >= items[PageSize]
    <3>1. l = PageSize \/ l < PageSize
      BY <1>1
    <3> QED BY <2>1, <2>7, <3>1 DEF Descends
  <2>8. shown[k] \in Nat
    BY InItems
  <2>5. shown[k] \in Nat /\ shown[place[l]] > shown[k]
    <3>1. items[l] > shown[k]
      BY <2>1, <2>4, <2>8
    <3> QED BY <2>3, <2>8, <3>1
  <2>6. ~(k <= place[l])
    <3>1. SUFFICES ASSUME k <= place[l] PROVE FALSE
      OBVIOUS
    <3>2. k = place[l] \/ k < place[l]
      BY <1>1, <2>3, <3>1
    <3>3. k < place[l] => shown[k] > shown[place[l]]
      BY <2>3 DEF Descends
    <3>4. shown[place[l]] \in Nat
      BY <2>1, <2>3
    <3> QED BY <2>5, <3>2, <3>3, <3>4
  <2> QED BY <1>1, <2>3, <2>6
<1>3. place \in [1..PageSize -> 1..(k - 1)]
  BY <1>2
<1> HIDE DEF place
<1> DEFINE A == 1..PageSize
           B == 1..(k - 1)
<1>4. IsFiniteSet(A) /\ Cardinality(A) = PageSize
  BY <1>1, UpToNumber
<1>11. IsFiniteSet(B) /\ Cardinality(B) = k - 1
  BY <1>1, UpToNumber
<1>5. Cardinality(B) < Cardinality(A)
  BY <1>1, <1>4, <1>11
<1>12. place \in [A -> B]
  BY <1>3
<1> HIDE DEF A, B
<1>13. \E l, m \in A : l # m /\ place[l] = place[m]
  BY ONLY <1>4, <1>5, <1>11, <1>12, FS_PigeonHole
<1>6. PICK l \in 1..PageSize, m \in 1..PageSize : l # m /\ place[l] = place[m]
  BY <1>13 DEF A
<1>7. items[l] = items[m]
  BY <1>2, <1>6
<1>8. items[l] \in Nat /\ items[m] \in Nat
  BY InItems
<1>9. l < m \/ m < l
  BY <1>1, <1>6
<1>10. (l < m => items[l] > items[m]) /\ (m < l => items[m] > items[l])
  BY DEF Descends
<1> QED BY <1>7, <1>8, <1>9, <1>10

LEMMA NewCall ==
  ASSUME NEW kind \in {"load", "more", "refresh"}, NEW from \in {NoCursor} \cup Item, NEW n \in 0..Clicks,
         kind = "more" <=> from # NoCursor
  PROVE  CallWell(Call(kind, from, n))
<1>1. <<>> \in Seq(Item) /\ Len(<<>>) = 0 /\ PageSize \in Nat \ {0}
  BY EmptySeq, GalleryBounds
<1>2. NoPage \in PageRecord /\ NoPage.items = <<>> /\ NoPage.more = FALSE /\ NoPage.next = NoCursor
  BY <1>1 DEF NoPage, PageRecord
<1>3. PageWell(NoPage)
  BY <1>1, <1>2 DEF PageWell, Descends
<1>4. Call(kind, from, n) \in CallRecord
  BY <1>2 DEF Call, CallRecord
<1>5. Call(kind, from, n).page = NoPage /\ Call(kind, from, n).kind = kind /\ Call(kind, from, n).from = from
  BY DEF Call
<1> QED BY <1>3, <1>4, <1>5 DEF CallWell

\* The call c once it is answered.
Replied(c) == [c EXCEPT !.from = NoCursor, !.answered = TRUE, !.page = Page(c.from)]

LEMMA CallIsAnswered ==
  ASSUME NEW c, CallWell(c)
  PROVE  /\ CallWell(Replied(c)) /\ Replied(c).kind = c.kind /\ Replied(c).answered = TRUE
         /\ Replied(c).page = Page(c.from) /\ c.from \in {NoCursor} \cup Item
<1>1. c.from \in {NoCursor} \cup Item /\ c \in CallRecord
  BY DEF CallWell, CallRecord
<1>2. PageWell(Page(c.from)) /\ Page(c.from) \in PageRecord
  BY <1>1, PageIsWell DEF PageWell
<1>3. /\ Replied(c) \in CallRecord /\ Replied(c).kind = c.kind /\ Replied(c).answered = TRUE
      /\ Replied(c).page = Page(c.from)
  BY <1>1, <1>2 DEF Replied, CallRecord
<1> QED BY <1>1, <1>2, <1>3 DEF CallWell

\* What an answer makes of the list.
LEMMA CallApplied ==
  ASSUME PageKept, NEW c \in calls, Apply(c)
  PROVE  /\ shown' \in Seq(Item) /\ cursor' \in {NoCursor} \cup Item /\ (hasMore' <=> cursor' # NoCursor)
         /\ hasMore' \in BOOLEAN /\ pastFirst' \in BOOLEAN
         /\ ~pastFirst' => Len(shown') <= PageSize
<1>1. /\ c \in CallRecord /\ PageWell(c.page) /\ c.page.items \in Seq(Item) /\ Len(c.page.items) <= PageSize
      /\ c.page.next \in {NoCursor} \cup Item /\ c.page.more \in BOOLEAN
      /\ c.kind \in {"load", "more", "refresh"}
  BY DEF PageKept, CallWell, PageWell, CallRecord, PageRecord
<1>2. shown \in Seq(Item) /\ cursor \in {NoCursor} \cup Item /\ (hasMore <=> cursor # NoCursor)
      /\ hasMore \in BOOLEAN /\ pastFirst \in BOOLEAN /\ (~pastFirst => Len(shown) <= PageSize)
  BY DEF PageKept
<1>3. c.page.more <=> c.page.next # NoCursor
  <2>1. c.page.more => c.page.next \in Item
    <3>1. PageSize \in Nat \ {0}
      BY GalleryBounds
    <3> QED BY <1>1, <3>1, InItems DEF PageWell
  <2>2. NoCursor \notin Item
    BY DEF NoCursor, Item
  <2> QED BY <1>1, <2>1, <2>2 DEF PageWell
<1>4. CASE c.kind = "load"
  BY <1>1, <1>2, <1>3, <1>4 DEF Apply
<1>5. CASE c.kind = "more"
  <2>1. /\ shown' = shown \o c.page.items /\ pastFirst' = TRUE
        /\ cursor' = c.page.next /\ hasMore' = c.page.more
    BY <1>5 DEF Apply
  <2> QED BY <1>1, <1>2, <1>3, <2>1, Joins
<1>6. CASE c.kind = "refresh"
  <2>1. /\ shown' = Merged(c.page.items) /\ pastFirst' = pastFirst
        /\ IF pastFirst THEN UNCHANGED <<cursor, hasMore>>
           ELSE cursor' = c.page.next /\ hasMore' = c.page.more
    BY <1>6 DEF Apply
  <2>2. shown' \in Seq(Item) /\ (Len(shown) <= PageSize => shown' = c.page.items)
    BY <1>1, <1>2, <2>1, WhatIsMerged
  <2> QED BY <1>1, <1>2, <1>3, <2>1, <2>2
<1> QED BY <1>1, <1>4, <1>5, <1>6

LEMMA KeptStarts == PageInit => PageKept
<1> SUFFICES ASSUME PageInit PROVE PageKept
  OBVIOUS
<1> USE DEF PageInit, GalleryInit
<1>1. \A c \in calls : CallWell(c)
  BY PageBounds, NewCall
<1>2. shown \in Seq(Item) /\ Len(shown) <= PageSize
  BY EmptySeq, GalleryBounds
<1> QED BY <1>1, <1>2 DEF PageKept

LEMMA KeptStep ==
  ASSUME PageKept, [PageNext]_pageVars
  PROVE  PageKept'
<1> USE DEF view, history
<1>1. CASE Others
  <2>1. PICK i \in Item : Enter(i) \/ Leave(i)
    BY <1>1 DEF Others
  <2>2. /\ status' \in [Item -> {"pending", "ready", "deleted"}]
        /\ \A j \in Item : status[j] = "deleted" => status'[j] = "deleted"
    BY <2>1 DEF Enter, Leave, PageKept
  <2>3. /\ steady' = {j \in steady : status'[j] = "ready"}
        /\ UNCHANGED <<view, refreshing, calls, removing, orderly>>
    BY <1>1 DEF Others
  <2> QED BY <2>2, <2>3 DEF PageKept
<1>2. CASE Refresh
  <2>1. CallWell(Call("refresh", NoCursor, 0))
    BY PageBounds, NewCall
  <2> QED BY <1>2, <2>1 DEF Refresh, PageKept
<1>3. ASSUME NEW n \in 1..Clicks, ShowMore(n) PROVE PageKept'
  <2>1. CallWell(Call("more", cursor, n))
    <3>1. n \in 0..Clicks /\ cursor \in {NoCursor} \cup Item /\ cursor # NoCursor
      BY <1>3, PageBounds DEF ShowMore, PageKept
    <3> QED BY <3>1, NewCall
  <2> QED BY <1>3, <2>1 DEF ShowMore, PageKept
<1>4. ASSUME NEW i \in Item, DeleteItem(i) PROVE PageKept'
  <2>1. /\ status' \in [Item -> {"pending", "ready", "deleted"}]
        /\ status'[i] = "deleted" /\ \A j \in Item : j # i => status'[j] = status[j]
    BY <1>4 DEF DeleteItem, Leave, PageKept
  <2> QED BY <1>4, <2>1 DEF DeleteItem, PageKept
<1>5. ASSUME NEW i \in Item, Filter(i) PROVE PageKept'
  <2>1. shown \in Seq(Item) /\ shown \in Seq(Nat) /\ ToSet(shown) \subseteq Item /\ Len(shown) \in Nat
    BY InItems DEF PageKept
  <2>2. shown' \in Seq(Item) /\ Len(shown') <= Len(shown) /\ Len(shown') \in Nat
    <3>1. shown' \in Seq(ToSet(shown) \ {i}) /\ Len(shown') \in 0..Len(shown)
      BY <1>5, <2>1, WithoutItems DEF Filter
    <3> QED BY <2>1, <3>1, SeqMonotonic
  <2>3. ~pastFirst => Len(shown') <= PageSize
    BY <2>1, <2>2, GalleryBounds DEF PageKept
  <2> QED BY <1>5, <2>2, <2>3 DEF Filter, PageKept
<1>6. ASSUME NEW c \in calls, Answer(c) PROVE PageKept'
  <2>1. calls' = (calls \ {c}) \cup {Replied(c)} /\ CallWell(Replied(c))
    BY <1>6, CallIsAnswered DEF Answer, Replied, PageKept
  <2> QED BY <1>6, <2>1 DEF Answer, PageKept
<1>7. ASSUME NEW c \in calls, Apply(c) PROVE PageKept'
  <2>1. /\ calls' = calls \ {c} /\ refreshing' = (IF c.kind = "refresh" THEN FALSE ELSE refreshing)
        /\ orderly' = (orderly /\ ~Disorderly(c)) /\ steady' = (IF Disorderly(c) THEN {} ELSE steady)
        /\ UNCHANGED <<status, removing>>
    BY <1>7 DEF Apply, Settled
  <2>2. refreshing' \in BOOLEAN /\ orderly' \in BOOLEAN
    BY <2>1 DEF PageKept
  <2> QED BY <1>7, <2>1, <2>2, CallApplied DEF PageKept
<1>8. ASSUME NEW c \in calls, Fails(c) PROVE PageKept'
  <2>1. refreshing' \in BOOLEAN
    BY <1>8 DEF Fails, Settled, PageKept
  <2> QED BY <1>8, <2>1 DEF Fails, PageKept
<1>9. CASE UNCHANGED pageVars
  BY <1>9 DEF pageVars, PageKept
<1> QED BY <1>1, <1>2, <1>3, <1>4, <1>5, <1>6, <1>7, <1>8, <1>9 DEF PageNext

LEMMA FitsStart == PageInit => WalkFits
<1> SUFFICES ASSUME PageInit PROVE WalkFits
  OBVIOUS
<1>1. shown = <<>> /\ hasMore = FALSE /\ shown \in Seq(Item)
  BY EmptySeq DEF PageInit
<1>2. Len(shown) = 0
  BY <1>1, EmptyList
<1>3. \A c \in calls : c.kind = "load" /\ c.answered = FALSE
  BY DEF PageInit, Call
<1>4. \A c \in calls : CallFits(c)
  BY <1>3 DEF CallFits
<1>5. Descends(shown)
  BY <1>2 DEF Descends
<1> QED BY <1>1, <1>4, <1>5 DEF WalkFits

\* The list gets no item, loses none that stays, and the calls are the same.
LEMMA CallStillFits ==
  ASSUME NEW c, CallFits(c), steady' \subseteq steady,
         c.kind = "more" => /\ ToSet(shown') \subseteq ToSet(shown)
                            /\ \A i \in steady' : i \in ToSet(shown) => i \in ToSet(shown')
  PROVE  CallFits(c)'
<1>1. CASE c.kind # "more"
  BY <1>1 DEF CallFits, Misses
<1>2. CASE c.kind = "more" /\ c.answered
  BY <1>2 DEF CallFits, Misses
<1>3. CASE c.kind = "more" /\ ~c.answered
  BY <1>3 DEF CallFits, Misses
<1> QED BY <1>1, <1>2, <1>3

LEMMA StillFits ==
  ASSUME WalkFits, UNCHANGED <<cursor, hasMore>>, steady' \subseteq steady, Descends(shown'),
         ToSet(shown') \subseteq ToSet(shown), \A i \in steady' : i \in ToSet(shown) => i \in ToSet(shown'),
         shown' # <<>> => shown # <<>>, \A c \in calls' : c \in calls \/ CallFits(c)'
  PROVE  WalkFits'
<1>1. shown' # <<>> => ~Misses(steady', shown', hasMore', cursor')
  BY DEF WalkFits, Misses
<1>2. hasMore' => \A i \in ToSet(shown') : cursor' <= i
  BY DEF WalkFits
<1>3. ASSUME NEW c \in calls' PROVE CallFits(c)'
  BY CallStillFits DEF WalkFits
<1> QED BY <1>1, <1>2, <1>3 DEF WalkFits, Descends, Misses

LEMMA ViewFits ==
  ASSUME WalkFits, UNCHANGED view, steady' \subseteq steady,
         \A c \in calls' : c \in calls \/ CallFits(c)'
  PROVE  WalkFits'
<1>1. Descends(shown') /\ shown' = shown
  BY DEF view, WalkFits
<1> QED BY <1>1, StillFits DEF view

LEMMA ShowMoreFits ==
  ASSUME PageKept, WalkFits, NEW n, ShowMore(n)
  PROVE  WalkFits'
<1> PICK d : d = Call("more", cursor, n)
  OBVIOUS
<1>1. d.kind = "more" /\ d.from = cursor /\ d.answered = FALSE
  BY DEF Call
<1>2. calls' = calls \cup {d} /\ hasMore /\ shown # <<>> /\ UNCHANGED <<view, steady>>
  BY DEF ShowMore, history
<1>3. CallFits(d)'
  <2>1. ~Misses(steady, shown, TRUE, cursor) /\ \A i \in ToSet(shown) : cursor <= i
    BY <1>2 DEF WalkFits, Misses
  <2> QED BY <1>1, <1>2, <2>1 DEF CallFits, view
<1> QED BY <1>2, <1>3, ViewFits

LEMMA AnswerFits ==
  ASSUME PageKept, WalkFits, NEW c \in calls, Answer(c)
  PROVE  WalkFits'
<1> PICK d : d = Replied(c)
  OBVIOUS
<1> PICK p : p = Page(c.from)
  OBVIOUS
<1>1. calls' = (calls \ {c}) \cup {d} /\ ~c.answered /\ UNCHANGED <<view, steady>>
  BY DEF Answer, Replied, history
<1>2. d.kind = c.kind /\ d.answered = TRUE /\ d.page = p /\ c.from \in {NoCursor} \cup Item /\ CallWell(c)
  BY CallIsAnswered DEF PageKept
<1>3. /\ ToSet(p.items) \subseteq Listed(c.from)
      /\ ~Misses(Listed(c.from), p.items, p.more, p.next)
  BY <1>2, PageIsWell
<1>4. steady \subseteq Item /\ (\A i \in steady : status[i] = "ready") /\ CallFits(c)
  BY DEF PageKept, WalkFits
<1>5. steady' = steady /\ shown' = shown
  BY <1>1 DEF view
<1>6. CASE c.kind # "more"
  <2>1. c.from = NoCursor
    BY <1>1, <1>2, <1>6 DEF CallWell
  <2>2. steady \subseteq Listed(c.from)
    BY <1>4, <2>1 DEF Listed
  <2>3. ~Misses(steady, p.items, p.more, p.next)
    BY <1>3, <2>2 DEF Misses
  <2>4. CallFits(d)'
    BY <1>2, <1>5, <1>6, <2>3 DEF CallFits
  <2> QED BY <1>1, <1>5, <2>4, ViewFits
<1>7. CASE c.kind = "more"
  <2>1. c.from # NoCursor /\ c.from \in Nat /\ ToSet(shown) \subseteq Nat
    BY <1>1, <1>2, <1>7, InItems DEF CallWell, PageKept, Item
  <2>2. (\A i \in ToSet(shown) : c.from <= i) /\ ~Misses(steady, shown, TRUE, c.from)
    BY <1>1, <1>4, <1>7 DEF CallFits
  <2>3. ASSUME NEW i \in ToSet(shown), NEW j \in ToSet(p.items) PROVE i > j
    <3>1. j \in Nat /\ j < c.from
      BY <1>3, <2>1 DEF Listed, Item
    <3> QED BY <2>1, <2>2, <3>1
  <2>4. steady \ ToSet(shown) \subseteq Listed(c.from)
    BY <1>4, <2>2 DEF Misses, Listed
  <2>5. ~Misses(steady \ ToSet(shown), p.items, p.more, p.next)
    BY <1>3, <2>4 DEF Misses
  <2>6. CallFits(d)'
    BY <1>2, <1>5, <1>7, <2>3, <2>5 DEF CallFits
  <2> QED BY <1>1, <1>5, <2>6, ViewFits
<1> QED BY <1>6, <1>7

LEMMA FilterFits ==
  ASSUME PageKept, WalkFits, NEW i \in Item, Filter(i)
  PROVE  WalkFits'
<1>1. shown' = Without(shown, {i}) /\ UNCHANGED <<cursor, hasMore, calls, steady>> /\ i \notin steady
  BY DEF Filter, history, PageKept
<1>2. shown \in Seq(Item) /\ shown \in Seq(Nat) /\ ToSet(shown) \subseteq Item
  BY InItems DEF PageKept
<1>3. /\ ToSet(shown') = ToSet(shown) \ {i} /\ (Descends(shown) => Descends(shown'))
      /\ shown' \in Seq(ToSet(shown) \ {i})
  BY <1>1, <1>2, WithoutItems
<1>4. shown' # <<>> => shown # <<>>
  <2>1. shown' \in Seq(Item)
    BY <1>2, <1>3, SeqMonotonic
  <2> QED BY <1>2, <1>3, <2>1, EmptyList
<1> QED BY <1>1, <1>3, <1>4, StillFits DEF WalkFits

\* A page ends with its oldest item.
LEMMA PageEnds ==
  ASSUME NEW p, PageWell(p), p.more
  PROVE  p.next \in ToSet(p.items) /\ \A i \in ToSet(p.items) : p.next <= i
<1>1. p.items \in Seq(Item) /\ Len(p.items) = PageSize /\ p.next = p.items[PageSize] /\ Descends(p.items)
  BY DEF PageWell, PageRecord
<1>2. PageSize \in 1..Len(p.items) /\ PageSize \in Nat
  BY <1>1, GalleryBounds
<1>3. p.next \in ToSet(p.items) /\ p.next \in Nat
  BY <1>1, <1>2, InItems
<1>4. ASSUME NEW i \in ToSet(p.items) PROVE p.next <= i
  <2>1. PICK k \in 1..Len(p.items) : i = p.items[k]
    BY <1>1, <1>4, InItems
  <2>2. k = PageSize \/ k < PageSize
    BY <1>1, <1>2, <2>1
  <2>3. k < PageSize => p.items[k] > p.items[PageSize]
    BY <1>1, <1>2, <2>1 DEF Descends
  <2>4. i \in Nat
    BY <1>1, <2>1, InItems
  <2> QED BY <1>1, <1>3, <2>1, <2>2, <2>3, <2>4
<1> QED BY <1>3, <1>4

\* The call that is applied.
LEMMA AppliedCall ==
  ASSUME PageKept, WalkFits, NEW c \in calls, Apply(c), ~Disorderly(c)
  PROVE  /\ calls' = calls \ {c} /\ steady' = steady /\ c.answered /\ CallFits(c) /\ PageWell(c.page)
         /\ c.page.items \in Seq(Item) /\ Descends(c.page.items) /\ c.kind \in {"load", "more", "refresh"}
         /\ c.page.more \in BOOLEAN /\ shown \in Seq(Item) /\ shown' \in Seq(Item)
         /\ \A d \in calls' : d \in calls /\ CallFits(d)
<1>1. CallWell(c)
  BY DEF PageKept
<1>2. shown' \in Seq(Item)
  BY CallApplied
<1> QED BY <1>1, <1>2 DEF Apply, PageKept, CallWell, PageWell, CallRecord, PageRecord, WalkFits

LEMMA LoadFits ==
  ASSUME PageKept, WalkFits, NEW c \in calls, Apply(c), ~Disorderly(c), c.kind = "load"
  PROVE  WalkFits'
<1>1. shown' = c.page.items /\ cursor' = c.page.next /\ hasMore' = c.page.more /\ InFlight("more") = {}
  BY DEF Apply, Disorderly
<1>2. \A d \in calls' : d.kind # "more" /\ CallFits(d)
  BY <1>1, AppliedCall DEF InFlight
<1>3. \A d \in calls' : CallFits(d)'
  BY <1>2, AppliedCall, CallStillFits
<1>4. ~Misses(steady', shown', hasMore', cursor')
  BY <1>1, AppliedCall DEF CallFits
<1>5. hasMore' => \A i \in ToSet(shown') : cursor' <= i
  BY <1>1, AppliedCall, PageEnds
<1>6. Descends(shown')
  BY <1>1, AppliedCall
<1> QED BY <1>3, <1>4, <1>5, <1>6 DEF WalkFits, Misses, Descends

LEMMA MoreFits ==
  ASSUME PageKept, WalkFits, NEW c \in calls, Apply(c), ~Disorderly(c), c.kind = "more"
  PROVE  WalkFits'
<1> DEFINE items == c.page.items
<1>1. /\ shown' = shown \o items /\ cursor' = c.page.next /\ hasMore' = c.page.more
      /\ InFlight("more") = {c}
  BY DEF Apply, Disorderly
<1>2. \A d \in calls' : d.kind # "more" /\ CallFits(d)
  BY <1>1, AppliedCall DEF InFlight
<1>3. \A d \in calls' : CallFits(d)'
  BY <1>2, AppliedCall, CallStillFits
<1>4. /\ \A i \in ToSet(shown), j \in ToSet(items) : i > j
      /\ ~Misses(steady \ ToSet(shown), items, c.page.more, c.page.next)
  BY AppliedCall DEF CallFits
<1>5. ToSet(shown') = ToSet(shown) \cup ToSet(items) /\ Descends(shown')
  BY <1>1, <1>4, AppliedCall, Joins DEF WalkFits
<1>6. ~Misses(steady', shown', hasMore', cursor')
  BY <1>1, <1>4, <1>5, AppliedCall DEF Misses
<1>7. ASSUME hasMore' PROVE \A i \in ToSet(shown') : cursor' <= i
  <2>1. cursor' \in ToSet(items) /\ \A i \in ToSet(items) : cursor' <= i
    BY <1>1, <1>7, AppliedCall, PageEnds
  <2>2. ToSet(shown) \subseteq Nat /\ ToSet(items) \subseteq Nat
    BY AppliedCall, InItems
  <2>3. \A i \in ToSet(shown) : cursor' <= i
    BY <1>4, <2>1, <2>2
  <2> QED BY <1>5, <2>1, <2>3
<1> QED BY <1>3, <1>5, <1>6, <1>7 DEF WalkFits, Misses, Descends

\* A page that brings nothing new loses nothing that stays.
LEMMA RefreshLosesNothing ==
  ASSUME PageKept, WalkFits, NEW c \in calls, Apply(c), ~Disorderly(c), c.kind = "refresh",
         ToSet(c.page.items) \subseteq ToSet(shown), NEW i \in steady, i \in ToSet(shown)
  PROVE  i \in ToSet(shown')
<1> DEFINE items == c.page.items
<1>1. shown' = Merged(items)
  BY DEF Apply
<1>2. PICK k \in 1..Len(shown) : i = shown[k]
  BY AppliedCall, InItems
<1>3. /\ ToSet(items) \subseteq ToSet(shown')
      /\ k > PageSize => i \in ToSet(shown')
  BY <1>1, <1>2, AppliedCall, WhatIsMerged
<1>4. ASSUME i \notin ToSet(items), ~(k > PageSize) PROVE FALSE
  <2>1. c.page.more /\ i < c.page.next
    BY <1>4, AppliedCall DEF CallFits, Misses
  <2>2. Len(items) = PageSize /\ c.page.next = items[PageSize]
    BY <2>1, AppliedCall DEF PageWell
  <2>3. k <= PageSize
    BY <1>2, <1>4, GalleryBounds, AppliedCall, InItems
  <2>4. Descends(shown) /\ Descends(items) /\ shown \in Seq(Item) /\ items \in Seq(Item)
    BY AppliedCall DEF WalkFits
  <2>5. shown[k] \notin ToSet(items) /\ shown[k] < items[PageSize]
    BY <1>2, <1>4, <2>1, <2>2
  <2> HIDE DEF items
  <2> QED BY <2>2, <2>3, <2>4, <2>5, PageFromTop DEF items
<1> QED BY <1>3, <1>4

LEMMA RefreshFits ==
  ASSUME PageKept, WalkFits, NEW c \in calls, Apply(c), ~Disorderly(c), c.kind = "refresh"
  PROVE  WalkFits'
<1> DEFINE items == c.page.items
           grown == pastFirst \/ Len(shown) > PageSize \/ InFlight("more") # {}
<1>1. /\ shown' = Merged(items)
      /\ IF pastFirst THEN UNCHANGED <<cursor, hasMore>>
         ELSE cursor' = c.page.next /\ hasMore' = c.page.more
  BY DEF Apply
<1>2. grown => /\ ToSet(items) \subseteq ToSet(shown)
               /\ \A i \in ToSet(Behind) \ ToSet(items), j \in ToSet(items) : ~(i > j)
  BY DEF Disorderly
<1>3. items \in Seq(Item) /\ Descends(items) /\ shown \in Seq(Item) /\ Descends(shown)
  BY AppliedCall DEF WalkFits
<1>4. /\ ToSet(items) \subseteq ToSet(shown')
      /\ ToSet(shown') \subseteq ToSet(items) \cup ToSet(shown)
      /\ Len(shown) <= PageSize => shown' = items
  BY <1>1, <1>3, WhatIsMerged
<1>5. Descends(shown')
  BY <1>1, <1>2, <1>3, WhatIsMerged
<1>6. grown => /\ ToSet(shown') \subseteq ToSet(shown)
               /\ \A i \in steady' : i \in ToSet(shown) => i \in ToSet(shown')
  BY <1>2, <1>4, AppliedCall, RefreshLosesNothing
<1>7. ASSUME NEW d \in calls' PROVE CallFits(d)'
  <2>1. d \in calls /\ CallFits(d)
    BY AppliedCall
  <2>2. d.kind = "more" => grown
    BY <2>1 DEF InFlight
  <2> QED BY <1>6, <2>1, <2>2, AppliedCall, CallStillFits
<1>8. CASE pastFirst
  <2>1. shown' # <<>> => shown # <<>>
    BY <1>3, <1>6, <1>8, AppliedCall, EmptyList
  <2> QED BY <1>1, <1>5, <1>6, <1>7, <1>8, <2>1, AppliedCall, StillFits
<1>9. CASE ~pastFirst
  <2>1. shown' = items /\ cursor' = c.page.next /\ hasMore' = c.page.more
    BY <1>1, <1>4, <1>9 DEF PageKept
  <2>2. ~Misses(steady', shown', hasMore', cursor')
    BY <2>1, AppliedCall DEF CallFits
  <2>3. hasMore' => \A i \in ToSet(shown') : cursor' <= i
    BY <2>1, AppliedCall, PageEnds
  <2> QED BY <1>5, <1>7, <2>2, <2>3 DEF WalkFits, Misses, Descends
<1> QED BY <1>8, <1>9

LEMMA WalkStep ==
  ASSUME WalkInv, [PageNext]_pageVars
  PROVE  WalkInv'
<1>1. PageKept /\ PageKept'
  BY KeptStep DEF WalkInv
<1>2. SUFFICES ASSUME orderly' PROVE WalkFits'
  BY <1>1 DEF WalkInv
<1>3. ASSUME NEW c \in calls, Apply(c) PROVE orderly /\ ~Disorderly(c)
  BY <1>2, <1>3 DEF Apply
<1>4. orderly
  <2>1. CASE \E c \in calls : Apply(c)
    BY <1>3, <2>1
  <2>2. CASE ~ \E c \in calls : Apply(c)
    BY <1>2, <2>2 DEF PageNext, Others, Refresh, ShowMore, DeleteItem, Filter, Answer, Fails, pageVars, history
  <2> QED BY <2>1, <2>2
<1>5. WalkFits
  BY <1>4 DEF WalkInv
<1>6. CASE Others
  <2>1. steady' \subseteq steady /\ calls' = calls /\ UNCHANGED view
    BY <1>6 DEF Others
  <2> QED BY <1>5, <2>1, ViewFits
<1>7. CASE Refresh
  <2> PICK d : d = Call("refresh", NoCursor, 0)
    OBVIOUS
  <2>1. calls' = calls \cup {d} /\ steady' = steady /\ UNCHANGED view /\ d.kind = "refresh" /\ ~d.answered
    BY <1>7 DEF Refresh, Call, history
  <2>2. CallFits(d)'
    BY <2>1 DEF CallFits
  <2> QED BY <1>5, <2>1, <2>2, ViewFits
<1>8. ASSUME NEW n \in 1..Clicks, ShowMore(n) PROVE WalkFits'
  BY <1>1, <1>5, <1>8, ShowMoreFits
<1>9. ASSUME NEW i \in Item, DeleteItem(i) PROVE WalkFits'
  <2>1. steady' \subseteq steady /\ calls' = calls /\ UNCHANGED view
    BY <1>9 DEF DeleteItem
  <2> QED BY <1>5, <2>1, ViewFits
<1>10. ASSUME NEW i \in Item, Filter(i) PROVE WalkFits'
  BY <1>1, <1>5, <1>10, FilterFits
<1>11. ASSUME NEW c \in calls, Answer(c) PROVE WalkFits'
  BY <1>1, <1>5, <1>11, AnswerFits
<1>12. ASSUME NEW c \in calls, Apply(c) PROVE WalkFits'
  <2>1. c.kind \in {"load", "more", "refresh"}
    BY <1>1 DEF PageKept, CallWell, CallRecord
  <2> QED BY <1>1, <1>3, <1>5, <1>12, <2>1, LoadFits, MoreFits, RefreshFits
<1>13. ASSUME NEW c \in calls, Fails(c) PROVE WalkFits'
  <2>1. steady' = steady /\ calls' \subseteq calls /\ UNCHANGED view
    BY <1>13 DEF Fails, history
  <2> QED BY <1>5, <2>1, ViewFits
<1>14. CASE UNCHANGED pageVars
  <2>1. steady' = steady /\ calls' = calls /\ UNCHANGED view
    BY <1>14 DEF pageVars, history
  <2> QED BY <1>5, <2>1, ViewFits
<1> QED BY <1>6, <1>7, <1>8, <1>9, <1>10, <1>11, <1>12, <1>13, <1>14 DEF PageNext

LEMMA WalkAlways == PageSpec => []WalkInv
<1>1. PageInit => WalkInv
  BY KeptStarts, FitsStart DEF WalkInv
<1>2. WalkInv /\ [PageNext]_pageVars => WalkInv'
  BY WalkStep
<1> QED BY <1>1, <1>2, PTL DEF PageSpec

LEMMA WalkTyped ==
  ASSUME WalkInv
  PROVE  PageTypeOK
<1>1. ASSUME NEW c \in calls
      PROVE  /\ c.kind \in {"load", "more", "refresh"} /\ c.from \in {NoCursor} \cup Item
             /\ c.page.items \in Seq(Item) /\ Len(c.page.items) <= PageSize
  BY <1>1 DEF WalkInv, PageKept, CallWell, PageWell, CallRecord, PageRecord
<1> QED BY <1>1 DEF WalkInv, PageKept, PageTypeOK

LEMMA WalkHolds == WalkInv => WalkComplete
<1>1. SUFFICES ASSUME PageKept, WalkFits, orderly PROVE WalkComplete
  BY DEF WalkInv, WalkComplete
<1>2. \A k \in 1..Len(shown), l \in 1..Len(shown) : k < l => shown[k] > shown[l]
  BY <1>1 DEF WalkFits, Descends
<1>3. shown # <<>> => \A i \in steady : i \in ToSet(shown) \/ (hasMore /\ i < cursor)
  BY <1>1 DEF WalkFits, Misses
<1> QED BY <1>2, <1>3 DEF WalkComplete

\* Walking the gallery, for pages of any size and any number of items, shows
\* every item once and newest first, and misses none that was there all along,
\* while no answer met a list it was not made for.
THEOREM WalkIsComplete == PageSpec => []WalkComplete
BY WalkHolds, WalkAlways, PTL


-----------------------------------------------------------------------------
(* The page as a whole                                                     *)

PageInv == WalkInv /\ QueueInv /\ PartsInv

LEMMA PageAlways == WholePageSpec => []PageInv
<1>1. WholePageInit => PageInv
  BY KeptStarts, FitsStart, QueueStarts, PartsInit DEF WholePageInit, WalkInv, PageInv
<1>2. PageInv /\ [WholePageNext]_allVars => PageInv'
  <2> SUFFICES ASSUME PageInv, [WholePageNext]_allVars PROVE PageInv'
    OBVIOUS
  <2>1. [PageNext]_pageVars /\ [QueueNext]_queueVars /\ [TransferNext]_transferVars
    BY DEF WholePageNext, allVars
  <2> QED BY <2>1, WalkStep, QueueStep, PartsStep DEF PageInv
<1> QED BY <1>1, <1>2, PTL DEF WholePageSpec

\* Every part of the room's page stays what it is declared to be, for any
\* bounds: its gallery, its upload queue and the transfer of a large file.
THEOREM RoomPageTypes == WholePageSpec => []RoomPageTypeOK
<1>1. PageInv => RoomPageTypeOK
  BY WalkTyped, QueueTypesHold DEF PageInv, PartsInv, RoomPageTypeOK
<1> QED BY <1>1, PageAlways, PTL

\* What each part keeps by itself it keeps beside the others: on the page that
\* is explored the walk is complete, nothing is left open, what is shown is
\* true and the parts agree, for any bounds (RoomPage of App.tsx, uploadFile).
THEOREM PageKeepsAll ==
  WholePageSpec => [](WalkComplete /\ NothingLeftOpen /\ ShownIsTrue /\ PartsAgree)
<1>1. PageInv => WalkComplete /\ NothingLeftOpen /\ ShownIsTrue /\ PartsAgree
  BY WalkHolds, LeavesNothing, TellsTruth, AgreeHolds DEF PageInv
<1> QED BY <1>1, PageAlways, PTL

=============================================================================
