----------------------- MODULE UploadSystem_accounts -----------------------
(***************************************************************************)
(* The accounts of a room: its counters are what its rows say, its limits  *)
(* hold, and so the system implements UploadLedger, for every value of the *)
(* constants.  The cases are the moves of UploadSystem_moves.              *)
(***************************************************************************)
EXTENDS UploadSystem_moves, FiniteSetTheorems

USE DEF access, counters, statuses, columns, thumbCols, tables, store, heard, jobs

-----------------------------------------------------------------------------
(* Bytes(sz, S) is the sum of sz over S.                                   *)

Slots(sz, S) == {p \in Media \X Sizes : p[1] \in S /\ p[2] <= sz[p[1]]}

LEMMA FiniteSlots ==
  ASSUME NEW sz, NEW S
  PROVE  IsFiniteSet(Slots(sz, S)) /\ Bytes(sz, S) = Cardinality(Slots(sz, S))
         /\ Bytes(sz, S) \in Nat
<1>1. IsFiniteSet(Sizes)
  BY FS_Interval, Limits DEF Sizes
<1>2. IsFiniteSet(Media \X Sizes)
  BY <1>1, FS_Product, FiniteRows
<1>3. Slots(sz, S) \in SUBSET (Media \X Sizes)
  BY DEF Slots
<1>4. IsFiniteSet(Slots(sz, S))
  BY <1>2, <1>3, FS_Subset
<1>5. Bytes(sz, S) = Cardinality(Slots(sz, S))
  BY DEF Bytes, Slots
<1> QED BY <1>4, <1>5, FS_CardinalityType

\* Only the sizes of its members matter.
LEMMA BytesSame ==
  ASSUME NEW sz, NEW sz2, NEW S, \A x \in S : sz[x] = sz2[x]
  PROVE  Bytes(sz, S) = Bytes(sz2, S)
<1>1. Slots(sz, S) = Slots(sz2, S)
  BY DEF Slots
<1> QED BY <1>1, FiniteSlots

LEMMA BytesAdd ==
  ASSUME NEW sz, NEW S, NEW m \in Media, m \notin S, sz[m] \in Sizes
  PROVE  Bytes(sz, S \cup {m}) = Bytes(sz, S) + sz[m]
<1> DEFINE M == {m} \X (1..sz[m])
<1>1. sz[m] \in Nat /\ sz[m] >= 1 /\ 1..sz[m] \subseteq Sizes
  BY Limits DEF Sizes
<1>2. IsFiniteSet(M) /\ Cardinality(M) = sz[m]
  <2>1. IsFiniteSet({m}) /\ Cardinality({m}) = 1
    BY FS_Singleton
  <2>2. IsFiniteSet(1..sz[m]) /\ Cardinality(1..sz[m]) = sz[m]
    BY <1>1, FS_Interval
  <2>3. IsFiniteSet(M) /\ Cardinality(M) = Cardinality({m}) * Cardinality(1..sz[m])
    BY <2>1, <2>2, FS_Product
  <2> QED BY <1>1, <2>1, <2>2, <2>3
<1>3. Slots(sz, S \cup {m}) = Slots(sz, S) \cup M
  BY <1>1 DEF Slots, Sizes
<1>4. Slots(sz, S) \cap M = {}
  BY DEF Slots
<1>5. Cardinality(Slots(sz, S) \cup M) = Cardinality(Slots(sz, S)) + Cardinality(M) - 0
  BY <1>2, <1>4, FiniteSlots, FS_Union, FS_EmptySet
<1>6. /\ Bytes(sz, S \cup {m}) = Cardinality(Slots(sz, S \cup {m}))
      /\ Bytes(sz, S) = Cardinality(Slots(sz, S)) /\ Bytes(sz, S) \in Nat
  BY FiniteSlots
<1>7. Cardinality(Slots(sz, S \cup {m})) = Cardinality(Slots(sz, S) \cup M)
  BY <1>3
<1>8. Cardinality(Slots(sz, S)) \in Nat
  BY <1>6
<1> HIDE DEF M
<1> QED BY <1>1, <1>2, <1>5, <1>6, <1>7, <1>8

LEMMA BytesRemove ==
  ASSUME NEW sz, NEW S, NEW m \in Media, m \in S, sz[m] \in Sizes
  PROVE  Bytes(sz, S \ {m}) = Bytes(sz, S) - sz[m]
<1> DEFINE R == S \ {m}
<1>1. R \cup {m} = S /\ m \notin R
  OBVIOUS
<1> HIDE DEF R
<1>2. Bytes(sz, R \cup {m}) = Bytes(sz, R) + sz[m]
  BY <1>1, BytesAdd
<1>6. Bytes(sz, R \cup {m}) = Bytes(sz, S)
  BY <1>1
<1>3. sz[m] \in Nat
  BY Limits DEF Sizes
<1>4. Bytes(sz, R) \in Nat
  BY FiniteSlots
<1>5. Bytes(sz, R) = Bytes(sz, S) - sz[m]
  BY <1>2, <1>3, <1>4, <1>6
<1> QED BY <1>5 DEF R

LEMMA BytesMonotone ==
  ASSUME NEW sz, NEW S, NEW T, S \subseteq T
  PROVE  Bytes(sz, S) <= Bytes(sz, T)
<1>1. Slots(sz, S) \in SUBSET Slots(sz, T)
  BY DEF Slots
<1> QED BY <1>1, FiniteSlots, FS_Subset

LEMMA BytesUnion ==
  ASSUME NEW sz, NEW S, NEW T
  PROVE  Bytes(sz, S \cup T) <= Bytes(sz, S) + Bytes(sz, T)
<1>1. Slots(sz, S \cup T) = Slots(sz, S) \cup Slots(sz, T)
  BY DEF Slots
<1>2. Cardinality(Slots(sz, S \cup T)) = Cardinality(Slots(sz, S)) + Cardinality(Slots(sz, T))
                                         - Cardinality(Slots(sz, S) \cap Slots(sz, T))
  BY <1>1, FiniteSlots, FS_Union
<1>3. Cardinality(Slots(sz, S) \cap Slots(sz, T)) \in Nat
  <2>1. Slots(sz, S) \cap Slots(sz, T) \in SUBSET Slots(sz, S)
    OBVIOUS
  <2> QED BY <2>1, FiniteSlots, FS_Subset, FS_CardinalityType
<1> QED BY <1>2, <1>3, FiniteSlots

LEMMA FiniteIn ==
  ASSUME NEW r
  PROVE  /\ OpenIn(r) \subseteq Media /\ ReadyIn(r) \subseteq Media
         /\ IsFiniteSet(OpenIn(r)) /\ IsFiniteSet(ReadyIn(r))
         /\ Cardinality(OpenIn(r)) \in Nat /\ Cardinality(ReadyIn(r)) \in Nat
<1>1. OpenIn(r) \in SUBSET Media /\ ReadyIn(r) \in SUBSET Media
  BY DEF OpenIn, ReadyIn
<1> QED BY <1>1, FiniteRows, FS_Subset, FS_CardinalityType

-----------------------------------------------------------------------------
(* How a move changes the sets the counters count.                         *)

Held(r) == OpenIn(r) \cup ReadyIn(r)

LEMMA PendingIn ==
  ASSUME RowsInv
  PROVE  \A x : /\ OpenIn(x) = {y \in Media : home[y] = x /\ mediaStatus[y] = "pending"}
                /\ ReadyIn(x) = {y \in Media : home[y] = x /\ mediaStatus[y] = "ready"}
BY DEF RowsInv, RowsAgree, OpenIn, ReadyIn

LEMMA PendingInNext ==
  ASSUME RowsInv'
  PROVE  \A x : /\ OpenIn(x)' = {y \in Media : home'[y] = x /\ mediaStatus'[y] = "pending"}
                /\ ReadyIn(x)' = {y \in Media : home'[y] = x /\ mediaStatus'[y] = "ready"}
BY DEF RowsInv, RowsAgree, OpenIn, ReadyIn

LEMMA AcceptedSets ==
  ASSUME TypeOK, RowsInv, RowsInv', NEW m \in Media, NEW r \in Room, NEW s \in Sizes,
         Accepted(m, r, s)
  PROVE  /\ m \notin Held(r) /\ OpenIn(r)' = OpenIn(r) \cup {m}
         /\ \A x \in Room \ {r} : OpenIn(x)' = OpenIn(x)
         /\ \A x \in Room : ReadyIn(x)' = ReadyIn(x)
         /\ \A x \in Room : \A y \in Held(x) : size'[y] = size[y]
         /\ size'[m] = s
<1> USE DEF TypeOK, TablesTypeOK, MediaStatus
<1>1. home[m] \notin Room
  BY DEF RowsInv, Accepted
<1>2. /\ home'[m] = r /\ mediaStatus'[m] = "pending"
      /\ \A y \in Media : y # m => home'[y] = home[y] /\ mediaStatus'[y] = mediaStatus[y]
  BY DEF Accepted
<1>3. \A x \in Room : m \notin Held(x)
  BY <1>1 DEF Held, OpenIn, ReadyIn
<1>4. \A x \in Room : Held(x) \subseteq Media
  BY DEF Held, OpenIn, ReadyIn
<1>5. size'[m] = s /\ \A y \in Media : y # m => size'[y] = size[y]
  BY DEF Accepted
<1> HIDE DEF TypeOK
<1>6. OpenIn(r)' = OpenIn(r) \cup {m}
  BY <1>1, <1>2, PendingIn, PendingInNext
<1>7. ASSUME NEW x \in Room, x # r
      PROVE  OpenIn(x)' = OpenIn(x)
  <2>1. \A y \in Media : home'[y] = x /\ mediaStatus'[y] = "pending"
                         <=> home[y] = x /\ mediaStatus[y] = "pending"
    BY <1>1, <1>2, <1>7
  <2>2. OpenIn(x)' = {y \in Media : home'[y] = x /\ mediaStatus'[y] = "pending"}
    BY PendingInNext
  <2>3. OpenIn(x) = {y \in Media : home[y] = x /\ mediaStatus[y] = "pending"}
    BY PendingIn
  <2> QED BY <2>1, <2>2, <2>3
<1>8. ASSUME NEW x \in Room
      PROVE  ReadyIn(x)' = ReadyIn(x)
  <2>1. \A y \in Media : home'[y] = x /\ mediaStatus'[y] = "ready"
                         <=> home[y] = x /\ mediaStatus[y] = "ready"
    BY <1>1, <1>2
  <2> QED BY <2>1, PendingIn, PendingInNext
<1> QED BY <1>3, <1>4, <1>5, <1>6, <1>7, <1>8

\* One row changes its status and no row its room.
LEMMA StatusSets ==
  ASSUME RowsInv, RowsInv', NEW m \in Media,
         home' = home, \A y \in Media : y # m => mediaStatus'[y] = mediaStatus[y]
  PROVE  /\ \A x \in Room \ {home[m]} : OpenIn(x)' = OpenIn(x) /\ ReadyIn(x)' = ReadyIn(x)
         /\ OpenIn(home[m])' = IF mediaStatus'[m] = "pending" THEN OpenIn(home[m]) \cup {m}
                                                              ELSE OpenIn(home[m]) \ {m}
         /\ ReadyIn(home[m])' = IF mediaStatus'[m] = "ready" THEN ReadyIn(home[m]) \cup {m}
                                                             ELSE ReadyIn(home[m]) \ {m}
         /\ m \in OpenIn(home[m]) <=> mediaStatus[m] = "pending"
         /\ m \in ReadyIn(home[m]) <=> mediaStatus[m] = "ready"
<1>1. ASSUME NEW x \in Room, x # home[m]
      PROVE  OpenIn(x)' = OpenIn(x) /\ ReadyIn(x)' = ReadyIn(x)
  <2>1. \A y \in Media : /\ home'[y] = x <=> home[y] = x
                         /\ home[y] = x => mediaStatus'[y] = mediaStatus[y]
    BY <1>1
  <2>2. /\ OpenIn(x)' = {y \in Media : home'[y] = x /\ mediaStatus'[y] = "pending"}
        /\ ReadyIn(x)' = {y \in Media : home'[y] = x /\ mediaStatus'[y] = "ready"}
    BY PendingInNext
  <2>3. /\ OpenIn(x) = {y \in Media : home[y] = x /\ mediaStatus[y] = "pending"}
        /\ ReadyIn(x) = {y \in Media : home[y] = x /\ mediaStatus[y] = "ready"}
    BY PendingIn
  <2>4. OpenIn(x)' = OpenIn(x)
    BY <2>1, <2>2, <2>3
  <2>5. ReadyIn(x)' = ReadyIn(x)
    BY <2>1, <2>2, <2>3
  <2> QED BY <2>4, <2>5
<1>2. OpenIn(home[m])' = {y \in Media : home'[y] = home[m] /\ mediaStatus'[y] = "pending"}
  BY PendingInNext
<1>3. ReadyIn(home[m])' = {y \in Media : home'[y] = home[m] /\ mediaStatus'[y] = "ready"}
  BY PendingInNext
<1>4. OpenIn(home[m]) = {y \in Media : home[y] = home[m] /\ mediaStatus[y] = "pending"}
  BY PendingIn
<1>5. ReadyIn(home[m]) = {y \in Media : home[y] = home[m] /\ mediaStatus[y] = "ready"}
  BY PendingIn
<1> QED BY <1>1, <1>2, <1>3, <1>4, <1>5

-----------------------------------------------------------------------------
(* The counters.                                                           *)

Account(r) ==
  /\ reservedFiles[r] = Cardinality(OpenIn(r))
  /\ usedFiles[r] = Cardinality(ReadyIn(r))
  /\ reservedBytes[r] = Bytes(size, OpenIn(r))
  /\ usedBytes[r] = Bytes(size, ReadyIn(r))

LEMMA SameAccount ==
  ASSUME NEW r, Account(r), OpenIn(r)' = OpenIn(r), ReadyIn(r)' = ReadyIn(r),
         \A y \in Held(r) : size'[y] = size[y],
         reservedFiles'[r] = reservedFiles[r], usedFiles'[r] = usedFiles[r],
         reservedBytes'[r] = reservedBytes[r], usedBytes'[r] = usedBytes[r]
  PROVE  Account(r)'
<1>1. Bytes(size, OpenIn(r)) = Bytes(size', OpenIn(r))
  BY BytesSame DEF Held
<1>2. Bytes(size, ReadyIn(r)) = Bytes(size', ReadyIn(r))
  BY BytesSame DEF Held
<1> QED BY <1>1, <1>2 DEF Account

\* A reservation is booked for the size that was declared.
LEMMA AcceptedAccount ==
  ASSUME TypeOK, RowsInv, RowsInv', NEW m \in Media, NEW r \in Room, NEW s \in Sizes,
         Accepted(m, r, s), Account(r)
  PROVE  Account(r)'
<1>1. /\ m \notin Held(r) /\ OpenIn(r)' = OpenIn(r) \cup {m} /\ ReadyIn(r)' = ReadyIn(r)
      /\ \A y \in Held(r) : size'[y] = size[y]
      /\ size'[m] = s
  BY AcceptedSets
<1>2. Cardinality(OpenIn(r) \cup {m}) = Cardinality(OpenIn(r)) + 1
  BY <1>1, FiniteIn, FS_AddElement DEF Held
<1>3. Bytes(size, OpenIn(r)) = Bytes(size', OpenIn(r))
  BY <1>1, BytesSame DEF Held
<1>4. Bytes(size, ReadyIn(r)) = Bytes(size', ReadyIn(r))
  BY <1>1, BytesSame DEF Held
<1>5. Bytes(size', OpenIn(r) \cup {m}) = Bytes(size', OpenIn(r)) + size'[m]
  BY <1>1, BytesAdd DEF Held
<1>6. /\ reservedFiles'[r] = reservedFiles[r] + 1 /\ usedFiles'[r] = usedFiles[r]
      /\ reservedBytes'[r] = reservedBytes[r] + s /\ usedBytes'[r] = usedBytes[r]
  BY DEF Accepted, TypeOK, TablesTypeOK
<1>7. Cardinality(OpenIn(r)') = Cardinality(OpenIn(r) \cup {m})
  BY <1>1
<1>8. Bytes(size', OpenIn(r)') = Bytes(size', OpenIn(r) \cup {m})
  BY <1>1
<1> QED BY <1>1, <1>2, <1>3, <1>4, <1>5, <1>6, <1>7, <1>8 DEF Account

\* What an upload gives back is what it took, however it ends.
LEMMA SettledAccount ==
  ASSUME TypeOK, RowsInv, RowsInv', NEW m \in Media,
         Released(m) \/ Kept(m) \/ Deleted(m), NEW r \in Room, r = home[m], Account(r)
  PROVE  Account(r)'
<1> USE DEF TypeOK, TablesTypeOK
<1>1. /\ size' = size /\ home' = home /\ size[m] \in Sizes
      /\ \A y \in Media : y # m => mediaStatus'[y] = mediaStatus[y]
  BY DEF Released, ReleaseReservation, Kept, Deleted, FixedCols, RowsInv, RowsAgree, Open
<1>2. /\ OpenIn(r)' = IF mediaStatus'[m] = "pending" THEN OpenIn(r) \cup {m}
                                                      ELSE OpenIn(r) \ {m}
      /\ ReadyIn(r)' = IF mediaStatus'[m] = "ready" THEN ReadyIn(r) \cup {m}
                                                     ELSE ReadyIn(r) \ {m}
      /\ m \in OpenIn(r) <=> mediaStatus[m] = "pending"
      /\ m \in ReadyIn(r) <=> mediaStatus[m] = "ready"
  BY <1>1, StatusSets
<1>f. /\ IsFiniteSet(OpenIn(r)) /\ IsFiniteSet(ReadyIn(r))
      /\ Cardinality(OpenIn(r)) \in Nat /\ Cardinality(ReadyIn(r)) \in Nat
      /\ Bytes(size, OpenIn(r)) \in Nat /\ Bytes(size, ReadyIn(r)) \in Nat
      /\ size[m] \in Nat
  BY <1>1, FiniteIn, FiniteSlots, Limits DEF Sizes
<1>3. ASSUME m \in OpenIn(r)
      PROVE  /\ Cardinality(OpenIn(r) \ {m}) = Cardinality(OpenIn(r)) - 1
             /\ Bytes(size, OpenIn(r) \ {m}) = Bytes(size, OpenIn(r)) - size[m]
  <2>1. Cardinality(OpenIn(r) \ {m}) = Cardinality(OpenIn(r)) - 1
    BY <1>3, <1>f, FS_RemoveElement
  <2>2. Bytes(size, OpenIn(r) \ {m}) = Bytes(size, OpenIn(r)) - size[m]
    BY <1>1, <1>3, BytesRemove
  <2> QED BY <2>1, <2>2
<1>4. ASSUME m \in ReadyIn(r)
      PROVE  /\ Cardinality(ReadyIn(r) \ {m}) = Cardinality(ReadyIn(r)) - 1
             /\ Bytes(size, ReadyIn(r) \ {m}) = Bytes(size, ReadyIn(r)) - size[m]
  <2>1. Cardinality(ReadyIn(r) \ {m}) = Cardinality(ReadyIn(r)) - 1
    BY <1>4, <1>f, FS_RemoveElement
  <2>2. Bytes(size, ReadyIn(r) \ {m}) = Bytes(size, ReadyIn(r)) - size[m]
    BY <1>1, <1>4, BytesRemove
  <2> QED BY <2>1, <2>2
<1>5. ASSUME m \notin ReadyIn(r)
      PROVE  /\ Cardinality(ReadyIn(r) \cup {m}) = Cardinality(ReadyIn(r)) + 1
             /\ Bytes(size, ReadyIn(r) \cup {m}) = Bytes(size, ReadyIn(r)) + size[m]
  <2>1. Cardinality(ReadyIn(r) \cup {m}) = Cardinality(ReadyIn(r)) + 1
    BY <1>5, <1>f, FS_AddElement
  <2>2. Bytes(size, ReadyIn(r) \cup {m}) = Bytes(size, ReadyIn(r)) + size[m]
    BY <1>1, <1>5, BytesAdd
  <2> QED BY <2>1, <2>2
<1>6. CASE Released(m)
  <2>1. /\ mediaStatus[m] = "pending" /\ mediaStatus'[m] \in {"failed", "deleted"}
        /\ reservedFiles'[r] = reservedFiles[r] - 1 /\ usedFiles'[r] = usedFiles[r]
        /\ reservedBytes'[r] = reservedBytes[r] - size[m] /\ usedBytes'[r] = usedBytes[r]
    BY <1>6 DEF Released, ReleaseReservation, RowsInv, RowsAgree
  <2>2. /\ m \in OpenIn(r) /\ OpenIn(r)' = OpenIn(r) \ {m} /\ m \notin ReadyIn(r)
        /\ ReadyIn(r)' = ReadyIn(r)
    BY <1>2, <2>1
  <2>3. Cardinality(OpenIn(r)') = Cardinality(OpenIn(r) \ {m})
    BY <2>2
  <2>4. Bytes(size', OpenIn(r)') = Bytes(size, OpenIn(r) \ {m})
    BY <1>1, <2>2
  <2>5. Bytes(size', ReadyIn(r)') = Bytes(size, ReadyIn(r))
    BY <1>1, <2>2
  <2> QED BY <1>3, <1>f, <2>1, <2>2, <2>3, <2>4, <2>5 DEF Account
<1>7. CASE Kept(m)
  <2>1. /\ mediaStatus[m] = "pending" /\ mediaStatus'[m] = "ready"
        /\ reservedFiles'[r] = reservedFiles[r] - 1 /\ usedFiles'[r] = usedFiles[r] + 1
        /\ reservedBytes'[r] = reservedBytes[r] - size[m]
        /\ usedBytes'[r] = usedBytes[r] + size[m]
    BY <1>7 DEF Kept, RowsInv, RowsAgree
  <2>2. /\ m \in OpenIn(r) /\ OpenIn(r)' = OpenIn(r) \ {m} /\ m \notin ReadyIn(r)
        /\ ReadyIn(r)' = ReadyIn(r) \cup {m}
    BY <1>2, <2>1
  <2>3. /\ Cardinality(OpenIn(r)') = Cardinality(OpenIn(r) \ {m})
        /\ Cardinality(ReadyIn(r)') = Cardinality(ReadyIn(r) \cup {m})
    BY <2>2
  <2>4. Bytes(size', OpenIn(r)') = Bytes(size, OpenIn(r) \ {m})
    BY <1>1, <2>2
  <2>5. Bytes(size', ReadyIn(r)') = Bytes(size, ReadyIn(r) \cup {m})
    BY <1>1, <2>2
  <2> QED BY <1>3, <1>5, <1>f, <2>1, <2>2, <2>3, <2>4, <2>5 DEF Account
<1>8. CASE Deleted(m)
  <2>1. /\ mediaStatus[m] = "ready" /\ mediaStatus'[m] = "deleted"
        /\ reservedFiles'[r] = reservedFiles[r] /\ usedFiles'[r] = usedFiles[r] - 1
        /\ reservedBytes'[r] = reservedBytes[r] /\ usedBytes'[r] = usedBytes[r] - size[m]
    BY <1>8 DEF Deleted
  <2>2. /\ m \notin OpenIn(r) /\ OpenIn(r)' = OpenIn(r) /\ m \in ReadyIn(r)
        /\ ReadyIn(r)' = ReadyIn(r) \ {m}
    BY <1>2, <2>1
  <2>3. Cardinality(ReadyIn(r)') = Cardinality(ReadyIn(r) \ {m})
    BY <2>2
  <2>4. Bytes(size', OpenIn(r)') = Bytes(size, OpenIn(r))
    BY <1>1, <2>2
  <2>5. Bytes(size', ReadyIn(r)') = Bytes(size, ReadyIn(r) \ {m})
    BY <1>1, <2>2
  <2> QED BY <1>4, <1>f, <2>1, <2>2, <2>3, <2>4, <2>5 DEF Account
<1> QED BY <1>6, <1>7, <1>8

\* A move on one upload leaves the accounts of the other rooms alone.
LEMMA OtherAccounts ==
  ASSUME TypeOK, RowsInv, RowsInv', NEW r \in Room, Account(r),
         \/ \E m \in Media, x \in Room, s \in Sizes : Accepted(m, x, s) /\ x # r
         \/ \E m \in Media : (Released(m) \/ Kept(m) \/ Deleted(m)) /\ r # home[m]
  PROVE  Account(r)'
<1> USE DEF TypeOK, TablesTypeOK
<1>1. ASSUME NEW m \in Media, NEW x \in Room, NEW s \in Sizes, Accepted(m, x, s), x # r
      PROVE  Account(r)'
  <2>1. /\ OpenIn(r)' = OpenIn(r) /\ ReadyIn(r)' = ReadyIn(r)
        /\ \A y \in Held(r) : size'[y] = size[y]
    BY <1>1, AcceptedSets
  <2>2. /\ reservedFiles'[r] = reservedFiles[r] /\ usedFiles'[r] = usedFiles[r]
        /\ reservedBytes'[r] = reservedBytes[r] /\ usedBytes'[r] = usedBytes[r]
    BY <1>1 DEF Accepted
  <2> QED BY <2>1, <2>2, SameAccount
<1>2. ASSUME NEW m \in Media, Released(m) \/ Kept(m) \/ Deleted(m), r # home[m]
      PROVE  Account(r)'
  <2>1. /\ home' = home /\ size' = size
        /\ \A y \in Media : y # m => mediaStatus'[y] = mediaStatus[y]
    BY <1>2 DEF Released, ReleaseReservation, Kept, Deleted, FixedCols
  <2>2. OpenIn(r)' = OpenIn(r) /\ ReadyIn(r)' = ReadyIn(r)
    BY <1>2, <2>1, StatusSets
  <2>3. /\ reservedFiles'[r] = reservedFiles[r] /\ usedFiles'[r] = usedFiles[r]
        /\ reservedBytes'[r] = reservedBytes[r] /\ usedBytes'[r] = usedBytes[r]
    BY <1>2 DEF Released, ReleaseReservation, Kept, Deleted
  <2> QED BY <2>1, <2>2, <2>3, SameAccount
<1> QED BY <1>1, <1>2

\* The moves that open and settle nothing keep every account.
LEMMA QuietAccounts ==
  ASSUME TypeOK, RowsInv, RowsInv', NEW r \in Room, roomStatus'[r] # "gone",
         Still \/ (\E m \in Media : Hidden(m)) \/ \E x \in Room : Removed(x)
  PROVE  /\ roomStatus[r] # "gone"
         /\ Account(r) => Account(r)'
<1> USE DEF TypeOK, TablesTypeOK
<1>1. UNCHANGED <<counters, home, size>> /\ roomStatus[r] # "gone"
  BY DEF Still, Hidden, Removed, FixedCols
<1>2. \A y \in Media : home[y] = r =>
        /\ mediaStatus'[y] = "pending" <=> mediaStatus[y] = "pending"
        /\ mediaStatus'[y] = "ready" <=> mediaStatus[y] = "ready"
  BY DEF Still, Hidden, Removed, InRoom
<1>3. /\ OpenIn(r)' = {y \in Media : home'[y] = r /\ mediaStatus'[y] = "pending"}
      /\ ReadyIn(r)' = {y \in Media : home'[y] = r /\ mediaStatus'[y] = "ready"}
  BY PendingInNext
<1>4. /\ OpenIn(r) = {y \in Media : home[y] = r /\ mediaStatus[y] = "pending"}
      /\ ReadyIn(r) = {y \in Media : home[y] = r /\ mediaStatus[y] = "ready"}
  BY PendingIn
<1>5. OpenIn(r)' = OpenIn(r)
  BY <1>1, <1>2, <1>3, <1>4
<1>6. ReadyIn(r)' = ReadyIn(r)
  BY <1>1, <1>2, <1>3, <1>4
<1> QED BY <1>1, <1>5, <1>6, SameAccount

AccountsKept == \A r \in Room : roomStatus[r] # "gone" => Account(r)

LEMMA AccountsStep ==
  ASSUME TypeOK, RowsInv, RowsInv', AccountsKept, Move
  PROVE  AccountsKept'
<1> SUFFICES ASSUME NEW r \in Room, roomStatus'[r] # "gone"
             PROVE  Account(r)'
  BY DEF AccountsKept
<1>1. CASE Still \/ (\E m \in Media : Hidden(m)) \/ \E x \in Room : Removed(x)
  BY <1>1, QuietAccounts DEF AccountsKept
<1>2. ASSUME NEW m \in Media, NEW x \in Room, NEW s \in Sizes, Accepted(m, x, s)
      PROVE  Account(r)'
  <2>1. Account(r)
    BY <1>2 DEF AccountsKept, Accepted
  <2>2. CASE x = r
    BY <1>2, <2>1, <2>2, AcceptedAccount
  <2>3. CASE x # r
    BY <1>2, <2>1, <2>3, OtherAccounts
  <2> QED BY <2>2, <2>3
<1>3. ASSUME NEW m \in Media, Released(m) \/ Kept(m) \/ Deleted(m)
      PROVE  Account(r)'
  <2>1. Account(r)
    BY <1>3 DEF AccountsKept, Released, Kept, Deleted
  <2>2. CASE r = home[m]
    BY <1>3, <2>1, <2>2, SettledAccount
  <2>3. CASE r # home[m]
    BY <1>3, <2>1, <2>3, OtherAccounts
  <2> QED BY <2>2, <2>3
<1> QED BY <1>1, <1>2, <1>3 DEF Move

-----------------------------------------------------------------------------
(* The limits.                                                             *)

LimitsOf(r) ==
  /\ Cardinality(OpenIn(r) \cup ReadyIn(r)) <= MaxFiles
  /\ Bytes(size, OpenIn(r) \cup ReadyIn(r)) <= MaxBytes

\* Two sets count no more together than one by one, so exact counters that
\* leave room for an upload mean that the rows do.
LEMMA AcceptedLimits ==
  ASSUME TypeOK, RowsInv, RowsInv', NEW m \in Media, NEW r \in Room, NEW s \in Sizes,
         Accepted(m, r, s), Account(r)
  PROVE  LimitsOf(r)'
<1>1. Account(r)'
  BY AcceptedAccount
<1>2. /\ reservedFiles'[r] = reservedFiles[r] + 1 /\ usedFiles'[r] = usedFiles[r]
      /\ reservedBytes'[r] = reservedBytes[r] + s /\ usedBytes'[r] = usedBytes[r]
      /\ usedFiles[r] \in Int /\ usedBytes[r] \in Int
      /\ reservedFiles[r] \in Int /\ reservedBytes[r] \in Int /\ s \in Int
  BY Limits DEF Accepted, TypeOK, TablesTypeOK, Sizes
<1>3. /\ usedFiles[r] + reservedFiles[r] + 1 <= MaxFiles
      /\ usedBytes[r] + reservedBytes[r] + s <= MaxBytes
  BY DEF Accepted, Fits
<1> DEFINE O == OpenIn(r)'
           R == ReadyIn(r)'
<1>4. /\ IsFiniteSet(O) /\ IsFiniteSet(R)
      /\ O \in SUBSET Media /\ R \in SUBSET Media
  <2>1. O \in SUBSET Media /\ R \in SUBSET Media
    BY DEF OpenIn, ReadyIn
  <2> QED BY <2>1, FiniteRows, FS_Subset
<1>5. Cardinality(O) = reservedFiles'[r] /\ Cardinality(R) = usedFiles'[r]
  BY <1>1 DEF Account
<1>6. Bytes(size', O) = reservedBytes'[r] /\ Bytes(size', R) = usedBytes'[r]
  BY <1>1 DEF Account
<1>7. LimitsOf(r)' <=> Cardinality(O \cup R) <= MaxFiles /\ Bytes(size', O \cup R) <= MaxBytes
  BY DEF LimitsOf
<1> HIDE DEF O, R
<1>8. Cardinality(O \cup R) <= Cardinality(O) + Cardinality(R)
  <2>1. Cardinality(O \cup R) = Cardinality(O) + Cardinality(R) - Cardinality(O \cap R)
    BY <1>4, FS_Union
  <2>2. IsFiniteSet(O \cap R)
    BY <1>4, FS_Intersection
  <2>3. /\ Cardinality(O) \in Nat /\ Cardinality(R) \in Nat
        /\ Cardinality(O \cap R) \in Nat
    BY <1>4, <2>2, FS_CardinalityType
  <2> QED BY <2>1, <2>3
<1>9. Bytes(size', O \cup R) <= Bytes(size', O) + Bytes(size', R)
  BY BytesUnion
<1>10. IsFiniteSet(O \cup R) /\ Cardinality(O \cup R) \in Nat
  BY <1>4, FS_Union, FS_CardinalityType
<1>11. Bytes(size', O \cup R) \in Nat
  BY FiniteSlots
<1>12. MaxFiles \in Nat /\ MaxBytes \in Nat
  BY Limits
<1>13. Cardinality(O \cup R) <= MaxFiles
  BY <1>2, <1>3, <1>5, <1>8, <1>10, <1>12
<1>14. Bytes(size', O \cup R) <= MaxBytes
  BY <1>2, <1>3, <1>6, <1>9, <1>11, <1>12
<1> QED BY <1>7, <1>13, <1>14

\* The other moves hold no more than before.
LEMMA ShrunkLimits ==
  ASSUME NEW r \in Room, LimitsOf(r),
         OpenIn(r)' \cup ReadyIn(r)' \subseteq OpenIn(r) \cup ReadyIn(r),
         \A y \in OpenIn(r)' \cup ReadyIn(r)' : size'[y] = size[y]
  PROVE  LimitsOf(r)'
<1> DEFINE H == OpenIn(r) \cup ReadyIn(r)
           N == OpenIn(r)' \cup ReadyIn(r)'
<1>1. IsFiniteSet(H)
  BY FiniteIn, FS_Union
<1>2. N \in SUBSET H
  OBVIOUS
<1>3. Cardinality(H) <= MaxFiles /\ Bytes(size, H) <= MaxBytes
  BY DEF LimitsOf
<1>4. LimitsOf(r)' <=> Cardinality(N) <= MaxFiles /\ Bytes(size', N) <= MaxBytes
  BY DEF LimitsOf
<1>5. \A y \in N : size'[y] = size[y]
  OBVIOUS
<1> HIDE DEF H, N
<1>6. Cardinality(N) <= Cardinality(H) /\ Cardinality(N) \in Nat /\ Cardinality(H) \in Nat
  BY <1>1, <1>2, FS_Subset, FS_CardinalityType
<1>7. Bytes(size', N) = Bytes(size, N)
  BY <1>5, BytesSame
<1>8. Bytes(size, N) <= Bytes(size, H)
  BY <1>2, BytesMonotone
<1>9. Bytes(size, N) \in Nat /\ Bytes(size, H) \in Nat
  BY FiniteSlots
<1> QED BY <1>3, <1>4, <1>6, <1>7, <1>8, <1>9, Limits

LEMMA LimitsStep ==
  ASSUME TypeOK, RowsInv, RowsInv', AccountsKept, WithinLimits, Move
  PROVE  WithinLimits'
<1> USE DEF TypeOK, TablesTypeOK
<1> SUFFICES ASSUME NEW r \in Room
             PROVE  LimitsOf(r)'
  BY DEF WithinLimits, LimitsOf
<1>1. LimitsOf(r)
  BY DEF WithinLimits, LimitsOf
<1>2. ASSUME NEW m \in Media, NEW x \in Room, NEW s \in Sizes, Accepted(m, x, s)
      PROVE  LimitsOf(r)'
  <2>1. CASE x = r
    <3>1. Account(r)
      BY <1>2, <2>1 DEF AccountsKept, Accepted
    <3> QED BY <1>2, <2>1, <3>1, AcceptedLimits
  <2>2. CASE x # r
    <3>1. /\ OpenIn(r)' = OpenIn(r) /\ ReadyIn(r)' = ReadyIn(r)
          /\ \A y \in Held(r) : size'[y] = size[y]
      BY <1>2, <2>2, AcceptedSets
    <3> QED BY <1>1, <3>1, ShrunkLimits DEF Held
  <2> QED BY <2>1, <2>2
<1>3. ASSUME home' = home, size' = size,
             \A y \in Media : mediaStatus'[y] \in {"pending", "ready"}
                              => mediaStatus[y] \in {"pending", "ready"}
      PROVE  LimitsOf(r)'
  <2>1. /\ OpenIn(r)' = {y \in Media : home'[y] = r /\ mediaStatus'[y] = "pending"}
        /\ ReadyIn(r)' = {y \in Media : home'[y] = r /\ mediaStatus'[y] = "ready"}
    BY PendingInNext
  <2>2. /\ OpenIn(r) = {y \in Media : home[y] = r /\ mediaStatus[y] = "pending"}
        /\ ReadyIn(r) = {y \in Media : home[y] = r /\ mediaStatus[y] = "ready"}
    BY PendingIn
  <2>3. OpenIn(r)' \cup ReadyIn(r)' \subseteq OpenIn(r) \cup ReadyIn(r)
    BY <1>3, <2>1, <2>2
  <2> QED BY <1>1, <1>3, <2>3, ShrunkLimits
<1>4. ASSUME NEW m \in Media, Released(m) \/ Kept(m) \/ Deleted(m) \/ Hidden(m)
      PROVE  LimitsOf(r)'
  <2>1. /\ home' = home /\ size' = size
        /\ \A y \in Media : mediaStatus'[y] \in {"pending", "ready"}
                            => mediaStatus[y] \in {"pending", "ready"}
    BY <1>4 DEF Released, ReleaseReservation, Kept, Deleted, Hidden, FixedCols, RowsInv, RowsAgree
  <2> QED BY <1>3, <2>1
<1>5. ASSUME NEW x \in Room, Removed(x)
      PROVE  LimitsOf(r)'
  <2>1. /\ home' = home /\ size' = size
        /\ \A y \in Media : mediaStatus'[y] \in {"pending", "ready"}
                            => mediaStatus[y] \in {"pending", "ready"}
    BY <1>5 DEF Removed, FixedCols
  <2> QED BY <1>3, <2>1
<1>6. CASE Still
  BY <1>3, <1>6 DEF Still, FixedCols
<1> QED BY <1>2, <1>4, <1>5, <1>6 DEF Move

LEMMA AccountsInit ==
  ASSUME Init
  PROVE  AccountsKept /\ WithinLimits
<1> USE DEF Init, TablesInit
<1>1. \A r \in Room : OpenIn(r) = {} /\ ReadyIn(r) = {}
  BY NullRoom DEF OpenIn, ReadyIn
<1>2. Slots(size, {}) = {}
  BY DEF Slots
<1>3. Cardinality({}) = 0 /\ {} \cup {} = {}
  BY FS_EmptySet
<1>4. Bytes(size, {}) = 0
  BY <1>2, <1>3, FiniteSlots
<1>5. ASSUME NEW r \in Room
      PROVE  Account(r) /\ LimitsOf(r)
  <2>1. OpenIn(r) = {} /\ ReadyIn(r) = {}
    BY <1>1
  <2>2. OpenIn(r) \cup ReadyIn(r) = {}
    BY <2>1
  <2>3. Account(r)
    BY <1>3, <1>4, <2>1 DEF Account
  <2>4. Cardinality(OpenIn(r) \cup ReadyIn(r)) = 0
    BY <1>3, <2>2
  <2>5. Bytes(size, OpenIn(r) \cup ReadyIn(r)) = 0
    BY <1>4, <2>2
  <2> QED BY <2>3, <2>4, <2>5, Limits DEF LimitsOf
<1> QED BY <1>5 DEF AccountsKept, WithinLimits, LimitsOf

LEMMA AccountsInvariant == Spec => [](TypeOK /\ RowsInv /\ AccountsKept /\ WithinLimits)
<1>1. Init => AccountsKept /\ WithinLimits
  BY AccountsInit
<1>2. /\ TypeOK /\ RowsInv /\ RowsInv' /\ AccountsKept /\ WithinLimits /\ [Next]_vars
      => AccountsKept' /\ WithinLimits'
  BY StepMoves, StutterMoves, AccountsStep, LimitsStep
<1> QED BY <1>1, <1>2, RowsInvariant, PTL DEF Spec

\* The counters of a room are what its rows say in every reachable state,
\* whichever handlers and workers raced for its uploads.
THEOREM CountersAlwaysExact == Spec => []CountersExact
<1>1. AccountsKept => CountersExact
  BY DEF AccountsKept, Account, CountersExact
<1> QED BY <1>1, AccountsInvariant, PTL

\* A room never holds or promises more than its limits.
THEOREM LimitsHold == Spec => []WithinLimits
BY AccountsInvariant, PTL

-----------------------------------------------------------------------------
(* The refinement of UploadLedger: accepting an upload is a Reserve,       *)
(* completing it a Keep, settling or deleting it a Release, removing a     *)
(* room an Erase, and every other step leaves the ledger alone.            *)

Live == {r \in Room : roomStatus[r] # "gone"}

StateOf(status) ==
  CASE status = "none"    -> "free"
    [] status = "pending" -> "reserved"
    [] status = "ready"   -> "stored"
    [] status = "gone"    -> "erased"
    [] OTHER              -> "released"

LEMMA States ==
  /\ StateOf("none") = "free" /\ StateOf("pending") = "reserved"
  /\ StateOf("ready") = "stored" /\ StateOf("gone") = "erased"
  /\ StateOf("failed") = "released" /\ StateOf("deleted") = "released"
BY DEF StateOf

LEMMA Mapped ==
  /\ LedgerState = [m \in Media |-> StateOf(mediaStatus[m])]
  /\ LedgerState' = [m \in Media |-> StateOf(mediaStatus'[m])]
BY DEF LedgerState, StateOf

\* The ledger counts with the same Cardinality.
LEMMA SameCardinality ==
  ASSUME NEW S
  PROVE  Promise!Cardinality(S) = Cardinality(S)
BY DEF Promise!Cardinality, Cardinality

\* The ledger's holdings are the rows the counters count.
LEMMA MappedHeld ==
  ASSUME TypeOK, RowsInv, NEW r \in Room
  PROVE  /\ Promise!Held(r) = OpenIn(r) \cup ReadyIn(r)
         /\ Promise!Weight(OpenIn(r) \cup ReadyIn(r)) = Bytes(size, OpenIn(r) \cup ReadyIn(r))
<1>1. \A m \in Media : LedgerState[m] \in {"reserved", "stored"}
                       <=> mediaStatus[m] \in {"pending", "ready"}
  BY Mapped, States DEF TypeOK, TablesTypeOK, MediaStatus
<1>2. /\ OpenIn(r) = {m \in Media : home[m] = r /\ mediaStatus[m] = "pending"}
      /\ ReadyIn(r) = {m \in Media : home[m] = r /\ mediaStatus[m] = "ready"}
  BY PendingIn
<1>3. Promise!Held(r) = OpenIn(r) \cup ReadyIn(r)
  BY <1>1, <1>2 DEF Promise!Held
<1>4. Promise!Weight(OpenIn(r) \cup ReadyIn(r)) = Bytes(size, OpenIn(r) \cup ReadyIn(r))
  BY SameCardinality DEF Promise!Weight, Bytes
<1> QED BY <1>3, <1>4

\* Exact counters that leave room mean that the ledger has room.
LEMMA MappedRoom ==
  ASSUME TypeOK, RowsInv, NEW r \in Room, NEW s \in Sizes, Account(r), Fits(r, s)
  PROVE  /\ Cardinality(Promise!Held(r)) + 1 <= MaxFiles
         /\ Promise!Weight(Promise!Held(r)) + s <= MaxBytes
<1> DEFINE O == OpenIn(r)
           R == ReadyIn(r)
<1>1. /\ Promise!Held(r) = O \cup R
      /\ Promise!Weight(O \cup R) = Bytes(size, O \cup R)
  BY MappedHeld
<1>2. /\ Cardinality(O) = reservedFiles[r] /\ Cardinality(R) = usedFiles[r]
      /\ Bytes(size, O) = reservedBytes[r] /\ Bytes(size, R) = usedBytes[r]
  BY DEF Account
<1>3. IsFiniteSet(O) /\ IsFiniteSet(R)
  BY FiniteIn
<1> HIDE DEF O, R
<1>4. Cardinality(O \cup R) = Cardinality(O) + Cardinality(R) - Cardinality(O \cap R)
  BY <1>3, FS_Union
<1>5. IsFiniteSet(O \cap R) /\ IsFiniteSet(O \cup R)
  BY <1>3, FS_Intersection, FS_Union
<1>6. /\ Cardinality(O) \in Nat /\ Cardinality(R) \in Nat
      /\ Cardinality(O \cap R) \in Nat /\ Cardinality(O \cup R) \in Nat
  BY <1>3, <1>5, FS_CardinalityType
<1>7. /\ Bytes(size, O \cup R) <= Bytes(size, O) + Bytes(size, R)
      /\ Bytes(size, O) \in Nat /\ Bytes(size, R) \in Nat /\ Bytes(size, O \cup R) \in Nat
  BY BytesUnion, FiniteSlots
<1>8. /\ usedFiles[r] + reservedFiles[r] + 1 <= MaxFiles
      /\ usedBytes[r] + reservedBytes[r] + s <= MaxBytes
      /\ MaxFiles \in Nat /\ MaxBytes \in Nat /\ s \in Nat
  BY Limits DEF Fits, Sizes
<1>9. Cardinality(Promise!Held(r)) = Cardinality(O \cup R)
  BY <1>1
<1>10. Promise!Weight(Promise!Held(r)) = Bytes(size, O \cup R)
  BY <1>1
<1>11. Cardinality(O \cup R) + 1 <= MaxFiles
  BY <1>2, <1>4, <1>6, <1>8
<1>12. Bytes(size, O \cup R) + s <= MaxBytes
  BY <1>2, <1>7, <1>8
<1> QED BY <1>9, <1>10, <1>11, <1>12

\* What the ledger knows of a key is what findIdempotentUpload finds.
LEMMA MappedKeys ==
  ASSUME TypeOK, NEW k \in Key
  PROVE  Promise!Under(k) = {} <=> ~KeyUsed(k)
<1>1. \A m \in Media : LedgerState[m] # "erased" <=> mediaStatus[m] # "gone"
  BY Mapped, States DEF TypeOK, TablesTypeOK, MediaStatus
<1> QED BY <1>1 DEF Promise!Under, KeyUsed

-----------------------------------------------------------------------------
(* Every move is a step of the ledger, or none.                            *)

LEMMA AcceptedReserves ==
  ASSUME TypeOK, RowsInv, AccountsKept,
         NEW m \in Media, NEW r \in Room, NEW s \in Sizes, Accepted(m, r, s)
  PROVE  \E k \in Key : Promise!Reserve(m, r, s, k)
<1>1. Account(r) /\ Fits(r, s) /\ r \in Live
  BY DEF Accepted, AccountsKept, Live
<1>2. /\ Cardinality(Promise!Held(r)) + 1 <= MaxFiles
      /\ Promise!Weight(Promise!Held(r)) + s <= MaxBytes
  BY <1>1, MappedRoom
<1>c. Promise!Cardinality(Promise!Held(r)) = Cardinality(Promise!Held(r))
  BY SameCardinality
<1>3. LedgerState[m] = "free"
  BY Mapped, States DEF Accepted
<1>4. LedgerState' = [LedgerState EXCEPT ![m] = "reserved"]
  BY Mapped, States DEF Accepted, TypeOK, TablesTypeOK
<1>5. Live' = Live
  BY DEF Live, Accepted
<1>6. PICK k \in Key : ~KeyUsed(k) /\ key' = [key EXCEPT ![m] = k]
  BY DEF Accepted, KeyTaken
<1>7. Promise!Under(k) = {}
  BY <1>6, MappedKeys
<1>8. Promise!Reserve(m, r, s, k)
  BY <1>1, <1>2, <1>c, <1>3, <1>4, <1>5, <1>6, <1>7 DEF Promise!Reserve, Accepted, Live
<1> QED BY <1>8

LEMMA KeptKeeps ==
  ASSUME TypeOK, RowsInv, NEW m \in Media, Kept(m)
  PROVE  Promise!Keep(m)
<1>1. mediaStatus[m] = "pending"
  BY DEF Kept, RowsInv, RowsAgree
<1>2. LedgerState[m] = "reserved"
  BY <1>1, Mapped, States
<1>3. LedgerState' = [LedgerState EXCEPT ![m] = "stored"]
  BY Mapped, States DEF Kept, TypeOK, TablesTypeOK
<1> QED BY <1>2, <1>3 DEF Promise!Keep, Kept, FixedCols

LEMMA SettledReleases ==
  ASSUME TypeOK, RowsInv, NEW m \in Media, Released(m) \/ Deleted(m)
  PROVE  Promise!Release(m)
<1>1. mediaStatus[m] \in {"pending", "ready"}
  BY DEF Released, Deleted, RowsInv, RowsAgree
<1>2. LedgerState[m] \in {"reserved", "stored"}
  BY <1>1, Mapped, States
<1>3. \/ mediaStatus' = [mediaStatus EXCEPT ![m] = "failed"]
      \/ mediaStatus' = [mediaStatus EXCEPT ![m] = "deleted"]
  BY DEF Released, ReleaseReservation, Deleted
<1>4. LedgerState' = [LedgerState EXCEPT ![m] = "released"]
  BY <1>3, Mapped, States DEF TypeOK, TablesTypeOK
<1>5. UNCHANGED <<roomStatus, home, size, key>>
  BY DEF Released, Deleted, FixedCols
<1> QED BY <1>2, <1>4, <1>5 DEF Promise!Release

LEMMA RemovedErases ==
  ASSUME TypeOK, RowsInv, NEW r \in Room, Removed(r)
  PROVE  Promise!Erase(r)
<1>1. r \in Live
  BY DEF Live, Removed
<1>2. Live' = Live \ {r}
  BY DEF Live, Removed, TypeOK, TablesTypeOK
<1>3. \A m \in Media : mediaStatus'[m] = IF home[m] = r THEN "gone" ELSE mediaStatus[m]
  BY DEF Removed, InRoom
<1>4. LedgerState' = [m \in Media |-> IF home[m] = r THEN "erased" ELSE LedgerState[m]]
  BY <1>3, Mapped, States
<1> QED BY <1>1, <1>2, <1>4 DEF Promise!Erase, Live, Removed, FixedCols

LEMMA OthersStutter ==
  ASSUME TypeOK, RowsInv, Still \/ \E m \in Media : Hidden(m)
  PROVE  UNCHANGED Promise!ledger
<1>1. \A m \in Media : StateOf(mediaStatus'[m]) = StateOf(mediaStatus[m])
  BY States DEF Still, Hidden, TypeOK, TablesTypeOK
<1>2. LedgerState' = LedgerState
  BY <1>1, Mapped
<1>3. Live' = Live
  BY DEF Live, Still, Hidden
<1> QED BY <1>2, <1>3 DEF Promise!ledger, Live, Still, Hidden, FixedCols

\* Whatever requests, workers and clients do, a room sees reservations that
\* fit, one for a key, and each upload is kept, released or erased once.
THEOREM SystemKeepsPromise == Spec => KeepsPromise
<1>1. Init => Promise!LedgerInit
  <2> SUFFICES ASSUME Init PROVE Promise!LedgerInit
    OBVIOUS
  <2>1. LedgerState = [m \in Media |-> "free"]
    BY Mapped, States DEF Init, TablesInit
  <2>2. Live = Room
    BY DEF Live, Init, TablesInit
  <2> QED BY <2>1, <2>2 DEF Promise!LedgerInit, Live, Init, TablesInit
<1>2. TypeOK /\ RowsInv /\ AccountsKept /\ [Next]_vars
      => [Promise!LedgerNext]_(Promise!ledger)
  <2> SUFFICES ASSUME TypeOK, RowsInv, AccountsKept, [Next]_vars
               PROVE  [Promise!LedgerNext]_(Promise!ledger)
    OBVIOUS
  <2>1. Move
    BY StepMoves, StutterMoves
  <2>2. ASSUME NEW m \in Media, NEW r \in Room, NEW s \in Sizes, Accepted(m, r, s)
        PROVE  Promise!LedgerNext
    BY <2>2, AcceptedReserves DEF Promise!LedgerNext
  <2>3. ASSUME NEW m \in Media, Released(m) \/ Kept(m) \/ Deleted(m)
        PROVE  Promise!LedgerNext
    BY <2>3, KeptKeeps, SettledReleases DEF Promise!LedgerNext
  <2>4. ASSUME NEW r \in Room, Removed(r)
        PROVE  Promise!LedgerNext
    BY <2>4, RemovedErases DEF Promise!LedgerNext
  <2>5. CASE Still \/ \E m \in Media : Hidden(m)
    BY <2>5, OthersStutter
  <2> QED BY <2>1, <2>2, <2>3, <2>4, <2>5 DEF Move
<1> QED BY <1>1, <1>2, AccountsInvariant, PTL DEF Spec, KeepsPromise, Promise!LedgerSpec
=============================================================================
