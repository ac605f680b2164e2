---------------------------- MODULE Locks_proofs ----------------------------
(***************************************************************************)
(* The lock order of any number of transactions, uploads and rooms: the    *)
(* expiry, which locks against it, never waits, and without a room being   *)
(* dropped no ring of waiting transactions forms.                          *)
(***************************************************************************)
EXTENDS Locks, TLAPS

Closed(m) == upload[m] \in {"settled", "gone"}

\* What a transaction still has to lock, and what it has locked by then.
Plan(t) ==
  /\ job[t] = Nothing => todo[t] = {}
  /\ Kind(t) = "initiate" =>
       /\ upload[On(t)] = "none"
       /\ \E k \in Key : todo[t] \subseteq {KeyLock(k), RoomRow(home[On(t)])}
  /\ Kind(t) = "settle" =>
       /\ upload[On(t)] # "none"
       /\ todo[t] \subseteq {SessionOf(On(t)), MediaOf(On(t)), RoomRow(home[On(t)])}
       /\ SessionOf(On(t)) \in todo[t] \/ holder[SessionOf(On(t))] = t
  /\ Kind(t) = "delete" =>
       /\ Closed(On(t))
       /\ todo[t] \subseteq {MediaOf(On(t)), RoomRow(home[On(t)])}
  /\ Kind(t) = "expire" =>
       /\ upload[On(t)] = "open"
       /\ todo[t] \subseteq {MediaOf(On(t))}
       /\ holder[SessionOf(On(t))] = t /\ holder[RoomRow(home[On(t)])] = t
  /\ Kind(t) = "brief" =>
       \E x \in Row : todo[t] \subseteq {x} /\ \A m \in Upload : x = MediaOf(m) => Closed(m)
  /\ Kind(t) = "drop" =>
       /\ RoomRow(On(t)) \in todo[t] \/ holder[RoomRow(On(t))] = t
       /\ \/ todo[t] = {RoomRow(On(t))}
          \/ /\ holder[RoomRow(On(t))] = t
             /\ \A x \in todo[t] : \E m \in Upload : home[m] = On(t) /\ x \in {SessionOf(m), MediaOf(m)}

\* Why t may hold the media of an upload.
MediaHeld(t) == \A m \in Upload : holder[MediaOf(m)] = t =>
  /\ Kind(t) \in {"settle", "expire"} => On(t) = m /\ holder[SessionOf(m)] = t
  /\ Kind(t) = "drop" => holder[RoomRow(home[m])] = t
  /\ Kind(t) \in {"delete", "brief"} => Closed(m)
  /\ Kind(t) # "initiate"

\* What t holds comes before what it has yet to lock.
Upward(t) == Kind(t) \notin {"drop", "expire"} =>
  \A x \in Row, y \in todo[t] : holder[x] = t => Rank(x) < Rank(y)

TxnInv(t) == Plan(t) /\ MediaHeld(t) /\ Upward(t)

OneInitiate == \A t, u \in Txn :
  Kind(t) = "initiate" /\ Kind(u) = "initiate" /\ On(t) = On(u) => t = u

LocksInv == LocksTypeOK /\ OneInitiate /\ \A t \in Txn : TxnInv(t)

-----------------------------------------------------------------------------
(* Rows                                                                    *)

LEMMA Rows ==
  /\ \A m \in Upload : SessionOf(m) \in Row /\ MediaOf(m) \in Row
  /\ \A r \in Room : RoomRow(r) \in Row
  /\ \A k \in Key : KeyLock(k) \in Row
BY DEF Row

LEMMA Ranks ==
  /\ \A m : Rank(SessionOf(m)) = 1 /\ Rank(MediaOf(m)) = 2
  /\ \A r : Rank(RoomRow(r)) = 3
  /\ \A k : Rank(KeyLock(k)) = 0
BY DEF Rank, SessionOf, MediaOf, RoomRow, KeyLock

LEMMA RanksOfRows == \A x \in Row : Rank(x) \in 0..3
BY Ranks DEF Row

LEMMA Distinct ==
  /\ \A m, n : (SessionOf(m) = SessionOf(n) => m = n) /\ (MediaOf(m) = MediaOf(n) => m = n)
  /\ \A r, s : RoomRow(r) = RoomRow(s) => r = s
  /\ \A m, n : SessionOf(m) # MediaOf(n) /\ SessionOf(m) # RoomRow(n) /\ SessionOf(m) # KeyLock(n)
               /\ MediaOf(m) # RoomRow(n) /\ MediaOf(m) # KeyLock(n) /\ RoomRow(m) # KeyLock(n)
BY DEF SessionOf, MediaOf, RoomRow, KeyLock

LEMMA Jobs ==
  ASSUME LocksTypeOK, NEW t \in Txn
  PROVE  \/ job[t] = Nothing /\ Kind(t) = "idle"
         \/ /\ Kind(t) \in {"initiate", "settle", "delete", "expire"}
            /\ On(t) \in Upload /\ home[On(t)] \in Room
            /\ job[t] = [kind |-> Kind(t), on |-> On(t)]
         \/ /\ Kind(t) \in {"drop", "brief"} /\ On(t) \in Room
            /\ job[t] = [kind |-> Kind(t), on |-> On(t)]
BY DEF LocksTypeOK, Job, Nothing, Kind, On

-----------------------------------------------------------------------------
(* Steps                                                                   *)

LEMMA InitInv == LocksInit => LocksInv
<1> SUFFICES ASSUME LocksInit PROVE LocksInv
  OBVIOUS
<1> USE DEF LocksInit, Nothing, Kind, On
<1>1. LocksTypeOK
  BY LocksAssumption DEF LocksTypeOK, Job
<1>2. OneInitiate
  BY DEF OneInitiate
<1>3. ASSUME NEW t \in Txn
      PROVE  TxnInv(t)
  <2>1. Plan(t)
    BY DEF Plan
  <2>2. MediaHeld(t)
    BY Rows, LocksAssumption DEF MediaHeld
  <2>3. Upward(t)
    BY DEF Upward
  <2> QED BY <2>1, <2>2, <2>3 DEF TxnInv
<1> QED BY <1>1, <1>2, <1>3 DEF LocksInv

\* A step of another transaction that leaves the locks of u and what its plan
\* rests on alone.
LEMMA Undisturbed ==
  ASSUME LocksInv, NEW u \in Txn, job'[u] = job[u], todo'[u] = todo[u], home' = home,
         \A x \in Row : holder'[x] = u <=> holder[x] = u,
         \A m \in Upload :
           /\ upload[m] # "none" => upload'[m] # "none"
           /\ Closed(m) => Closed(m)'
           /\ Kind(u) \in {"initiate", "expire"} /\ On(u) = m => upload'[m] = upload[m]
  PROVE  TxnInv(u)'
<1>0. TxnInv(u) /\ LocksTypeOK
  BY DEF LocksInv
<1>1. Kind(u)' = Kind(u) /\ On(u)' = On(u)
  BY DEF Kind, On
<1>2. /\ Kind(u) \in {"initiate", "settle", "delete", "expire"} => On(u) \in Upload /\ home[On(u)] \in Room
      /\ Kind(u) = "drop" => On(u) \in Room
  BY <1>0, Jobs
<1>3. Plan(u)'
  <2>1. Plan(u)
    BY <1>0 DEF TxnInv
  <2>2. CASE job[u] = Nothing
    BY <2>1, <2>2, <1>1 DEF Plan, Nothing, Kind
  <2>3. CASE Kind(u) = "initiate"
    BY <2>1, <2>3, <1>1, <1>2 DEF Plan, Nothing, Kind
  <2>4. CASE Kind(u) = "settle"
    BY <2>1, <2>4, <1>1, <1>2, Rows DEF Plan, Nothing, Kind
  <2>5. CASE Kind(u) = "delete"
    BY <2>1, <2>5, <1>1, <1>2 DEF Plan, Nothing, Kind
  <2>6. CASE Kind(u) = "expire"
    BY <2>1, <2>6, <1>1, <1>2, Rows DEF Plan, Nothing, Kind
  <2>7. CASE Kind(u) = "brief"
    BY <2>1, <2>7, <1>1, <1>2 DEF Plan, Nothing, Kind
  <2>8. CASE Kind(u) = "drop"
    BY <2>1, <2>8, <1>1, <1>2, Rows DEF Plan, Nothing, Kind
  <2> QED BY <1>0, <2>2, <2>3, <2>4, <2>5, <2>6, <2>7, <2>8, Jobs
<1>4. MediaHeld(u)'
  <2>1. \A m \in Upload : home[m] \in Room
    BY <1>0 DEF LocksTypeOK
  <2> QED BY <1>0, <1>1, <2>1, Rows DEF MediaHeld, TxnInv
<1>5. Upward(u)'
  BY <1>0, <1>1 DEF Upward, TxnInv
<1> QED BY <1>3, <1>4, <1>5 DEF TxnInv

\* A transaction that is over is in no one's way.
LEMMA Over ==
  ASSUME LocksInv, NEW t \in Txn, job'[t] = Nothing, todo'[t] = {},
         \A x \in Row : holder'[x] # t
  PROVE  TxnInv(t)'
<1>1. Kind(t)' = "idle"
  BY DEF Kind, Nothing
<1>2. Plan(t)'
  BY <1>1 DEF Plan
<1>3. MediaHeld(t)' /\ Upward(t)'
  BY <1>1, Rows DEF MediaHeld, Upward
<1> QED BY <1>2, <1>3 DEF TxnInv

\* A transaction that begins: it held nothing, and only the expiry takes locks
\* with its first statement.
LEMMA Begun ==
  ASSUME LocksInv, NEW t \in Txn, NEW what \in {"initiate", "settle", "delete", "expire", "drop", "brief"},
         NEW on, NEW rows \in SUBSET Row, Begin(t, what, on, rows),
         on \in (IF what \in {"drop", "brief"} THEN Room ELSE Upload),
         NEW taken \in SUBSET Row, \A x \in taken : Free(x),
         \A m \in Upload : MediaOf(m) \notin taken,
         holder' = [x \in Row |-> IF x \in taken THEN t ELSE holder[x]],
         what # "expire" => taken = {},
         what = "initiate" => \A u \in Txn : job[u] # [kind |-> "initiate", on |-> on],
         Plan(t)'
  PROVE  LocksInv'
<1>0. LocksTypeOK /\ OneInitiate /\ home' = home /\ upload' = upload /\ room' = room
  BY DEF LocksInv, Begin, data
<1>1. job[t] = Nothing /\ Kind(t) = "idle"
  BY DEF Begin, Kind, Nothing
<1>2. \A x \in Row : holder[x] # t
  BY <1>0, <1>1, LocksAssumption DEF LocksTypeOK
<1>3. Kind(t)' = what /\ On(t)' = on /\ todo'[t] = rows
  <2>1. job'[t] = [kind |-> what, on |-> on]
    BY <1>0 DEF Begin, LocksTypeOK
  <2> QED BY <2>1, <1>0 DEF Begin, LocksTypeOK, Kind, On
<1>4. \A u \in Txn \ {t} : job'[u] = job[u] /\ todo'[u] = todo[u] /\ Kind(u)' = Kind(u) /\ On(u)' = On(u)
  BY <1>0 DEF Begin, LocksTypeOK, Kind, On
<1>5. LocksTypeOK'
  <2>1. home' \in [Upload -> Room] /\ upload' \in [Upload -> {"none", "open", "settled", "gone"}]
        /\ room' \in [Room -> {"active", "deleting", "gone"}]
    BY <1>0 DEF LocksTypeOK
  <2>2. todo' \in [Txn -> SUBSET Row]
    BY <1>0 DEF LocksTypeOK, Begin
  <2>3. holder' \in [Row -> Txn \cup {NoTxn}]
    BY <1>0 DEF LocksTypeOK
  <2>4. ASSUME NEW x \in Row, holder'[x] # NoTxn
        PROVE  job'[holder'[x]].kind # "idle"
    <3>1. CASE x \in taken
      BY <3>1, <1>3 DEF Kind
    <3>2. CASE x \notin taken
      <4>1. holder'[x] = holder[x] /\ holder[x] \in Txn \ {t} /\ Kind(holder[x]) # "idle"
        BY <3>2, <2>4, <1>0, <1>2 DEF LocksTypeOK
      <4> QED BY <4>1, <1>4 DEF Kind
    <3> QED BY <3>1, <3>2
  <2>5. job' \in [Txn -> Job]
    BY <1>0 DEF LocksTypeOK, Begin, Job
  <2> QED BY <2>1, <2>2, <2>3, <2>4, <2>5 DEF LocksTypeOK, Kind
<1>6. OneInitiate'
  <2> SUFFICES ASSUME NEW u \in Txn, NEW v \in Txn, u # v,
                      Kind(u)' = "initiate", Kind(v)' = "initiate", On(u)' = On(v)'
               PROVE  FALSE
    BY DEF OneInitiate
  <2>1. \A w \in Txn : Kind(w) = "initiate" => job[w] = [kind |-> "initiate", on |-> On(w)]
    BY <1>0, Jobs
  <2> QED BY <2>1, <1>0, <1>3, <1>4 DEF OneInitiate
<1>7. TxnInv(t)'
  <2>1. MediaHeld(t)'
    BY <1>2, Rows DEF MediaHeld
  <2>2. Upward(t)'
    BY <1>2, <1>3 DEF Upward
  <2> QED BY <2>1, <2>2 DEF TxnInv
<1>8. ASSUME NEW u \in Txn \ {t}
      PROVE  TxnInv(u)'
  <2>1. \A x \in Row : holder'[x] = u <=> holder[x] = u
    BY LocksAssumption DEF Free
  <2> QED BY <2>1, <1>0, <1>4, Undisturbed DEF Closed
<1> QED BY <1>5, <1>6, <1>7, <1>8 DEF LocksInv

\* Whoever begins fits its plan.
LEMMA Begins ==
  ASSUME LocksInv, NEW t \in Txn,
         \/ \E m \in Upload : \/ Settle(t, m) \/ Delete(t, m) \/ \E k \in Key : Initiate(t, m, k)
                              \/ \E skipped \in SUBSET (Upload \ {m}) : Expire(t, m, skipped)
         \/ \E r \in Room : Drop(t, r) \/ \E x \in Row : Brief(t, r, x)
  PROVE  LocksInv'
<1>0. LocksTypeOK /\ \A m \in Upload : home[m] \in Room
  BY DEF LocksInv, LocksTypeOK
<1>h. /\ holder = [x \in Row |-> IF x \in {} THEN t ELSE holder[x]]
      /\ \A x \in {} : Free(x)
      /\ {} \in SUBSET Row
      /\ \A m \in Upload : MediaOf(m) \notin {}
  BY <1>0 DEF LocksTypeOK
<1>b. ASSUME NEW what, NEW on, NEW rows, Begin(t, what, on, rows)
      PROVE  /\ Kind(t)' = what /\ On(t)' = on /\ todo'[t] = rows
             /\ home' = home /\ upload' = upload /\ room' = room
             /\ what # "idle" => job'[t] # Nothing
  <2>1. job'[t] = [kind |-> what, on |-> on]
    BY <1>b, <1>0 DEF Begin, LocksTypeOK
  <2> QED BY <1>b, <2>1, <1>0 DEF Begin, LocksTypeOK, Kind, On, data, Nothing
<1>1. ASSUME NEW m \in Upload, NEW k \in Key, Initiate(t, m, k)
      PROVE  LocksInv'
  <2>1. Begin(t, "initiate", m, {KeyLock(k), RoomRow(home[m])}) /\ upload[m] = "none"
        /\ holder' = holder /\ \A u \in Txn : job[u] # [kind |-> "initiate", on |-> m]
    BY <1>1 DEF Initiate
  <2>2. {KeyLock(k), RoomRow(home[m])} \in SUBSET Row
    BY <1>0, Rows
  <2>3. Plan(t)'
    BY <2>1, <1>b DEF Plan
  <2> QED BY <2>1, <2>2, <2>3, <1>h, Begun
<1>2. ASSUME NEW m \in Upload, Settle(t, m)
      PROVE  LocksInv'
  <2> DEFINE its == {SessionOf(m), MediaOf(m), RoomRow(home[m])}
  <2>1. Begin(t, "settle", m, its) /\ upload[m] # "none" /\ holder' = holder
    BY <1>2 DEF Settle
  <2>2. its \in SUBSET Row
    BY <1>0, Rows
  <2>3. Plan(t)'
    BY <2>1, <1>b DEF Plan
  <2> HIDE DEF its
  <2> QED BY <2>1, <2>2, <2>3, <1>h, Begun
<1>3. ASSUME NEW m \in Upload, Delete(t, m)
      PROVE  LocksInv'
  <2>1. Begin(t, "delete", m, {MediaOf(m), RoomRow(home[m])}) /\ Closed(m) /\ holder' = holder
    BY <1>3 DEF Delete, Deletable, Closed
  <2>2. {MediaOf(m), RoomRow(home[m])} \in SUBSET Row
    BY <1>0, Rows
  <2>3. Plan(t)'
    BY <2>1, <1>b DEF Plan, Closed
  <2> QED BY <2>1, <2>2, <2>3, <1>h, Begun
<1>4. ASSUME NEW m \in Upload, NEW skipped \in SUBSET (Upload \ {m}), Expire(t, m, skipped)
      PROVE  LocksInv'
  <2> DEFINE taken == {RoomRow(home[m])} \cup {SessionOf(n) : n \in skipped \cup {m}}
  <2>1. Begin(t, "expire", m, {MediaOf(m)}) /\ upload[m] = "open"
        /\ holder' = [x \in Row |-> IF x \in taken THEN t ELSE holder[x]]
        /\ \A x \in taken : Free(x)
    BY <1>4 DEF Expire
  <2>2. {MediaOf(m)} \in SUBSET Row /\ taken \in SUBSET Row /\ \A n \in Upload : MediaOf(n) \notin taken
    BY <1>0, Rows, Distinct
  <2>3. SessionOf(m) \in taken /\ RoomRow(home[m]) \in taken
    OBVIOUS
  <2> HIDE DEF taken
  <2>4. Plan(t)'
    BY <2>1, <2>2, <2>3, <1>b DEF Plan
  <2> QED BY <2>1, <2>2, <2>4, Begun
<1>5. ASSUME NEW r \in Room, Drop(t, r)
      PROVE  LocksInv'
  <2>1. Begin(t, "drop", r, {RoomRow(r)}) /\ holder' = holder
    BY <1>5 DEF Drop
  <2>2. {RoomRow(r)} \in SUBSET Row
    BY Rows
  <2>3. Plan(t)'
    BY <2>1, <1>b DEF Plan
  <2> QED BY <2>1, <2>2, <2>3, <1>h, Begun
<1>6. ASSUME NEW r \in Room, NEW x \in Row, Brief(t, r, x)
      PROVE  LocksInv'
  <2>1. Begin(t, "brief", r, {x}) /\ holder' = holder
    BY <1>6 DEF Brief
  <2>2. \A m \in Upload : x = MediaOf(m) => Closed(m)
    BY <1>6, Distinct DEF Brief, Closed
  <2>3. Plan(t)'
    BY <2>1, <2>2, <1>b DEF Plan, Closed
  <2> QED BY <2>1, <2>3, <1>h, Begun
<1> QED BY <1>1, <1>2, <1>3, <1>4, <1>5, <1>6

\* A transaction that ends gives back every lock; what it changes leaves the
\* plans of the others alone.
LEMMA Ends ==
  ASSUME LocksInv, NEW t \in Txn, End(t), home' = home,
         upload' \in [Upload -> {"none", "open", "settled", "gone"}],
         room' \in [Room -> {"active", "deleting", "gone"}],
         \A m \in Upload :
           /\ upload[m] # "none" => upload'[m] # "none"
           /\ Closed(m) => Closed(m)',
         \A u \in Txn \ {t}, m \in Upload :
           Kind(u) \in {"initiate", "expire"} /\ On(u) = m => upload'[m] = upload[m]
  PROVE  LocksInv'
<1>0. LocksTypeOK /\ OneInitiate
  BY DEF LocksInv
<1>1. job'[t] = Nothing /\ todo'[t] = {} /\ Kind(t)' = "idle"
  BY <1>0 DEF End, LocksTypeOK, Kind, Nothing
<1>2. \A u \in Txn \ {t} : job'[u] = job[u] /\ todo'[u] = todo[u] /\ Kind(u)' = Kind(u) /\ On(u)' = On(u)
  BY <1>0 DEF End, LocksTypeOK, Kind, On
<1>3. \A x \in Row : holder'[x] # t /\ \A u \in Txn \ {t} : holder'[x] = u <=> holder[x] = u
  BY LocksAssumption DEF End
<1>4. LocksTypeOK'
  <2>1. job' \in [Txn -> Job] /\ todo' \in [Txn -> SUBSET Row] /\ holder' \in [Row -> Txn \cup {NoTxn}]
    BY <1>0 DEF End, LocksTypeOK, Job
  <2>2. ASSUME NEW x \in Row, holder'[x] # NoTxn
        PROVE  job'[holder'[x]].kind # "idle"
    <3>1. holder'[x] = holder[x] /\ holder[x] \in Txn \ {t} /\ Kind(holder[x]) # "idle"
      BY <2>2, <1>0, <1>3 DEF LocksTypeOK, End
    <3> QED BY <3>1, <1>2 DEF Kind
  <2> QED BY <2>1, <2>2, <1>0 DEF LocksTypeOK, Kind
<1>5. OneInitiate'
  BY <1>0, <1>1, <1>2 DEF OneInitiate
<1>6. TxnInv(t)'
  BY <1>1, <1>3, Over
<1>7. ASSUME NEW u \in Txn \ {t}
      PROVE  TxnInv(u)'
  BY <1>2, <1>3, Undisturbed
<1> QED BY <1>4, <1>5, <1>6, <1>7 DEF LocksInv

\* No two rows a transaction still has to lock are alike in rank, unless it is
\* dropping a room: the order leaves it no choice.
LEMMA OneOfARank ==
  ASSUME LocksInv, NEW t \in Txn, Kind(t) # "drop", NEW x \in todo[t], NEW y \in todo[t],
         Rank(x) = Rank(y)
  PROVE  x = y
<1>1. LocksTypeOK /\ Plan(t)
  BY DEF LocksInv, TxnInv
<1>2. CASE Kind(t) = "initiate"
  <2>1. PICK k \in Key : todo[t] \subseteq {KeyLock(k), RoomRow(home[On(t)])}
    BY <1>1, <1>2 DEF Plan
  <2> QED BY <2>1, Ranks
<1>3. CASE Kind(t) = "settle"
  <2>1. todo[t] \subseteq {SessionOf(On(t)), MediaOf(On(t)), RoomRow(home[On(t)])}
    BY <1>1, <1>3 DEF Plan
  <2> QED BY <2>1, Ranks
<1>4. CASE Kind(t) = "delete"
  <2>1. todo[t] \subseteq {MediaOf(On(t)), RoomRow(home[On(t)])}
    BY <1>1, <1>4 DEF Plan
  <2> QED BY <2>1, Ranks
<1>5. CASE Kind(t) \in {"expire", "brief"} \/ job[t] = Nothing
  BY <1>1, <1>5 DEF Plan
<1> QED BY <1>1, <1>2, <1>3, <1>4, <1>5, Jobs

LEMMA Locked ==
  ASSUME LocksInv, NEW t \in Txn, NEW x \in Row, Take(t, x), ~Pointless(t, x)
  PROVE  LocksInv'
<1>0. LocksTypeOK /\ OneInitiate /\ TxnInv(t) /\ home' = home /\ upload' = upload /\ room' = room
  BY DEF LocksInv, Take, data
<1>1. /\ x \in todo[t] /\ \A y \in todo[t] : ~Precedes(t, y, x)
      /\ holder[x] \in {NoTxn, t}
      /\ holder' = [holder EXCEPT ![x] = t]
      /\ job' = job
      /\ todo' = [todo EXCEPT ![t] = IF Kind(t) = "drop" /\ x = RoomRow(On(t)) THEN Cascade(On(t))
                                     ELSE todo[t] \ {x}]
  BY DEF Take, Next
<1>2. \A u \in Txn : Kind(u)' = Kind(u) /\ On(u)' = On(u)
  BY <1>1 DEF Kind, On
<1>3. holder'[x] = t /\ \A y \in Row : y # x => holder'[y] = holder[y]
  BY <1>0, <1>1 DEF LocksTypeOK
<1>4. todo'[t] = IF Kind(t) = "drop" /\ x = RoomRow(On(t)) THEN Cascade(On(t)) ELSE todo[t] \ {x}
  BY <1>0, <1>1 DEF LocksTypeOK
<1>5. Kind(t) # "idle"
  BY <1>0, <1>1, Jobs DEF TxnInv, Plan
<1>6. \A m \in Upload : home[m] \in Room
  BY <1>0 DEF LocksTypeOK
<1>7. LocksTypeOK'
  <2>1. \A r \in Room : Cascade(r) \in SUBSET Row
    BY Rows DEF Cascade
  <2>2. todo' \in [Txn -> SUBSET Row]
    <3>1. todo[t] \ {x} \in SUBSET Row
      BY <1>0 DEF LocksTypeOK
    <3>2. Kind(t) = "drop" => On(t) \in Room
      BY <1>0, Jobs
    <3> QED BY <1>0, <1>1, <2>1, <3>1, <3>2 DEF LocksTypeOK
  <2>3. holder' \in [Row -> Txn \cup {NoTxn}]
    BY <1>0, <1>1 DEF LocksTypeOK
  <2>4. ASSUME NEW y \in Row, holder'[y] # NoTxn
        PROVE  Kind(holder'[y]) # "idle"
    BY <2>4, <1>0, <1>3, <1>5 DEF LocksTypeOK
  <2>5. \A y \in Row : holder'[y] # NoTxn => job'[holder'[y]].kind # "idle"
    BY <2>4, <1>1 DEF Kind
  <2> QED BY <2>2, <2>3, <2>5, <1>0, <1>1 DEF LocksTypeOK, Kind
<1>8. OneInitiate'
  BY <1>0, <1>2 DEF OneInitiate
<1>9. ASSUME NEW u \in Txn \ {t}
      PROVE  TxnInv(u)'
  <2>1. \A y \in Row : holder'[y] = u <=> holder[y] = u
    BY <1>1, <1>3, LocksAssumption
  <2>2. todo'[u] = todo[u] /\ job'[u] = job[u]
    BY <1>0, <1>1 DEF LocksTypeOK
  <2> QED BY <2>1, <2>2, <1>0, Undisturbed DEF Closed
<1>10. Plan(t)'
  <2>0. Plan(t)
    BY <1>0 DEF TxnInv
  <2>1. job[t] # Nothing
    BY <1>5 DEF Kind, Nothing
  <2>2. CASE Kind(t) = "initiate"
    BY <2>0, <2>1, <2>2, <1>0, <1>1, <1>2, <1>4 DEF Plan
  <2>3. CASE Kind(t) = "settle"
    BY <2>0, <2>1, <2>3, <1>0, <1>1, <1>2, <1>3, <1>4, Jobs, Rows DEF Plan
  <2>4. CASE Kind(t) = "delete"
    BY <2>0, <2>1, <2>4, <1>0, <1>1, <1>2, <1>4 DEF Plan, Closed
  <2>5. CASE Kind(t) = "expire"
    BY <2>0, <2>1, <2>5, <1>0, <1>1, <1>2, <1>3, <1>4, <1>6, Jobs, Rows DEF Plan
  <2>6. CASE Kind(t) = "brief"
    BY <2>0, <2>1, <2>6, <1>0, <1>1, <1>2, <1>4 DEF Plan, Closed
  <2>7. CASE Kind(t) = "drop" /\ x = RoomRow(On(t))
    <3>1. \A y \in Cascade(On(t)) : \E m \in Upload : home[m] = On(t) /\ y \in {SessionOf(m), MediaOf(m)}
      BY DEF Cascade
    <3> QED BY <3>1, <2>1, <2>7, <1>0, <1>1, <1>2, <1>3, <1>4 DEF Plan
  <2>8. CASE Kind(t) = "drop" /\ x # RoomRow(On(t))
    <3>1. On(t) \in Room
      BY <2>8, <1>0, Jobs
    <3> QED BY <3>1, <2>0, <2>1, <2>8, <1>0, <1>1, <1>2, <1>3, <1>4, Rows DEF Plan
  <2> QED BY <1>0, <1>5, <2>2, <2>3, <2>4, <2>5, <2>6, <2>7, <2>8, Jobs
<1>11. MediaHeld(t)'
  <2> SUFFICES ASSUME NEW m \in Upload, holder'[MediaOf(m)] = t
               PROVE  /\ Kind(t) \in {"settle", "expire"} => On(t) = m /\ holder'[SessionOf(m)] = t
                      /\ Kind(t) = "drop" => holder'[RoomRow(home[m])] = t
                      /\ Kind(t) \in {"delete", "brief"} => Closed(m)
                      /\ Kind(t) # "initiate"
    BY <1>0, <1>2 DEF MediaHeld, Closed
  <2>0. Plan(t)
    BY <1>0 DEF TxnInv
  <2>1. CASE x # MediaOf(m)
    BY <2>1, <1>0, <1>3, <1>6, Rows DEF MediaHeld, TxnInv
  <2>2. CASE x = MediaOf(m)
    <3>1. CASE Kind(t) = "settle"
      <4>1. On(t) = m
        BY <3>1, <2>2, <2>0, <1>1, Distinct DEF Plan
      <4>2. SessionOf(m) \notin todo[t]
        BY <3>1, <2>2, <1>1, Ranks DEF Precedes
      <4> QED BY <3>1, <4>1, <4>2, <2>0, <2>2, <1>3, Rows, Distinct DEF Plan
    <3>2. CASE Kind(t) = "expire"
      BY <3>2, <2>2, <2>0, <1>1, <1>3, Distinct, Rows DEF Plan
    <3>3. CASE Kind(t) = "drop"
      <4>1. \E n \in Upload : home[n] = On(t) /\ x \in {SessionOf(n), MediaOf(n)}
        <5>1. x \in todo[t] /\ x # RoomRow(On(t))
          BY <2>2, <1>1, Distinct
        <5> QED BY <5>1, <3>3, <2>0 DEF Plan
      <4>2. holder[RoomRow(On(t))] = t
        BY <3>3, <2>2, <2>0, <1>1, Distinct DEF Plan
      <4>3. home[m] = On(t)
        BY <4>1, <2>2, Distinct
      <4> QED BY <3>3, <4>2, <4>3, <2>2, <1>3, <1>6, Rows, Distinct
    <3>4. CASE Kind(t) \in {"delete", "brief"}
      BY <3>4, <2>2, <2>0, <1>1, Distinct DEF Plan
    <3>5. Kind(t) # "initiate"
      BY <2>2, <2>0, <1>1, Distinct DEF Plan
    <3> QED BY <3>1, <3>2, <3>3, <3>4, <3>5
  <2> QED BY <2>1, <2>2
<1>12. Upward(t)'
  <2> SUFFICES ASSUME Kind(t) \notin {"drop", "expire"}, NEW z \in Row, NEW y \in todo[t] \ {x},
                      holder'[z] = t
               PROVE  Rank(z) < Rank(y)
    BY <1>2, <1>4 DEF Upward
  <2>1. CASE z # x
    BY <2>1, <1>0, <1>3 DEF TxnInv, Upward
  <2>2. CASE z = x
    <3>1. ~(Rank(y) < Rank(x)) /\ Rank(x) # Rank(y)
      BY <1>1, OneOfARank DEF Precedes
    <3>2. x \in Row /\ y \in Row
      BY <1>0 DEF LocksTypeOK
    <3> QED BY <2>2, <3>1, <3>2, RanksOfRows
  <2> QED BY <2>1, <2>2
<1> QED BY <1>7, <1>8, <1>9, <1>10, <1>11, <1>12 DEF LocksInv, TxnInv

LEMMA Commits ==
  ASSUME LocksInv, NEW t \in Txn, Commit(t)
  PROVE  LocksInv'
<1>0. LocksTypeOK /\ OneInitiate /\ TxnInv(t) /\ End(t) /\ home' = home /\ job[t] # Nothing /\ todo[t] = {}
  BY DEF LocksInv, Commit
<1>1. \A u \in Txn : Plan(u)
  BY DEF LocksInv, TxnInv
<1>a. ASSUME NEW m \in Upload, NEW to \in {"open", "settled"}, Kind(t) \in {"initiate", "settle", "expire"},
             On(t) = m, upload' = [upload EXCEPT ![m] = to], room' = room,
             to = "open" => upload[m] = "none",
             \A u \in Txn \ {t} : Kind(u) \in {"initiate", "expire"} => On(u) # m
      PROVE  LocksInv'
  BY <1>a, <1>0, Ends DEF LocksTypeOK, Closed
<1>2. CASE Kind(t) = "initiate"
  <2>1. On(t) \in Upload /\ upload[On(t)] = "none"
    BY <1>0, <1>1, <1>2, Jobs DEF Plan
  <2>2. \A u \in Txn \ {t} : Kind(u) \in {"initiate", "expire"} => On(u) # On(t)
    BY <2>1, <1>0, <1>1, <1>2 DEF OneInitiate, Plan
  <2>3. upload' = [upload EXCEPT ![On(t)] = "open"] /\ room' = room
    BY <1>2 DEF Commit
  <2> QED BY <2>1, <2>2, <2>3, <1>2, <1>a
<1>3. CASE Kind(t) \in {"settle", "expire"}
  <2>1. On(t) \in Upload /\ upload[On(t)] # "none" /\ holder[SessionOf(On(t))] = t
    BY <1>0, <1>1, <1>3, Jobs DEF Plan
  <2>2. \A u \in Txn \ {t} : Kind(u) \in {"initiate", "expire"} => On(u) # On(t)
    BY <2>1, <1>1 DEF Plan
  <2>3. upload' = [upload EXCEPT ![On(t)] = "settled"] /\ room' = room
    BY <1>3 DEF Commit
  <2> QED BY <2>1, <2>2, <2>3, <1>3, <1>a
<1>4. CASE Kind(t) = "drop"
  <2>1. On(t) \in Room /\ holder[RoomRow(On(t))] = t
    BY <1>0, <1>1, <1>4, Jobs DEF Plan
  <2>2. /\ upload' = [m \in Upload |-> IF home[m] = On(t) /\ upload[m] # "none" THEN "gone" ELSE upload[m]]
        /\ room' = [room EXCEPT ![On(t)] = "gone"]
    BY <1>4 DEF Commit
  <2>3. ASSUME NEW u \in Txn \ {t}, NEW m \in Upload, Kind(u) \in {"initiate", "expire"}, On(u) = m
        PROVE  upload'[m] = upload[m]
    <3>1. CASE Kind(u) = "initiate"
      BY <2>2, <2>3, <3>1, <1>1 DEF Plan
    <3>2. CASE Kind(u) = "expire"
      <4>1. home[m] # On(t)
        BY <2>1, <2>3, <3>2, <1>1 DEF Plan
      <4> QED BY <4>1, <2>2
    <3> QED BY <2>3, <3>1, <3>2
  <2>4. /\ upload' \in [Upload -> {"none", "open", "settled", "gone"}]
        /\ room' \in [Room -> {"active", "deleting", "gone"}]
        /\ \A m \in Upload : (upload[m] # "none" => upload'[m] # "none") /\ (Closed(m) => Closed(m)')
    BY <2>2, <1>0 DEF LocksTypeOK, Closed
  <2> QED BY <2>3, <2>4, <1>0, Ends
<1>5. CASE Kind(t) \in {"brief", "delete"}
  <2>1. upload' = upload /\ room' \in [Room -> {"active", "deleting", "gone"}]
    BY <1>0, <1>5 DEF Commit, data, LocksTypeOK
  <2> QED BY <2>1, <1>0, Ends DEF LocksTypeOK, Closed
<1> QED BY <1>0, <1>2, <1>3, <1>4, <1>5, Jobs

LEMMA NextInv == LocksInv /\ [LocksNext]_lockVars => LocksInv'
<1> SUFFICES ASSUME LocksInv, [LocksNext]_lockVars PROVE LocksInv'
  OBVIOUS
<1>1. ASSUME NEW t \in Txn, NEW x \in Row, Take(t, x)
      PROVE  LocksInv'
  <2>1. CASE Pointless(t, x)
    <3>1. End(t) /\ home' = home /\ upload' = upload /\ room' = room
      BY <1>1, <2>1 DEF Take, data
    <3> QED BY <3>1, Ends DEF LocksInv, LocksTypeOK, Closed
  <2>2. CASE ~Pointless(t, x)
    BY <1>1, <2>2, Locked
  <2> QED BY <2>1, <2>2
<1>2. ASSUME NEW t \in Txn, Fail(t)
      PROVE  LocksInv'
  <2>1. End(t) /\ home' = home /\ upload' = upload /\ room' = room
    BY <1>2 DEF Fail, data
  <2> QED BY <2>1, Ends DEF LocksInv, LocksTypeOK, Closed
<1>3. CASE UNCHANGED lockVars
  BY <1>3 DEF lockVars, data, LocksInv, LocksTypeOK, OneInitiate, TxnInv, Plan, MediaHeld, Upward,
              Closed, Kind, On
<1> QED BY <1>1, <1>2, <1>3, Begins, Commits DEF LocksNext

\* What holds in every state, whatever the number of transactions.
THEOREM LocksInvariant == LocksSpec => []LocksInv
BY InitInv, NextInv, PTL DEF LocksSpec

\* The types, and that a lock is always that of a transaction that is not over:
\* every way out of one commits or rolls back.
THEOREM LocksTyped == LocksSpec => []LocksTypeOK
<1>1. LocksInv => LocksTypeOK
  BY DEF LocksInv
<1> QED BY <1>1, LocksInvariant, PTL

-----------------------------------------------------------------------------
(* Waiting                                                                 *)

LEMMA ExpireGoesOn == LocksInv => ExpireNeverWaits
<1> SUFFICES ASSUME LocksInv, NEW t \in Txn, NEW u \in Txn, Kind(t) = "expire", t # u,
                    NEW x \in Row, Next(t, x), holder[x] = u
             PROVE  FALSE
  BY DEF ExpireNeverWaits, WaitsFor
<1>0. LocksTypeOK /\ Plan(t) /\ MediaHeld(u)
  BY DEF LocksInv, TxnInv
<1>1. On(t) \in Upload /\ x = MediaOf(On(t))
  BY <1>0, Jobs DEF Plan, Next
<1>2. upload[On(t)] = "open" /\ holder[SessionOf(On(t))] = t /\ holder[RoomRow(home[On(t)])] = t
  BY <1>0 DEF Plan
<1>3. Kind(u) # "idle"
  BY <1>0, LocksAssumption DEF LocksTypeOK
<1>4. Kind(u) \in {"initiate", "settle", "delete", "expire", "drop", "brief"}
  BY <1>0, <1>3, Jobs
<1> QED BY <1>0, <1>1, <1>2, <1>4 DEF MediaHeld, Closed

\* One of C waits for another, for a row of rank n or above.
Waits(C, n) == \E t \in C, x \in Row : Next(t, x) /\ holder[x] \in C /\ Rank(x) >= n

LEMMA Higher ==
  ASSUME LocksInv, NEW C \in SUBSET Txn, Ring(C), \A t \in C : Kind(t) # "drop",
         NEW n \in 0..3, Waits(C, n)
  PROVE  Waits(C, n + 1)
<1>1. PICK t \in C, x \in Row : Next(t, x) /\ holder[x] \in C /\ Rank(x) >= n
  BY DEF Waits
<1>2. PICK v \in C : WaitsFor(holder[x], v)
  BY <1>1 DEF Ring
<1>3. PICK y \in Row : Next(holder[x], y) /\ holder[y] = v
  BY <1>2 DEF WaitsFor
<1>4. Kind(holder[x]) # "expire"
  BY <1>1, <1>2, ExpireGoesOn DEF ExpireNeverWaits
<1>5. Upward(holder[x])
  BY <1>1 DEF LocksInv, TxnInv
<1>6. Rank(x) < Rank(y)
  BY <1>1, <1>3, <1>4, <1>5 DEF Upward, Next
<1>7. Rank(y) >= n + 1
  BY <1>1, <1>6, RanksOfRows
<1> QED BY <1>1, <1>2, <1>3, <1>7 DEF Waits

LEMMA RingHasDrop == LocksInv => OnlyDropsDeadlock
<1> SUFFICES ASSUME LocksInv, NEW C \in SUBSET Txn, Ring(C), \A t \in C : Kind(t) # "drop"
             PROVE  FALSE
  BY DEF OnlyDropsDeadlock
<1>1. Waits(C, 0)
  <2>1. PICK t \in C, u \in C : WaitsFor(t, u)
    BY DEF Ring
  <2>2. PICK x \in Row : Next(t, x) /\ holder[x] = u
    BY <2>1 DEF WaitsFor
  <2>3. Rank(x) >= 0
    BY RanksOfRows
  <2> QED BY <2>2, <2>3 DEF Waits
<1>2. Waits(C, 4)
  <2>1. Waits(C, 1)
    BY <1>1, Higher, 0 + 1 = 1
  <2>2. Waits(C, 2)
    BY <2>1, Higher, 1 + 1 = 2
  <2>3. Waits(C, 3)
    BY <2>2, Higher, 2 + 1 = 3
  <2> QED BY <2>3, Higher, 3 + 1 = 4
<1> QED BY <1>2, RanksOfRows DEF Waits

\* The expiry locks the room before the media and yet waits for nobody.
THEOREM ExpiryNeverWaits == LocksSpec => []ExpireNeverWaits
BY ExpireGoesOn, LocksInvariant, PTL

\* However many transactions there are, without a room being dropped no ring of
\* them forms.
THEOREM RingsHaveDrops == LocksSpec => []OnlyDropsDeadlock
BY RingHasDrop, LocksInvariant, PTL
=============================================================================
