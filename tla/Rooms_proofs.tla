---------------------------- MODULE Rooms_proofs ----------------------------
(***************************************************************************)
(* Rooms for any number of rooms, people, codes, keys and requests: one    *)
(* owner, one key and one code per room, members admitted to that room,    *)
(* and deletion by its owner only.                                         *)
(***************************************************************************)
EXTENDS Rooms, FiniteSetTheorems, TLAPS

Columns ==
  /\ today \in Nat
  /\ status \in [Room -> {"none", "active", "deleting", "gone"}]
  /\ slug \in [Room -> Slug \cup {Null}]
  /\ owner \in [Room -> Person \cup {Null}]
  /\ access \in [Room -> Access \cup {Null}]
  /\ expiry \in [Room -> Nat]
  /\ role \in [Room -> [Person -> {"none", "member", "owner"}]]
  /\ made \in [Person \X Key -> [r : Room, body : Body] \cup {Idle}]
  /\ op \in [Req -> [pc : {"idle", "join", "delete"}, person : Person \cup {Null},
                     room : Room \cup {Null}, slug : Slug \cup {Null}]]
  /\ admitted \subseteq Person \X Room

\* What a row of rooms says with its members.
RoomRows == \A r \in Room :
  /\ Exists(r) => slug[r] \in Slug /\ owner[r] \in Person
  /\ Exists(r) => \A p \in Person : role[r][p] = "owner" <=> p = owner[r]
  /\ ~Exists(r) => \A p \in Person : role[r][p] = "none"

OneCode == \A r, s \in Room : Exists(r) /\ Exists(s) /\ slug[r] = slug[s] => r = s

\* The person of a Join that passed its check, whose room may be gone by now.
JoinsAdmitted == \A q \in Req : op[q].pc = "join" =>
  op[q].person \in Person /\ op[q].room \in Room /\ <<op[q].person, op[q].room>> \in admitted

RoomsInv == Columns /\ RoomRows /\ OneCode /\ OneRoomPerKey /\ JoinsAdmitted /\ MembersAdmitted

-----------------------------------------------------------------------------
LEMMA NullRows ==
  /\ Idle.r = Null /\ Null \notin Room /\ Null \notin Person /\ Null \notin Slug
  /\ \A m \in [r : Room, body : Body] : m # Idle /\ m.r \in Room
BY RoomConstants DEF Idle

LEMMA InitInv == RoomsInit => RoomsInv
<1> SUFFICES ASSUME RoomsInit PROVE RoomsInv
  OBVIOUS
<1>1. Columns
  BY DEF RoomsInit, Columns, NoOp
<1>2. RoomRows /\ OneCode /\ MembersAdmitted
  BY DEF RoomsInit, RoomRows, OneCode, MembersAdmitted, Exists
<1>3. OneRoomPerKey
  BY DEF RoomsInit, OneRoomPerKey, Exists
<1>4. JoinsAdmitted
  BY DEF RoomsInit, JoinsAdmitted, NoOp
<1> QED
  BY <1>1, <1>2, <1>3, <1>4 DEF RoomsInv

-----------------------------------------------------------------------------
(* What each operation leaves                                              *)

\* Create: a room of its own, with a code and a key nobody has.
LEMMA CreateInv ==
  ASSUME RoomsInv, NEW p \in Person, NEW k \in Key, NEW b \in Body, NEW r \in Room, NEW x \in Slug,
         Create(p, k, b, r, x)
  PROVE  RoomsInv'
<1>1. Columns'
  BY DEF RoomsInv, Columns, Create, Body
<1>2. Exists(r)' /\ ~Exists(r) /\ \A s \in Room \ {r} : Exists(s)' <=> Exists(s)
  BY DEF RoomsInv, Columns, Create, Exists
<1>3. RoomRows'
  <2> SUFFICES ASSUME NEW s \in Room
               PROVE  /\ Exists(s)' => slug'[s] \in Slug /\ owner'[s] \in Person
                      /\ Exists(s)' => \A n \in Person : role'[s][n] = "owner" <=> n = owner'[s]
                      /\ ~Exists(s)' => \A n \in Person : role'[s][n] = "none"
    BY DEF RoomRows
  <2>1. CASE s = r
    <3>1. slug'[r] = x /\ owner'[r] = p /\ role'[r] = [role[r] EXCEPT ![p] = "owner"]
      BY DEF RoomsInv, Columns, Create
    <3>2. \A n \in Person : role[r][n] = "none"
      BY <1>2 DEF RoomsInv, RoomRows
    <3>3. role[r] \in [Person -> {"none", "member", "owner"}]
      BY DEF RoomsInv, Columns
    <3> QED
      BY <1>2, <2>1, <3>1, <3>2, <3>3
  <2>2. CASE s # r
    <3>1. slug'[s] = slug[s] /\ owner'[s] = owner[s] /\ role'[s] = role[s]
      BY <2>2 DEF RoomsInv, Columns, Create
    <3> QED
      BY <1>2, <2>2, <3>1 DEF RoomsInv, RoomRows
  <2> QED
    BY <2>1, <2>2
<1>4. OneCode'
  <2>1. \A s \in Room \ {r} : Exists(s) => slug[s] # x
    BY DEF Create, FreeSlug, Holding
  <2>2. slug'[r] = x /\ \A s \in Room \ {r} : slug'[s] = slug[s]
    BY DEF RoomsInv, Columns, Create
  <2> QED
    BY <1>2, <2>1, <2>2 DEF RoomsInv, OneCode
<1>5. OneRoomPerKey'
  <2>1. made[<<p, k>>] = Idle
    BY DEF Create, KeyFree
  <2>2. made'[<<p, k>>] = [r |-> r, body |-> b] /\ made'[<<p, k>>].r = r /\ made'[<<p, k>>] # Idle
    BY NullRows DEF RoomsInv, Columns, Create
  <2>3. \A pk \in (Person \X Key) \ {<<p, k>>} : made'[pk] = made[pk]
    BY DEF RoomsInv, Columns, Create
  <2>4. \A pk \in Person \X Key : made[pk].r # r
    BY <1>2, NullRows DEF RoomsInv, OneRoomPerKey
  <2>5. owner'[r] = p /\ \A s \in Room \ {r} : owner'[s] = owner[s]
    BY DEF RoomsInv, Columns, Create
  <2>6. ASSUME NEW s \in Room, Exists(s)'
        PROVE  \E pk \in Person \X Key : made'[pk].r = s /\ owner'[s] = pk[1]
    <3>1. CASE s = r
      BY <2>2, <2>5, <3>1
    <3>2. CASE s # r
      <4>1. PICK pk \in Person \X Key : made[pk].r = s /\ owner[s] = pk[1]
        BY <1>2, <2>6, <3>2 DEF RoomsInv, OneRoomPerKey
      <4>2. pk # <<p, k>>
        BY <2>1, <4>1, NullRows
      <4> QED
        BY <2>3, <2>5, <3>2, <4>1, <4>2
    <3> QED
      BY <3>1, <3>2
  <2>7. ASSUME NEW pk \in Person \X Key, NEW pk2 \in Person \X Key, made'[pk] # Idle
        PROVE  Exists(made[pk].r)' /\ (made'[pk2].r = made'[pk].r => pk2 = pk)
    <3>1. CASE pk = <<p, k>>
      BY <1>2, <2>2, <2>3, <2>4, <3>1 DEF Exists
    <3>2. CASE pk # <<p, k>>
      <4>1. made'[pk] = made[pk] /\ Exists(made[pk].r) /\ made[pk].r \in Room \ {r}
        BY <2>3, <2>4, <2>7, <3>2, NullRows DEF RoomsInv, Columns, OneRoomPerKey
      <4>2. CASE pk2 = <<p, k>>
        BY <1>2, <2>2, <4>1, <4>2 DEF Exists
      <4>3. CASE pk2 # <<p, k>>
        BY <1>2, <2>3, <2>7, <4>1, <4>3 DEF RoomsInv, OneRoomPerKey, Exists
      <4> QED
        BY <4>2, <4>3
    <3> QED
      BY <3>1, <3>2
  <2> QED
    BY <2>6, <2>7 DEF OneRoomPerKey
<1>6. JoinsAdmitted' /\ MembersAdmitted'
  BY DEF RoomsInv, Columns, JoinsAdmitted, MembersAdmitted, Create
<1> QED
  BY <1>1, <1>3, <1>4, <1>5, <1>6 DEF RoomsInv

\* Nothing of the rows changes but who asks what: the requests that only read,
\* and the clock.
LEMMA RowsStay ==
  ASSUME RoomsInv, Columns', JoinsAdmitted', UNCHANGED <<status, slug, owner, role, made>>,
         admitted \subseteq admitted'
  PROVE  RoomsInv'
<1>1. \A r \in Room : Exists(r)' <=> Exists(r)
  BY DEF Exists
<1>2. RoomRows' /\ OneCode'
  BY <1>1 DEF RoomsInv, RoomRows, OneCode
<1>3. OneRoomPerKey'
  BY <1>1 DEF RoomsInv, OneRoomPerKey, Exists
<1>4. MembersAdmitted'
  BY DEF RoomsInv, MembersAdmitted
<1> QED
  BY <1>2, <1>3, <1>4 DEF RoomsInv

LEMMA ReadsInv ==
  ASSUME RoomsInv, NEW p \in Person, NEW x \in Slug, NEW q \in Req, NEW s \in Access,
         JoinRead(q, p, x, s) \/ DeleteRead(q, p, x)
  PROVE  RoomsInv'
<1>1. CASE JoinRead(q, p, x, s)
  <2>1. PICK r \in Room : /\ op' = [op EXCEPT ![q] = [pc |-> "join", person |-> p, room |-> r, slug |-> x]]
                          /\ admitted' = admitted \cup {<<p, r>>}
    BY <1>1 DEF JoinRead, Holding
  <2>2. Columns'
    BY <1>1, <2>1 DEF RoomsInv, Columns, JoinRead, room
  <2>3. JoinsAdmitted'
    BY <2>1 DEF RoomsInv, Columns, JoinsAdmitted
  <2> QED
    BY <1>1, <2>1, <2>2, <2>3, RowsStay DEF JoinRead, room
<1>2. CASE DeleteRead(q, p, x)
  <2>1. op' = [op EXCEPT ![q] = [pc |-> "delete", person |-> p, room |-> Null, slug |-> x]]
    BY <1>2 DEF DeleteRead
  <2>2. Columns'
    BY <1>2, <2>1 DEF RoomsInv, Columns, DeleteRead, room
  <2>3. JoinsAdmitted'
    BY <1>2, <2>1 DEF RoomsInv, Columns, JoinsAdmitted, DeleteRead
  <2> QED
    BY <1>2, <2>2, <2>3, RowsStay DEF DeleteRead, room
<1> QED
  BY <1>1, <1>2

LEMMA RestInv ==
  ASSUME RoomsInv,
         \/ \E p \in Person, x \in Slug, a \in Access : Update(p, x, a)
         \/ \E q \in Req : Abandon(q)
         \/ NextDay \/ UNCHANGED rvars
  PROVE  RoomsInv'
<1>1. CASE \E p \in Person, x \in Slug, a \in Access : Update(p, x, a)
  <2>1. PICK p \in Person, x \in Slug, a \in Access : Update(p, x, a)
    BY <1>1
  <2>2. access' \in [Room -> Access \cup {Null}]
    BY <2>1 DEF RoomsInv, Columns, Update
  <2>3. Columns'
    BY <2>1, <2>2 DEF RoomsInv, Columns, Update
  <2> QED
    BY <2>1, <2>3, RowsStay DEF Update, RoomsInv, JoinsAdmitted
<1>2. CASE \E q \in Req : Abandon(q)
  <2>1. Columns'
    BY <1>2 DEF RoomsInv, Columns, Abandon, NoOp, room
  <2>2. JoinsAdmitted'
    BY <1>2 DEF RoomsInv, Columns, JoinsAdmitted, Abandon, NoOp
  <2> QED
    BY <1>2, <2>1, <2>2, RowsStay DEF Abandon, room
<1>3. CASE NextDay
  <2>1. Columns'
    BY <1>3 DEF RoomsInv, Columns, NextDay, room
  <2> QED
    BY <1>3, <2>1, RowsStay DEF NextDay, room, RoomsInv, JoinsAdmitted
<1>4. CASE UNCHANGED rvars
  <2>1. Columns'
    BY <1>4 DEF RoomsInv, Columns, rvars, room
  <2> QED
    BY <1>4, <2>1, RowsStay DEF rvars, room, RoomsInv, JoinsAdmitted
<1> QED
  BY <1>1, <1>2, <1>3, <1>4

\* Join: the person passed the check of the very room it is inserted into, and
\* a row that is there stays.
LEMMA JoinInsertInv ==
  ASSUME RoomsInv, NEW q \in Req, JoinInsert(q)
  PROVE  RoomsInv'
<1> DEFINE p == op[q].person
           r == op[q].room
<1>1. op' = [op EXCEPT ![q] = NoOp] /\ UNCHANGED <<today, room, made, admitted>>
  BY DEF JoinInsert
<1>2. p \in Person /\ r \in Room /\ <<p, r>> \in admitted
  BY DEF JoinInsert, RoomsInv, JoinsAdmitted
<1>3. JoinsAdmitted'
  BY <1>1 DEF RoomsInv, Columns, JoinsAdmitted, NoOp
<1>4. CASE UNCHANGED role
  <2>1. Columns'
    BY <1>1, <1>4 DEF RoomsInv, Columns, NoOp, room
  <2> QED
    BY <1>1, <1>3, <1>4, <2>1, RowsStay DEF room
<1>5. CASE ~UNCHANGED role
  <2>1. Exists(r) /\ role[r][p] = "none" /\ role' = [role EXCEPT ![r][p] = "member"]
    BY <1>5 DEF JoinInsert, JoinTarget, Joined
  <2>2. Columns'
    BY <1>1, <1>2, <2>1 DEF RoomsInv, Columns, NoOp, room
  <2>3. \A s \in Room, n \in Person : role'[s][n] = IF s = r /\ n = p THEN "member" ELSE role[s][n]
    BY <1>2, <2>1 DEF RoomsInv, Columns
  <2>4. \A s \in Room : Exists(s)' <=> Exists(s)
    BY <1>1 DEF Exists, room
  <2>5. RoomRows'
    BY <1>1, <1>2, <2>1, <2>3, <2>4 DEF RoomsInv, RoomRows, room
  <2>6. OneCode'
    BY <1>1, <2>4 DEF RoomsInv, OneCode, room
  <2>7. OneRoomPerKey'
    BY <1>1, <2>4 DEF RoomsInv, OneRoomPerKey, Exists, room
  <2>8. MembersAdmitted'
    BY <1>1, <1>2, <2>3 DEF RoomsInv, MembersAdmitted
  <2> QED
    BY <1>3, <2>2, <2>5, <2>6, <2>7, <2>8 DEF RoomsInv
<1> QED
  BY <1>4, <1>5

\* A room on its way out keeps its rows, code and key until it is dropped.
LEMMA HidesInv ==
  ASSUME RoomsInv, (\E q \in Req : DeleteWrite(q)) \/ (\E r \in Room : ClaimDue(r))
  PROVE  RoomsInv'
<1>1. /\ status' \in [Room -> {"none", "active", "deleting", "gone"}]
      /\ \A s \in Room : Exists(s)' <=> Exists(s)
  <2>1. CASE \E q \in Req : DeleteWrite(q)
    BY <2>1 DEF RoomsInv, Columns, DeleteWrite, DeleteTarget, Exists
  <2>2. CASE \E r \in Room : ClaimDue(r)
    BY <2>2 DEF RoomsInv, Columns, ClaimDue, Exists
  <2> QED
    BY <2>1, <2>2
<1>2. UNCHANGED <<today, slug, owner, access, expiry, role, made, admitted>>
  BY DEF DeleteWrite, ClaimDue
<1>3. op' = op \/ \E q \in Req : op' = [op EXCEPT ![q] = NoOp]
  BY DEF DeleteWrite, ClaimDue
<1>4. Columns'
  BY <1>1, <1>2, <1>3 DEF RoomsInv, Columns, NoOp
<1>5. RoomRows' /\ OneCode'
  BY <1>1, <1>2 DEF RoomsInv, RoomRows, OneCode
<1>6. OneRoomPerKey'
  <2>1. ASSUME NEW pk \in Person \X Key, made[pk] # Idle PROVE Exists(made[pk].r)'
    <3>1. made[pk].r \in Room /\ Exists(made[pk].r)
      BY <2>1, NullRows DEF RoomsInv, Columns, OneRoomPerKey
    <3> QED
      BY <1>1, <1>2, <3>1 DEF Exists
  <2> QED
    BY <1>1, <1>2, <2>1 DEF RoomsInv, OneRoomPerKey
<1>7. JoinsAdmitted'
  <2>1. CASE op' = op
    BY <1>2, <2>1 DEF RoomsInv, JoinsAdmitted
  <2>2. ASSUME NEW q \in Req, op' = [op EXCEPT ![q] = NoOp] PROVE JoinsAdmitted'
    <3>1. \A n \in Req : op'[n].pc = "join" => op'[n] = op[n]
      BY <2>2 DEF RoomsInv, Columns, NoOp
    <3> QED
      BY <1>2, <3>1 DEF RoomsInv, JoinsAdmitted
  <2> QED
    BY <1>3, <2>1, <2>2
<1>8. MembersAdmitted'
  BY <1>2 DEF RoomsInv, MembersAdmitted
<1> QED
  BY <1>4, <1>5, <1>6, <1>7, <1>8 DEF RoomsInv

\* The worker's DELETE takes the members and the key along.
LEMMA DropInv ==
  ASSUME RoomsInv, NEW r \in Room, Drop(r)
  PROVE  RoomsInv'
<1>1. Columns'
  BY DEF RoomsInv, Columns, Drop
<1>2. ~Exists(r)' /\ Exists(r) /\ \A s \in Room \ {r} : Exists(s)' <=> Exists(s)
  BY DEF RoomsInv, Columns, Drop, Exists
<1>3. /\ \A n \in Person : role'[r][n] = "none"
      /\ \A s \in Room \ {r} : role'[s] = role[s]
  BY DEF RoomsInv, Columns, Drop
<1>4. UNCHANGED <<slug, owner, op, admitted>>
  BY DEF Drop
<1>5. RoomRows'
  BY <1>2, <1>3, <1>4 DEF RoomsInv, RoomRows
<1>6. OneCode'
  BY <1>2, <1>4 DEF RoomsInv, OneCode
<1>7. OneRoomPerKey'
  <2>1. \A pk \in Person \X Key : made'[pk] = IF made[pk].r = r THEN Idle ELSE made[pk]
    BY DEF Drop
  <2>2. ASSUME NEW s \in Room, Exists(s)'
        PROVE  \E pk \in Person \X Key : made'[pk].r = s /\ owner'[s] = pk[1]
    <3>1. s # r /\ Exists(s)
      BY <1>2, <2>2
    <3>2. PICK pk \in Person \X Key : made[pk].r = s /\ owner[s] = pk[1]
      BY <3>1 DEF RoomsInv, OneRoomPerKey
    <3> QED
      BY <1>4, <2>1, <3>1, <3>2
  <2>3. ASSUME NEW pk \in Person \X Key, NEW pk2 \in Person \X Key, made'[pk] # Idle
        PROVE  Exists(made[pk].r)' /\ (made'[pk2].r = made'[pk].r => pk2 = pk)
    <3>1. made'[pk] = made[pk] /\ made[pk].r \in Room \ {r} /\ Exists(made[pk].r)
      BY <2>1, <2>3, NullRows DEF RoomsInv, Columns, OneRoomPerKey
    <3>2. Exists(made[pk].r)'
      BY <1>2, <3>1 DEF Exists
    <3>3. made'[pk2].r = made'[pk].r => made[pk2].r = made[pk].r
      BY <2>1, <3>1, NullRows
    <3> QED
      BY <2>3, <3>1, <3>2, <3>3 DEF RoomsInv, OneRoomPerKey
  <2> QED
    BY <2>2, <2>3 DEF OneRoomPerKey
<1>8. JoinsAdmitted' /\ MembersAdmitted'
  BY <1>3, <1>4 DEF RoomsInv, JoinsAdmitted, MembersAdmitted
<1> QED
  BY <1>1, <1>5, <1>6, <1>7, <1>8 DEF RoomsInv

LEMMA StepInv == RoomsInv /\ [RoomsNext]_rvars => RoomsInv'
<1> SUFFICES ASSUME RoomsInv, [RoomsNext]_rvars PROVE RoomsInv'
  OBVIOUS
<1>1. CASE \E p \in Person, k \in Key, b \in Body, r \in Room, x \in Slug : Create(p, k, b, r, x)
  BY <1>1, CreateInv
<1>2. CASE \E q \in Req : JoinInsert(q)
  BY <1>2, JoinInsertInv
<1>3. CASE (\E q \in Req : DeleteWrite(q)) \/ (\E r \in Room : ClaimDue(r))
  BY <1>3, HidesInv
<1>4. CASE \E r \in Room : Drop(r)
  BY <1>4, DropInv
<1>5. CASE \E p \in Person, x \in Slug, q \in Req, s \in Access : JoinRead(q, p, x, s)
  BY <1>5, ReadsInv
<1>6. CASE \E p \in Person, x \in Slug, q \in Req : DeleteRead(q, p, x)
  BY <1>6, ReadsInv DEF Access
<1>7. CASE \/ \E p \in Person, x \in Slug, a \in Access : Update(p, x, a)
           \/ \E q \in Req : Abandon(q)
           \/ NextDay \/ UNCHANGED rvars
  BY <1>7, RestInv
<1> QED
  BY <1>1, <1>2, <1>3, <1>4, <1>5, <1>6, <1>7 DEF RoomsNext

-----------------------------------------------------------------------------
(* The theorems                                                            *)

\* RoomsInv holds of every reachable state.
THEOREM RoomsInvariant == RoomsSpec => []RoomsInv
BY InitInv, StepInv, PTL DEF RoomsSpec

\* No two rooms that exist have the same code.
LEMMA OneHolder == RoomsInv => \A x \in Slug : Cardinality(Holding(x)) <= 1
<1> SUFFICES ASSUME RoomsInv, NEW x \in Slug PROVE Cardinality(Holding(x)) <= 1
  OBVIOUS
<1>1. CASE Holding(x) = {}
  BY <1>1, FS_EmptySet
<1>2. CASE Holding(x) # {}
  <2>1. PICK r \in Room : Exists(r) /\ slug[r] = x
    BY <1>2 DEF Holding
  <2>2. Holding(x) = {r}
    BY <2>1 DEF Holding, RoomsInv, OneCode
  <2> QED
    BY <2>2, FS_Singleton
<1> QED
  BY <1>1, <1>2

\* The columns of rooms, members, keys and requests stay well-typed, and codes
\* are unique among rooms that exist (Create: ON CONFLICT (slug)).
THEOREM RoomsTyped == RoomsSpec => []RoomsTypeOK
<1>1. RoomsInv => RoomsTypeOK
  BY OneHolder DEF RoomsInv, Columns, RoomsTypeOK
<1> QED
  BY <1>1, RoomsInvariant, PTL

\* A room has its creator as its one owner while it exists (Create, Join).
THEOREM RoomsHaveOneOwner == RoomsSpec => []OneOwner
<1>1. RoomsInv => OneOwner
  BY DEF RoomsInv, RoomRows, OneOwner
<1> QED
  BY <1>1, RoomsInvariant, PTL

\* Rooms and idempotency keys belong together one to one (Create).
THEOREM KeysMakeOneRoom == RoomsSpec => []OneRoomPerKey
<1>1. RoomsInv => OneRoomPerKey
  BY DEF RoomsInv
<1> QED
  BY <1>1, RoomsInvariant, PTL

\* Members passed the check of the room they are in (Join).
THEOREM MembersWereAdmitted == RoomsSpec => []MembersAdmitted
<1>1. RoomsInv => MembersAdmitted
  BY DEF RoomsInv
<1> QED
  BY <1>1, RoomsInvariant, PTL

\* A room that is not due is deleted by a request of its owner only (Delete).
THEOREM OnlyOwnersDelete == RoomsSpec => OwnersDelete
<1> DEFINE Allowed == \A r \in Room :
      status[r] = "active" /\ status'[r] = "deleting"
      => \/ expiry[r] <= today
         \/ \E q \in Req : op[q].pc = "delete" /\ op[q].person = owner[r]
<1>1. RoomsInv /\ [RoomsNext]_rvars => [Allowed]_rvars
  <2> SUFFICES ASSUME RoomsInv, RoomsNext, NEW r \in Room,
                      status[r] = "active", status'[r] = "deleting"
               PROVE  \/ expiry[r] <= today
                      \/ \E q \in Req : op[q].pc = "delete" /\ op[q].person = owner[r]
    OBVIOUS
  <2> USE DEF RoomsInv, Columns
  <2>1. CASE \E q \in Req : DeleteWrite(q)
    BY <2>1 DEF DeleteWrite, DeleteTarget, Holding
  <2>2. CASE \E s \in Room : ClaimDue(s) \/ Drop(s)
    BY <2>2 DEF ClaimDue, Drop
  <2>3. CASE UNCHANGED status
    BY <2>3
  <2>4. CASE \E p \in Person, k \in Key, b \in Body, s \in Room, x \in Slug : Create(p, k, b, s, x)
    BY <2>4 DEF Create
  <2>5. CASE NextDay \/ \E q \in Req : JoinInsert(q) \/ Abandon(q)
    BY <2>5, <2>3 DEF NextDay, JoinInsert, Abandon, room
  <2>6. CASE \E p \in Person, x \in Slug :
               \/ \E q \in Req, s \in Access : JoinRead(q, p, x, s)
               \/ \E a \in Access : Update(p, x, a)
               \/ \E q \in Req : DeleteRead(q, p, x)
    BY <2>6, <2>3 DEF JoinRead, Update, DeleteRead, room
  <2> QED
    BY <2>1, <2>2, <2>4, <2>5, <2>6 DEF RoomsNext
<1> QED
  BY <1>1, RoomsInvariant, PTL DEF RoomsSpec, OwnersDelete
=============================================================================
