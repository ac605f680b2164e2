------------------------------- MODULE Rooms -------------------------------
(***************************************************************************)
(* Creating, joining, changing and deleting rooms (room/service.go), with  *)
(* the members and the idempotency keys of room_creation_requests.  Codes  *)
(* (slugs) are drawn again once their room is gone.  Join and Delete read  *)
(* and write in statements of their own; Create and Update are one         *)
(* transaction each.  Uploads and counters are UploadSystem's.             *)
(***************************************************************************)
EXTENDS Naturals, FiniteSets

CONSTANTS
  Room,     \* rooms.id, the uuids an INSERT may draw
  Person,   \* identities.id
  Slug,     \* rooms.slug
  Key,      \* Idempotency-Key
  Secret,   \* PINs and passwords
  Public,   \* access_mode 'public'
  Null,     \* no value
  Req,      \* requests under way at once
  MaxDays,  \* the longest lifetime_days
  MaxTime   \* bound: the clock stops here

ASSUME RoomConstants ==
  /\ MaxDays \in Nat \ {0} /\ MaxTime \in Nat
  /\ Public \notin Secret
  /\ Null \notin Room \cup Person \cup Slug \cup Key \cup Secret

VARIABLES
  today,    \* time.Now(), in days
  status,   \* rooms.status, "none" before the INSERT, "gone" once deleted
  slug,     \* rooms.slug
  owner,    \* rooms.owner_identity_id
  access,   \* rooms.access_mode and access_secret_hash
  expiry,   \* rooms.expires_at
  role,     \* room_members.role of each person in each room
  made,     \* room_creation_requests: the room and body of each person and key
  op,       \* requests between two statements
  admitted  \* who passed the check of which room's secret

room == <<status, slug, owner, access, expiry>>
rvars == <<today, room, role, made, op, admitted>>

Access == Secret \cup {Public}
Body   == [access : Access, days : 1..MaxDays]
NoOp   == [pc |-> "idle", person |-> Null, room |-> Null, slug |-> Null]
Idle   == [r |-> Null, body |-> Null]  \* no row in room_creation_requests

Exists(r)   == status[r] \in {"active", "deleting"}
Alive(r)    == status[r] = "active" /\ today < expiry[r]
Holding(x)  == {r \in Room : Exists(r) /\ slug[r] = x}

RoomsTypeOK ==
  /\ today \in Nat
  /\ status \in [Room -> {"none", "active", "deleting", "gone"}]
  /\ slug \in [Room -> Slug \cup {Null}]
  /\ owner \in [Room -> Person \cup {Null}]
  /\ access \in [Room -> Access \cup {Null}]
  /\ expiry \in [Room -> Nat]
  /\ role \in [Room -> [Person -> {"none", "member", "owner"}]]
  /\ made \in [Person \X Key -> [r : Room, body : Body] \cup {Idle}]
  /\ op \in [Req -> [pc : {"idle", "join", "delete"}, person : Person \cup {Null},
                     room : Room \cup {Null}, slug : Slug \cup {Null}]]
  /\ admitted \subseteq Person \X Room
  /\ \A x \in Slug : Cardinality(Holding(x)) <= 1

RoomsInit ==
  /\ today = 0
  /\ status = [r \in Room |-> "none"]
  /\ slug = [r \in Room |-> Null]
  /\ owner = [r \in Room |-> Null]
  /\ access = [r \in Room |-> Null]
  /\ expiry = [r \in Room |-> 0]
  /\ role = [r \in Room |-> [p \in Person |-> "none"]]
  /\ made = [pk \in Person \X Key |-> Idle]
  /\ op = [q \in Req |-> NoOp]
  /\ admitted = {}

-----------------------------------------------------------------------------
\* Mutant of FreeSlug: ON CONFLICT (slug) is not looked at.
FreeSlug_Any(x) == TRUE

FreeSlug(x) == Holding(x) = {}

\* Mutant of KeyFree: the key is not reserved before the room is made.
KeyFree_Always(p, k) == TRUE

KeyFree(p, k) == made[<<p, k>>] = Idle

\* A retry with the key of a request that made a room changes nothing, and
\* is a conflict when its body differs.
Create(p, k, body, r, x) ==
  /\ KeyFree(p, k)
  /\ status[r] = "none" /\ FreeSlug(x)
  /\ status' = [status EXCEPT ![r] = "active"]
  /\ slug' = [slug EXCEPT ![r] = x]
  /\ owner' = [owner EXCEPT ![r] = p]
  /\ access' = [access EXCEPT ![r] = body.access]
  /\ expiry' = [expiry EXCEPT ![r] = today + body.days]
  /\ role' = [role EXCEPT ![r][p] = "owner"]
  /\ made' = [made EXCEPT ![<<p, k>>] = [r |-> r, body |-> body]]
  /\ UNCHANGED <<today, op, admitted>>

JoinRead(q, p, x, secret) ==
  /\ op[q] = NoOp
  /\ \E r \in Holding(x) :
       /\ Alive(r)
       /\ access[r] \in {Public, secret}
       /\ op' = [op EXCEPT ![q] = [pc |-> "join", person |-> p, room |-> r, slug |-> x]]
       /\ admitted' = admitted \cup {<<p, r>>}
  /\ UNCHANGED <<today, room, role, made>>

\* Mutants of Joined: the room is looked up by its code again; the conflict
\* overwrites the role.
JoinTarget_BySlug(q) == Holding(op[q].slug)
Joined_Overwrites(r, p) == [role EXCEPT ![r][p] = "member"]

JoinTarget(q) == {r \in {op[q].room} : Exists(r)}

Joined(r, p) == IF role[r][p] = "none" THEN [role EXCEPT ![r][p] = "member"] ELSE role

\* No row to insert into: the foreign key fails and the request with it.
JoinInsert(q) ==
  /\ op[q].pc = "join"
  /\ \/ \E r \in JoinTarget(q) : role' = Joined(r, op[q].person)
     \/ JoinTarget(q) = {} /\ UNCHANGED role
  /\ op' = [op EXCEPT ![q] = NoOp]
  /\ UNCHANGED <<today, room, made, admitted>>

Update(p, x, new) ==
  /\ \E r \in Holding(x) :
       /\ role[r][p] = "owner" /\ Alive(r)
       /\ access' = [access EXCEPT ![r] = new]
  /\ UNCHANGED <<today, status, slug, owner, expiry, role, made, op, admitted>>

DeleteRead(q, p, x) ==
  /\ op[q] = NoOp
  /\ \E r \in Holding(x) : role[r][p] = "owner" /\ Alive(r)
  /\ op' = [op EXCEPT ![q] = [pc |-> "delete", person |-> p, room |-> Null, slug |-> x]]
  /\ UNCHANGED <<today, room, role, made, admitted>>

\* Mutant of DeleteTarget: the UPDATE relies on the role that was read.
DeleteTarget_Anyone(q) == {r \in Holding(op[q].slug) : status[r] = "active"}

DeleteTarget(q) ==
  {r \in Holding(op[q].slug) : status[r] = "active" /\ owner[r] = op[q].person}

DeleteWrite(q) ==
  /\ op[q].pc = "delete"
  /\ status' = [r \in Room |-> IF r \in DeleteTarget(q) THEN "deleting" ELSE status[r]]
  /\ op' = [op EXCEPT ![q] = NoOp]
  /\ UNCHANGED <<today, slug, owner, access, expiry, role, made, admitted>>

\* A request that fails between its statements.
Abandon(q) ==
  /\ op[q] # NoOp
  /\ op' = [op EXCEPT ![q] = NoOp]
  /\ UNCHANGED <<today, room, role, made, admitted>>

\* The cleanup worker: claim, then the DELETE and its cascades.
ClaimDue(r) ==
  /\ status[r] = "active" /\ expiry[r] <= today
  /\ status' = [status EXCEPT ![r] = "deleting"]
  /\ UNCHANGED <<today, slug, owner, access, expiry, role, made, op, admitted>>

Drop(r) ==
  /\ status[r] = "deleting"
  /\ status' = [status EXCEPT ![r] = "gone"]
  /\ role' = [role EXCEPT ![r] = [p \in Person |-> "none"]]
  /\ made' = [pk \in Person \X Key |-> IF made[pk].r = r THEN Idle ELSE made[pk]]
  /\ UNCHANGED <<today, slug, owner, access, expiry, op, admitted>>

NextDay == today < MaxTime /\ today' = today + 1 /\ UNCHANGED <<room, role, made, op, admitted>>

RoomsNext ==
  \/ NextDay
  \/ \E r \in Room : ClaimDue(r) \/ Drop(r)
  \/ \E q \in Req : JoinInsert(q) \/ DeleteWrite(q) \/ Abandon(q)
  \/ \E p \in Person, x \in Slug :
       \/ \E k \in Key, b \in Body, r \in Room : Create(p, k, b, r, x)
       \/ \E q \in Req, s \in Access : JoinRead(q, p, x, s)
       \/ \E a \in Access : Update(p, x, a)
       \/ \E q \in Req : DeleteRead(q, p, x)

RoomsSpec == RoomsInit /\ [][RoomsNext]_rvars

-----------------------------------------------------------------------------
(* Safety                                                                  *)

\* Every room has its creator as its one owner for as long as it exists, also
\* when the owner joins it like a guest (Create, Join).
OneOwner == \A r \in Room : Exists(r) =>
  {p \in Person : role[r][p] = "owner"} = {owner[r]}

\* Rooms and keys belong together one to one: while a room exists its key
\* makes no second one, and a key that is remembered still has its room
\* (Create, ON DELETE CASCADE).
OneRoomPerKey ==
  /\ \A r \in Room : Exists(r) =>
       \E pk \in Person \X Key : made[pk].r = r /\ owner[r] = pk[1]
  /\ \A pk, pk2 \in Person \X Key : made[pk] # Idle =>
       /\ Exists(made[pk].r)
       /\ made[pk2].r = made[pk].r => pk2 = pk

\* Who is a member of a room passed the check of that very room, also when
\* another room took its code in the meantime (Join).
MembersAdmitted == \A r \in Room, p \in Person :
  role[r][p] = "member" => <<p, r>> \in admitted

-----------------------------------------------------------------------------
(* Action properties                                                       *)

\* A room that is not due is only deleted by a request of its owner, also
\* when its code belonged to another room when the request began (Delete).
OwnersDelete == [][\A r \in Room :
  status[r] = "active" /\ status'[r] = "deleting"
  => \/ expiry[r] <= today
     \/ \E q \in Req : op[q].pc = "delete" /\ op[q].person = owner[r]]_rvars
=============================================================================
