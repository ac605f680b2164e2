-------------------------------- MODULE Locks --------------------------------
(***************************************************************************)
(* The row locks the transactions of the API and the workers take, one     *)
(* after another, each waiting until the row is free and keeping it to its *)
(* end.  Uploads are locked session, media, room; only DELETE FROM rooms   *)
(* cascades the other way.  PostgreSQL breaks a ring of waiting            *)
(* transactions by failing one of them.                                    *)
(***************************************************************************)
EXTENDS Naturals, FiniteSets

CONSTANTS
  Txn,    \* connections, each in one transaction at a time
  Upload, \* uploads: a session and a media each
  Room,
  Key,    \* the advisory locks of Initiate
  NoTxn

ASSUME LocksAssumption == NoTxn \notin Txn

SessionOf(m) == <<"session", m>>
MediaOf(m)   == <<"media", m>>
RoomRow(r)   == <<"room", r>>
KeyLock(k)   == <<"key", k>>

Row == {SessionOf(m) : m \in Upload} \cup {MediaOf(m) : m \in Upload}
       \cup {RoomRow(r) : r \in Room} \cup {KeyLock(k) : k \in Key}

VARIABLES
  home,       \* the room of each upload
  upload,     \* none, open (pending), settled (ready, failed or deleted), gone
  room,       \* rooms.status, gone when the row is
  job,        \* what each connection is doing, and to which upload or room
  todo,       \* the rows it has yet to lock
  holder      \* who has locked a row

data     == <<upload, room>>
lockVars == <<home, data, job, todo, holder>>

Nothing == [kind |-> "idle", on |-> NoTxn]
Job     == {Nothing} \cup [kind : {"initiate", "settle", "delete", "expire"}, on : Upload]
                     \cup [kind : {"drop", "brief"}, on : Room]
Kind(t) == job[t].kind
On(t)   == job[t].on

LocksTypeOK ==
  /\ home \in [Upload -> Room]
  /\ upload \in [Upload -> {"none", "open", "settled", "gone"}]
  /\ room \in [Room -> {"active", "deleting", "gone"}]
  /\ job \in [Txn -> Job]
  /\ todo \in [Txn -> SUBSET Row]
  /\ holder \in [Row -> Txn \cup {NoTxn}]
  /\ \A x \in Row : holder[x] # NoTxn => Kind(holder[x]) # "idle"

LocksInit ==
  /\ home \in [Upload -> Room]
  /\ upload = [m \in Upload |-> "none"]
  /\ room = [r \in Room |-> "active"]
  /\ job = [t \in Txn |-> Nothing]
  /\ todo = [t \in Txn |-> {}]
  /\ holder = [x \in Row |-> NoTxn]

-----------------------------------------------------------------------------
(* The order of the locks                                                  *)

Rank(x) == CASE x[1] = "key" -> 0 [] x[1] = "session" -> 1 [] x[1] = "media" -> 2 [] OTHER -> 3

\* Mutant of Precedes: Complete and Abort count in the room first.
Precedes_RoomFirst(t, x, y) ==
  IF Kind(t) \in {"drop", "settle"} THEN Rank(x) > Rank(y) ELSE Rank(x) < Rank(y)

\* ON DELETE CASCADE goes from the room to its media to their sessions, all
\* others from the session up.
Precedes(t, x, y) == IF Kind(t) = "drop" THEN Rank(x) > Rank(y) ELSE Rank(x) < Rank(y)

\* The row t has to lock next.  Of several media the cascade takes any: in
\* which order it finds them is the database's affair.
Next(t, x) == x \in todo[t] /\ \A y \in todo[t] : ~Precedes(t, y, x)

Exists(x) == CASE x[1] = "key" -> TRUE
               [] x[1] = "room" -> room[x[2]] # "gone"
               [] OTHER -> upload[x[2]] \in {"open", "settled"}

-----------------------------------------------------------------------------
(* What a transaction starts with                                          *)

Begin(t, what, on, rows) ==
  /\ job[t] = Nothing
  /\ job' = [job EXCEPT ![t] = [kind |-> what, on |-> on]]
  /\ todo' = [todo EXCEPT ![t] = rows]
  /\ UNCHANGED <<home, data>>

\* A new row's id is its own.
Initiate(t, m, k) ==
  /\ upload[m] = "none" /\ \A u \in Txn : job[u] # [kind |-> "initiate", on |-> m]
  /\ Begin(t, "initiate", m, {KeyLock(k), RoomRow(home[m])})
  /\ UNCHANGED holder

\* Complete and releaseReservation, of an upload that was read to be open.
Settle(t, m) ==
  /\ upload[m] # "none"
  /\ Begin(t, "settle", m, {SessionOf(m), MediaOf(m), RoomRow(home[m])})
  /\ UNCHANGED holder

\* Mutant of Deletable: the status is only looked at under the lock.
Deletable_Any(m) == upload[m] # "none"

\* The status Delete reads before it begins; it may be out of date by then,
\* but what was settled is not opened again.
Deletable(m) == upload[m] \in {"settled", "gone"}

Delete(t, m) ==
  /\ Deletable(m)
  /\ Begin(t, "delete", m, {MediaOf(m), RoomRow(home[m])})
  /\ UNCHANGED holder

Free(x) == holder[x] = NoTxn

\* claimExpiredUpload: the first due session that is free together with its
\* room.  Of those it skips because their room is locked it keeps the session.
Expire(t, m, skipped) ==
  /\ upload[m] = "open" /\ Free(SessionOf(m)) /\ Free(RoomRow(home[m]))
  /\ \A n \in skipped : upload[n] = "open" /\ Free(SessionOf(n)) /\ ~Free(RoomRow(home[n]))
  /\ Begin(t, "expire", m, {MediaOf(m)})
  /\ holder' = [x \in Row |-> IF x \in {RoomRow(home[m])} \cup {SessionOf(n) : n \in skipped \cup {m}}
                              THEN t ELSE holder[x]]

\* The worker's DELETE FROM rooms.
Drop(t, r) ==
  /\ room[r] = "deleting"
  /\ Begin(t, "drop", r, {RoomRow(r)})
  /\ UNCHANGED holder

\* The statements that change one row and commit: the room's by Update, Delete
\* and claimRoom, a session's by PartURLs, that of a ready media by the
\* thumbnail worker.
Brief(t, r, x) ==
  /\ x = RoomRow(r) \/ \E m \in Upload : \/ x = SessionOf(m) /\ upload[m] # "none"
                                         \/ x = MediaOf(m) /\ upload[m] = "settled"
  /\ Begin(t, "brief", r, {x})
  /\ UNCHANGED holder

-----------------------------------------------------------------------------
(* How it goes on and ends                                                 *)

\* Mutant of End: an early return without its rollback.
End_Leaks(t) ==
  /\ job' = [job EXCEPT ![t] = Nothing] /\ todo' = [todo EXCEPT ![t] = {}]
  /\ UNCHANGED holder

\* Commit or rollback: every lock goes.
End(t) ==
  /\ job' = [job EXCEPT ![t] = Nothing] /\ todo' = [todo EXCEPT ![t] = {}]
  /\ holder' = [x \in Row |-> IF holder[x] = t THEN NoTxn ELSE holder[x]]

\* What the row now says leaves nothing to do: it is gone, the upload is
\* settled already, the room takes no uploads any more.
Pointless(t, x) ==
  \/ ~Exists(x)
  \/ Kind(t) = "settle" /\ x = SessionOf(On(t)) /\ upload[On(t)] # "open"
  \/ Kind(t) = "initiate" /\ x = RoomRow(home[On(t)]) /\ room[home[On(t)]] # "active"

\* The rows the cascade finds when the room is locked: no upload is added then.
Cascade(r) == LET here == {m \in Upload : home[m] = r /\ Exists(SessionOf(m))}
              IN  {MediaOf(m) : m \in here} \cup {SessionOf(m) : m \in here}

Take(t, x) ==
  /\ Next(t, x) /\ holder[x] \in {NoTxn, t}
  /\ IF Pointless(t, x) THEN End(t)
     ELSE /\ holder' = [holder EXCEPT ![x] = t]
          /\ todo' = [todo EXCEPT ![t] = IF Kind(t) = "drop" /\ x = RoomRow(On(t)) THEN Cascade(On(t))
                                         ELSE @ \ {x}]
          /\ UNCHANGED job
  /\ UNCHANGED <<home, data>>

Commit(t) ==
  /\ job[t] # Nothing /\ todo[t] = {}
  /\ CASE Kind(t) = "initiate" -> upload' = [upload EXCEPT ![On(t)] = "open"] /\ UNCHANGED room
       [] Kind(t) \in {"settle", "expire"} ->
            upload' = [upload EXCEPT ![On(t)] = "settled"] /\ UNCHANGED room
       [] Kind(t) = "drop" ->
            /\ room' = [room EXCEPT ![On(t)] = "gone"]
            /\ upload' = [m \in Upload |-> IF home[m] = On(t) /\ upload[m] # "none" THEN "gone" ELSE upload[m]]
       [] Kind(t) = "brief" ->
            /\ UNCHANGED upload
            /\ room' \in {room} \cup (IF holder[RoomRow(On(t))] = t
                                      THEN {[room EXCEPT ![On(t)] = "deleting"]} ELSE {})
       [] OTHER -> UNCHANGED data
  /\ End(t)
  /\ UNCHANGED home

\* An error, a cancelled request, a crash; Initiate also ends here when the
\* key was used or the room is full.
Fail(t) == job[t] # Nothing /\ End(t) /\ UNCHANGED <<home, data>>

WaitsFor(t, u) == t # u /\ \E x \in Row : Next(t, x) /\ holder[x] = u

\* Transactions of which each waits for one and is waited for by one.
Ring(C) == /\ C # {}
           /\ \A t \in C : \E u \in C : WaitsFor(t, u)
           /\ \A t \in C : \E u \in C : WaitsFor(u, t)

\* PostgreSQL, when one has waited for deadlock_timeout.
BreakDeadlock(t) == (\E C \in SUBSET Txn : t \in C /\ Ring(C)) /\ Fail(t)

LocksNext == \E t \in Txn :
  \/ \E m \in Upload : \/ Settle(t, m) \/ Delete(t, m) \/ \E k \in Key : Initiate(t, m, k)
                       \/ \E skipped \in SUBSET (Upload \ {m}) : Expire(t, m, skipped)
  \/ \E r \in Room : Drop(t, r) \/ \E x \in Row : Brief(t, r, x)
  \/ \E x \in Row : Take(t, x)
  \/ Commit(t) \/ Fail(t)

LocksSpec == LocksInit /\ [][LocksNext]_lockVars

\* A row that is free ever again is got at some time, a transaction with all
\* its locks goes on (also over the call of Initiate to the bucket), and
\* deadlocks are found.  No error is counted on.
LocksFairness == \A t \in Txn :
  /\ SF_lockVars(\E x \in Row : Take(t, x))
  /\ WF_lockVars(Commit(t)) /\ WF_lockVars(BreakDeadlock(t))

FairLocksSpec == LocksSpec /\ LocksFairness

-----------------------------------------------------------------------------
\* Nobody waits in a ring unless a room is being dropped: of Initiate, Complete,
\* Abort, Delete, the expiry and the one-row statements none deadlocks with
\* another, whichever uploads and rooms they are about (media, cleanup:66).
OnlyDropsDeadlock == \A C \in SUBSET Txn : Ring(C) => \E t \in C : Kind(t) = "drop"

\* The expiry takes its rows against the order, the room before the media.  It
\* may: nobody else holds the media of an open upload whose session and room
\* are held (claimExpiredUpload, with SKIP LOCKED).
ExpireNeverWaits == \A t, u \in Txn : Kind(t) = "expire" => ~WaitsFor(t, u)

\* Every transaction ends, deadlocks or not: no path out of one keeps a lock
\* (tx.Rollback, tx.Commit).
TxnsEnd == \A t \in Txn : Kind(t) # "idle" ~> Kind(t) = "idle"
=============================================================================
