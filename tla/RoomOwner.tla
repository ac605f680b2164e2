------------------------------ MODULE RoomOwner ------------------------------
(***************************************************************************)
(* What the owner of a room does to its row through internal/room: open or *)
(* close it for uploads, and delete it before its time.                    *)
(***************************************************************************)
EXTENDS Tables

VARIABLE cut  \* rooms their owner deleted

OwnerTypeOK == cut \subseteq Room
OwnerInit   == cut = {}

\* Service.Update under the lock of the room row; name and access mode are
\* not part of this model.
UpdateRoom(r, open) ==
  /\ RoomOpen(r)
  /\ accepting' = [accepting EXCEPT ![r] = open]
  /\ UNCHANGED <<roomStatus, counters, statuses, columns, thumbCols, now, cut>>

\* Service.Delete.  The expiry was checked in an earlier statement, while the
\* room was young enough; the UPDATE itself only asks for an active room.
DeleteRoom(r) ==
  /\ roomStatus[r] = "active"
  /\ roomStatus' = [roomStatus EXCEPT ![r] = "deleting"]
  /\ accepting' = [accepting EXCEPT ![r] = FALSE]
  /\ cut' = cut \cup {r}
  /\ UNCHANGED <<counters, statuses, columns, thumbCols, now>>

OwnerNext == \E r \in Room : DeleteRoom(r) \/ \E open \in BOOLEAN : UpdateRoom(r, open)
=============================================================================
