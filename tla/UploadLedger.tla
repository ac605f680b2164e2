---------------------------- MODULE UploadLedger ----------------------------
(***************************************************************************)
(* What uploads promise a room, without sessions, counters, requests or    *)
(* bucket: a media is reserved, then stored or released; a stored one may  *)
(* be released later; nothing comes back; a room's media end with it; and  *)
(* a reservation is only made while what the room already holds leaves     *)
(* enough of its limits, and once for a key: asked for again, it stands as *)
(* long as its room does.                                                  *)
(***************************************************************************)
EXTENDS Integers, FiniteSets

CONSTANTS Room, Media, Key, NoRoom, NoKey, MaxFiles, MaxBytes, Sizes

VARIABLES
  live,   \* rooms that exist
  state,  \* of each media
  place,  \* its room
  bytes,  \* its declared size
  asked   \* the key it was asked for with

ledger == <<live, state, place, bytes, asked>>

Held(r) == {m \in Media : place[m] = r /\ state[m] \in {"reserved", "stored"}}

\* The declared bytes of a set of media: one slot per byte.
Weight(S) == Cardinality({p \in Media \X Sizes : p[1] \in S /\ p[2] <= bytes[p[1]]})

\* What was asked for with k, and is still known.
Under(k) == {m \in Media : asked[m] = k /\ state[m] # "erased"}

LedgerInit ==
  /\ live = Room
  /\ state = [m \in Media |-> "free"]
  /\ place = [m \in Media |-> NoRoom]
  /\ bytes = [m \in Media |-> 0]
  /\ asked = [m \in Media |-> NoKey]

Reserve(m, r, s, k) ==
  /\ state[m] = "free" /\ r \in live /\ Under(k) = {}
  /\ Cardinality(Held(r)) + 1 <= MaxFiles
  /\ Weight(Held(r)) + s <= MaxBytes
  /\ state' = [state EXCEPT ![m] = "reserved"]
  /\ place' = [place EXCEPT ![m] = r]
  /\ bytes' = [bytes EXCEPT ![m] = s]
  /\ asked' = [asked EXCEPT ![m] = k]
  /\ UNCHANGED live

Keep(m) ==
  /\ state[m] = "reserved"
  /\ state' = [state EXCEPT ![m] = "stored"]
  /\ UNCHANGED <<live, place, bytes, asked>>

Release(m) ==
  /\ state[m] \in {"reserved", "stored"}
  /\ state' = [state EXCEPT ![m] = "released"]
  /\ UNCHANGED <<live, place, bytes, asked>>

Erase(r) ==
  /\ r \in live
  /\ live' = live \ {r}
  /\ state' = [m \in Media |-> IF place[m] = r THEN "erased" ELSE state[m]]
  /\ UNCHANGED <<place, bytes, asked>>

LedgerNext ==
  \/ \E m \in Media : Keep(m) \/ Release(m)
  \/ \E m \in Media, r \in Room, s \in Sizes, k \in Key : Reserve(m, r, s, k)
  \/ \E r \in Room : Erase(r)

LedgerSpec == LedgerInit /\ [][LedgerNext]_ledger
=============================================================================
