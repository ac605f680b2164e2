------------------------------ MODULE Sessions ------------------------------
(***************************************************************************)
(* The rows of sessions and what auth/service.go and the authentication    *)
(* middleware do with them.  A refresh token is a random value nobody      *)
(* draws twice: here the next number.  Each transaction locks the one row  *)
(* it writes, so it is one action.  Identities only pass through: a        *)
(* session keeps the kind of the identity it was created for.              *)
(***************************************************************************)
EXTENDS Naturals

CONSTANTS
  Session,    \* sessions.id, the uuids an INSERT may draw
  SessionTTL, \* Service.refreshTTL, in ticks
  AccessTTL   \* TokenManager.ttl and the leeway of Parse, in ticks

ASSUME Lifetimes == SessionTTL \in Nat \ {0} /\ AccessTTL \in Nat \ {0}

VARIABLES
  time,    \* time.Now() and PostgreSQL's now()
  kind,    \* identities.kind of the session's identity, "none" before the INSERT
  hash,    \* sessions.token_hash, named by the token; 0 before the INSERT
  until,   \* sessions.expires_at
  revoked, \* sessions.revoked_at IS NOT NULL
  minted,  \* how many refresh tokens were drawn
  lineage  \* which token was exchanged for which

rows == <<kind, hash, until, revoked, minted, lineage>>

SessionsTypeOK ==
  /\ time \in Nat
  /\ kind \in [Session -> {"none", "anonymous", "telegram"}]
  /\ hash \in [Session -> 0..minted]
  /\ until \in [Session -> Nat]
  /\ revoked \in [Session -> BOOLEAN]
  /\ minted \in Nat
  /\ lineage \subseteq (1..minted) \X (1..minted)
  /\ \A s, r \in Session : hash[s] = hash[r] /\ hash[s] # 0 => s = r

SessionsInit ==
  /\ time = 0
  /\ kind = [s \in Session |-> "none"]
  /\ hash = [s \in Session |-> 0]
  /\ until = [s \in Session |-> 0]
  /\ revoked = [s \in Session |-> FALSE]
  /\ minted = 0
  /\ lineage = {}

\* Mutant of NewToken: a generator that repeats itself.
NewToken_Constant == 1

NewToken == minted + 1

\* What a client is given: its session, a refresh token and the time up to
\* which the access token is good.
Grant(s, t) == [session |-> s, refresh |-> t, until |-> time + AccessTTL]

\* Mutant of Active: a session that is past its end still counts.
Active_Expired(s) == hash[s] # 0 /\ ~revoked[s]

Active(s) == hash[s] # 0 /\ ~revoked[s] /\ time < until[s]

\* The middleware: a token that is not past its own end, of an active session.
Admits(g) == time < g.until /\ Active(g.session)

-----------------------------------------------------------------------------
Create(s, k) ==
  /\ hash[s] = 0
  /\ kind' = [kind EXCEPT ![s] = k]
  /\ hash' = [hash EXCEPT ![s] = NewToken]
  /\ until' = [until EXCEPT ![s] = time + SessionTTL]
  /\ minted' = minted + 1
  /\ UNCHANGED <<revoked, lineage>>

\* Mutant of Rotate: the new token is handed out, the row keeps the old one.
Rotate_NotStored(s, old) ==
  /\ Active(s) /\ hash[s] = old
  /\ minted' = minted + 1
  /\ lineage' = lineage \cup {<<old, NewToken>>}
  /\ UNCHANGED <<kind, hash, until, revoked>>

Rotate(s, old) ==
  /\ Active(s) /\ hash[s] = old
  /\ hash' = [hash EXCEPT ![s] = NewToken]
  /\ minted' = minted + 1
  /\ lineage' = lineage \cup {<<old, NewToken>>}
  /\ UNCHANGED <<kind, until, revoked>>

Revoke(s) ==
  /\ revoked' = [revoked EXCEPT ![s] = TRUE]
  /\ UNCHANGED <<kind, hash, until, minted, lineage>>
=============================================================================
