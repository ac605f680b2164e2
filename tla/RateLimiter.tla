----------------------------- MODULE RateLimiter -----------------------------
(***************************************************************************)
(* httpapi/rate_limit.go: one limiter of the router.  It keeps a           *)
(* rate.Limiter for every visitor it has seen lately and drops the others  *)
(* now and then.  A request reads the clock before it takes the mutex, so  *)
(* requests are not decided in the order of their times.                   *)
(*                                                                         *)
(* Tokens are counted in ticks: one request costs Interval of them.        *)
(***************************************************************************)
EXTENDS Integers

CONSTANTS
  Visitor,   \* what clientIPKey or identityKey return
  NoVisitor, \* the visitor of a request that is not there
  Req,       \* requests in the middleware at the same time
  Interval,  \* time.Minute / eventsPerMinute
  Burst,     \* burst
  TTL,       \* ttl
  MaxWait,   \* assumption: the longest wait for the mutex
  MaxTime    \* bound: the clock stops here

Full == Burst * Interval

ASSUME LimiterConstants ==
  /\ Interval \in Nat \ {0} /\ Burst \in Nat \ {0}
  /\ NoVisitor \notin Visitor
  /\ MaxWait \in Nat /\ TTL \in Nat /\ MaxTime \in Nat
\* What makes dropping a visitor harmless: its bucket is full by then.
ASSUME IdleBucketsFull == TTL >= Full + MaxWait

VARIABLES
  clock,        \* limiter.now()
  visitors,     \* the keys of limiter.visitors
  tokens, last, \* rate.Limiter's tokens and last of each
  lastSeen,     \* visitor.lastSeen
  lastCleanup,  \* limiter.lastCleanup
  request,      \* the requests in the middleware
  granted       \* history: how many requests of each visitor were let through

limiter == <<visitors, tokens, last, lastSeen, lastCleanup>>
lvars   == <<clock, limiter, request, granted>>

Idle == [pc |-> "idle", visitor |-> NoVisitor, at |-> 0]

LimiterTypeOK ==
  /\ clock \in Nat
  /\ visitors \subseteq Visitor
  /\ tokens \in [Visitor -> 0..Full]
  /\ last \in [Visitor -> Nat]
  /\ lastSeen \in [Visitor -> Nat]
  /\ lastCleanup \in Int
  /\ request \in [Req -> [pc : {"idle", "locking", "pass", "429"},
                          visitor : Visitor \cup {NoVisitor}, at : Nat]]
  /\ granted \in [Visitor -> Nat]

LimiterInit ==
  /\ clock = 0
  /\ visitors = {}
  /\ tokens = [v \in Visitor |-> Full]
  /\ last = [v \in Visitor |-> 0]
  /\ lastSeen = [v \in Visitor |-> 0]
  /\ lastCleanup = -TTL  \* the zero time: long ago
  /\ request = [q \in Req |-> Idle]
  /\ granted = [v \in Visitor |-> 0]

-----------------------------------------------------------------------------
\* Mutant of Tokens: the burst is no cap.
Tokens_Uncapped(v, t) == tokens[v] + IF t < last[v] THEN 0 ELSE t - last[v]

\* rate.Limiter.advance: what the bucket of v holds at t.  A time before the
\* last one adds nothing.
Tokens(v, t) ==
  LET more == IF t < last[v] THEN 0 ELSE t - last[v]
  IN  IF tokens[v] + more < Full THEN tokens[v] + more ELSE Full

\* Mutant of Stale: every visitor is dropped when the time has come.
Stale_All(v, t) == TRUE

Stale(v, t) == t - lastSeen[v] >= TTL

\* The visitors that are left after the cleanup, if one is due.
Kept(t) == IF t - lastCleanup >= TTL THEN {v \in visitors : ~Stale(v, t)} ELSE visitors

\* Mutant of Known: a new visitor's limiter is not stored.
Known_NotStored(v, t) == Kept(t)

Known(v, t) == Kept(t) \cup {v}

\* allow reads the clock, then waits for the mutex.
Arrive(q, v) ==
  /\ request[q].pc = "idle"
  /\ request' = [request EXCEPT ![q] = [pc |-> "locking", visitor |-> v, at |-> clock]]
  /\ UNCHANGED <<clock, limiter, granted>>

\* allow under the mutex: the cleanup, the visitor's limiter, AllowN.
Decide(q) ==
  LET v    == request[q].visitor
      t    == request[q].at
      held == IF v \in Kept(t) THEN Tokens(v, t) ELSE Full
      ok   == held >= Interval
      Of(f, none, mine) == [x \in Visitor |-> IF x = v THEN mine
                                              ELSE IF x \in Kept(t) THEN f[x] ELSE none]
  IN
  /\ request[q].pc = "locking"
  /\ visitors' = Known(v, t)
  /\ lastCleanup' = IF t - lastCleanup >= TTL THEN t ELSE lastCleanup
  /\ lastSeen' = Of(lastSeen, 0, t)
  /\ tokens' = Of(tokens, Full, IF ok THEN held - Interval ELSE tokens[v])
  /\ last' = Of(last, 0, IF ok THEN t ELSE last[v])
  /\ granted' = IF ok THEN [granted EXCEPT ![v] = @ + 1] ELSE granted
  /\ request' = [request EXCEPT ![q] = [Idle EXCEPT !.pc = IF ok THEN "pass" ELSE "429"]]
  /\ UNCHANGED clock

\* next.ServeHTTP is called, or 429 written.
Respond(q) ==
  /\ request[q].pc \in {"pass", "429"}
  /\ request' = [request EXCEPT ![q] = Idle]
  /\ UNCHANGED <<clock, limiter, granted>>

Tick ==
  /\ clock < MaxTime
  /\ \A q \in Req : request[q].pc = "locking" => clock < request[q].at + MaxWait
  /\ clock' = clock + 1
  /\ UNCHANGED <<limiter, request, granted>>

LimiterNext ==
  \/ Tick
  \/ \E q \in Req : Decide(q) \/ Respond(q) \/ \E v \in Visitor : Arrive(q, v)

LimiterSpec == LimiterInit /\ [][LimiterNext]_lvars

-----------------------------------------------------------------------------
\* What a visitor's bucket holds now, whether or not the limiter knows it.
Level(v) == IF v \in visitors THEN Tokens(v, clock) ELSE Full

Bucket == INSTANCE TokenBucket WITH
  level  <- [v \in Visitor |-> Level(v)],
  answer <- [q \in Req |-> IF request[q].pc \in {"pass", "429"} THEN request[q].pc ELSE "none"],
  Slack  <- MaxWait

\* Dropping visitors, making buckets anew and deciding requests out of order
\* cannot be told from a bucket that is kept for ever, but for the time a
\* request waited for the mutex (allow).
IsTokenBucket == Bucket!BucketSpec

\* No visitor gets more than the burst and one request per Interval, whatever
\* was dropped and in whatever order requests came through the mutex; a
\* request that waited counts as if it had come earlier (allow).
RateBounded == \A v \in Visitor : granted[v] * (Interval - MaxWait) <= Full + clock
=============================================================================
