------------------------- MODULE RateLimiter_proofs -------------------------
(***************************************************************************)
(* The limiter is a token bucket for any number of visitors, requests at   *)
(* once, rate, burst and time: what it forgets is never missed.            *)
(***************************************************************************)
EXTENDS RateLimiter, TLAPS

\* A request that waits was timed at most MaxWait ago, so a bucket's last time
\* is never far ahead of the time its visitor was last seen.
LimiterInv ==
  /\ LimiterTypeOK
  /\ \A v \in Visitor : /\ last[v] <= clock /\ lastSeen[v] <= clock
                        /\ last[v] <= lastSeen[v] + MaxWait
  /\ \A q \in Req : request[q].pc = "locking" =>
       /\ request[q].visitor \in Visitor
       /\ request[q].at <= clock /\ clock <= request[q].at + MaxWait

\* A visitor let through has paid Interval, less what the waiting was worth.
Spent(v) == granted[v] * (Interval - MaxWait) + Level(v) <= Full + clock

\* One request at least fits into the bucket.
LEMMA FullFits == Full \in Nat /\ Full >= Interval
<1>1. PICK more \in Nat : Burst = more + 1
  <2>1. Burst - 1 \in Nat /\ Burst = (Burst - 1) + 1
    BY LimiterConstants
  <2> QED BY <2>1
<1>2. more * Interval \in Nat /\ Full = more * Interval + Interval
  BY <1>1, LimiterConstants DEF Full
<1> QED BY <1>2, LimiterConstants

LEMMA Paid == \A g \in Nat, c \in Int : (g + 1) * c = g * c + c /\ g * c \in Int
  OBVIOUS

LEMMA InvInit == LimiterInit => LimiterInv
<1> SUFFICES ASSUME LimiterInit PROVE LimiterInv
  OBVIOUS
<1>1. LimiterTypeOK
  BY FullFits, LimiterConstants DEF LimiterInit, LimiterTypeOK, Idle
<1> QED BY <1>1, LimiterConstants DEF LimiterInit, LimiterInv, Idle

\* What Decide does to every bucket, in plain terms.
LEMMA DecideMoves ==
  ASSUME LimiterInv, NEW q \in Req, Decide(q), NEW v \in Visitor, request[q].visitor = v
  PROVE  /\ clock' = clock
         /\ \A x \in Visitor \ {v} : Level(x)' = Level(x) /\ granted'[x] = granted[x]
         /\ \/ /\ request' = [request EXCEPT ![q] = [Idle EXCEPT !.pc = "pass"]]
               /\ granted'[v] = granted[v] + 1
               /\ Level(v) >= Interval
               /\ Level(v)' >= Level(v) - Interval
               /\ Level(v)' <= Level(v) - Interval + MaxWait
               /\ Level(v)' <= Full
            \/ /\ request' = [request EXCEPT ![q] = [Idle EXCEPT !.pc = "429"]]
               /\ granted'[v] = granted[v]
               /\ Level(v) < Interval + MaxWait
               /\ Level(v)' = Level(v)
         /\ LimiterInv'
<1> SUFFICES ASSUME NEW t, t = request[q].at
             PROVE  /\ clock' = clock
                    /\ \A x \in Visitor \ {v} : Level(x)' = Level(x) /\ granted'[x] = granted[x]
                    /\ \/ /\ request' = [request EXCEPT ![q] = [Idle EXCEPT !.pc = "pass"]]
                          /\ granted'[v] = granted[v] + 1
                          /\ Level(v) >= Interval
                          /\ Level(v)' >= Level(v) - Interval
                          /\ Level(v)' <= Level(v) - Interval + MaxWait
                          /\ Level(v)' <= Full
                       \/ /\ request' = [request EXCEPT ![q] = [Idle EXCEPT !.pc = "429"]]
                          /\ granted'[v] = granted[v]
                          /\ Level(v) < Interval + MaxWait
                          /\ Level(v)' = Level(v)
                    /\ LimiterInv'
  OBVIOUS
<1> DEFINE held == IF v \in Kept(t) THEN Tokens(v, t) ELSE Full
           ok == held >= Interval
<1>0. /\ v \in Visitor /\ t \in Nat /\ t <= clock /\ clock <= t + MaxWait
      /\ clock \in Nat /\ visitors \subseteq Visitor /\ MaxWait \in Nat /\ Interval \in Nat \ {0}
      /\ TTL \in Nat /\ TTL >= Full + MaxWait /\ Full \in Nat /\ Full >= Interval
      /\ \A x \in Visitor : /\ tokens[x] \in 0..Full /\ last[x] \in Nat /\ lastSeen[x] \in Nat
                            /\ last[x] <= clock /\ lastSeen[x] <= clock
                            /\ last[x] <= lastSeen[x] + MaxWait /\ granted[x] \in Nat
  BY FullFits, LimiterConstants, IdleBucketsFull DEF LimiterInv, LimiterTypeOK, Decide
<1>1. /\ clock' = clock /\ visitors' = Kept(t) \cup {v}
      /\ lastCleanup' = IF t - lastCleanup >= TTL THEN t ELSE lastCleanup
      /\ granted' = IF ok THEN [granted EXCEPT ![v] = @ + 1] ELSE granted
      /\ request' = [request EXCEPT ![q] = [Idle EXCEPT !.pc = IF ok THEN "pass" ELSE "429"]]
  BY DEF Decide, Known
<1>2. /\ lastSeen' = [x \in Visitor |-> IF x = v THEN t ELSE IF x \in Kept(t) THEN lastSeen[x] ELSE 0]
      /\ tokens' = [x \in Visitor |-> IF x = v THEN IF ok THEN held - Interval ELSE tokens[v]
                                      ELSE IF x \in Kept(t) THEN tokens[x] ELSE Full]
      /\ last' = [x \in Visitor |-> IF x = v THEN IF ok THEN t ELSE last[v]
                                    ELSE IF x \in Kept(t) THEN last[x] ELSE 0]
  BY DEF Decide
<1>3. /\ Kept(t) \subseteq visitors
      /\ \A x \in visitors \ Kept(t) : last[x] + Full <= t
  BY <1>0 DEF Kept, Stale
<1>4. \A x \in visitors \ Kept(t) : Level(x) = Full
  <2> TAKE x \in visitors \ Kept(t)
  <2>1. tokens[x] \in 0..Full /\ last[x] \in Nat /\ last[x] + Full <= clock /\ clock \in Nat /\ Full \in Nat
    BY <1>0, <1>3
  <2>2. Tokens(x, clock) = Full
    BY <2>1 DEF Tokens
  <2> QED BY <2>2 DEF Level
<1>5. held \in 0..Full /\ held <= Level(v) /\ Level(v) <= held + MaxWait
  <2>1. CASE v \in Kept(t)
    BY <1>0, <1>3, <2>1 DEF Level, Tokens
  <2>2. CASE v \notin Kept(t)
    <3>1. Level(v) = Full
      BY <1>4, <2>2 DEF Level
    <3> QED BY <1>0, <2>2, <3>1
  <2> QED BY <2>1, <2>2
<1>6. \A x \in Visitor \ {v} : Level(x)' = Level(x) /\ granted'[x] = granted[x]
  <2> SUFFICES ASSUME NEW x \in Visitor \ {v}
               PROVE  Level(x)' = Level(x) /\ granted'[x] = granted[x]
    OBVIOUS
  <2>1. granted'[x] = granted[x]
    BY <1>1 DEF LimiterInv, LimiterTypeOK
  <2>2. CASE x \in Kept(t)
    BY <1>1, <1>2, <1>3, <2>2 DEF Level, Tokens
  <2>3. CASE x \notin Kept(t)
    BY <1>1, <1>4, <2>3 DEF Level
  <2> QED BY <2>1, <2>2, <2>3
<1>7. CASE ok
  <2>1. /\ tokens'[v] = held - Interval /\ last'[v] = t /\ v \in visitors'
        /\ granted'[v] = granted[v] + 1
    BY <1>0, <1>1, <1>2, <1>7 DEF LimiterInv, LimiterTypeOK
  <2>2. Level(v)' = IF held - Interval + (clock - t) < Full THEN held - Interval + (clock - t) ELSE Full
    <3>1. held \in Int
      BY <1>5
    <3> HIDE DEF held
    <3>2. Level(v)' = Tokens(v, clock)'
      BY <2>1 DEF Level
    <3> QED BY <1>0, <1>1, <2>1, <3>1, <3>2 DEF Tokens
  <2>3. Level(v)' >= Level(v) - Interval
    <3>1. CASE v \in Kept(t) /\ t >= last[v]
      <4>1. Level(v) <= held + (clock - t)
        BY <1>0, <1>3, <3>1 DEF Level, Tokens
      <4>2. Level(v) \in 0..Full
        BY <1>0, <1>3, <3>1 DEF Level, Tokens
      <4> HIDE DEF held
      <4> QED BY <1>0, <1>5, <2>2, <4>1, <4>2
    <3>2. CASE v \in Kept(t) /\ t < last[v]
      <4>1. Level(v) <= held + (clock - t)
        BY <1>0, <1>3, <3>2 DEF Level, Tokens
      <4>2. Level(v) \in 0..Full
        BY <1>0, <1>3, <3>2 DEF Level, Tokens
      <4> HIDE DEF held
      <4> QED BY <1>0, <1>5, <2>2, <4>1, <4>2
    <3>3. CASE v \notin Kept(t)
      <4>1. Level(v) = Full /\ held = Full
        BY <1>4, <3>3 DEF Level
      <4> HIDE DEF held
      <4> QED BY <1>0, <2>2, <4>1
    <3> QED BY <1>0, <3>1, <3>2, <3>3
  <2>4. /\ Level(v)' <= Level(v) - Interval + MaxWait /\ Level(v)' <= Full
        /\ Level(v) >= Interval
    <3>1. Level(v) \in 0..Full
      BY <1>0 DEF Level, Tokens
    <3> HIDE DEF held
    <3> QED BY <1>0, <1>5, <1>7, <2>2, <3>1
  <2>5. LimiterInv'
    <3>1. tokens'[v] \in 0..Full
      <4> HIDE DEF held
      <4> QED BY <1>0, <1>5, <1>7, <2>1
    <3>2. LimiterTypeOK'
      <4>1. tokens' \in [Visitor -> 0..Full]
        BY <1>0, <1>2, <3>1, <2>1
      <4>2. last' \in [Visitor -> Nat] /\ lastSeen' \in [Visitor -> Nat]
        BY <1>0, <1>2
      <4>3. visitors' \subseteq Visitor /\ lastCleanup' \in Int /\ granted' \in [Visitor -> Nat] /\ clock' \in Nat
        BY <1>0, <1>1, <1>3 DEF LimiterInv, LimiterTypeOK
      <4>4. request' \in [Req -> [pc : {"idle", "locking", "pass", "429"},
                                  visitor : Visitor \cup {NoVisitor}, at : Nat]]
        BY <1>1 DEF LimiterInv, LimiterTypeOK, Idle
      <4> QED BY <4>1, <4>2, <4>3, <4>4 DEF LimiterTypeOK
    <3>3. \A x \in Visitor : /\ last'[x] <= clock' /\ lastSeen'[x] <= clock'
                             /\ last'[x] <= lastSeen'[x] + MaxWait
      BY <1>0, <1>1, <1>2, <1>7
    <3>4. \A r \in Req : request'[r].pc = "locking" =>
            /\ request'[r].visitor \in Visitor
            /\ request'[r].at <= clock' /\ clock' <= request'[r].at + MaxWait
      BY <1>1 DEF LimiterInv, LimiterTypeOK, Idle
    <3> QED BY <3>2, <3>3, <3>4 DEF LimiterInv
  <2> QED BY <1>0, <1>1, <1>6, <1>7, <2>1, <2>3, <2>4, <2>5
<1>8. CASE ~ok
  <2>1. v \in Kept(t)
    BY <1>0, <1>8
  <2>2. /\ tokens'[v] = tokens[v] /\ last'[v] = last[v] /\ v \in visitors /\ v \in visitors'
        /\ granted' = granted
    BY <1>0, <1>1, <1>2, <1>3, <1>8, <2>1
  <2>3. Level(v)' = Level(v)
    BY <1>1, <2>2 DEF Level, Tokens
  <2>4. Level(v) < Interval + MaxWait
    <3>1. Level(v) \in 0..Full
      BY <1>0 DEF Level, Tokens
    <3> HIDE DEF held
    <3> QED BY <1>0, <1>5, <1>8, <3>1
  <2>5. LimiterInv'
    <3>2. LimiterTypeOK'
      <4>1. tokens' \in [Visitor -> 0..Full]
        BY <1>0, <1>2, <2>2
      <4>2. last' \in [Visitor -> Nat] /\ lastSeen' \in [Visitor -> Nat]
        BY <1>0, <1>2
      <4>3. visitors' \subseteq Visitor /\ lastCleanup' \in Int /\ granted' \in [Visitor -> Nat] /\ clock' \in Nat
        BY <1>0, <1>1, <1>3, <2>2 DEF LimiterInv, LimiterTypeOK
      <4>4. request' \in [Req -> [pc : {"idle", "locking", "pass", "429"},
                                  visitor : Visitor \cup {NoVisitor}, at : Nat]]
        BY <1>1 DEF LimiterInv, LimiterTypeOK, Idle
      <4> QED BY <4>1, <4>2, <4>3, <4>4 DEF LimiterTypeOK
    <3>3. \A x \in Visitor : /\ last'[x] <= clock' /\ lastSeen'[x] <= clock'
                             /\ last'[x] <= lastSeen'[x] + MaxWait
      BY <1>0, <1>1, <1>2, <1>8
    <3>4. \A r \in Req : request'[r].pc = "locking" =>
            /\ request'[r].visitor \in Visitor
            /\ request'[r].at <= clock' /\ clock' <= request'[r].at + MaxWait
      BY <1>1 DEF LimiterInv, LimiterTypeOK, Idle
    <3> QED BY <3>2, <3>3, <3>4 DEF LimiterInv
  <2> QED BY <1>0, <1>1, <1>6, <1>8, <2>2, <2>3, <2>4, <2>5
<1> QED BY <1>7, <1>8
LEMMA TickMoves ==
  ASSUME LimiterInv, Tick
  PROVE  /\ clock' = clock + 1 /\ clock \in Nat
         /\ \A v \in Visitor : /\ Level(v) \in 0..Full
                               /\ Level(v)' = IF Level(v) < Full THEN Level(v) + 1 ELSE Level(v)
         /\ LimiterInv'
<1>1. clock' = clock + 1 /\ clock \in Nat /\ UNCHANGED <<visitors, tokens, last, lastSeen, lastCleanup, request, granted>>
  BY DEF Tick, limiter, LimiterInv, LimiterTypeOK
<1>2. \A v \in Visitor : /\ Level(v) \in 0..Full
                         /\ Level(v)' = IF Level(v) < Full THEN Level(v) + 1 ELSE Level(v)
  <2> TAKE v \in Visitor
  <2>1. tokens[v] \in 0..Full /\ last[v] \in Nat /\ last[v] <= clock /\ Full \in Nat
    BY FullFits DEF LimiterInv, LimiterTypeOK
  <2> QED BY <1>1, <2>1 DEF Level, Tokens
<1>3. LimiterTypeOK'
  BY <1>1 DEF LimiterInv, LimiterTypeOK
<1>4. \A v \in Visitor : /\ last'[v] <= clock' /\ lastSeen'[v] <= clock'
                         /\ last'[v] <= lastSeen'[v] + MaxWait
  BY <1>1 DEF LimiterInv, LimiterTypeOK
<1>5. \A q \in Req : request'[q].pc = "locking" =>
        /\ request'[q].visitor \in Visitor
        /\ request'[q].at <= clock' /\ clock' <= request'[q].at + MaxWait
  <2> SUFFICES ASSUME NEW q \in Req, request[q].pc = "locking"
               PROVE  /\ request[q].visitor \in Visitor
                      /\ request[q].at <= clock + 1 /\ clock + 1 <= request[q].at + MaxWait
    BY <1>1
  <2>1. request[q].at \in Nat /\ request[q].at <= clock /\ clock < request[q].at + MaxWait
        /\ request[q].visitor \in Visitor
    BY DEF LimiterInv, LimiterTypeOK, Tick
  <2> QED BY <1>1, <2>1, LimiterConstants
<1> QED BY <1>1, <1>2, <1>3, <1>4, <1>5 DEF LimiterInv

\* Requests that come and go leave the buckets alone.
LEMMA OthersMove ==
  ASSUME LimiterInv, NEW q \in Req, Respond(q) \/ \E v \in Visitor : Arrive(q, v)
  PROVE  LimiterInv' /\ UNCHANGED <<clock, limiter, granted>>
<1>1. UNCHANGED <<clock, limiter, granted>>
  BY DEF Respond, Arrive
<1>2. UNCHANGED <<clock, visitors, tokens, last, lastSeen, lastCleanup, granted>>
  BY <1>1 DEF limiter
<1>3. CASE Respond(q)
  BY <1>1, <1>2, <1>3 DEF Respond, LimiterInv, LimiterTypeOK, Idle
<1>4. ASSUME NEW v \in Visitor, Arrive(q, v)
      PROVE  LimiterInv'
  BY <1>2, <1>4, LimiterConstants DEF Arrive, LimiterInv, LimiterTypeOK
<1> QED BY <1>1, <1>3, <1>4

LEMMA InvStep == LimiterInv /\ [LimiterNext]_lvars => LimiterInv'
<1> SUFFICES ASSUME LimiterInv, [LimiterNext]_lvars PROVE LimiterInv'
  OBVIOUS
<1>1. CASE Tick
  BY <1>1, TickMoves
<1>2. ASSUME NEW q \in Req, Decide(q)
      PROVE  LimiterInv'
  <2>1. request[q].visitor \in Visitor
    BY <1>2 DEF Decide, LimiterInv
  <2> QED BY <1>2, <2>1, DecideMoves
<1>3. ASSUME NEW q \in Req, Respond(q) \/ \E v \in Visitor : Arrive(q, v)
      PROVE  LimiterInv'
  BY <1>3, OthersMove
<1>4. CASE UNCHANGED lvars
  BY <1>4 DEF lvars, limiter, LimiterInv, LimiterTypeOK
<1> QED BY <1>1, <1>2, <1>3, <1>4 DEF LimiterNext

\* The limiter's state is of its type, and its times are in order (allow).
THEOREM LimiterInvariant == LimiterSpec => []LimiterInv
BY InvInit, InvStep, PTL DEF LimiterSpec

LEMMA TypeFromInv == LimiterInv => LimiterTypeOK
BY DEF LimiterInv

\* No bucket ever holds more than the burst, and only admitted visitors are
\* counted (rateLimiter, allow).
THEOREM LimiterTyped == LimiterSpec => []LimiterTypeOK
BY LimiterInvariant, TypeFromInv, PTL

-----------------------------------------------------------------------------
SpentInv == \A v \in Visitor : Spent(v)

LEMMA SpentInit == LimiterInit => SpentInv
<1> SUFFICES ASSUME LimiterInit, NEW v \in Visitor PROVE Spent(v)
  BY DEF SpentInv
<1>1. granted[v] = 0 /\ Level(v) = Full /\ clock = 0
  BY DEF LimiterInit, Level
<1>2. Interval - MaxWait \in Int
  BY LimiterConstants
<1> QED BY <1>1, <1>2, FullFits DEF Spent

LEMMA SpentStep == LimiterInv /\ SpentInv /\ [LimiterNext]_lvars => SpentInv'
<1> SUFFICES ASSUME LimiterInv, SpentInv, [LimiterNext]_lvars, NEW v \in Visitor PROVE Spent(v)'
  BY DEF SpentInv
<1> DEFINE c == Interval - MaxWait
<1>0. /\ c \in Int /\ MaxWait \in Nat /\ Interval \in Nat /\ granted[v] \in Nat /\ clock \in Nat
      /\ granted[v] * c \in Int /\ (granted[v] + 1) * c = granted[v] * c + c
      /\ granted[v] * c + Level(v) <= Full + clock /\ Level(v) \in 0..Full /\ Full \in Nat
  <2>1. c \in Int /\ MaxWait \in Nat /\ Interval \in Nat
    BY LimiterConstants
  <2>2. granted[v] \in Nat /\ clock \in Nat /\ tokens[v] \in 0..Full /\ last[v] \in Nat /\ last[v] <= clock
    BY DEF LimiterInv, LimiterTypeOK
  <2>3. Level(v) \in 0..Full /\ Full \in Nat
    BY <2>2, FullFits DEF Level, Tokens
  <2>4. granted[v] * c + Level(v) <= Full + clock
    BY DEF SpentInv, Spent
  <2>5. granted[v] * c \in Int /\ (granted[v] + 1) * c = granted[v] * c + c
    <3> HIDE DEF c
    <3> QED BY <2>1, <2>2, Paid
  <2> HIDE DEF c
  <2> QED BY <2>1, <2>2, <2>3, <2>4, <2>5
<1>1. CASE Tick
  <2>1. /\ clock' = clock + 1 /\ granted' = granted
        /\ Level(v)' = IF Level(v) < Full THEN Level(v) + 1 ELSE Level(v)
    BY <1>1, TickMoves DEF Tick
  <2>2. granted'[v] * c + Level(v)' <= Full + clock'
    <3> HIDE DEF c
    <3> QED BY <1>0, <2>1
  <2> QED BY <2>2 DEF Spent
<1>2. ASSUME NEW q \in Req, Decide(q)
      PROVE  Spent(v)'
  <2>1. PICK u \in Visitor : request[q].visitor = u
    BY <1>2 DEF Decide, LimiterInv
  <2>2. /\ clock' = clock
        /\ \A x \in Visitor \ {u} : Level(x)' = Level(x) /\ granted'[x] = granted[x]
        /\ \/ granted'[u] = granted[u] + 1 /\ Level(u)' <= Level(u) - Interval + MaxWait
              /\ Level(u)' >= Level(u) - Interval /\ Level(u)' <= Full
           \/ granted'[u] = granted[u] /\ Level(u)' = Level(u)
        /\ LimiterInv'
    BY <1>2, <2>1, DecideMoves
  <2>3. CASE granted'[v] = granted[v] /\ Level(v)' = Level(v)
    BY <1>0, <2>2, <2>3 DEF Spent
  <2>4. CASE granted'[v] = granted[v] + 1 /\ Level(v)' <= Level(v) - Interval + MaxWait
    <3>1. Level(v)' \in Int
      <4>1. tokens'[v] \in 0..Full /\ last'[v] \in Nat /\ clock' \in Nat
        BY <2>2 DEF LimiterInv, LimiterTypeOK
      <4> QED BY <1>0, <4>1 DEF Level, Tokens
    <3>2. c = Interval - MaxWait
      OBVIOUS
    <3>3. granted'[v] * c + Level(v)' <= Full + clock'
      <4> HIDE DEF c
      <4>1. granted'[v] * c = granted[v] * c + c
        BY <1>0, <2>4
      <4> QED BY <1>0, <2>2, <2>4, <3>1, <3>2, <4>1
    <3> QED BY <3>3 DEF Spent
  <2> QED BY <2>2, <2>3, <2>4
<1>3. ASSUME NEW q \in Req, Respond(q) \/ \E x \in Visitor : Arrive(q, x)
      PROVE  Spent(v)'
  <2>1. UNCHANGED <<clock, limiter, granted>>
    BY <1>3, OthersMove
  <2> QED BY <1>0, <2>1 DEF limiter, Spent, Level, Tokens
<1>4. CASE UNCHANGED lvars
  BY <1>0, <1>4 DEF lvars, limiter, Spent, Level, Tokens
<1> QED BY <1>1, <1>2, <1>3, <1>4 DEF LimiterNext

LEMMA BoundFromSpent == LimiterInv /\ SpentInv => RateBounded
<1> SUFFICES ASSUME LimiterInv, SpentInv, NEW v \in Visitor
             PROVE  granted[v] * (Interval - MaxWait) <= Full + clock
  BY DEF RateBounded
<1>1. granted[v] \in Nat /\ clock \in Nat /\ tokens[v] \in 0..Full /\ last[v] \in Nat /\ last[v] <= clock
  BY DEF LimiterInv, LimiterTypeOK
<1>2. Level(v) \in 0..Full /\ Full \in Nat
  BY <1>1, FullFits DEF Level, Tokens
<1>3. granted[v] * (Interval - MaxWait) \in Int
  BY <1>1, LimiterConstants, Paid
<1> DEFINE paid == granted[v] * (Interval - MaxWait)
<1>4. paid + Level(v) <= Full + clock
  BY DEF SpentInv, Spent
<1> HIDE DEF paid
<1>5. paid <= Full + clock
  <2>1. paid \in Int
    BY <1>3 DEF paid
  <2> QED BY <1>1, <1>2, <1>4, <2>1
<1> QED BY <1>5 DEF paid

\* No visitor gets more than the burst and one request per Interval, for any
\* number of visitors and whatever is dropped (allow).
THEOREM LimiterBoundsRate == LimiterSpec => []RateBounded
<1>1. LimiterSpec => []SpentInv
  BY SpentInit, SpentStep, LimiterInvariant, PTL DEF LimiterSpec
<1> QED BY <1>1, LimiterInvariant, BoundFromSpent, PTL

-----------------------------------------------------------------------------
LEMMA BucketInitially == LimiterInit => Bucket!BucketInit
BY LimiterConstants DEF LimiterInit, Bucket!BucketInit, Bucket!Full, Level, Full, Idle

LEMMA BucketStep == LimiterInv /\ [LimiterNext]_lvars => [Bucket!BucketNext]_(Bucket!bucketVars)
<1> SUFFICES ASSUME LimiterInv, [LimiterNext]_lvars PROVE [Bucket!BucketNext]_(Bucket!bucketVars)
  OBVIOUS
<1> DEFINE level == [v \in Visitor |-> Level(v)]
           answer == [q \in Req |-> IF request[q].pc \in {"pass", "429"} THEN request[q].pc ELSE "none"]
<1>0. Bucket!Full = Full
  BY DEF Bucket!Full, Full
<1>1. CASE Tick
  <2>1. /\ clock' = clock + 1 /\ request' = request
        /\ \A v \in Visitor : Level(v)' = IF Level(v) < Full THEN Level(v) + 1 ELSE Level(v)
    BY <1>1, TickMoves DEF Tick
  <2>2. level' = [v \in Visitor |-> IF level[v] < Full THEN level[v] + 1 ELSE level[v]]
    BY <2>1
  <2>3. answer' = answer
    BY <2>1
  <2>4. Bucket!Refill
    BY <1>0, <2>1, <2>2, <2>3 DEF Bucket!Refill
  <2> QED BY <2>4 DEF Bucket!BucketNext
<1>2. ASSUME NEW q \in Req, Decide(q)
      PROVE  Bucket!BucketNext
  <2>1. PICK v \in Visitor : request[q].visitor = v
    BY <1>2 DEF Decide, LimiterInv
  <2>2. /\ clock' = clock
        /\ \A x \in Visitor \ {v} : Level(x)' = Level(x)
        /\ \/ /\ request' = [request EXCEPT ![q] = [Idle EXCEPT !.pc = "pass"]]
              /\ Level(v) >= Interval /\ Level(v)' >= Level(v) - Interval
              /\ Level(v)' <= Level(v) - Interval + MaxWait /\ Level(v)' <= Full
           \/ /\ request' = [request EXCEPT ![q] = [Idle EXCEPT !.pc = "429"]]
              /\ Level(v) < Interval + MaxWait /\ Level(v)' = Level(v)
        /\ LimiterInv'
    BY <1>2, <2>1, DecideMoves
  <2>3. answer[q] = "none" /\ request \in [Req -> [pc : {"idle", "locking", "pass", "429"},
                                         visitor : Visitor \cup {NoVisitor}, at : Nat]]
    BY <1>2 DEF Decide, LimiterInv, LimiterTypeOK
  <2>4. CASE request' = [request EXCEPT ![q] = [Idle EXCEPT !.pc = "pass"]]
    <3>1. answer' = [answer EXCEPT ![q] = "pass"]
      BY <2>3, <2>4 DEF Idle
    <3>2. CASE Level(v) < Interval + MaxWait /\ Level(v)' = Level(v) /\ request' = [request EXCEPT ![q] = [Idle EXCEPT !.pc = "429"]]
      BY <2>3, <2>4, <3>2 DEF Idle
    <3>3. CASE /\ Level(v) >= Interval /\ Level(v)' >= Level(v) - Interval
               /\ Level(v)' <= Level(v) - Interval + MaxWait /\ Level(v)' <= Full
      <4>1. /\ tokens[v] \in 0..Full /\ last[v] \in Nat /\ clock \in Nat /\ tokens'[v] \in 0..Full
            /\ last'[v] \in Nat /\ clock' \in Nat /\ Full \in Nat
        BY <2>2, FullFits DEF LimiterInv, LimiterTypeOK
      <4>2. Level(v) \in Int /\ Level(v)' \in Int
        BY <4>1 DEF Level, Tokens
      <4>3. Level(v)' \in Level(v) - Interval .. Level(v) - Interval + MaxWait
        BY <3>3, <4>2, LimiterConstants
      <4>4. level' = [level EXCEPT ![v] = Level(v)']
        BY <2>2
      <4>5. level[v] = Level(v)
        OBVIOUS
      <4>6. \E left \in level[v] - Interval .. level[v] - Interval + MaxWait :
              left <= Full /\ level' = [level EXCEPT ![v] = left]
        BY <3>3, <4>3, <4>4, <4>5
      <4>7. Bucket!Admit(q, v)
        BY <1>0, <2>2, <2>3, <3>1, <3>3, <4>5, <4>6 DEF Bucket!Admit
      <4> QED BY <4>7 DEF Bucket!BucketNext
    <3> QED BY <2>2, <3>2, <3>3
  <2>5. CASE request' = [request EXCEPT ![q] = [Idle EXCEPT !.pc = "429"]]
    <3>1. answer' = [answer EXCEPT ![q] = "429"]
      BY <2>3, <2>5 DEF Idle
    <3>2. Level(v) < Interval + MaxWait /\ Level(v)' = Level(v)
      BY <2>2, <2>3, <2>5 DEF Idle
    <3>3. level' = level
      BY <2>2, <3>2
    <3>4. Bucket!Refuse(q, v)
      BY <1>0, <2>2, <2>3, <3>1, <3>2, <3>3 DEF Bucket!Refuse
    <3> QED BY <3>4 DEF Bucket!BucketNext
  <2> QED BY <2>2, <2>4, <2>5
<1>3. ASSUME NEW q \in Req, Respond(q) \/ \E v \in Visitor : Arrive(q, v)
      PROVE  [Bucket!BucketNext]_(Bucket!bucketVars)
  <2>1. clock' = clock /\ \A v \in Visitor : Level(v)' = Level(v)
    BY <1>3, OthersMove DEF limiter, Level, Tokens
  <2>2. level' = level
    BY <2>1
  <2>0. request \in [Req -> [pc : {"idle", "locking", "pass", "429"},
                               visitor : Visitor \cup {NoVisitor}, at : Nat]]
    BY DEF LimiterInv, LimiterTypeOK
  <2>3. CASE Respond(q)
    <3>1. answer[q] # "none" /\ answer' = [answer EXCEPT ![q] = "none"]
      BY <2>0, <2>3 DEF Respond, Idle
    <3>2. Bucket!Forget(q)
      BY <2>1, <2>2, <3>1 DEF Bucket!Forget
    <3> QED BY <3>2 DEF Bucket!BucketNext
  <2>4. CASE \E v \in Visitor : Arrive(q, v)
    <3>1. answer' = answer
      BY <2>0, <2>4 DEF Arrive
    <3> QED BY <2>1, <2>2, <3>1 DEF Bucket!bucketVars
  <2> QED BY <1>3, <2>3, <2>4
<1>4. CASE UNCHANGED lvars
  BY <1>4 DEF lvars, limiter, Level, Tokens, Bucket!bucketVars
<1> QED BY <1>1, <1>2, <1>3, <1>4 DEF LimiterNext

\* A limiter that forgets its visitors is, to every visitor, a bucket that is
\* kept for ever (allow).
THEOREM LimiterIsBucket == LimiterSpec => IsTokenBucket
BY BucketInitially, BucketStep, LimiterInvariant, PTL DEF LimiterSpec, IsTokenBucket, Bucket!BucketSpec
=============================================================================
