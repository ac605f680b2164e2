----------------------------- MODULE TokenBucket -----------------------------
(***************************************************************************)
(* What rate limiting promises: every visitor has a bucket of its own that *)
(* fills by one unit per unit of time, up to what Burst requests cost; a   *)
(* request costs Interval and is refused when the bucket does not cover    *)
(* it.  Nothing is forgotten and no visitor costs another one anything.    *)
(* Slack is how far a decision may be from this in favour of the visitor   *)
(* or against it.                                                          *)
(***************************************************************************)
EXTENDS Integers

CONSTANTS Visitor, Req, Interval, Burst, Slack

VARIABLES clock, level, answer

bucketVars == <<clock, level, answer>>

Full == Burst * Interval

BucketInit ==
  /\ clock = 0
  /\ level = [v \in Visitor |-> Full]
  /\ answer = [q \in Req |-> "none"]

Refill ==
  /\ clock' = clock + 1
  /\ level' = [v \in Visitor |-> IF level[v] < Full THEN level[v] + 1 ELSE level[v]]
  /\ UNCHANGED answer

Admit(q, v) ==
  /\ answer[q] = "none" /\ answer' = [answer EXCEPT ![q] = "pass"]
  /\ level[v] >= Interval
  /\ \E left \in level[v] - Interval .. level[v] - Interval + Slack :
       left <= Full /\ level' = [level EXCEPT ![v] = left]
  /\ UNCHANGED clock

Refuse(q, v) ==
  /\ answer[q] = "none" /\ answer' = [answer EXCEPT ![q] = "429"]
  /\ level[v] < Interval + Slack
  /\ UNCHANGED <<clock, level>>

Forget(q) ==
  /\ answer[q] # "none" /\ answer' = [answer EXCEPT ![q] = "none"]
  /\ UNCHANGED <<clock, level>>

BucketNext ==
  \/ Refill
  \/ \E q \in Req : Forget(q) \/ \E v \in Visitor : Admit(q, v) \/ Refuse(q, v)

BucketSpec == BucketInit /\ [][BucketNext]_bucketVars
=============================================================================
