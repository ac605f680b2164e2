\* Two visitors, two requests at once, a cleanup that comes round twice.
SPECIFICATION LimiterSpec
CONSTANTS
  Visitor = {v1, v2}
  NoVisitor = NoVisitor
  Req = {q1, q2}
  Interval = 2
  Burst = 2
  TTL = 5
  MaxWait = 1
  MaxTime = 7
SYMMETRY Alike
INVARIANTS LimiterTypeOK RateBounded
PROPERTIES IsTokenBucket
