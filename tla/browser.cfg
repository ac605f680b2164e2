\* Two sessions, two tabs that load, race, fail and close.
SPECIFICATION BrowserSpec
CONSTANTS
  Session = {s1, s2}
  Tab = {t1, t2}
  Call = {c1, c2}
  NoGrant = NoGrant
  SessionTTL = 2
  AccessTTL = 1
  MaxTime = 2
CONSTRAINT TwoCalls FourTokens
SYMMETRY Alike
INVARIANTS BrowserTypeOK SpentOnce WaitersServed NoOrphan
PROPERTIES EndedIsFrozen LosesOnlyDead
