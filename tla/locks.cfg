\* Three transactions about two uploads in a room.
SPECIFICATION FairLocksSpec
CONSTANTS
  Txn = {t1, t2, t3}
  Upload = {m1, m2}
  Room = {r1}
  Key = {k1}
  NoTxn = NoTxn
INVARIANTS LocksTypeOK OnlyDropsDeadlock ExpireNeverWaits
PROPERTIES TxnsEnd
