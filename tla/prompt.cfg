\* Nothing outlasts a tick; two copies of each worker.
SPECIFICATION Spec
CONSTANTS
  Room = {r1}
  Media = {m1}
  Key = {k1}
  Req = {q1}
  Worker = {w1, w2}
  Thumbnailer = {t1, t2}
  NoRoom = NoRoom
  NoKey = NoKey
  NoMedia = NoMedia
  RoomExpiry <- ExpiryThree
  MaxFiles = 1
  MaxBytes = 2
  MaxSize = 2
  Threshold = 1
  PresignTTL = 2
  UploadLifetime = 2
  MaxAttempts = 1
  ClaimTimeout = 0
  MaxTime = 4
  Prompt = TRUE
SYMMETRY Interchangeable
INVARIANTS LeaseChain ExpiredRoomClean ThumbJobsDisjoint ThumbStored ThumbColumnsAgree
