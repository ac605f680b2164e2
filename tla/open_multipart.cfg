\* Expected violation.
SPECIFICATION Spec
CONSTANTS
  Room = {r1}
  Media = {m1}
  Key = {k1}
  Req = {q1}
  Worker = {w1}
  Thumbnailer = {}
  NoRoom = NoRoom
  NoKey = NoKey
  NoMedia = NoMedia
  RoomExpiry <- ExpiryTwo
  MaxFiles = 1
  MaxBytes = 2
  MaxSize = 2
  Threshold = 1
  PresignTTL = 1
  UploadLifetime = 1
  MaxAttempts = 1
  ClaimTimeout = 1
  MaxTime = 2
  Prompt = FALSE
SYMMETRY Interchangeable
INVARIANTS GoneRoomHasNoParts
