\* Two uploads of one or two bytes compete for two bytes.
SPECIFICATION Spec
CONSTANTS
  Room = {r1}
  Media = {m1, m2}
  Key = {k1, k2}
  Req = {q1}
  Worker = {w1}
  Thumbnailer = {}
  NoRoom = NoRoom
  NoKey = NoKey
  NoMedia = NoMedia
  RoomExpiry <- ExpiryOne
  MaxFiles = 2
  MaxBytes = 2
  MaxSize = 2
  Threshold = 2
  PresignTTL = 1
  UploadLifetime = 1
  MaxAttempts = 1
  ClaimTimeout = 1
  MaxTime = 1
  Prompt = FALSE
CONSTRAINT OneTransfer Unheard
SYMMETRY Interchangeable
INVARIANTS CountersExact WithinLimits
PROPERTIES KeepsPromise
