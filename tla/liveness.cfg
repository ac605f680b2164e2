\* Under fairness of the cleanup; an upload is due before its room.
SPECIFICATION FairSpec
CONSTANTS
  Room = {r1}
  Media = {m1}
  Key = {k1}
  Req = {q1}
  Worker = {w1}
  Thumbnailer = {}
  NoRoom = NoRoom
  NoKey = NoKey
  NoMedia = NoMedia
  RoomExpiry <- ExpiryTwo
  MaxFiles = 1
  MaxBytes = 1
  MaxSize = 1
  Threshold = 0
  PresignTTL = 1
  UploadLifetime = 1
  MaxAttempts = 1
  ClaimTimeout = 1
  MaxTime = 2
  Prompt = FALSE
PROPERTIES DueRoomsGo AbandonedUploadsEnd
