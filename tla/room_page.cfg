\* Three items, one to a page, two clicks at once; two files, one at a time,
\* each tried twice at most; a file of two to five parts, two to a batch.  The
\* queue stops when every file is through, the transfer when it is over.
SPECIFICATION WholePageSpec
CONSTANTS
  Items = 3
  PageSize = 1
  Clicks = 2
  MaxShown = 3
  Files = 2
  Lanes = 1
  Retries = 1
  NoTry = NoTry
  PartSize = 2
  Threshold = 2
  MaxFile = 9
  URLBatch = 2
  PartsBatch = 2
  MaxAttempts = 2
  URLTime = 1
  SessionEnd = 2
  MaxMinute = 2
INVARIANTS RoomPageTypeOK WalkComplete ShownIsTrue NothingLeftOpen PartsAgree
PROPERTIES FirstPageFresh WorkEnds
CHECK_DEADLOCK FALSE
