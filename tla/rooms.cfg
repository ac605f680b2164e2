\* Two people, two rooms that may take each other's code, two requests.  It stops when both rooms are used up.
SPECIFICATION RoomsSpec
CONSTANTS
  Room = {r1, r2}
  Person = {p1, p2}
  Slug = {x1, x2}
  Key = {k1}
  Secret = {a, b}
  Public = Public
  Null = Null
  Req = {q1, q2}
  MaxDays = 1
  MaxTime = 1
CHECK_DEADLOCK FALSE
SYMMETRY Alike
INVARIANTS RoomsTypeOK OneOwner OneRoomPerKey MembersAdmitted
PROPERTIES OwnersDelete
