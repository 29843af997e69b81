SPECIFICATION Spec
CONSTANTS
  a = a
  b = b
  w1 = w1
  w2 = w2
  w3 = w3
  None = None
  Rooms <- TwoRooms
  Workers <- TwoWorkers
  ExpiresInUse = FALSE
SYMMETRY Symmetric
INVARIANTS TypeOK OpenRoomsListed
PROPERTIES DirectorySpec LocksFenced
CHECK_DEADLOCK FALSE
