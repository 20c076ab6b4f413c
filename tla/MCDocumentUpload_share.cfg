\* Two users upload, merge and delete the same content.
CONSTANTS
  u1 = u1  u2 = u2  s1 = s1  s2 = s2
  User = {u1, u2}
  Session = {s1, s2}
  Admin = {}
  TotalChunks = 2
  MaxRows = 3
  MaxFaults = 1
  NoUser = NoUser  NoSnap = NoSnap  Committed = Committed
SPECIFICATION Spec
SYMMETRY SessionsAndUsers
INVARIANTS Inv CompletedHasFile ChunkRowHasObject
PROPERTIES CompletedStays
