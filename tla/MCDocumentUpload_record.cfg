\* Two first chunks of one user at once; nothing fails.
CONSTANTS
  u1 = u1  u2 = u2  s1 = s1  s2 = s2
  User = {u1}
  Session = {s1, s2}
  Admin = {}
  TotalChunks = 2
  MaxRows = 2
  MaxFaults = 0
  NoUser = NoUser  NoSnap = NoSnap  Committed = Committed
SPECIFICATION Spec
INVARIANT RecordCreated
