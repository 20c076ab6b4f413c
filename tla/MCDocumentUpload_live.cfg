\* A user and an admin with a fair server.
CONSTANTS
  u1 = u1  u2 = u2  s1 = s1  s2 = s2
  User = {u1, u2}
  Session = {s1, s2}
  Admin = {u1}
  TotalChunks = 1
  MaxRows = 2
  MaxFaults = 1
  NoUser = NoUser  NoSnap = NoSnap  Committed = Committed
SPECIFICATION FairSpec
PROPERTY RequestEnds
