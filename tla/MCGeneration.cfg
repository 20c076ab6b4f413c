\* Two tabs of one user over one generation, with at most one failure.
CONSTANTS
  u1 = u1  c1 = c1  c2 = c2  g1 = g1
  User <- OneUser
  Conn <- TwoConns
  Gen <- OneGen
  UserOf <- OneUserOf
  Answer = {"plain", "cited"}
  MaxToolEvents = 1
  MaxFaults = 1
  NoUser = NoUser  NoGen = NoGen  Absent = Absent  NoTurn = NoTurn
SPECIFICATION FairSpec
INVARIANTS Inv RecordedIsSent CleanStopHonoured
PROPERTIES FinishedNeverReopens StreamSettles PointerReleased
