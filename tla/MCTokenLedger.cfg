\* Two requests of one user spend tokens and pay one order.
CONSTANTS
  u1 = u1  s1 = s1  s2 = s2  o1 = o1  t1 = t1
  User <- OneUser
  Session <- TwoSessions
  Order <- OneOrder
  Turn <- OneTurn
  Award <- Awards
  MaxAmount = 2
  MaxIncrease = 3
  MaxAborts = 1
  NoUser = NoUser  NoOrder = NoOrder  NoTurn = NoTurn  NoSnap = NoSnap
SPECIFICATION FairSpec
INVARIANTS Inv OverdraftBounded EnsuredIsCharged IncreaseAccounted
PROPERTIES RequestEnds
