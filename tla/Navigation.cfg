\* The home view, an ordinary one and one for administrators; one of each kind of user.
CONSTANTS
  View = {home, list, users}
  Home = home
  AdminView = {users}
  Fixed = {}
  User = {u1, root}
  Admin = {root}
  MaxActs = 4
  NoUser = NoUser  NoTabs = NoTabs
SPECIFICATION FairSpec
CHECK_DEADLOCK FALSE
INVARIANTS PlaceAllowed
PROPERTIES ReachesLogin
