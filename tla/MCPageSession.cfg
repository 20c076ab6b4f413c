\* Two users in turn at one page, each with a token that may be replaced; a
\* server that answers with a plain 401, as this one does, a bare 403 or the codes
\* of the frontend's .env.
CONSTANTS
  u1 = u1  u2 = u2  s1 = s1  s2 = s2
  User = {u1, u2}
  MaxSerial = 2
  NoToken = NoToken
  MaxClosing = 2
  Slot = {s1, s2}
  MaxActs = 3
  Codes = {"expired", "logout", "modal", "forbidden", "unauthorized"}
  NoUser = NoUser
SPECIFICATION FairSpec
CHECK_DEADLOCK FALSE
INVARIANTS SocketServed SessionServed
PROPERTIES LinkSpec PageLives
