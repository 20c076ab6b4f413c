SPECIFICATION Spec
CONSTANTS
  Letters = {"a", "b"}
  MaxItems = 3
  Cut <- CutSmall
  Queries = {1, 2}
  MaxSends = 3
  MaxFails = 1
  Rows = {"r1", "r2"}
  Values = {"a", "b"}
  MaxOpens = 2
  MaxSubmits = 2
  MaxLost = 1
  Docs = {"d1", "d2"}
  Names = {"n"}
  NameOf <- SameName
  Pages = {1, 2}
  MaxRowOpens = 2
  MaxErrors = 2
  BrowserTabs = {"t1", "t2"}
  Override = "dark"
  MaxTaps = 5
  MaxEvents = 6
  Keywords = {"a", "b"}
  ResultsOf <- Finds
  MaxKeys = 5
  MaxEdits = 2
  Endpoints = {"e1", "e2"}
  KeyChoices = {"k"}
  MaxProfileActs = 3
  MaxProfileFails = 1
  MaxOrders = 2
  MaxShopActs = 3
  MaxShopFails = 1
  MaxShopLists = 2
  RequestIds = {"i1", "i2"}
  Causes = {"x", "y"}
  MaxRequests = 3
  MaxOnScreen = 2
  MaxBuilds = 2
  MaxChecks = 4
  OwnTags = {"a", "b"}
  MaxTagActs = 3
  MaxTagCalls = 2
  UserTabs = {"t1", "t2"}
  SessionIds = {"s1", "s2", "s3"}
  MaxConvActs = 4
  ExtractEvery = 2
  Contents = {"c", "d"}
  MaxMemories = 2
  MaxTurns = 3
  MaxMisses = 1
  DialogTags = {"a", "b"}
  DialogFiles = {"small", "large"}
  SizeOf <- Sizes
  LimitOf <- TagLimits
  MaxDialogActs = 6
  MaxOpenings = 2
INVARIANTS
  TypeOK
  CitationsLead
  CluesFound
  ViewsAgree
  ErrorsTold
  ScreenFollows
  FormsKept
  RecordsAgree
CHECK_DEADLOCK FALSE
