\* Two requests, a server that moves once between two ports and one loss; two
\* tabs and origins, two popup passes, one failure.
CONSTANTS
  Requests = {r1, r2}
  LastPort = 2
  MaxMoves = 1
  MaxLosses = 1
  Origins = {"a", "b"}
  PopupPasses = {1, 2}
  MaxFailures = 1
  Tabs = {"t1", "t2"}
  MaxActs = 2
SPECIFICATION MCSpec
INVARIANTS PrintsAtMostOnce CalmRequestsSucceed RestingPopupTellsTruth RegistrationFollowsGrants
CHECK_DEADLOCK FALSE
