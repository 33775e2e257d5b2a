CONSTANTS
  Origins = {"a", "b"}
  PopupPasses = {1, 2}
  MaxFailures = 1
  Tabs = {"t1", "t2"}
  MaxActs = 2
SPECIFICATION PopupSpec
INVARIANTS RevokedIsUnregistered
CHECK_DEADLOCK FALSE
