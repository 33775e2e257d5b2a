\* Two event streams over two sessions; or three devices on two ports, two names,
\* one command and any registrations by the page.  The system idles when nobody
\* calls it.
CONSTANTS
  Streams = {s1, s2}
  Handlers = {h1}
  Files = {default}
  DefaultFile = default
  MonitoredFile = default
  MaxGeneration = 4
  MaxRegistrations = 1
  Device <- MCDevice
  IdentityOf <- MCIdentityOf
  RoutesOf <- MCRoutesOf
  Restricted = {"d3"}
  Ports = {1, 2}
  Aliases <- MCAliases
  Commands <- MCCommands
  MaxMoves = 3
SPECIFICATION InventorySpec
SYMMETRY StreamSymmetry
INVARIANTS OneCollection MatchersAgree
PROPERTIES ViewsNeverGoBack ImplementsFeed JobsReachChosenDevice
CHECK_DEADLOCK FALSE
