\* One stream that comes and goes over two sessions.
CONSTANTS
  Streams = {s1}
  Handlers = {h1}
  Files = {default}
  DefaultFile = default
  MonitoredFile = default
  MaxGeneration = 4
  MaxRegistrations = 2
SPECIFICATION FairSpec
PROPERTIES RegistrationReachesStreams StreamsGetFreshSnapshot ProbingStops
CHECK_DEADLOCK FALSE
