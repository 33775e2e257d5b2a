\* `serve --config selected`: the handlers still save to the default file.
CONSTANTS
  Streams = {s1}
  Handlers = {h1}
  Files = {default, selected}
  DefaultFile = default
  MonitoredFile = selected
  MaxGeneration = 2
  MaxRegistrations = 1
SPECIFICATION FairSpec
PROPERTIES RegistrationReachesStreams
CHECK_DEADLOCK FALSE
