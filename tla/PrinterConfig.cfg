\* Three registrations in two processes, two names, one reader, one interruption
\* and one I/O error.  Every registration may have returned.
SPECIFICATION FairConfigSpec
CONSTANTS
  Name = {"bar", "counter"}
  Connection = {"usb", "network", "serial", "port 0"}
  Registrable = {"network"}
  Unrecognized = {"serial"}
  Malformed = {"port 0"}
  InitialDocuments <- MCDocuments
  Process = {server, command}
  ProcessId = {1}
  server = server
  command = command
  first = first
  second = second
  third = third
  Update = {first, second, third}
  ProcessOf <- MCProcessOf
  CommandLine = {third}
  Reader = {"r"}
  MaxInterruptions = 1
  MaxFaults = 1
CHECK_DEADLOCK FALSE
INVARIANTS
  AddedIsStored
  ConfiguredIsFound
PROPERTIES
  FileStaysLoadable
  ImplementsRegistry
  RegistrationEnds
