\* A page or a command scans a machine of four-bit addresses, twice at most, with
\* one broken connection and one printer registered meanwhile; or three requests
\* for two names, one network and one USB printer and one connection that cannot
\* be printed to, payloads of two pieces.  A page may rest, a command exits, every
\* request may have been answered.
SPECIFICATION PrintersSpec
CONSTANTS
  AddressBits = 4
  AutoScanMinimumPrefix = 2
  ExplicitScanMinimumPrefix = 1
  Loopback = {15}
  MaxConcurrentProbes = 2
  UsbOutcomes <- MCUsbOutcomes
  Machines <- MCMachines
  Queries <- MCQueries
  Others <- MCOthers
  CommandMachines <- MCMachines
  CommandArguments <- MCArguments
  Configured <- MCConfigured
  MaxScans = 2
  MaxBreaks = 1
  MaxAdded = 1
  Name = {"bar", "counter"}
  Connection = {"network", "usb", "serial"}
  Registrable = {"network", "usb"}
  Usb = {"usb"}
  requestA = requestA
  requestB = requestB
  requestC = requestC
  Request = {requestA, requestB, requestC}
  PrinterOf <- MCPrinterOf
  MaxPieces = 2
INVARIANTS
  ShownIsWhatAnswered
  NewResultsAreUnregistered
  SuccessfulListingIsWhole
  JobsDoNotMix
  AnsweredIsPrinted
PROPERTIES
  RunningScansEnd
  CallersAreAnswered
CHECK_DEADLOCK FALSE
