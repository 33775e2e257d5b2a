\* Two connections of two chunks with the idle timeout: up to four jobs, cut
\* anywhere, rendered and stored in any order; under a page or a stream, one
\* chunk each: two jobs that overlap.  Two printers of 30 dots with three sheets,
\* any two commands of a job and any three that print.  Every connection may be
\* done and every job rendered.
SPECIFICATION MCSpec
CONSTANTS
  Connections = {c1, c2}
  IdleTimeout = TRUE
  MaxChunks = 2
  Profiles <- MCProfiles
  Inputs <- MCJobSet
  EncodedBarcode <- MCBarcode
  QrModules <- MCQrModules
  MaxSheets = 2
  MaxHeight = 200
  MaxDots = 7200
  MaxPayload = 20
  MaxInput = 100
  MaxWidth = 30
  Payloads128 <- MixedPayloads
  Gs1Payloads <- MCGs1Payloads
  Barcodes <- MCBarcodes
CHECK_DEADLOCK FALSE
INVARIANTS
  StatusTellsTruth
  JobsAreWhole
  ResourcesMatchDocument
  LineStartIsEmpty
  SheetsStayWithinLimits
  TraceTellsPaper
  TraceNamesCommands
  SymbolsScanBack
  Code128IsShortest
PROPERTIES
  ReceptionEnds
  ViewerNeverGoesBack
  ViewerCatchesUp
  StatusStreamCatchesUp
