\* Two connections of one chunk: two jobs whose renderings overlap.
SPECIFICATION CaptureSpec
CONSTANTS
  Connections = {c1, c2}
  IdleTimeout = FALSE
  MaxChunks = 1
CHECK_DEADLOCK FALSE
PROPERTY LatestJobStays
