\* A dollar sign between two other characters.
SPECIFICATION LinearSpec
CONSTANT Barcodes <- MCDollars
INVARIANT DataBarScansBack
CHECK_DEADLOCK FALSE
