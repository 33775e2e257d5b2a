\* All orders of control bytes, digits, letters, the brace and upper bytes.
SPECIFICATION Code128Spec
CONSTANTS
  Payloads128 <- MixedPayloads
  Gs1Payloads <- MCGs1Payloads
CHECK_DEADLOCK FALSE
INVARIANT Code128ScansBack
