CONSTANTS
  Jumps = {1, 2}
  Setups <- MCSetups
  INTERACTIVE = TRUE
  USEZLE = TRUE
  Interrupts = TRUE
  Quirks = {}
SPECIFICATION MCSpec
INVARIANTS ContinueIsPending
PROPERTIES StructuredControl ReturnStatus ErrExitSparesTests JumpsEnd
CHECK_DEADLOCK FALSE
