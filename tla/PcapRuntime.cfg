SPECIFICATION Spec
CONSTANTS
  Captures <- MCCaptures
  NULL = null
INVARIANTS TypeOK OutputsAreAccepted CaptureOrder
CHECK_DEADLOCK FALSE
