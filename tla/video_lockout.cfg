SPECIFICATION Spec
CONSTANTS
  Caller = {"ui", "callback"}
  UI = "ui"
  MaxRequests = 0
  MaxDrop = 0
INVARIANT QuarantinedForCause
