SPECIFICATION FairSpec
CONSTANTS
  Caller = {"ui", "callback"}
  UI = "ui"
  MaxRequests = 2
  MaxDrop = 1
INVARIANTS
  TypeOK
  UsesOnlyHeld
  FreedAfterStream
  NoStaleScreen
PROPERTIES
  WaitsEnd
