SPECIFICATION FairSpec
CONSTANTS
  Thread = {"ui", "callback"}
  Shoulders = {"L1"}
  MaxFingers = 3
  Scenes <- MCScenes
INVARIANTS
  TypeOK
  ClosingPressNotSent
  NothingStuck
  ReleasedWhenStopped
  HeldIsKnown
  GuideOrShell
PROPERTIES
  QuietAfterStop
  StopReturns
