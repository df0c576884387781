SPECIFICATION FairSpec
CONSTANTS
  Proc = {"setup", "agent"}
  Setup = "setup"
  Path = {"old", "new"}
  Id = {"id1", "id2"}
  MaxEdits = 1
  UserValue = {"absent", "mine"}
  Scenes <- MCScenes
INVARIANTS
  OriginalRestored
  NothingLeftBehind
  EditsKept
  StartIsOwed
PROPERTIES
  SunshineComesBack
