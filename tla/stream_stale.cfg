SPECIFICATION Spec
CONSTANTS
  UI = UI
  Requests = {"input"}
  MaxLinks = 2
PROPERTIES
  ReleasedBeforeStop
