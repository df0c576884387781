SPECIFICATION FairSpec
CONSTANTS
  UI = UI
  Requests = {"input", "quit", "recover"}
  MaxLinks = 2
INVARIANTS
  TypeOK
  OutputsFollowStatus
  NoForgottenStream
  RequestsAreFresh
PROPERTIES
  RequestsAnswered
  HostEndNoticed
  ReleasedUnlessCrossed
