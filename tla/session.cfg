SPECIFICATION FairSpec
CONSTANTS
  p1 = p1
  p2 = p2
  m1 = m1
  m2 = m2
  NoProc = NoProc
  Vdd = vdd
  Procs <- TwoProcs
  Physical <- TwoMonitors
  Commands <- CarefulCommands
  Attempts = 2
  MaxCommands = 3
  MaxFaults = 2
  MaxCrashes = 1
INVARIANTS HomeUnlessRecorded RecordIsHome AllOrNothing
PROPERTIES KeepsPromise EventuallyHome
