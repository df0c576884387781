SPECIFICATION FairSpec
CONSTANTS
  p1 = p1
  p2 = p2
  m1 = m1
  m2 = m2
  NoProc = NoProc
  Vdd = vdd
  Procs <- TwoProcs
  Physical <- OneMonitor
  Commands <- RescueCommands
  Attempts = 2
  MaxCommands = 2
  MaxFaults = 1
  MaxCrashes = 1
PROPERTIES RewritesOnlyItsOwn RescueSettles
