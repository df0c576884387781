SPECIFICATION Spec
CONSTANTS
  Map = {"hardware", "m1", "m2"}
  Default = "hardware"
  None = "none"
  Torn = "torn"
INVARIANTS
  TypeOK
  MappingSurvives
  OneRemapping
  SettingsKept
PROPERTIES KeepsMap
