SPECIFICATION Spec
CONSTANTS
  d1 = d1
  d2 = d2
  a1 = a1
  a2 = a2
  Devices <- TwoDevices
  Addrs <- TwoAddresses
  NoDevice = NoDevice
  NoAddr = NoAddr
  Size = 2
  Absent = Absent
  Torn = Torn
SYMMETRY Interchangeable
CONSTRAINT OneOfEither
PROPERTIES
  RemovesItsOwn
