SPECIFICATION Spec
CONSTANTS
  REGISTERS = 2
  Value = {0, 1}
  Image = {0, 1}
  File = {f, g}
  f = f
  g = g
  cpu_speed = 1
  MaxLog = 0
  MaxFlush = 3
  Garbage = Garbage
  None = None
SYMMETRY FileNames
PROPERTIES SnapshotRoundTrip
