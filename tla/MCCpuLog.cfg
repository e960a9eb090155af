SPECIFICATION Spec
CONSTANTS
  REGISTERS = 2
  Value = {0, 1}
  Image = {0}
  File = {}
  cpu_speed = 2
  MaxLog = 3
  MaxFlush = 2
  Garbage = Garbage
  None = None
INVARIANTS TypeOK LogExact RegistersInPlace
