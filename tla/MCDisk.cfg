SPECIFICATION Spec
CONSTANTS
  DISK_SIZE = 3
  BYTE = 2
  Images <- MCImages
  Words = {0, 1, 2, 3, 65537}
  None = None
INVARIANTS TypeOK DumpAgrees
PROPERTIES ImplementsDurableDisk
