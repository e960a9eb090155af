SPECIFICATION Spec
CONSTANTS
  RAM_SIZE = 2
  WORDS = 4
  Programs <- MCPrograms
  cpu_speed = 2
  MaxSlots = 2
  MaxArg = 1
  AllowDuplicates = TRUE
INVARIANTS RmFindsLive
