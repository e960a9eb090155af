SPECIFICATION Spec
CONSTANTS
  RAM_SIZE = 2
  WORDS = 4
  Programs <- MCPrograms
  cpu_speed = 2
  MaxSlots = 3
  MaxArg = 3
  AllowDuplicates = FALSE
INVARIANTS TypeOK NothingHidden SlotsReused
PROPERTIES RmExact AddExact NoSpuriousStop HitEndsBatch
