CONSTANTS
  RAM_BITS = 4
  Tty <- MCTty
  Keys <- MCKeys
  Machines <- MCMachines
  MaxSteps = 3
SPECIFICATION Spec
INVARIANTS TypeOK
PROPERTIES AluExact DecimalExact PcInStep PopRestores FlagIsSeen
