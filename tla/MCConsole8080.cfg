SPECIFICATION FairSpec
CONSTANTS
  Ttys = {0}
  Speeds = {0, 2}
  CMD_SIZE = 1
  MaxKeys = 3
  MaxStep = 2
  ERR = ERR
  NUL = NUL
INVARIANTS KeysRouted
PROPERTIES KeyboardPolledForever KeysGetThrough
