SPECIFICATION Spec
CONSTANTS
  Ttys = {0, 1}
  Speeds = {0, 2}
  CMD_SIZE = 2
  MaxKeys = 3
  MaxStep = 2
  ERR = ERR
  NUL = NUL
INVARIANTS TypeOK KeysRouted LatestKeyKept NoPhantomKeys
