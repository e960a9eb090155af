SPECIFICATION Spec
CONSTANTS
  X = {0, 1}
  Y = {0}
  Tile = {0, 1}
  Controls = {0, 1, 2}
  Budget = 5
  Nothing = Nothing
INVARIANTS TypeOK ListBounded
PROPERTIES ImplementsTileScreen
