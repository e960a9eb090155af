SPECIFICATION MCSpec
CONSTANTS
  k = k
  p = p
  Ttys = {"tty", "tty2"}
  ROWS = 2
  COLS = 2
  HEIGHT = 4
  WIDTH = 5
  CMD_SIZE = 4
  Glyphs = {k, p}
  Keys = {k}
  Lines <- MCLines
  Pictures = {0, 1}
  Shifted = Shifted
  Blank = Blank
  Frame = Frame
  NUL = NUL
  MaxY = 4
INVARIANTS TypeOK LineOnScreen ScreenUpToDate
PROPERTIES ImplementsTerminal ViewsCatchUp
