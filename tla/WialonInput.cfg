SPECIFICATION FairSpec
CONSTANTS
  Breaks = {0, 1, 2}
  Lengths = {0, 1, 3}
  MaxLines = 4
INVARIANTS LinesKept OneLine
PROPERTIES Heard
CHECK_DEADLOCK FALSE
