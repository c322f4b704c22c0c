SPECIFICATION BitmapSpec
CONSTANTS
  Widths <- MCWidths
  AsmBits = 2
  MaxBits = 6
  BITMAP_ERROR = 99
INVARIANTS
  AllBitsRight
CHECK_DEADLOCK FALSE
