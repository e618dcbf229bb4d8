SPECIFICATION Spec
CONSTANTS
  ROWS = 3
  COLUMNS = 2
  Chars = {a}
  LF = LF
  CR = CR
  TAB = TAB
  Junk = Junk
  Tops = {1}
  Places <- MCPlaces
  MaxWrites = 3
INVARIANTS
  CleanRowsShown
PROPERTIES
  BehavesAsScreen
  RowsGetDrawn
