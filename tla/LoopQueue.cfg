CONSTANTS
  Size = 5
  Data = {blank, a}
  blank = blank
  a = a
  Blank = blank
SPECIFICATION Spec
INVARIANTS TypeOK CursorsAgree IsOlderIsProgramOrder
PROPERTY ImplementsDeque
