CONSTANTS
  Bad = Bad
  Commands = {site}
  Rules = {ra, rb}
  Lines <- MCLines
  InitPerms <- MCInitPerms
  Writers = {w1, w2}
  Readers = {r1}
  MaxCells = 2
  MaxRules = 2
  MaxStructs = 2
SYMMETRY Symmetry
SPECIFICATION Spec
CHECK_DEADLOCK FALSE
INVARIANT TypeOK
