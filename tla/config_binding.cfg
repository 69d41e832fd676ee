SPECIFICATION Spec
CONSTANTS
  plain = plain  pointer = pointer  link = link  x = x  y = y  z = z  fam = fam  other = other
  Load = {l1}
  Plain = {plain}
  Pointer = {pointer}
  Variant = {x, y, z}
  Required = {plain}
  FamilyOf <- Families
  Family = {fam, other}
  Val = {v, w}
  Invalid = {w}  Defaults = {v}
  SelectorSet <- Selectors
  Concurrent = FALSE
  Absent = Absent  Bad = Bad  Nil = Nil  NoLoad = NoLoad
INVARIANTS TypeOK Distinguishable FailuresReachOnlyShared
PROPERTY LoadsAreAtomic
