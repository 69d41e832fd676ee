SPECIFICATION Spec
CONSTANTS
  plain = plain  pointer = pointer  link = link  x = x  y = y  z = z  fam = fam  other = other
  Load = {l1, l2}
  Plain = {plain}
  Pointer = {}
  Variant = {x}
  Required = {plain}
  FamilyOf <- Families
  Family = {fam, other}
  Val = {v, w}
  Invalid = {w}  Defaults = {v}
  SelectorSet <- Selectors
  Concurrent = TRUE
  Absent = Absent  Bad = Bad  Nil = Nil  NoLoad = NoLoad
PROPERTY LoadsAreAtomic
