SPECIFICATION TSpec
CONSTANTS
  Key = {1, 2, 3, 4, 5}
  u = u
  Val = {u}
  None = none
  KeySize <- Uniform
  ValSize <- Nothing
  SepSize <- Uniform
  Room = 2
  Faulty = FALSE
  MaxOps = 3
INVARIANT FreshRowid
