SPECIFICATION FairSpec
CONSTANTS
  Key = {1, 2, 3, 4, 5}
  slim = slim
  fat = fat
  big = big
  Val = {slim, big}
  None = none
  KeySize <- Uniform
  ValSize <- BigSize
  SepSize <- Uniform
  Room = 2
  Faulty = TRUE
  MaxOps = 2
INVARIANT TypeOK
INVARIANT TreeInv
INVARIANT Balanced
INVARIANT IInv
PROPERTY RefinesMap
PROPERTY CallsReturn
