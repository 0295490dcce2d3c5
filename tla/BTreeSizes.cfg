SPECIFICATION Spec
CONSTANTS
  Key = {1, 2, 3}
  slim = slim
  fat = fat
  big = big
  Val = {slim, fat}
  None = none
  KeySize <- Uniform
  ValSize <- FatSize
  SepSize <- Uniform
  Room = 4
  Faulty = FALSE
  MaxOps = 3
PROPERTY KeysStay
