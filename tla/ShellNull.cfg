SPECIFICATION Spec
CONSTANTS
  Bits = 4
  Mantissa = 4
  Alphabet <- MCAlphabet
  Letters <- MCLetters
  LowerCase <- MCLowerCase
  PageSize = 30
  Lines = {}
  Probes <- MCProbes
  Files <- MCFiles
  MaxRows = 2
  MaxPages = 2
  MaxPending = 7
INVARIANT Partition
