SPECIFICATION Spec
CONSTANTS
  Bits = 4
  Mantissa = 4
  Alphabet <- MCAlphabet
  Letters <- MCLetters
  LowerCase <- MCLowerCase
  PageSize = 30
  Lines <- MCLines
  Probes <- MCProbes
  Files <- MCFiles
  MaxRows = 2
  MaxPages = 2
  MaxPending = 7
INVARIANT TypeOK
INVARIANT ParsesAsWritten
INVARIANT WholeStatements
INVARIANT SchemaSurvives
INVARIANT RecordsReadBack
INVARIANT CompareIsOrder
INVARIANT DivisionAgrees
 
PROPERTY CaseBlind
