SPECIFICATION Spec
CONSTANTS
  Columns = {1, 2}
  null = null
  i1 = i1
  r1 = r1
  i2 = i2
  Value = {null, i1, r1, i2}
  Null = null
  Class <- MCClass
  Contents <- MCContents
  Schemas <- MCSchemas
  Clauses <- MCClauses
  Orders <- MCOrders
  Limits <- MCLimits
INVARIANT TypeOK
INVARIANT IInv
INVARIANT RightAnswer
INVARIANT TiesInScanOrder
CHECK_DEADLOCK FALSE
