SPECIFICATION Spec
CONSTANTS
  null = null
  i1 = i1
  r1 = r1
  i2 = i2
  long = long
  Value = {null, i1, r1, i2, long}
  Null = null
  Class <- MCClass
  Size <- MCSize
  RowRoom = 4
  KeyRoom = 3
  Tables = {t}
  Indexes = {ix, ux}
  Width = 2
  Rows <- MCRows
  Wheres <- MCWheres
  Assigns <- MCAssigns
  ColLists <- MCColLists
  SchemaRoom = 3
  Faults = {"call", "collect"}
  MaxRowId = 2
  MaxTrees = 3
INVARIANT TypeOK
INVARIANT IInv
INVARIANT IndexConsistent
INVARIANT MemoryMatchesPages
PROPERTY RefinesRelations
SYMMETRY Names
