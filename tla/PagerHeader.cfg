SPECIFICATION Spec
CONSTANTS
  MaxPages = 3
  z = z
  a = a
  b = b
  Data = {z, a}
  Zero = z
  Absent = absent
  InitSizes = {2}
  PowerLoss = FALSE
  EntrySync = FALSE
  Faults = {}
INVARIANT OpenAccepts
