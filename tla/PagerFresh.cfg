SPECIFICATION Spec
CONSTANTS
  MaxPages = 3
  z = z
  a = a
  b = b
  Data = {z, a}
  Zero = z
  Absent = absent
  InitSizes = {0}
  PowerLoss = FALSE
  EntrySync = FALSE
  Faults = {}
INVARIANT Recoverable
