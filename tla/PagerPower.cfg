SPECIFICATION Spec
CONSTANTS
  MaxPages = 3
  z = z
  a = a
  b = b
  Data = {z, a, b}
  Zero = z
  Absent = absent
  InitSizes = {2}
  PowerLoss = TRUE
  EntrySync = TRUE
  Faults = {}
SYMMETRY Contents
INVARIANT IInv
INVARIANT WriteAhead
INVARIANT CommittedView
PROPERTY OldOrNew
PROPERTY RefinesAtomic
