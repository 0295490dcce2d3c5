SPECIFICATION FairSpec
CONSTANTS
  MaxPages = 3
  z = z
  a = a
  b = b
  Data = {z, a}
  Zero = z
  Absent = absent
  InitSizes = {2}
  PowerLoss = FALSE
  EntrySync = FALSE
  Faults = {"stat", "jcreate", "jheader", "remove"}
INVARIANT TypeOK
INVARIANT Recoverable
INVARIANT NoShortRead
PROPERTY OldOrNew
PROPERTY CallsReturn
