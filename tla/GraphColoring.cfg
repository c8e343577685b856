\* All interference graphs over four virtual registers of three classes.
CONSTANTS
  n1 = n1  n2 = n2  n3 = n3  n4 = n4
  A64 = A64  A32 = A32  B64 = B64  B32 = B32  R64 = R64
  Unset = Unset
  VRegs <- MCVRegs
  PRegs <- MCPRegs
  Classes <- MCClasses
  Class <- MCClass
  Available <- MCAvailable
  Canonical <- MCCanonical
SPECIFICATION MCSpec
\* analyze returns: its last state has no successor.
CHECK_DEADLOCK FALSE
INVARIANTS TypeOK ProperColoring NeverFails
PROPERTIES ImplementsRound Terminates
