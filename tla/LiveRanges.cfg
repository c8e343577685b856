CONSTANTS
  v = v
  w = w
  rdi = rdi
  edi = edi
  VRegs = {v, w}
  PRegs = {rdi, edi}
  CallerSaved = {rdi}
  Aliases <- MCAliases
  Canonical <- MCCanonical
  Programs <- MCPrograms
SPECIFICATION Spec
CHECK_DEADLOCK FALSE
INVARIANT TypeOK
INVARIANT Interference
INVARIANT BoundaryExact
INVARIANT SavedAcrossCalls
PROPERTY Terminates
