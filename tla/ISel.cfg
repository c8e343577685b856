\* Costs wrap at 64: a sum over a few shared operands passes it.
CONSTANTS
  Programs <- MCPrograms
  Levels = {0, 1}
  CostLimit = 64
SPECIFICATION Spec
\* A function returns.
CHECK_DEADLOCK FALSE
INVARIANT TypeOK
INVARIANT CodeFaithful
