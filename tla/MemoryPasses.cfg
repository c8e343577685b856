SPECIFICATION Spec
CONSTANTS
  Shapes <- MCShapes
  Programs <- MCPrograms
  Inputs <- MCInputs
  Fuel = 10
  ReuseAddresses = FALSE
INVARIANTS TypeOK Optimised
CHECK_DEADLOCK FALSE
