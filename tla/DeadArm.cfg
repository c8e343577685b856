\* A block that computes a phi's value dies.
CONSTANTS
  Shapes <- DeadArmShapes
  Levels = {0, 1}
  ConstantJumpLevels = {1}
  LocalValues = TRUE
  PhisPerBlock = 1
  Programs <- MCPrograms
  Inputs <- MCInputs
  Fuel = 6
SPECIFICATION Spec
\* The pipeline ends.
CHECK_DEADLOCK FALSE
INVARIANT NoFault
