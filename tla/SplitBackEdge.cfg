\* Loops in which a critical back edge meets a phi.
CONSTANTS
  Shapes <- BackEdgeShapes
  Levels = {0, 1}
  ConstantJumpLevels = {1}
  LocalValues = FALSE
  PhisPerBlock = 1
  Programs <- MCPrograms
  Inputs <- MCInputs
  Fuel = 6
SPECIFICATION Spec
\* The pipeline ends.
CHECK_DEADLOCK FALSE
INVARIANT MeaningKept
