\* A jump on a constant that no pass folds.
CONSTANTS
  Shapes <- ConstantJumpShapes
  Levels = {0, 1}
  ConstantJumpLevels = {0, 1}
  LocalValues = FALSE
  PhisPerBlock = 1
  Programs <- MCPrograms
  Inputs <- MCInputs
  Fuel = 6
SPECIFICATION Spec
\* The pipeline ends.
CHECK_DEADLOCK FALSE
INVARIANT MeaningKept
