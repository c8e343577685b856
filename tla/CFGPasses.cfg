\* Three blocks with loops, five with longer ones, four without.
CONSTANTS
  Shapes <- CompiledShapes
  Levels = {0, 1}
  ConstantJumpLevels = {1}
  LocalValues = FALSE
  PhisPerBlock = 1
  Programs <- MCPrograms
  Inputs <- MCInputs
  Fuel = 8
SPECIFICATION Spec
\* The pipeline ends.
CHECK_DEADLOCK FALSE
INVARIANTS TypeOK GraphAgrees MeaningKept
PROPERTIES GroupShrinks
