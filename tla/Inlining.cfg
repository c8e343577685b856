SPECIFICATION Spec
CONSTANTS
  Units <- MCUnits
  Order <- MCOrder
  Inputs <- MCInputs
  Fuel = 12
  Depth = 6
  CallBenefit = 7
  ConstBonus = 2
  TinySize = 3
  TinyBonus = 4
  Budget = 18
INVARIANTS TypeOK GraphsAgree MeaningKept
PROPERTIES GrowthBounded
CHECK_DEADLOCK FALSE
