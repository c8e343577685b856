SPECIFICATION Spec
CONSTANTS
  Units <- DeadCall
  Order <- MCOrder
  Inputs <- MCInputs
  Fuel = 12
  Depth = 6
  CallBenefit = 1
  ConstBonus = 2
  TinySize = 3
  TinyBonus = 4
  Budget = 18
INVARIANT NoFault
CHECK_DEADLOCK FALSE
