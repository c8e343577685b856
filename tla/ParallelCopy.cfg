\* All copies among four registers, those that read each other's included.
CONSTANTS
  a = a  b = b  c = c  d = d  imm = imm
  Regs <- MCRegs
  Imms <- MCImms
  MaxTemps = 4
  PhiLists <- AllLists
  MaxJumps = 3
SPECIFICATION Spec
\* The program has left the block.
CHECK_DEADLOCK FALSE
INVARIANTS TypeOK Parallel
PROPERTY Ends
