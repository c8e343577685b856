\* Every family of instructions with many operands, and units that link.
CONSTANTS
  Units <- MCUnits
  Layouts <- MCLayouts
SPECIFICATION Spec
\* The object is written and linked once.
CHECK_DEADLOCK FALSE
INVARIANTS TypeOK DecodesBack LinksUp
