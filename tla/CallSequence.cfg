SPECIFICATION Spec
CONSTANT Functions <- MCFunctions
INVARIANT TypeOK
INVARIANT ArgumentsArrive
INVARIANT CallsWellFormed
INVARIANT CallerUnharmed
INVARIANT ResultDelivered
