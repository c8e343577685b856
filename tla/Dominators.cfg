SPECIFICATION Spec
CONSTANT Graphs <- MCGraphs
INVARIANTS TypeOK IdomExact FrontiersCoverJoins NaturalLoops
