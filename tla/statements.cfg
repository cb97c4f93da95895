SPECIFICATION Spec
CONSTANTS
  Bodies <- MCBodies
  MaxDepth = 1
INVARIANTS
  ControlJudged
PROPERTY
  Ends
