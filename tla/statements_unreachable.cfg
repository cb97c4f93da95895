SPECIFICATION Spec
CONSTANTS
  Bodies <- MCBodies
  MaxDepth = 1
INVARIANT LabelsNotReported
CHECK_DEADLOCK FALSE
