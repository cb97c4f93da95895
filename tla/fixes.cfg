SPECIFICATION Spec
CONSTANTS
  Places = {1, 2, 3}
  Checks = {"a", "b", "c"}
  Replacements <- MCReplacements
  Reported <- MCReported
  AnyFix = FALSE
INVARIANTS
  SweepExact
  FixesAgree
CHECK_DEADLOCK FALSE
