SPECIFICATION Spec
CONSTANTS
  Runners = {"r1","r2"}
  Earlier <- SomeFiles
INVARIANTS KeepsLines
CHECK_DEADLOCK FALSE
