SPECIFICATION Spec
CONSTANTS
  Flows = {f1, f2}
  BadFlow = bad
  PipeLen = 1
  MaxCalls = 2
  MaxFlows = 2
  MaxErrors = 2
  MaxDeaths = 1
INVARIANTS
  TypeOK
  AppliedIsAsked
  AppliedIsCommitted
  OkIsApplied
PROPERTY Returns
CHECK_DEADLOCK FALSE
