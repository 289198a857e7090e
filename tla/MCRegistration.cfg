SPECIFICATION Spec
CONSTANTS
  Paths = {old, new}
INVARIANTS
  HandlerComplete
  ResultTruthful
