SPECIFICATION Spec
CONSTANTS
  None = None
  Policies = {p, q}
  DefaultPolicy = p
  Setups <- MCSetups
INVARIANTS
  OutcomeKept
  ShownInOrder
PROPERTIES
  RunsUnderCallPolicy
  CallsAdvance
