SPECIFICATION Spec
CONSTANTS
  PageChars = 4
  ImageChars = 1
  MaxImages = 2
  LineMax = 7
  Outputs <- MCOutputs
  Inputs <- MCInputs
  MatchLimit = 2
  MatchLimitMax = 3
  ContextMax = 1
  MaxOutputs = 2
  MaxCalls = 5
INVARIANTS ClaimsAreTrue PagesFollowOn HitsInOrder
CHECK_DEADLOCK FALSE
