CONSTANTS
  Tokens <- TwoTokens
  Dcs <- TwoDcs
  MaxArgs = 3
SPECIFICATION Spec
CHECK_DEADLOCK FALSE
INVARIANTS
  TokenOnlyInHeader
  
