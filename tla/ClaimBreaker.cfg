CONSTANTS
  DEXES = {uniswap, camelot}
  PAIRS <- TwoPairs
  TwoHopQuotes <- Quotes
  TriangularOuts <- Triangle
  MaxSent = 3
SPECIFICATION Spec
CHECK_DEADLOCK FALSE
INVARIANT FailuresTripBreaker
