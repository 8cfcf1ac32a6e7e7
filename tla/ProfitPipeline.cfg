CONSTANTS
  DEXES = {uniswap, camelot, sushi}
  PAIRS <- TwoPairs
  TwoHopQuotes <- Quotes
  TriangularOuts <- Triangle
  MaxSent = 3
SPECIFICATION FairSpec
CHECK_DEADLOCK FALSE
INVARIANTS
  CountedIffMined
  BooksAgree
PROPERTIES
  StopEndsTrading
