CONSTANTS
  SWAPS <- Swaps
  MARKETS <- Markets
  CHAINS <- AllChains
  PRICES <- Prices
  CAPITALS = {99, 200}
  Enabled = {"mev_backrun", "gmx_funding", "cross_chain", "yield"}
  FirstBlock = 998
  LastBlock = 1001
SPECIFICATION AdvancedSpec
INVARIANTS
  AsksAreBacked
