CONSTANTS
  PROFITS = {2000, 5000}
  MaxTotal = 12000
  MaxCommands = 3
SPECIFICATION TreasurySpec
INVARIANTS
  DebtFollowsProfit
