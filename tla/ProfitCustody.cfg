CONSTANTS
  t1 = t1
  t2 = t2
  bot = bot
  other = other
  w1 = w1
  w2 = w2
  Users <- BotAndOther
  Bot = bot
  Other = other
  Wallets <- TwoWallets
  Gains <- LossesAndGains
  Premium = 1
  MaxTrades = 2
  Tasks <- TwoTasks
  Amounts = {1, 2}
  InitialWallet = 0
  Threshold = 1
  MaxFromOthers = 1
  MaxPending = 2
SYMMETRY Symmetry
SPECIFICATION Spec
INVARIANTS
  VaultBooks
  AloneDepositsArrive
  ProfitCoversAll
  CountsAgree
