CONSTANTS
  Strategies = {arb, spot}
  Leveraged = {arb}
  Nobody = nobody
  WinAmounts = {20}
  LossAmounts = {3}
  MaxWin = 20
  MaxLoss = 3
  MaxProfit = 20
  MAX_CONSECUTIVE_FAILURES = 3
  TELEMETRY_MAX_RETRIES = 5
SPECIFICATION TimedFairSpec
INVARIANTS
  TypeOK
  LeverageSeesHealth
  AtMostOneTradeAfterPause
  BreakerOvershoot
  DailyLossOvershoot
PROPERTIES
  OnlyOperatorLifts
  ImplementsTradeGate
  EveryCallAnswered
  DegradedModeEnds
