-------------------------- MODULE MCProfitCustody --------------------------
(* Values for TLC.                                                           *)
EXTENDS ProfitCustody, TLC

CONSTANTS t1, t2, bot, other, w1, w2

BotAndOther == {bot, other}
TwoTasks == {t1, t2}
TwoWallets == {w1, w2}
Symmetry == Permutations(TwoTasks) \cup Permutations(TwoWallets)
LossesAndGains == {-1, 2}
=============================================================================
