------------------------------ MODULE Treasury ------------------------------
(***************************************************************************)
(* The Aave account of src/src/capital/aave_client.py and those who move   *)
(* it: the scaling loop with ScalingFSM of src/src/core/modules.py, the    *)
(* capital monitor and the dashboard's commands of src/src/core/engine.py. *)
(*                                                                         *)
(* The client is a stub that gives way nowhere, so an evaluation and a     *)
(* command are one step each.  Amounts are in cents, rounded down.  A      *)
(* definition marked `Slip:' is a plausible mistake, kept to test the      *)
(* properties with.                                                        *)
(***************************************************************************)
EXTENDS Integers

CONSTANTS
  PROFITS,      \* what a trade may bring
  MaxTotal,     \* bound: shared_state.total_profit
  MaxCommands   \* bound: commands the operator gives

VARIABLES
  total,        \* shared_state.total_profit
  account,      \* AaveClient._state
  shown,        \* the dashboard's copy of it
  commands,     \* commands given
  borrowed      \* history: increase_borrow commands among them

treasuryVars == <<total, account, shown, commands, borrowed>>

ASSUME TreasuryAssumption ==
  PROFITS \subseteq Nat /\ MaxTotal \in Nat /\ MaxCommands \in Nat

\* The health factor in hundredths.
Account == [health_factor : Nat, collateral : Nat, debt : Nat, available_borrow : Nat]

TreasuryInit ==
  /\ total = 0
  /\ account = [health_factor |-> 250, collateral |-> 100000, debt |-> 40000,
                available_borrow |-> 25000]
  /\ shown = [health_factor |-> 9900, collateral |-> 0, debt |-> 0, available_borrow |-> 0]
  /\ commands = 0 /\ borrowed = 0

Supply(a, amount) == [a EXCEPT !.collateral = @ + amount]
Borrow(a, amount) == [a EXCEPT !.debt = @ + amount]
EmergencyRepay(a) == [a EXCEPT !.debt = IF @ > 5000 THEN @ - 5000 ELSE 0]
SoftRebalance(a) == [a EXCEPT !.health_factor = IF @ < 180 THEN 180 ELSE @]

\* _report_profit(): a trade is counted.
Profit ==
  /\ \E p \in PROFITS : total' = total + p
  /\ total' <= MaxTotal
  /\ UNCHANGED <<account, shown, commands, borrowed>>

AvailableProfit == (total * 8) \div 10

\* Slip: the profit is compared with the debt the bot started with.
ShouldIncreaseBorrowOnce(a) == AvailableProfit * 10 >= 40000 /\ a.health_factor >= 200

ShouldIncreaseBorrow(a) == AvailableProfit * 10 >= a.debt /\ a.health_factor >= 200

\* _increase_borrow(): the deposit is a part of the whole profit ever made,
\* of which earlier deposits are not taken off.
IncreaseBorrow(a) ==
  LET deposit == (AvailableProfit * 8) \div 10
      more == (a.debt * 2) \div 10
  IN IF (a.collateral + deposit) * 10 >= 18 * (a.debt + more)
     THEN Borrow(Supply(a, deposit), more)
     ELSE a

\* Later steps of the evaluation only log.
EvaluateAndExecute(a) == IF ShouldIncreaseBorrow(a) THEN IncreaseBorrow(a) ELSE a

\* Every five minutes: the evaluation is given the total and the debt of now.
CheckScaling ==
  /\ account' = EvaluateAndExecute(account)
  /\ UNCHANGED <<total, shown, commands, borrowed>>

\* Every 30 seconds.
CapitalMonitor ==
  /\ shown' = account
  /\ account' = IF account.health_factor < 105 THEN EmergencyRepay(account)
                ELSE IF account.health_factor < 170 THEN SoftRebalance(account)
                ELSE account
  /\ UNCHANGED <<total, commands, borrowed>>

Command ==
  /\ commands < MaxCommands
  /\ commands' = commands + 1
  /\ UNCHANGED <<total, shown>>

DepositProfits ==
  /\ Command
  /\ AvailableProfit > 500
  /\ account' = Supply(account, AvailableProfit)
  /\ UNCHANGED borrowed

IncreaseBorrowCommand ==
  /\ Command
  /\ account.health_factor > 200
  /\ account' = Borrow(account, (account.available_borrow * 3) \div 10)
  /\ borrowed' = borrowed + 1

EmergencyRepayCommand ==
  /\ Command
  /\ account' = EmergencyRepay(account)
  /\ UNCHANGED borrowed

TreasuryNext ==
  \/ Profit \/ CheckScaling \/ CapitalMonitor
  \/ DepositProfits \/ IncreaseBorrowCommand \/ EmergencyRepayCommand

TreasurySpec == TreasuryInit /\ [][TreasuryNext]_treasuryVars

-----------------------------------------------------------------------------
TreasuryTypeOK ==
  /\ total \in 0..MaxTotal
  /\ account \in Account /\ shown \in Account
  /\ commands \in 0..MaxCommands /\ borrowed \in 0..commands

(***************************************************************************)
(* However often the scaling FSM reinvests one and the same profit, the    *)
(* debt stays within 9.6 times the profit made (or the first debt), and    *)
(* the collateral covers it 1.8 times, but for what the operator borrowed  *)
(* with the dashboard's command, which looks only at a health factor that  *)
(* never moves.                                                            *)
(***************************************************************************)
DebtFollowsProfit ==
  LET by_hand == 7500 * borrowed IN
  /\ TreasuryTypeOK
  /\ 10 * (account.debt - by_hand) <= 96 * total \/ account.debt - by_hand <= 40000
  /\ 10 * account.collateral >= 18 * (account.debt - by_hand)
=============================================================================
