-------------------------- MODULE AaveBotExecutor --------------------------
(***************************************************************************)
(* The contract src/contracts/AaveBotExecutor.sol, for one asset: what it  *)
(* holds, the counters it keeps and its calls.                             *)
(*                                                                         *)
(* executeOperation() is Aave's callback inside a flash loan the contract  *)
(* itself has asked for.  The function that asks for it, execute(), is in  *)
(* the clients' ABI and in the fork test but not in the contract's source; *)
(* it is taken here as these use it, and a loan is one step that reverts   *)
(* as a whole when a require fails.  While the contract is paused, no loan *)
(* is made; a trade is never obliged to happen, so that pause() needs no   *)
(* state of its own here.                                                  *)
(* A definition marked `Slip:' is a plausible mistake, kept to test the    *)
(* properties with; nothing uses it.                                       *)
(***************************************************************************)
EXTENDS Integers

CONSTANTS
  Gains,      \* what the swaps of a trade may bring, losses included
  Premium,    \* Aave's fee for a loan
  MaxTrades   \* bound: trades

VARIABLES
  held,           \* balanceOf(executor), between loans
  totalProfit,
  totalTrades

executorVars == <<held, totalProfit, totalTrades>>

ASSUME ExecutorAssumption == Gains \subseteq Int /\ Premium \in Nat /\ MaxTrades \in Nat

ExecutorTypeOK ==
  /\ held \in Nat /\ totalProfit \in Nat
  /\ totalTrades \in 0..MaxTrades

ExecutorInit == held = 0 /\ totalProfit = 0 /\ totalTrades = 0

\* executeOperation() once the strategy has run: the loan and its premium must
\* be there to be repaid, the profit the strategy works out is added up.
Repay(gain, profit) ==
  /\ totalTrades < MaxTrades
  /\ held + gain >= Premium
  /\ held' = held + gain - Premium
  /\ totalProfit' = totalProfit + profit
  /\ totalTrades' = totalTrades + 1

\* _executeArb(): the balance before and after both hold the loan; the premium
\* is not part of the comparison.
ExecuteArb(gain) == gain > 0 /\ Repay(gain, gain)

\* _executeLiquidation(): the profit is all that is there above the loan, what
\* the contract held before included.
ExecuteLiquidation(gain) == Repay(gain, IF held + gain > 0 THEN held + gain ELSE 0)

\* Slip: rescueFunds() does not look at the balance.
MayRescueAnything(amount) == TRUE

\* rescueFunds(): the balance must cover the amount.
MayRescue(amount) == amount <= held

RescueFunds(amount) ==
  /\ MayRescue(amount)
  /\ held' = held - amount
  /\ UNCHANGED <<totalProfit, totalTrades>>
=============================================================================
