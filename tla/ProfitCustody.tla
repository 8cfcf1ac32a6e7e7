--------------------------- MODULE ProfitCustody ---------------------------
(***************************************************************************)
(* The way of a profit: from the executor contract to the bot's wallet     *)
(* (RiskManager.maybe_collect_profits), from there to the vault contract   *)
(* (NeuralBotVaultClient.deposit_profit, one task for each trade that      *)
(* PlatformReporter.report_trade wants deposited) and to user and platform.*)
(*                                                                         *)
(* Every await of the client is a point where other tasks run.  The bot's  *)
(* transactions are mined in nonce order, at any time after they are sent: *)
(* a wait for a receipt may time out before.  How nonces are given out is  *)
(* the subject of NonceManager.                                            *)
(* A definition marked `Slip:' is a plausible mistake, kept to test the    *)
(* properties with; nothing uses it.                                       *)
(***************************************************************************)
EXTENDS NeuralBotVault, AaveBotExecutor, Sequences

CONSTANTS
  Tasks,          \* the deposit tasks the reporter creates
  Bot, Other,     \* this bot's address, and a bot of another user
  Amounts,        \* net profits reported, above 0.50
  InitialWallet,  \* what the bot's wallet holds at the start
  Threshold,      \* PROFIT_COLLECT_THRESHOLD_USD
  MaxPending,     \* bound: transactions of the bot not yet mined
  MaxFromOthers   \* bound: deposits of the other bot

VARIABLES
  wallet,      \* the token balance of the bot
  allowance,   \* what the vault may take from it
  task,        \* each task: where it waits, its amount, its receipt
  collector,   \* the balance the profit collection has read, 0 for none
  mempool,     \* the bot's transactions, in nonce order
  counted,     \* _total_deposited of the client
  clash,       \* history: tasks that were not alone
  fromOthers   \* history: deposits of the other bot

clientVars == <<task, counted, clash>>
moneyVars == <<wallet, allowance>>
vars == <<vaultVars, executorVars, moneyVars, clientVars, collector, mempool, fromOthers>>

ASSUME CustodyAssumption ==
  /\ Users = {Bot, Other} /\ Bot # Other /\ IsFiniteSet(Tasks)
  /\ Amounts \subseteq Nat \ {0} /\ InitialWallet \in Nat
  /\ Threshold \in Nat \ {0} /\ MaxFromOthers \in Nat /\ MaxPending \in Nat \ {0}

Phases == {"idle", "begun", "balanced", "approve", "approving", "approved", "depositing", "done", "failed"}
Receipts == {"none", "done", "short", "barred"}
Transactions == [kind : {"approve", "deposit"}, amount : Amounts, of : Tasks]
                \cup [kind : {"rescue"}, amount : Nat]

TypeOK ==
  /\ VaultTypeOK /\ ExecutorTypeOK
  /\ wallet \in Nat /\ allowance \in Nat /\ counted \in Nat /\ fromOthers \in 0..MaxFromOthers
  /\ task \in [Tasks -> [at : Phases, amount : Amounts \cup {0}, receipt : Receipts]]
  /\ collector \in Nat
  /\ mempool \in Seq(Transactions)
  /\ clash \in [Tasks -> BOOLEAN]

Init ==
  /\ VaultInit /\ ExecutorInit
  /\ wallet = InitialWallet /\ allowance = 0 /\ counted = 0 /\ fromOthers = 0
  /\ task = [t \in Tasks |-> [at |-> "idle", amount |-> 0, receipt |-> "none"]]
  /\ collector = 0
  /\ mempool = << >>
  /\ clash = [t \in Tasks |-> FALSE]

Pending(t) == \E i \in DOMAIN mempool : mempool[i].kind # "rescue" /\ mempool[i].of = t
Ended == {"idle", "done", "failed"}
Active(t) == task[t].at \notin Ended \/ Pending(t)

At(t, phase) == task' = [task EXCEPT ![t].at = phase]

-----------------------------------------------------------------------------
\* One deposit task.

\* report_trade() creates the task; deposit_profit() begins.
Report(t, amount) ==
  LET others == {s \in Tasks \ {t} : Active(s)} IN
  /\ task[t].at = "idle"
  /\ task' = [task EXCEPT ![t].at = "begun", ![t].amount = amount]
  /\ clash' = [s \in Tasks |-> clash[s] \/ s \in others \/ (s = t /\ others # {})]
  /\ UNCHANGED <<vaultVars, executorVars, moneyVars, counted, collector, mempool, fromOthers>>

\* The balance is read; a wallet that holds too little skips the deposit.
ReadBalance(t) ==
  /\ task[t].at = "begun"
  /\ At(t, IF wallet < task[t].amount THEN "done" ELSE "balanced")
  /\ UNCHANGED <<vaultVars, executorVars, moneyVars, counted, clash, collector, mempool, fromOthers>>

\* Slip: any allowance will do.
ReadAnyAllowance(t) ==
  /\ task[t].at = "balanced"
  /\ At(t, IF allowance > 0 THEN "approved" ELSE "approve")
  /\ UNCHANGED <<vaultVars, executorVars, moneyVars, counted, clash, collector, mempool, fromOthers>>

\* _approve_exact(): an allowance that suffices is left as it is.
ReadAllowance(t) ==
  /\ task[t].at = "balanced"
  /\ At(t, IF allowance >= task[t].amount THEN "approved" ELSE "approve")
  /\ UNCHANGED <<vaultVars, executorVars, moneyVars, counted, clash, collector, mempool, fromOthers>>

Send(t, kind, phase) ==
  /\ Len(mempool) < MaxPending
  /\ task' = [task EXCEPT ![t].at = phase, ![t].receipt = "none"]
  /\ mempool' = Append(mempool, [kind |-> kind, amount |-> task[t].amount, of |-> t])
  /\ UNCHANGED <<vaultVars, executorVars, moneyVars, counted, clash, collector, fromOthers>>

SendApprove(t) == task[t].at = "approve" /\ Send(t, "approve", "approving")
SendDeposit(t) == task[t].at = "approved" /\ Send(t, "deposit", "depositing")

\* The approval's receipt has come; its status is not looked at.
Approved(t) ==
  /\ task[t].at = "approving" /\ task[t].receipt # "none"
  /\ At(t, "approved")
  /\ UNCHANGED <<vaultVars, executorVars, moneyVars, counted, clash, collector, mempool, fromOthers>>

\* Slip: the client counts the user's part.
DepositedPart(t) ==
  /\ task[t].at = "depositing" /\ task[t].receipt # "none"
  /\ At(t, "done")
  /\ counted' = counted + UserPart(task[t].amount)
  /\ UNCHANGED <<vaultVars, executorVars, moneyVars, clash, collector, mempool, fromOthers>>

\* The deposit's receipt has come; it is counted whatever its status.
Deposited(t) ==
  /\ task[t].at = "depositing" /\ task[t].receipt # "none"
  /\ At(t, "done")
  /\ counted' = counted + task[t].amount
  /\ UNCHANGED <<vaultVars, executorVars, moneyVars, clash, collector, mempool, fromOthers>>

\* A call raises, or the wait for a receipt times out: no deposit is reported,
\* what was sent is mined all the same.
DepositFails(t) ==
  /\ task[t].at \notin Ended
  /\ At(t, "failed")
  /\ UNCHANGED <<vaultVars, executorVars, moneyVars, counted, clash, collector, mempool, fromOthers>>

DepositTask(t) ==
  \/ \E amount \in Amounts : Report(t, amount)
  \/ ReadBalance(t) \/ ReadAllowance(t) \/ SendApprove(t) \/ Approved(t)
  \/ SendDeposit(t) \/ Deposited(t) \/ DepositFails(t)

-----------------------------------------------------------------------------
\* maybe_collect_profits(), every five minutes.

CollectorReads(balanceRead) ==
  /\ collector' = balanceRead
  /\ UNCHANGED <<vaultVars, executorVars, moneyVars, clientVars, fromOthers>>

ReadExecutorBalance ==
  /\ collector = 0 /\ held >= Threshold
  /\ CollectorReads(held)
  /\ UNCHANGED mempool

\* Nothing depends on the receipt; when the wait for it times out, the next
\* round may find the earlier rescue still to be mined.
SendRescue ==
  /\ collector # 0 /\ Len(mempool) < MaxPending
  /\ mempool' = Append(mempool, [kind |-> "rescue", amount |-> collector])
  /\ CollectorReads(0)

CollectionFails ==
  /\ collector # 0
  /\ CollectorReads(0)
  /\ UNCHANGED mempool

Collector == ReadExecutorBalance \/ SendRescue \/ CollectionFails

-----------------------------------------------------------------------------
\* The chain mines the first of the bot's transactions.

Receipt(t, status) == task' = [task EXCEPT ![t].receipt = status]

\* A receipt is seen by the wait for this transaction, not by a later one.
MineApprove(tx) ==
  /\ tx.kind = "approve"
  /\ allowance' = tx.amount
  /\ Receipt(tx.of, "done")
  /\ UNCHANGED <<vaultVars, executorVars, wallet>>

\* Slip: the vault goes on although the transfer to it has failed.
MineDepositUnchecked(tx) ==
  /\ tx.kind = "deposit"
  /\ IF MayDeposit(Bot)
     THEN Receipt(tx.of, "done") /\ DepositProfit(Bot, tx.amount, Bot)
     ELSE Receipt(tx.of, "barred") /\ UNCHANGED vaultVars
  /\ IF MayDeposit(Bot) /\ tx.amount <= wallet /\ tx.amount <= allowance
     THEN wallet' = wallet - tx.amount /\ allowance' = allowance - tx.amount
     ELSE UNCHANGED moneyVars
  /\ UNCHANGED executorVars

\* depositProfit(): safeTransferFrom() needs balance and allowance.
MineDeposit(tx) ==
  /\ tx.kind = "deposit"
  /\ IF ~MayDeposit(Bot) \/ wallet < tx.amount \/ allowance < tx.amount
     THEN /\ Receipt(tx.of, IF MayDeposit(Bot) THEN "short" ELSE "barred")
          /\ UNCHANGED <<vaultVars, moneyVars>>
     ELSE /\ Receipt(tx.of, "done")
          /\ DepositProfit(Bot, tx.amount, Bot)
          /\ wallet' = wallet - tx.amount /\ allowance' = allowance - tx.amount
  /\ UNCHANGED executorVars

MineRescue(tx) ==
  /\ tx.kind = "rescue"
  /\ IF MayRescue(tx.amount)
     THEN RescueFunds(tx.amount) /\ wallet' = wallet + tx.amount
     ELSE UNCHANGED <<executorVars, wallet>>
  /\ UNCHANGED <<vaultVars, task, allowance>>

Mine ==
  /\ mempool # << >> /\ mempool' = Tail(mempool)
  /\ LET tx == Head(mempool) IN MineApprove(tx) \/ MineDeposit(tx) \/ MineRescue(tx)
  /\ UNCHANGED <<counted, clash, collector, fromOthers>>

-----------------------------------------------------------------------------
\* Trades, users and administrators.

Trade ==
  /\ \E gain \in Gains : ExecuteArb(gain) \/ ExecuteLiquidation(gain)
  /\ UNCHANGED <<vaultVars, moneyVars, clientVars, collector, mempool, fromOthers>>

OtherDeposits ==
  /\ \E amount \in Amounts :
       /\ fromOthers + amount <= MaxFromOthers
       /\ DepositProfit(Other, amount, Other)
       /\ fromOthers' = fromOthers + amount
  /\ UNCHANGED <<executorVars, moneyVars, clientVars, collector, mempool>>

\* withdraw() pays its caller.  The bot deposits for its own address, so what its
\* owner withdraws with the bot's key is back in the wallet that deposits draw on.
Withdrawal ==
  /\ \E u \in Users : \E amount \in 1..userBalances[u] :
       /\ Withdraw(u, amount)
       /\ wallet' = IF u = Bot THEN wallet + amount ELSE wallet
  /\ UNCHANGED <<executorVars, allowance, clientVars, collector, mempool, fromOthers>>

\* The administrator and the platform have addresses of their own.
VaultCall ==
  /\ \/ \E w \in Wallets : SetPlatformWallet(w)
     \/ \E u \in Users : GrantOrRevokeBotRole(u)
     \/ PauseOrUnpause
     \/ \E amount \in 1..balance : EmergencyRescue(amount)
  /\ UNCHANGED <<executorVars, moneyVars, clientVars, collector, mempool, fromOthers>>

Next ==
  \/ \E t \in Tasks : DepositTask(t)
  \/ Collector \/ Mine \/ Trade \/ OtherDeposits \/ Withdrawal \/ VaultCall

Spec == Init /\ [][Next]_vars

-----------------------------------------------------------------------------
(***************************************************************************)
(* The vault can pay what it owes, but for what an emergency rescue took,  *)
(* and its totals add up to the deposits (VaultSolvent and TotalsAddUp of  *)
(* NeuralBotVault), while deposits, approvals and rescues are under way.   *)
(***************************************************************************)
VaultBooks == TypeOK /\ VaultSolvent /\ TotalsAddUp

\* A deposit whose task was alone, from its start until its last transaction was
\* mined, reverts only if the vault is paused or has withdrawn the bot's role:
\* what the client checks (balance, allowance) still holds when it is mined,
\* whatever allowance earlier deposits have left behind.
AloneDepositsArrive == \A t \in Tasks : task[t].receipt = "short" => clash[t]

\* What the executor holds, the wallet has, the vault owes its users and the
\* platform has been paid, and what the loans have cost, is covered by the profit
\* the executor counted, by what the wallet had at the start and by the deposits
\* of the other bot: no late or repeated rescue, no failed deposit, no withdrawal
\* and no share deposited a second time makes money out of nothing.
Shares == SumOf(userBalances) + SumOf(paid)
ProfitCoversAll ==
  held + wallet + Shares + totalTrades * Premium
    <= InitialWallet + totalProfit + fromOthers

\* When every task has come to its end, none of them by an error or a timeout and
\* none with a reverted deposit, the client has counted what the vault has got:
\* these two, and nothing in the order of the tasks, make the counts differ.
CountsAgree ==
  (\A t \in Tasks : task[t].at \in {"idle", "done"} /\ task[t].receipt \in {"none", "done"})
    => counted = totals.deposited - fromOthers

=============================================================================
