--------------------------- MODULE NeuralBotVault ---------------------------
(***************************************************************************)
(* The contract src/contracts/NeuralBotVault.sol.  A call is a transaction *)
(* of its own: it happens in one piece or, when a require fails, not at    *)
(* all.  Amounts are whole units of the deposit token.                     *)
(* A definition marked `Slip:' is a plausible mistake, kept to test the    *)
(* properties with; nothing uses it.                                       *)
(***************************************************************************)
EXTENDS Integers, FiniteSets, Functions

CONSTANTS
  Users,     \* addresses with a balance in the vault
  Wallets    \* addresses the platform uses for its share

VARIABLES
  balance,             \* depositToken.balanceOf(vault)
  userBalances,
  platformWallet,
  paid,                \* what each wallet of the platform has received
  totals,              \* totalDeposited, ...PlatformShare, ...UserShare, ...Withdrawn
  botRole,             \* the holders of BOT_ROLE
  paused,
  rescued              \* history: deposit tokens taken by emergencyRescue()

ASSUME VaultAssumption == IsFiniteSet(Users) /\ IsFiniteSet(Wallets)

vaultVars == <<balance, userBalances, platformWallet, paid, totals, botRole, paused, rescued>>

PLATFORM_SHARE_BPS == 7500
BPS_DENOMINATOR == 10000

VaultTypeOK ==
  /\ balance \in Nat /\ rescued \in Nat
  /\ userBalances \in [Users -> Nat] /\ paid \in [Wallets -> Nat]
  /\ platformWallet \in Wallets
  /\ totals \in [deposited : Nat, platform : Nat, user : Nat, withdrawn : Nat]
  /\ botRole \subseteq Users /\ paused \in BOOLEAN

VaultInit ==
  /\ balance = 0 /\ rescued = 0
  /\ userBalances = [u \in Users |-> 0] /\ paid = [w \in Wallets |-> 0]
  /\ platformWallet \in Wallets
  /\ totals = [deposited |-> 0, platform |-> 0, user |-> 0, withdrawn |-> 0]
  /\ botRole = {} /\ paused = FALSE

PlatformPart(amount) == (amount * PLATFORM_SHARE_BPS) \div BPS_DENOMINATOR

\* Slip: the user's part is rounded down like the platform's.
UserPartRounded(amount) == (amount * (BPS_DENOMINATOR - PLATFORM_SHARE_BPS)) \div BPS_DENOMINATOR

\* "Avoids rounding loss": the user gets the rest.
UserPart(amount) == amount - PlatformPart(amount)

\* depositProfit(amount, user), called by an address; what it needs of the token
\* contract, balance and allowance, is its caller's to check.
MayDeposit(bot) == ~paused /\ bot \in botRole

DepositProfit(bot, amount, user) ==
  /\ MayDeposit(bot) /\ amount > 0
  /\ balance' = balance + UserPart(amount)
  /\ userBalances' = [userBalances EXCEPT ![user] = @ + UserPart(amount)]
  /\ paid' = [paid EXCEPT ![platformWallet] = @ + PlatformPart(amount)]
  /\ totals' = [totals EXCEPT !.deposited = @ + amount,
                              !.platform = @ + PlatformPart(amount),
                              !.user = @ + UserPart(amount)]
  /\ UNCHANGED <<platformWallet, botRole, paused, rescued>>

\* Slip: withdrawAll() pays the balance and forgets to clear it.
WithdrawKeepsBalance(user, amount) ==
  /\ ~paused /\ amount > 0 /\ amount <= userBalances[user] /\ amount <= balance
  /\ userBalances' = userBalances
  /\ totals' = [totals EXCEPT !.withdrawn = @ + amount]
  /\ balance' = balance - amount
  /\ UNCHANGED <<platformWallet, paid, botRole, paused, rescued>>

\* withdraw(amount); withdrawAll() is the withdrawal of the whole balance.  The
\* transfer fails when the vault does not hold the amount.
Withdraw(user, amount) ==
  /\ ~paused /\ amount > 0 /\ amount <= userBalances[user] /\ amount <= balance
  /\ userBalances' = [userBalances EXCEPT ![user] = @ - amount]
  /\ totals' = [totals EXCEPT !.withdrawn = @ + amount]
  /\ balance' = balance - amount
  /\ UNCHANGED <<platformWallet, paid, botRole, paused, rescued>>

SetPlatformWallet(w) ==
  /\ platformWallet' = w
  /\ UNCHANGED <<balance, userBalances, paid, totals, botRole, paused, rescued>>

GrantOrRevokeBotRole(bot) ==
  /\ botRole' \in {botRole \cup {bot}, botRole \ {bot}}
  /\ UNCHANGED <<balance, userBalances, platformWallet, paid, totals, paused, rescued>>

PauseOrUnpause ==
  /\ paused' = ~paused
  /\ UNCHANGED <<balance, userBalances, platformWallet, paid, totals, botRole, rescued>>

\* emergencyRescue(depositToken, amount): the balances owed stay as they are.
EmergencyRescue(amount) ==
  /\ amount > 0 /\ amount <= balance
  /\ balance' = balance - amount /\ rescued' = rescued + amount
  /\ UNCHANGED <<userBalances, platformWallet, paid, totals, botRole, paused>>

SumOf(f) == FoldFunction(LAMBDA x, y : x + y, 0, f)

\* What the vault holds, together with what the administrator has rescued, is
\* what it owes its users: no rounding, pause, change of wallet or withdrawal
\* leaves it short; only emergencyRescue() of the deposit token does.
VaultSolvent == balance + rescued = SumOf(userBalances)

\* The four totals agree with each other and with the balances: every deposit is
\* split without remainder, and the users' shares are either withdrawn or owed.
TotalsAddUp ==
  /\ totals.deposited = totals.platform + totals.user
  /\ totals.user = SumOf(userBalances) + totals.withdrawn
  /\ totals.platform = SumOf(paid)
=============================================================================
