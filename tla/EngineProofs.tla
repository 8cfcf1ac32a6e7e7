---------------------------- MODULE EngineProofs ----------------------------
(***************************************************************************)
(* Proofs about what the engine of src/src/core/engine.py runs: its life   *)
(* cycle (Lifecycle), the capital it moves (Treasury) and the strategies   *)
(* that only ask (AdvancedStrategies).                                     *)
(***************************************************************************)
EXTENDS Lifecycle, Treasury, AdvancedStrategies, TLAPS

-----------------------------------------------------------------------------
(***************************************************************************)
(* The life cycle, for any number of signals and sleeping loops.           *)
(*                                                                         *)
(* ShutdownIsFinal is not inductive: why the worker has its session, and   *)
(* why a shutdown that is further on finds everything as it left it,       *)
(* depends on how far the boot and the other shutdowns are.  LifecycleInv  *)
(* adds what each stage of the boot and each step of a shutdown has behind *)
(* it.                                                                     *)
(***************************************************************************)
HttpStages == {"rpc", "nonce", "strategies", "vault", "reporter", "advanced",
               "partykit", "initialized"}
WorkerStages == {"advanced", "partykit", "initialized", "running"}

\* What the boot has done when it is at a stage.
BootOrder ==
  /\ stage \in HttpStages => http_session = "open"
  /\ stage \in WorkerStages => worker # "none"
  /\ worker \in {"working", "cancelled"} => http_session = "open"
  /\ \A s \in Signals : shutdown[s] # "none" => stage = "running"

\* What a shutdown has done when it waits somewhere, and no one undoes.
ShutdownOrder ==
  /\ partykit = "closed" => ~connected
  /\ \A s \in Signals :
       /\ shutdown[s] \in {"worker", "socket", "http", "done"} =>
            ~running /\ ~scanner_running
       /\ shutdown[s] \in {"socket", "http", "done"} => worker = "ended"
       /\ shutdown[s] \in {"http", "done"} => partykit = "closed"
       /\ shutdown[s] = "done" => http_session = "closed"

LifecycleInv == TypeOK /\ BootOrder /\ ShutdownOrder

(***************************************************************************)
(* The stages of the boot follow each other in the order of Stages.        *)
(***************************************************************************)
LEMMA StageOrder ==
  /\ NextStage("wallet") = "http"
  /\ NextStage("http") = "rpc"
  /\ NextStage("rpc") = "nonce"
  /\ NextStage("nonce") = "strategies"
  /\ NextStage("strategies") = "vault"
  /\ NextStage("vault") = "reporter"
  /\ NextStage("reporter") = "advanced"
  /\ NextStage("advanced") = "partykit"
<1>1. DOMAIN Stages = 1..11
  BY DEF Stages
<1>2. /\ Stages[1] = "wallet" /\ Stages[2] = "http" /\ Stages[3] = "rpc"
      /\ Stages[4] = "nonce" /\ Stages[5] = "strategies" /\ Stages[6] = "vault"
      /\ Stages[7] = "reporter" /\ Stages[8] = "advanced" /\ Stages[9] = "partykit"
      /\ Stages[10] = "initialized" /\ Stages[11] = "running"
  BY DEF Stages
<1>3. \A i, j \in 1..11 : Stages[i] = Stages[j] => i = j
  BY <1>2
<1>4. \A k \in 1..11 : (CHOOSE i \in DOMAIN Stages : Stages[i] = Stages[k]) = k
  BY <1>1, <1>3
<1>5. \A k \in 1..11 : NextStage(Stages[k]) = Stages[1 + k]
  BY <1>4 DEF NextStage
<1>6. QED
  BY <1>2, <1>5

LEMMA StageNames ==
  {Stages[i] : i \in DOMAIN Stages} =
    {"wallet", "http", "rpc", "nonce", "strategies", "vault", "reporter",
     "advanced", "partykit", "initialized", "running"}
<1>1. DOMAIN Stages = 1..11
  BY DEF Stages
<1>2. /\ Stages[1] = "wallet" /\ Stages[2] = "http" /\ Stages[3] = "rpc"
      /\ Stages[4] = "nonce" /\ Stages[5] = "strategies" /\ Stages[6] = "vault"
      /\ Stages[7] = "reporter" /\ Stages[8] = "advanced" /\ Stages[9] = "partykit"
      /\ Stages[10] = "initialized" /\ Stages[11] = "running"
  BY DEF Stages
<1>3. \A i \in 1..11 : i = 1 \/ i = 2 \/ i = 3 \/ i = 4 \/ i = 5 \/ i = 6 \/ i = 7
                     \/ i = 8 \/ i = 9 \/ i = 10 \/ i = 11
  OBVIOUS
<1>4. QED
  BY <1>1, <1>2, <1>3

LEMMA LifecycleInit == Init => LifecycleInv
<1> SUFFICES ASSUME Init PROVE LifecycleInv
  OBVIOUS
<1>1. stage \in {Stages[i] : i \in DOMAIN Stages}
  BY StageNames DEF Init
<1>2. /\ running \in BOOLEAN /\ scanner_running \in BOOLEAN /\ connected \in BOOLEAN
      /\ http_session \in Sessions /\ partykit \in Sessions
      /\ worker \in {"none", "working", "cancelled", "ended"}
  BY DEF Init, Sessions
<1>3. /\ restarts \in 0..MaxRestarts
      /\ pk_interval \in 0..1
  BY LifecycleAssumption DEF Init
<1>4. /\ task \in [Tasks -> {"off", "waiting", "connecting", "streaming", "sending",
                            "starting", "backoff"} \cup Over]
      /\ shutdown \in [Signals -> {"none", "created", "worker", "socket", "http", "done"}]
  BY DEF Init
<1>5. TypeOK
  BY <1>1, <1>2, <1>3, <1>4 DEF TypeOK
<1>6. BootOrder /\ ShutdownOrder
  BY DEF Init, BootOrder, ShutdownOrder, HttpStages, WorkerStages
<1>7. QED BY <1>5, <1>6 DEF LifecycleInv

(***************************************************************************)
(* The boot: each step leaves behind what the next stages count on.        *)
(***************************************************************************)
LEMMA BootKeeps ==
  LifecycleInv /\ (Boot \/ BootFails \/ BootPartyKit \/ Run) => LifecycleInv'
<1> SUFFICES ASSUME LifecycleInv, Boot \/ BootFails \/ BootPartyKit \/ Run
             PROVE  LifecycleInv'
  OBVIOUS
<1> USE StageNames
    DEF LifecycleInv, TypeOK, BootOrder, ShutdownOrder, Sessions, HttpStages, WorkerStages
<1>0. stage # "running" /\ \A s \in Signals : shutdown[s] = "none"
  BY DEF Boot, BootFails, BootPartyKit, Run
<1>1. CASE Boot
  <2>1. CASE stage = "http"
    BY <1>0, <1>1, <2>1, StageOrder DEF Boot
  <2>2. CASE stage = "reporter"
    BY <1>0, <1>1, <2>2, StageOrder DEF Boot
  <2>3. CASE stage \in {"wallet", "rpc", "nonce", "strategies", "vault", "advanced"}
    BY <1>0, <1>1, <2>3, StageOrder DEF Boot
  <2>4. QED BY <1>1, <2>1, <2>2, <2>3 DEF Boot
<1>2. CASE BootFails
  BY <1>0, <1>2 DEF BootFails
<1>3. CASE BootPartyKit
  BY <1>0, <1>3 DEF BootPartyKit
<1>4. CASE Run
  <2>1. \A t \in Tasks : FirstWait(t) \in {"connecting", "starting", "ended", "waiting"}
    BY DEF FirstWait, MevFirstWait
  <2>2. QED BY <1>0, <1>4, <2>1 DEF Run, Over
<1>5. QED BY <1>1, <1>2, <1>3, <1>4

(***************************************************************************)
(* The loops: they move themselves, and the dashboard's connection only    *)
(* where its session is open.                                              *)
(***************************************************************************)
LEMMA LoopsKeep ==
  ASSUME LifecycleInv,
         \/ \E t \in Sleepers : SleeperEnds(t)
         \/ ScannerEnds
         \/ FeedConnects \/ FeedLost \/ FeedTick \/ FeedAgain
         \/ HealthServes \/ HealthEnds \/ HealthFails \/ HealthAgain
         \/ HudTurn \/ HudPush \/ PeerCloses
  PROVE  LifecycleInv'
<1>1. task' \in [Tasks -> {"off", "waiting", "connecting", "streaming", "sending",
                          "starting", "backoff"} \cup Over]
  BY DEF LifecycleInv, TypeOK, SleeperEnds, ScannerEnds, FeedConnects, FeedLost,
         FeedTick, FeedAgain, HealthServes, HealthEnds, HealthFails, HealthAgain,
         HudTurn, HudPush, HudConnects, HudConnectFails, HudSent, PeerCloses,
         Moves, HudHead, Over, Tasks, Watching
<1>2. /\ restarts' \in 0..MaxRestarts
      /\ pk_interval' \in 0..1
  <2>0. restarts \in 0..MaxRestarts /\ pk_interval \in 0..1 /\ MaxRestarts \in Nat
    BY LifecycleAssumption DEF LifecycleInv, TypeOK
  <2>1. CASE HealthFails
    <3>1. UNCHANGED pk_interval
      BY <2>1 DEF HealthFails
    <3>2. \/ restarts' = restarts
          \/ restarts < MaxRestarts /\ restarts' = restarts + 1
      <4>1. restarts >= MaxRestarts \/ restarts < MaxRestarts
        BY <2>0
      <4>2. QED BY <2>1, <4>1 DEF HealthFails
    <3>3. QED BY <2>0, <3>1, <3>2
  <2>2. CASE HudTurn
    BY <2>0, <2>2 DEF HudTurn
  <2>3. CASE UNCHANGED <<restarts, pk_interval>>
    BY <2>0, <2>3
  <2>4. QED
    BY <2>1, <2>2, <2>3
       DEF SleeperEnds, ScannerEnds, FeedConnects, FeedLost, FeedTick, FeedAgain,
           HealthServes, HealthEnds, HealthAgain, HudPush, HudConnects,
           HudConnectFails, HudSent, PeerCloses, Moves
<1>3. /\ connected' \in BOOLEAN
      /\ partykit = "closed" => ~connected'
  <2>0. connected \in BOOLEAN /\ (partykit = "closed" => ~connected)
    BY DEF LifecycleInv, TypeOK, ShutdownOrder
  <2>1. CASE HudPush
    <3>1. CASE HudConnects
      BY <3>1 DEF HudConnects
    <3>2. CASE HudConnectFails
      BY <3>2 DEF HudConnectFails
    <3>3. ASSUME NEW ok \in BOOLEAN, HudSent(ok)
          PROVE  connected' = ok /\ (ok => connected)
      BY <3>3 DEF HudSent
    <3>4. QED BY <2>0, <2>1, <3>1, <3>2, <3>3 DEF HudPush
  <2>2. CASE PeerCloses
    BY <2>2 DEF PeerCloses
  <2>3. CASE UNCHANGED connected
    BY <2>0, <2>3
  <2>4. QED
    BY <2>1, <2>2, <2>3
       DEF SleeperEnds, ScannerEnds, FeedConnects, FeedLost, FeedTick, FeedAgain,
           HealthServes, HealthEnds, HealthFails, HealthAgain, HudTurn, Moves
<1>4. UNCHANGED <<stage, running, scanner_running, http_session, worker, partykit, shutdown>>
  BY DEF SleeperEnds, ScannerEnds, FeedConnects, FeedLost, FeedTick, FeedAgain,
         HealthServes, HealthEnds, HealthFails, HealthAgain, HudTurn, HudPush,
         HudConnects, HudConnectFails, HudSent, PeerCloses, Moves
<1>5. QED
  BY <1>1, <1>2, <1>3, <1>4
     DEF LifecycleInv, TypeOK, BootOrder, ShutdownOrder

(***************************************************************************)
(* The shutdowns, each waiting at its own place.                           *)
(***************************************************************************)
LEMMA ShutdownKeeps ==
  ASSUME LifecycleInv, NEW s \in Signals, Signal(s) \/ Progress(s)
  PROVE  LifecycleInv'
<1> USE DEF LifecycleInv, TypeOK, BootOrder, ShutdownOrder, Sessions, WorkerStages, HttpStages
<1>1. CASE Signal(s)
  BY <1>1 DEF Signal
<1>2. CASE Begin(s)
  BY <1>2 DEF Begin, Disconnect, CloseSession
<1>3. CASE AfterReporter(s)
  BY <1>3 DEF AfterReporter, Disconnect, CloseSession
<1>4. CASE AfterSocket(s)
  BY <1>4 DEF AfterSocket, CloseSession
<1>5. CASE CloseHttp(s)
  BY <1>5 DEF CloseHttp
<1>6. QED BY <1>1, <1>2, <1>3, <1>4, <1>5 DEF Progress

LEMMA WorkerKeeps == LifecycleInv /\ WorkerEnds => LifecycleInv'
  BY DEF LifecycleInv, TypeOK, BootOrder, ShutdownOrder, WorkerEnds, WorkerStages

(***************************************************************************)
(* LifecycleInv holds in every state.                                      *)
(***************************************************************************)
THEOREM LifecycleInvariant == Spec => []LifecycleInv
<1>1. LifecycleInv /\ [Next]_vars => LifecycleInv'
  <2> SUFFICES ASSUME LifecycleInv, [Next]_vars PROVE LifecycleInv'
    OBVIOUS
  <2>1. CASE UNCHANGED vars
    BY <2>1 DEF vars, LifecycleInv, TypeOK, BootOrder, ShutdownOrder
  <2>2. CASE Next
    BY <2>2, BootKeeps, LoopsKeep, ShutdownKeeps, WorkerKeeps DEF Next
  <2>3. QED BY <2>1, <2>2
<1>2. QED BY LifecycleInit, <1>1, PTL DEF Spec

(***************************************************************************)
(* For any number of signals: a finished shutdown has closed everything,   *)
(* nothing opens again, and the reporter's worker never loses its session. *)
(***************************************************************************)
THEOREM ShutdownIsFinalTheorem == Spec => []ShutdownIsFinal
<1>1. LifecycleInv => ShutdownIsFinal
  BY DEF LifecycleInv, BootOrder, ShutdownOrder, ShutdownIsFinal
<1>2. QED BY LifecycleInvariant, <1>1, PTL

-----------------------------------------------------------------------------
(***************************************************************************)
(* The treasury, for any profits, any total and any number of commands.    *)
(* Rounded divisions enter as bounds.  What the command borrows is known   *)
(* only because nothing ever changes available_borrow.                     *)
(***************************************************************************)
TreasuryInv == DebtFollowsProfit /\ account.available_borrow = 25000

\* A tenth, a fifth, four fifths: rounded down.
LEMMA Tenths ==
  ASSUME NEW n \in Nat, NEW k \in {2, 3, 8}
  PROVE  (n * k) \div 10 \in Nat /\ 10 * ((n * k) \div 10) <= n * k
<1>1. CASE k = 2
  BY <1>1
<1>2. CASE k = 3
  BY <1>2
<1>3. CASE k = 8
  BY <1>3
<1>4. QED BY <1>1, <1>2, <1>3

LEMMA MoreProfit ==
  ASSUME NEW d \in Int, NEW t \in Nat, NEW p \in Nat, 10 * d <= 96 * t
  PROVE  10 * d <= 96 * (t + p)
OBVIOUS

LEMMA AccountParts ==
  ASSUME NEW a, a \in Account
  PROVE  a.health_factor \in Nat /\ a.collateral \in Nat /\ a.debt \in Nat
         /\ a.available_borrow \in Nat
BY DEF Account

LEMMA BorrowIs ==
  ASSUME NEW a, a \in Account, NEW n, n \in Nat
  PROVE  /\ Borrow(a, n) \in Account /\ Borrow(a, n).collateral = a.collateral
         /\ Borrow(a, n).debt = a.debt + n /\ Borrow(a, n).available_borrow = a.available_borrow
BY DEF Account, Borrow

LEMMA AccountChanges ==
  ASSUME NEW a, a \in Account, NEW n, n \in Nat
  PROVE  /\ Supply(a, n) \in Account /\ Supply(a, n).collateral = a.collateral + n
         /\ Supply(a, n).debt = a.debt /\ Supply(a, n).available_borrow = a.available_borrow
         /\ Borrow(a, n) \in Account /\ Borrow(a, n).collateral = a.collateral
         /\ Borrow(a, n).debt = a.debt + n /\ Borrow(a, n).available_borrow = a.available_borrow
         /\ EmergencyRepay(a) \in Account /\ EmergencyRepay(a).collateral = a.collateral
         /\ EmergencyRepay(a).debt = (IF a.debt > 5000 THEN a.debt - 5000 ELSE 0)
         /\ EmergencyRepay(a).available_borrow = a.available_borrow
         /\ SoftRebalance(a) \in Account /\ SoftRebalance(a).collateral = a.collateral
         /\ SoftRebalance(a).debt = a.debt
         /\ SoftRebalance(a).available_borrow = a.available_borrow
<1> USE DEF Account
<1>1. /\ Supply(a, n) \in Account /\ Supply(a, n).collateral = a.collateral + n
      /\ Supply(a, n).debt = a.debt /\ Supply(a, n).available_borrow = a.available_borrow
  BY DEF Supply
<1>2. /\ Borrow(a, n) \in Account /\ Borrow(a, n).collateral = a.collateral
      /\ Borrow(a, n).debt = a.debt + n /\ Borrow(a, n).available_borrow = a.available_borrow
  BY BorrowIs
<1>3. /\ EmergencyRepay(a) \in Account /\ EmergencyRepay(a).collateral = a.collateral
      /\ EmergencyRepay(a).debt = (IF a.debt > 5000 THEN a.debt - 5000 ELSE 0)
      /\ EmergencyRepay(a).available_borrow = a.available_borrow
  BY DEF EmergencyRepay
<1>4. /\ SoftRebalance(a) \in Account /\ SoftRebalance(a).collateral = a.collateral
      /\ SoftRebalance(a).debt = a.debt
      /\ SoftRebalance(a).available_borrow = a.available_borrow
  BY DEF SoftRebalance
<1>5. QED BY <1>1, <1>2, <1>3, <1>4

\* The scaling FSM raises the debt by a fifth, and only a debt of at most eight
\* times the profit.
LEMMA ScalingIsBounded ==
  ASSUME TreasuryAssumption, TreasuryTypeOK, NEW a, a \in Account
  PROVE  LET b == EvaluateAndExecute(a) IN
         /\ b \in Account /\ b.available_borrow = a.available_borrow
         /\ \/ b = a
            \/ 10 * b.debt <= 96 * total /\ 10 * b.collateral >= 18 * b.debt
<1> DEFINE deposit == (AvailableProfit * 8) \div 10
           more == (a.debt * 2) \div 10
<1>1. /\ total \in Nat /\ a.debt \in Nat /\ a.collateral \in Nat
  BY AccountParts DEF TreasuryTypeOK, TreasuryAssumption
<1>2. AvailableProfit \in Nat /\ 10 * AvailableProfit <= 8 * total
  BY <1>1, Tenths DEF AvailableProfit
<1>3. deposit \in Nat /\ more \in Nat /\ 10 * more <= 2 * a.debt
  BY <1>1, <1>2, Tenths
<1>4. CASE EvaluateAndExecute(a) = a
  BY <1>4
<1>5. CASE EvaluateAndExecute(a) # a
  <2>1. /\ ShouldIncreaseBorrow(a)
        /\ EvaluateAndExecute(a) = IF (a.collateral + deposit) * 10 >= 18 * (a.debt + more)
                                   THEN Borrow(Supply(a, deposit), more) ELSE a
    BY <1>5 DEF EvaluateAndExecute, IncreaseBorrow
  <2>2. /\ (a.collateral + deposit) * 10 >= 18 * (a.debt + more)
        /\ EvaluateAndExecute(a) = Borrow(Supply(a, deposit), more)
    BY <1>5, <2>1
  <2>3. AvailableProfit * 10 >= a.debt
    BY <2>1 DEF ShouldIncreaseBorrow
  <2> DEFINE b == EvaluateAndExecute(a)
  <2> HIDE DEF deposit, more, b
  <2>4. /\ b \in Account /\ b.debt = a.debt + more /\ b.collateral = a.collateral + deposit
        /\ b.available_borrow = a.available_borrow
    BY <1>3, <2>2, AccountChanges DEF b
  <2>5. 10 * b.debt <= 96 * total
    BY ONLY <1>1, <1>2, <1>3, <2>3, <2>4
  <2>6. 10 * b.collateral >= 18 * b.debt
    BY ONLY <1>1, <1>3, <2>2, <2>4
  <2>7. QED BY <2>4, <2>5, <2>6 DEF b
<1>6. QED BY <1>4, <1>5

(***************************************************************************)
(* However often one profit is reinvested, debt and collateral stay within *)
(* their bounds, but for what the operator borrows.                        *)
(***************************************************************************)
THEOREM DebtFollowsProfitTheorem == TreasurySpec => []DebtFollowsProfit
<1>1. TreasuryInit => TreasuryInv
  BY TreasuryAssumption
     DEF TreasuryInit, TreasuryInv, DebtFollowsProfit, TreasuryTypeOK, Account
<1>2. TreasuryInv /\ [TreasuryNext]_treasuryVars => TreasuryInv'
  <2> SUFFICES ASSUME TreasuryInv, [TreasuryNext]_treasuryVars
               PROVE  TreasuryInv'
    OBVIOUS
  <2> DEFINE hand == 7500 * borrowed
             Bounded(a, t, h) == /\ 10 * (a.debt - h) <= 96 * t \/ a.debt - h <= 40000
                                 /\ 10 * a.collateral >= 18 * (a.debt - h)
  <2>1. /\ TreasuryTypeOK /\ account.available_borrow = 25000
        /\ account \in Account /\ shown \in Account /\ total \in Nat /\ total <= MaxTotal
        /\ commands \in Nat /\ commands <= MaxCommands /\ borrowed \in Nat /\ borrowed <= commands
        /\ MaxTotal \in Nat /\ MaxCommands \in Nat
    BY TreasuryAssumption DEF TreasuryInv, DebtFollowsProfit, TreasuryTypeOK
  <2>2. Bounded(account, total, hand)
    BY DEF TreasuryInv, DebtFollowsProfit
  <2>3. account.debt \in Nat /\ account.collateral \in Nat /\ hand \in Nat
    BY <2>1, AccountParts
  <2>4. SUFFICES /\ account' \in Account /\ shown' \in Account /\ account'.available_borrow = 25000
                 /\ total' \in 0..MaxTotal /\ commands' \in 0..MaxCommands
                 /\ borrowed' \in 0..commands' /\ Bounded(account', total', 7500 * borrowed')
    BY <2>4 DEF TreasuryInv, DebtFollowsProfit, TreasuryTypeOK
  <2>5. CASE Profit
    <3>1. PICK p \in PROFITS : total' = total + p
      BY <2>5 DEF Profit
    <3>2. p \in Nat /\ total' <= MaxTotal /\ UNCHANGED <<account, shown, commands, borrowed>>
      BY <2>5, TreasuryAssumption DEF Profit
    <3>3. total' \in 0..MaxTotal
      BY ONLY <2>1, <3>1, <3>2
    <3>4. Bounded(account, total', hand)
      <4>1. account.debt - hand \in Int /\ total \in Nat /\ p \in Nat
        BY <2>1, <2>3, <3>2
      <4>2. 10 * (account.debt - hand) <= 96 * total => 10 * (account.debt - hand) <= 96 * (total + p)
        BY ONLY <4>1, MoreProfit
      <4>3. Bounded(account, total + p, hand)
        BY <2>2, <4>2
      <4>4. QED BY <3>1, <4>3
    <3>5. QED BY <2>1, <3>2, <3>3, <3>4
  <2>6. ASSUME account' = EmergencyRepay(account), UNCHANGED <<total, borrowed>>
        PROVE  /\ account' \in Account /\ account'.available_borrow = 25000
               /\ Bounded(account', total', 7500 * borrowed')
    <3>1. /\ account' \in Account /\ account'.available_borrow = 25000
          /\ account'.debt = (IF account.debt > 5000 THEN account.debt - 5000 ELSE 0)
          /\ account'.collateral = account.collateral
      BY <2>1, <2>6, AccountChanges
    <3>2. account'.debt \in Nat /\ (account'.debt <= account.debt)
      BY ONLY <2>3, <3>1
    <3>3. Bounded(account', total, hand)
      BY ONLY <2>1, <2>2, <2>3, <3>1, <3>2
    <3>4. QED BY <2>6, <3>1, <3>3
  <2>7. CASE CheckScaling
    <3>1. account' = EvaluateAndExecute(account) /\ UNCHANGED <<total, shown, commands, borrowed>>
      BY <2>7 DEF CheckScaling
    <3>2. /\ account' \in Account /\ account'.available_borrow = 25000
          /\ \/ account' = account
             \/ 10 * account'.debt <= 96 * total /\ 10 * account'.collateral >= 18 * account'.debt
      BY <2>1, <3>1, ScalingIsBounded, TreasuryAssumption
    <3>3. account'.debt \in Nat /\ account'.collateral \in Nat
      BY <3>2, AccountParts
    <3>4. Bounded(account', total, hand)
      <4>1. CASE account' = account
        BY <2>2, <4>1
      <4>2. CASE 10 * account'.debt <= 96 * total /\ 10 * account'.collateral >= 18 * account'.debt
        BY ONLY <2>1, <2>3, <3>3, <4>2
      <4>3. QED BY <3>2, <4>1, <4>2
    <3>5. QED BY <2>1, <3>1, <3>2, <3>4
  <2>8. CASE CapitalMonitor
    <3>1. shown' = account /\ UNCHANGED <<total, commands, borrowed>>
      BY <2>8 DEF CapitalMonitor
    <3>2. CASE account' = EmergencyRepay(account)
      BY <2>1, <2>6, <3>1, <3>2
    <3>3. CASE account' = SoftRebalance(account)
      <4>1. /\ account' \in Account /\ account'.available_borrow = 25000
            /\ account'.debt = account.debt /\ account'.collateral = account.collateral
        BY <2>1, <3>3, AccountChanges
      <4>2. QED BY <2>1, <2>2, <3>1, <4>1
    <3>4. CASE account' = account
      BY <2>1, <2>2, <3>1, <3>4
    <3>5. QED BY <2>8, <3>2, <3>3, <3>4 DEF CapitalMonitor
  <2>9. ASSUME Command
        PROVE  /\ UNCHANGED <<total, shown>> /\ commands' \in 0..MaxCommands
               /\ commands' = commands + 1
    BY <2>1, <2>9 DEF Command
  <2>10. CASE DepositProfits
    <3>1. Command /\ borrowed' = borrowed /\ account' = Supply(account, AvailableProfit)
      BY <2>10 DEF DepositProfits
    <3>2. AvailableProfit \in Nat
      BY <2>1, Tenths DEF AvailableProfit
    <3>3. /\ account' \in Account /\ account'.available_borrow = 25000
          /\ account'.debt = account.debt /\ account'.collateral = account.collateral + AvailableProfit
      BY <2>1, <3>1, <3>2, AccountChanges
    <3>4. Bounded(account', total, hand)
      BY ONLY <2>1, <2>2, <2>3, <3>2, <3>3
    <3>5. QED BY <2>1, <2>9, <3>1, <3>3, <3>4
  <2>11. CASE IncreaseBorrowCommand
    <3>1. /\ Command /\ borrowed' = borrowed + 1
          /\ account' = Borrow(account, (account.available_borrow * 3) \div 10)
      BY <2>11 DEF IncreaseBorrowCommand
    <3>2. account' = Borrow(account, 7500) /\ 7500 \in Nat
      <4>1. (25000 * 3) \div 10 = 7500
        OBVIOUS
      <4>2. QED BY <2>1, <3>1, <4>1
    <3>3. /\ account' \in Account /\ account'.available_borrow = 25000
          /\ account'.debt = account.debt + 7500 /\ account'.collateral = account.collateral
      <4>1. account \in Account /\ account.available_borrow = 25000 /\ 7500 \in Nat
        BY <2>1
      <4> DEFINE n == 7500
      <4>2. n \in Nat /\ account' = Borrow(account, n)
        BY <3>2, <4>1
      <4> HIDE DEF n
      <4>3. /\ Borrow(account, n) \in Account /\ Borrow(account, n).collateral = account.collateral
            /\ Borrow(account, n).debt = account.debt + n
            /\ Borrow(account, n).available_borrow = account.available_borrow
        BY ONLY <4>1, <4>2, BorrowIs
      <4>4. QED BY ONLY <4>1, <4>2, <4>3 DEF n
    <3>4. account'.debt - 7500 * borrowed' = account.debt - hand
      BY ONLY <2>1, <2>3, <3>1, <3>3
    <3>5. Bounded(account', total, 7500 * borrowed')
      BY <2>2, <3>3, <3>4
    <3>6. QED BY <2>1, <2>9, <3>1, <3>3, <3>5
  <2>12. CASE EmergencyRepayCommand
    <3>1. Command /\ borrowed' = borrowed /\ account' = EmergencyRepay(account)
      BY <2>12 DEF EmergencyRepayCommand
    <3>2. QED BY <2>1, <2>6, <2>9, <3>1
  <2>13. CASE UNCHANGED treasuryVars
    BY <2>1, <2>2, <2>13 DEF treasuryVars
  <2>14. QED
    BY <2>5, <2>7, <2>8, <2>10, <2>11, <2>12, <2>13 DEF TreasuryNext
<1>3. TreasuryInv => DebtFollowsProfit
  BY DEF TreasuryInv
<1>4. QED BY <1>1, <1>2, <1>3, PTL DEF TreasurySpec

-----------------------------------------------------------------------------
(***************************************************************************)
(* The advanced strategies, for any markets, swaps, chains, prices and     *)
(* blocks.  AsksAreBacked speaks of what was asked; what is still to be    *)
(* asked must be backed as well, and must not have been asked before.      *)
(***************************************************************************)
LowestIn(market, read) == \E k \in DOMAIN read : MARKETS[k] = market /\ read[k] = -500

GmxInv ==
  /\ \A i \in DOMAIN gmx_opps : LowestIn(gmx_opps[i].market, gmx_read)
  /\ \A i, j \in DOMAIN gmx_opps : gmx_opps[i].market = gmx_opps[j].market => i = j
  /\ \A market \in Range(asked.gmx) : LowestIn(market, gmx_read)
  /\ \A i \in DOMAIN gmx_opps : gmx_opps[i].market \notin Range(asked.gmx)
  /\ IsInjective(asked.gmx) /\ Len(asked.gmx) <= 2
  /\ gmx_at = "read" => asked.gmx = << >>
  /\ gmx_at = "ask" => Len(asked.gmx) + Len(gmx_opps) <= 2

MevInv ==
  /\ mev_opps \subseteq mev_batch
  /\ Range(asked.mev) \subseteq mev_batch \ mev_opps
  /\ IsInjective(asked.mev)

XchainInv == asked.cross_chain = {}

YieldInv ==
  rotation.capital >= MIN_CAPITAL => \E p \in Within(rotation.capital) :
    /\ rotation.found = {p}
    /\ \A q \in Within(rotation.capital) : q.apy <= p.apy

AdvancedInv == AdvancedTypeOK /\ GmxInv /\ MevInv /\ XchainInv /\ YieldInv

\* Something new joins a list that repeats nothing.
LEMMA OneNew ==
  ASSUME NEW S, NEW s \in Seq(S), NEW e \in S, IsInjective(s), e \notin Range(s)
  PROVE  /\ Append(s, e) \in Seq(S) /\ Len(Append(s, e)) = Len(s) + 1
         /\ IsInjective(Append(s, e)) /\ Range(Append(s, e)) = Range(s) \cup {e}
<1>1. /\ Append(s, e) \in Seq(S) /\ Len(s) \in Nat /\ Len(Append(s, e)) = Len(s) + 1
      /\ DOMAIN s = 1..Len(s) /\ DOMAIN Append(s, e) = 1..(Len(s) + 1)
      /\ \A i \in DOMAIN s : Append(s, e)[i] = s[i]
      /\ Append(s, e)[Len(s) + 1] = e
  OBVIOUS
<1>2. \A i \in 1..(Len(s) + 1) : i \in 1..Len(s) \/ i = Len(s) + 1
  BY ONLY <1>1
<1>3. \A i \in DOMAIN s : s[i] # e
  BY DEF Range
<1>4. IsInjective(Append(s, e))
  BY <1>1, <1>2, <1>3 DEF IsInjective
<1>5. Range(Append(s, e)) = Range(s) \cup {e}
  <2>1. \A i \in DOMAIN Append(s, e) : Append(s, e)[i] \in Range(s) \cup {e}
    BY <1>1, <1>2 DEF Range
  <2>2. \A i \in DOMAIN s : i \in DOMAIN Append(s, e)
    BY ONLY <1>1
  <2>3. Len(s) + 1 \in DOMAIN Append(s, e)
    BY ONLY <1>1
  <2>4. QED BY <1>1, <2>1, <2>2, <2>3 DEF Range
<1>6. QED BY <1>1, <1>4, <1>5

LEMMA NothingTwice == IsInjective(<< >>) /\ Range(<< >>) = {} /\ Len(<< >>) = 0
BY DEF IsInjective, Range

\* A rate that is worth it is the lowest there is.
LEMMA WorthIsLowest ==
  /\ \A b \in Nat : FundingRate(b) \in -500..499
  /\ \A rate \in -500..499 : WorthFunding(rate) => rate = -500
<1>1. \A b \in Nat : b % 1000 \in 0..999
  OBVIOUS
<1>2. \A b \in Nat : (b % 1000) - 500 \in -500..499
  BY <1>1
<1>3. \A rate \in -500..499 : WorthFunding(rate) => rate = -500
  BY DEF WorthFunding, Size, MIN_FUNDING_RATE
<1>4. QED BY <1>2, <1>3 DEF FundingRate

\* No bridge leads from the one chain with a price to itself.
LEMMA NoBridge ==
  ASSUME price \in Nat
  PROVE  CrossChainOpps = {}
<1> SUFFICES ASSUME NEW route \in BRIDGE_ROUTES,
                    0 < ChainPrice(route.buy), ChainPrice(route.buy) < ChainPrice(route.sell)
             PROVE  FALSE
  BY DEF CrossChainOpps
<1>1. route.buy # "arbitrum" \/ route.sell # "arbitrum"
  BY DEF BRIDGE_ROUTES
<1>2. CASE route.buy # "arbitrum"
  <2>1. ChainPrice(route.buy) = 0
    BY <1>2 DEF ChainPrice
  <2>2. QED BY <2>1
<1>3. CASE route.sell # "arbitrum" /\ route.buy = "arbitrum"
  <2>1. ChainPrice(route.sell) = 0 /\ ChainPrice(route.buy) = price
    BY <1>3 DEF ChainPrice
  <2>2. ~(0 < price /\ price < 0)
    OBVIOUS
  <2>3. QED BY <2>1, <2>2
<1>4. QED BY <1>1, <1>2, <1>3

\* The pool whose yield is best with the risk taken off is the best without:
\* of those that any capital above the least reaches, it is always the same.
LEMMA BestYield ==
  ASSUME NEW capital \in Nat, capital >= MIN_CAPITAL
  PROVE  \E p \in Within(capital) : /\ FindBestYield(capital) = {p}
                                    /\ \A q \in Within(capital) : q.apy <= p.apy
<1> DEFINE glp == [pool |-> "GLP", apy |-> 150, risk |-> 40, min |-> 100]
<1>1. glp \in Within(capital) /\ RiskAdjusted(glp) = 24000
  BY DEF Within, YIELD_SOURCES, MIN_CAPITAL, RiskAdjusted
<1>2. \A q \in YIELD_SOURCES :
        /\ q.apy <= 150 /\ RiskAdjusted(q) \in Nat
        /\ q = glp \/ RiskAdjusted(q) < 24000
  BY DEF YIELD_SOURCES, RiskAdjusted
<1>3. \A q \in Within(capital) : q \in YIELD_SOURCES
  BY DEF Within
<1>4. glp.apy = 150
  OBVIOUS
<1> HIDE DEF glp
<1>5. FindBestYield(capital) =
        {p \in Within(capital) : \A q \in Within(capital) : RiskAdjusted(q) <= RiskAdjusted(p)}
  BY DEF FindBestYield, MIN_CAPITAL
<1>6. \A q \in Within(capital) : RiskAdjusted(q) <= RiskAdjusted(glp)
  BY <1>1, <1>2, <1>3
<1>7. \A p \in Within(capital) : RiskAdjusted(glp) <= RiskAdjusted(p) => p = glp
  BY <1>1, <1>2, <1>3
<1>8. FindBestYield(capital) = {glp}
  BY <1>1, <1>5, <1>6, <1>7
<1>9. QED BY <1>1, <1>2, <1>3, <1>4, <1>8

LEMMA AdvancedStart == AdvancedInit => AdvancedInv
<1> SUFFICES ASSUME AdvancedInit PROVE AdvancedInv
  OBVIOUS
<1> USE DEF AdvancedInit
<1>1. AdvancedTypeOK
  <2>1. block \in FirstBlock..LastBlock
    BY AdvancedAssumption
  <2>2. rotation \in [capital : CAPITALS \cup {0}, found : SUBSET YIELD_SOURCES]
    OBVIOUS
  <2>3. Len(MARKETS) \in Nat
    BY AdvancedAssumption
  <2>4. QED BY <2>1, <2>2, <2>3 DEF AdvancedTypeOK
<1>2. GmxInv /\ MevInv
  BY NothingTwice DEF GmxInv, MevInv
<1>3. XchainInv /\ YieldInv
  BY DEF XchainInv, YieldInv, MIN_CAPITAL
<1>4. QED BY <1>1, <1>2, <1>3 DEF AdvancedInv

GmxItems == [market : Range(MARKETS), rate : -500..499]

LEMMA AdvancedTypes ==
  ASSUME AdvancedTypeOK
  PROVE  /\ block \in Nat /\ block <= LastBlock /\ price \in Nat
         /\ gmx_opps \in Seq(GmxItems) /\ gmx_read \in Seq(-500..499)
         /\ asked \in [gmx : Seq(Range(MARKETS)), mev : Seq(SWAPS), cross_chain : SUBSET BRIDGE_ROUTES]
<1>1. block \in Nat /\ block <= LastBlock /\ price \in Nat
  BY AdvancedAssumption DEF AdvancedTypeOK
<1>2. QED BY <1>1 DEF AdvancedTypeOK, GmxItems

\* The GMX loop touches nothing of the others.
LEMMA GmxApart ==
  ASSUME AdvancedTypeOK, MevInv, XchainInv, YieldInv,
         GmxWakes \/ GmxReads \/ GmxRanks \/ GmxAsks \/ GmxSleeps
  PROVE  MevInv' /\ XchainInv' /\ YieldInv'
<1>1. asked'.mev = asked.mev /\ asked'.cross_chain = asked.cross_chain
  BY DEF AdvancedTypeOK, GmxWakes, GmxReads, GmxRanks, GmxAsks, GmxSleeps
<1>2. UNCHANGED <<mev_batch, mev_opps, rotation>>
  BY DEF GmxWakes, GmxReads, GmxRanks, GmxAsks, GmxSleeps
<1>3. QED BY <1>1, <1>2 DEF MevInv, XchainInv, YieldInv, Within

\* The types that a step leaves alone.
LEMMA GmxTyped ==
  ASSUME AdvancedTypeOK, UNCHANGED <<block, mev_batch, mev_opps, price, rotation>>,
         gmx_at' \in {"sleep", "read", "ask"}, gmx_opps' \in Seq(GmxItems),
         gmx_read' \in Seq(-500..499), Len(gmx_read') <= Len(MARKETS),
         asked' \in [gmx : Seq(Range(MARKETS)), mev : Seq(SWAPS), cross_chain : SUBSET BRIDGE_ROUTES]
  PROVE  AdvancedTypeOK'
BY DEF AdvancedTypeOK, GmxItems

LEMMA GmxReadsKeeps ==
  ASSUME AdvancedTypeOK, GmxInv, GmxReads
  PROVE  AdvancedTypeOK' /\ GmxInv'
<1> DEFINE n == Len(gmx_read) + 1
<1>1. /\ gmx_at = "read" /\ Len(gmx_read) < Len(MARKETS)
      /\ UNCHANGED <<block, gmx_at, mev_batch, mev_opps, price, rotation, asked>>
  BY DEF GmxReads
<1>2. PICK rate \in {FundingRate(block), 0} :
        /\ gmx_read' = Append(gmx_read, rate)
        /\ gmx_opps' = IF WorthFunding(rate)
                       THEN Append(gmx_opps, [market |-> MARKETS[n], rate |-> rate])
                       ELSE gmx_opps
  BY DEF GmxReads
<1>3. rate \in -500..499 /\ (WorthFunding(rate) => rate = -500)
  <2>1. FundingRate(block) \in -500..499
    BY AdvancedTypes, WorthIsLowest
  <2>2. rate \in -500..499
    BY <2>1
  <2>3. QED BY <2>2, WorthIsLowest
<1>4. /\ MARKETS \in Seq(Range(MARKETS)) /\ IsInjective(MARKETS)
      /\ Len(MARKETS) \in Nat /\ DOMAIN MARKETS = 1..Len(MARKETS)
  BY AdvancedAssumption
<1>5. /\ gmx_read \in Seq(-500..499) /\ gmx_opps \in Seq(GmxItems)
      /\ asked \in [gmx : Seq(Range(MARKETS)), mev : Seq(SWAPS), cross_chain : SUBSET BRIDGE_ROUTES]
  BY AdvancedTypes
<1>6. /\ gmx_read' \in Seq(-500..499) /\ Len(gmx_read) \in Nat /\ Len(gmx_read') = n
      /\ DOMAIN gmx_read = 1..Len(gmx_read) /\ DOMAIN gmx_read' = 1..n
      /\ \A i \in DOMAIN gmx_read : gmx_read'[i] = gmx_read[i]
      /\ gmx_read'[n] = rate
  BY ONLY <1>2, <1>3, <1>5
<1>7. n \in DOMAIN MARKETS /\ n \in DOMAIN gmx_read' /\ n \notin DOMAIN gmx_read /\ n <= Len(MARKETS)
  BY ONLY <1>1, <1>4, <1>6
<1>8. MARKETS[n] \in Range(MARKETS)
  BY <1>7 DEF Range
<1>9. \A i \in DOMAIN gmx_read : i \in DOMAIN gmx_read' /\ i \in DOMAIN MARKETS /\ i # n
  BY ONLY <1>1, <1>4, <1>6
<1> DEFINE item == [market |-> MARKETS[n], rate |-> rate]
<1>10. item \in GmxItems /\ item.market = MARKETS[n]
  BY <1>3, <1>8 DEF GmxItems
<1> HIDE DEF item, n
<1>11. \A market : LowestIn(market, gmx_read) => LowestIn(market, gmx_read') /\ market # MARKETS[n]
  BY <1>4, <1>6, <1>7, <1>9 DEF LowestIn, IsInjective
<1>12. WorthFunding(rate) => LowestIn(item.market, gmx_read')
  BY <1>3, <1>6, <1>7, <1>10 DEF LowestIn
<1>13. asked.gmx = << >> /\ asked' = asked /\ gmx_at' = "read"
  BY <1>1 DEF GmxInv
<1>14. /\ gmx_opps' \in Seq(GmxItems)
       /\ \A i \in DOMAIN gmx_opps' : LowestIn(gmx_opps'[i].market, gmx_read')
       /\ \A i, j \in DOMAIN gmx_opps' : gmx_opps'[i].market = gmx_opps'[j].market => i = j
  <2>1. /\ \A i \in DOMAIN gmx_opps : LowestIn(gmx_opps[i].market, gmx_read)
        /\ \A i, j \in DOMAIN gmx_opps : gmx_opps[i].market = gmx_opps[j].market => i = j
    BY DEF GmxInv
  <2>2. CASE ~WorthFunding(rate)
    <3>1. gmx_opps' = gmx_opps
      BY <1>2, <2>2
    <3>2. QED BY <1>5, <1>11, <2>1, <3>1
  <2>3. CASE WorthFunding(rate)
    <3>1. gmx_opps' = Append(gmx_opps, item)
      BY <1>2, <2>3 DEF item, n
    <3>2. /\ gmx_opps' \in Seq(GmxItems) /\ Len(gmx_opps) \in Nat
          /\ DOMAIN gmx_opps = 1..Len(gmx_opps) /\ DOMAIN gmx_opps' = 1..(Len(gmx_opps) + 1)
          /\ \A i \in DOMAIN gmx_opps : gmx_opps'[i] = gmx_opps[i]
          /\ gmx_opps'[Len(gmx_opps) + 1] = item
      BY ONLY <1>5, <1>10, <3>1
    <3>3. \A i \in DOMAIN gmx_opps' : i \in DOMAIN gmx_opps \/ i = Len(gmx_opps) + 1
      BY ONLY <3>2
    <3>4. \A i \in DOMAIN gmx_opps : gmx_opps[i].market # item.market
      BY <1>10, <1>11, <2>1
    <3>5. \A i \in DOMAIN gmx_opps' : LowestIn(gmx_opps'[i].market, gmx_read')
      <4>1. \A i \in DOMAIN gmx_opps : LowestIn(gmx_opps[i].market, gmx_read')
        BY <1>11, <2>1
      <4>2. QED BY <1>12, <2>3, <3>2, <3>3, <4>1
    <3>6. QED BY <2>1, <3>2, <3>3, <3>4, <3>5
  <2>4. QED BY <2>2, <2>3
<1>15. AdvancedTypeOK'
  BY <1>1, <1>5, <1>6, <1>7, <1>13, <1>14, GmxTyped DEF n
<1>16. GmxInv'
  BY <1>13, <1>14, NothingTwice DEF GmxInv
<1>17. QED BY <1>15, <1>16

LEMMA GmxRanksKeeps ==
  ASSUME AdvancedTypeOK, GmxInv, GmxRanks
  PROVE  AdvancedTypeOK' /\ GmxInv'
<1> DEFINE n == IF Len(gmx_opps) > 2 THEN 2 ELSE Len(gmx_opps)
<1>1. /\ gmx_at = "read" /\ gmx_at' = "ask"
      /\ UNCHANGED <<block, gmx_read, mev_batch, mev_opps, price, rotation, asked>>
  BY DEF GmxRanks
<1>2. PICK order \in [DOMAIN gmx_opps -> DOMAIN gmx_opps] :
        /\ IsInjective(order)
        /\ gmx_opps' = [i \in 1..n |-> gmx_opps[order[i]]]
  BY DEF GmxRanks, Ranks
<1>3. /\ gmx_read \in Seq(-500..499) /\ gmx_opps \in Seq(GmxItems)
      /\ asked \in [gmx : Seq(Range(MARKETS)), mev : Seq(SWAPS), cross_chain : SUBSET BRIDGE_ROUTES]
  BY AdvancedTypes
<1>4. /\ Len(gmx_opps) \in Nat /\ DOMAIN gmx_opps = 1..Len(gmx_opps) /\ n \in Nat /\ n <= 2
      /\ \A i \in 1..n : i \in DOMAIN gmx_opps /\ order[i] \in DOMAIN gmx_opps
  BY ONLY <1>3, order \in [DOMAIN gmx_opps -> DOMAIN gmx_opps]
<1> HIDE DEF n
<1>5. /\ DOMAIN gmx_opps' = 1..n /\ Len(gmx_opps') = n /\ gmx_opps' \in Seq(GmxItems)
      /\ \A i \in 1..n : gmx_opps'[i] = gmx_opps[order[i]]
  <2>1. \A i \in DOMAIN gmx_opps : gmx_opps[i] \in GmxItems
    BY ONLY <1>3
  <2>2. gmx_opps' \in [1..n -> GmxItems]
    BY <1>2, <1>4, <2>1
  <2>3. QED BY <1>2, <1>4, <2>2
<1>6. \A i, j \in 1..n : order[i] = order[j] => i = j
  BY <1>2, <1>4 DEF IsInjective
<1>7. asked.gmx = << >> /\ asked' = asked
  BY <1>1 DEF GmxInv
<1>8. \A market : LowestIn(market, gmx_read) => LowestIn(market, gmx_read')
  BY <1>1 DEF LowestIn
<1>9. /\ \A i \in 1..n : LowestIn(gmx_opps'[i].market, gmx_read')
      /\ \A i, j \in 1..n : gmx_opps'[i].market = gmx_opps'[j].market => i = j
  BY <1>4, <1>5, <1>6, <1>8 DEF GmxInv
<1>10. Len(asked'.gmx) + Len(gmx_opps') <= 2
  BY <1>4, <1>5, <1>7, NothingTwice
<1>11. GmxInv'
  BY <1>1, <1>5, <1>7, <1>9, <1>10, NothingTwice DEF GmxInv
<1>12. AdvancedTypeOK'
  BY <1>1, <1>3, <1>5, <1>7, GmxTyped DEF AdvancedTypeOK
<1>13. QED BY <1>11, <1>12

LEMMA GmxWakesKeeps ==
  ASSUME AdvancedTypeOK, GmxInv, GmxWakes
  PROVE  AdvancedTypeOK' /\ GmxInv'
<1>1. /\ gmx_at' = "read" /\ gmx_opps' = << >> /\ gmx_read' = << >>
      /\ asked' = [asked EXCEPT !.gmx = << >>]
      /\ UNCHANGED <<block, mev_batch, mev_opps, price, rotation>>
  BY DEF GmxWakes
<1>2. asked \in [gmx : Seq(Range(MARKETS)), mev : Seq(SWAPS), cross_chain : SUBSET BRIDGE_ROUTES]
  BY AdvancedTypes
<1>3. /\ asked' \in [gmx : Seq(Range(MARKETS)), mev : Seq(SWAPS), cross_chain : SUBSET BRIDGE_ROUTES]
      /\ asked'.gmx = << >>
  <2> DEFINE none == << >>
  <2>1. none \in Seq(Range(MARKETS)) /\ asked' = [asked EXCEPT !.gmx = none]
    BY <1>1
  <2> HIDE DEF none
  <2>2. /\ asked' \in [gmx : Seq(Range(MARKETS)), mev : Seq(SWAPS), cross_chain : SUBSET BRIDGE_ROUTES]
        /\ asked'.gmx = none
    BY ONLY <1>2, <2>1
  <2>3. QED BY <2>2 DEF none
<1>4. Len(MARKETS) \in Nat /\ Len(gmx_read') <= Len(MARKETS)
  BY <1>1, AdvancedAssumption
<1>5. AdvancedTypeOK'
  BY <1>1, <1>3, <1>4, GmxTyped
<1>6. GmxInv'
  BY <1>1, <1>3, NothingTwice DEF GmxInv
<1>7. QED BY <1>5, <1>6

LEMMA GmxAsksKeeps ==
  ASSUME AdvancedTypeOK, GmxInv, GmxAsks
  PROVE  AdvancedTypeOK' /\ GmxInv'
<1> DEFINE item == Head(gmx_opps)
<1>1. /\ gmx_at = "ask" /\ gmx_at' = "ask" /\ gmx_opps # << >> /\ gmx_opps' = Tail(gmx_opps)
      /\ asked' = [asked EXCEPT !.gmx = Append(asked.gmx, item.market)]
      /\ UNCHANGED <<block, gmx_read, mev_batch, mev_opps, price, rotation>>
  BY DEF GmxAsks
<1>2. /\ gmx_read \in Seq(-500..499) /\ gmx_opps \in Seq(GmxItems)
      /\ asked \in [gmx : Seq(Range(MARKETS)), mev : Seq(SWAPS), cross_chain : SUBSET BRIDGE_ROUTES]
      /\ Len(gmx_read) <= Len(MARKETS)
  BY AdvancedTypes DEF AdvancedTypeOK
<1>3. /\ Len(gmx_opps) \in Nat /\ Len(gmx_opps) >= 1 /\ DOMAIN gmx_opps = 1..Len(gmx_opps)
      /\ item = gmx_opps[1] /\ item \in GmxItems
  BY <1>1, <1>2
<1>4. /\ gmx_opps' \in Seq(GmxItems) /\ Len(gmx_opps') = Len(gmx_opps) - 1
      /\ DOMAIN gmx_opps' = 1..(Len(gmx_opps) - 1)
      /\ \A i \in DOMAIN gmx_opps' : gmx_opps'[i] = gmx_opps[i + 1]
  BY <1>1, <1>2
<1>5. \A i \in DOMAIN gmx_opps' : i \in Nat /\ i + 1 \in DOMAIN gmx_opps /\ i + 1 # 1
  BY ONLY <1>3, <1>4
<1>6. 1 \in DOMAIN gmx_opps
  BY ONLY <1>3
<1>7. item.market \in Range(MARKETS) /\ item.market \notin Range(asked.gmx)
  BY <1>3, <1>6 DEF GmxItems, GmxInv
<1> DEFINE list == Append(asked.gmx, item.market)
<1>8. asked.gmx \in Seq(Range(MARKETS)) /\ IsInjective(asked.gmx)
  BY <1>2 DEF GmxInv
<1>9. /\ list \in Seq(Range(MARKETS)) /\ Len(list) = Len(asked.gmx) + 1
      /\ IsInjective(list) /\ Range(list) = Range(asked.gmx) \cup {item.market}
  BY <1>7, <1>8, OneNew
<1>10. Len(asked.gmx) \in Nat
  BY <1>8
<1> HIDE DEF list
<1>11. /\ asked'.gmx = list
       /\ asked' \in [gmx : Seq(Range(MARKETS)), mev : Seq(SWAPS), cross_chain : SUBSET BRIDGE_ROUTES]
  BY <1>1, <1>2, <1>9 DEF list
<1> HIDE DEF item
<1>12. /\ \A i \in DOMAIN gmx_opps' : LowestIn(gmx_opps'[i].market, gmx_read')
       /\ \A market \in Range(asked'.gmx) : LowestIn(market, gmx_read')
  <2>1. /\ \A i \in DOMAIN gmx_opps : LowestIn(gmx_opps[i].market, gmx_read)
        /\ \A market \in Range(asked.gmx) : LowestIn(market, gmx_read)
    BY DEF GmxInv
  <2>2. gmx_read' = gmx_read
    BY <1>1
  <2>3. LowestIn(item.market, gmx_read)
    BY <1>3, <1>6, <2>1
  <2>4. QED BY <1>4, <1>5, <1>9, <1>11, <2>1, <2>2, <2>3
<1>13. /\ \A i, j \in DOMAIN gmx_opps' : gmx_opps'[i].market = gmx_opps'[j].market => i = j
       /\ \A i \in DOMAIN gmx_opps' : gmx_opps'[i].market \notin Range(asked'.gmx)
  <2>1. /\ \A i, j \in DOMAIN gmx_opps : gmx_opps[i].market = gmx_opps[j].market => i = j
        /\ \A i \in DOMAIN gmx_opps : gmx_opps[i].market \notin Range(asked.gmx)
    BY DEF GmxInv
  <2>2. \A i, j \in DOMAIN gmx_opps' : gmx_opps'[i].market = gmx_opps'[j].market => i + 1 = j + 1
    BY <1>4, <1>5, <2>1
  <2>3. \A i, j \in DOMAIN gmx_opps' : i + 1 = j + 1 => i = j
    BY ONLY <1>5
  <2>4. \A i \in DOMAIN gmx_opps' : gmx_opps'[i].market # item.market
    BY <1>3, <1>4, <1>5, <1>6, <2>1
  <2>5. \A i \in DOMAIN gmx_opps' : gmx_opps'[i].market \notin Range(asked.gmx)
    BY <1>4, <1>5, <2>1
  <2>6. Range(asked'.gmx) = Range(asked.gmx) \cup {item.market}
    BY <1>9, <1>11
  <2>7. \A i \in DOMAIN gmx_opps' : gmx_opps'[i].market \notin Range(asked'.gmx)
    BY ONLY <2>4, <2>5, <2>6
  <2>8. \A i, j \in DOMAIN gmx_opps' : gmx_opps'[i].market = gmx_opps'[j].market => i = j
    BY ONLY <2>2, <2>3
  <2>9. QED BY <2>7, <2>8
<1>14. Len(asked'.gmx) <= 2 /\ Len(asked'.gmx) + Len(gmx_opps') <= 2
  <2>1. Len(asked.gmx) + Len(gmx_opps) <= 2
    BY <1>1 DEF GmxInv
  <2>2. QED BY <1>3, <1>4, <1>9, <1>10, <1>11, <2>1
<1>15. GmxInv'
  BY <1>1, <1>9, <1>11, <1>12, <1>13, <1>14 DEF GmxInv
<1>16. AdvancedTypeOK'
  BY <1>1, <1>2, <1>4, <1>11, GmxTyped
<1>17. QED BY <1>15, <1>16

LEMMA GmxSleepsKeeps ==
  ASSUME AdvancedTypeOK, GmxInv, GmxSleeps
  PROVE  AdvancedTypeOK' /\ GmxInv'
<1>1. /\ gmx_at' = "sleep"
      /\ UNCHANGED <<block, gmx_opps, gmx_read, mev_batch, mev_opps, price, rotation, asked>>
  BY DEF GmxSleeps
<1>2. AdvancedTypeOK'
  BY <1>1 DEF AdvancedTypeOK
<1>3. GmxInv'
  BY <1>1 DEF GmxInv
<1>4. QED BY <1>2, <1>3

LEMMA MevKeeps ==
  ASSUME AdvancedInv, MevPolls \/ MevAsks
  PROVE  AdvancedInv'
<1>1. AdvancedTypeOK /\ GmxInv /\ MevInv /\ XchainInv /\ YieldInv
  BY DEF AdvancedInv
<1>2. asked \in [gmx : Seq(Range(MARKETS)), mev : Seq(SWAPS), cross_chain : SUBSET BRIDGE_ROUTES]
  BY <1>1, AdvancedTypes
<1>3. UNCHANGED <<block, gmx_at, gmx_opps, gmx_read, price, rotation>>
  BY DEF MevPolls, MevAsks
<1>4. /\ asked' \in [gmx : Seq(Range(MARKETS)), mev : Seq(SWAPS), cross_chain : SUBSET BRIDGE_ROUTES]
      /\ asked'.gmx = asked.gmx /\ asked'.cross_chain = asked.cross_chain
      /\ mev_batch' \subseteq SWAPS /\ MevInv'
  <2>1. CASE MevPolls
    <3>1. /\ asked' = [asked EXCEPT !.mev = << >>]
          /\ mev_batch' \subseteq SWAPS /\ mev_opps' \subseteq mev_batch'
      BY <2>1 DEF MevPolls
    <3>2. /\ asked' \in [gmx : Seq(Range(MARKETS)), mev : Seq(SWAPS), cross_chain : SUBSET BRIDGE_ROUTES]
          /\ asked'.gmx = asked.gmx /\ asked'.cross_chain = asked.cross_chain /\ asked'.mev = << >>
      <4> DEFINE none == << >>
      <4>1. none \in Seq(SWAPS) /\ asked' = [asked EXCEPT !.mev = none]
        BY <3>1
      <4> HIDE DEF none
      <4>2. /\ asked' \in [gmx : Seq(Range(MARKETS)), mev : Seq(SWAPS), cross_chain : SUBSET BRIDGE_ROUTES]
            /\ asked'.gmx = asked.gmx /\ asked'.cross_chain = asked.cross_chain /\ asked'.mev = none
        BY ONLY <1>2, <4>1
      <4>3. QED BY <4>2 DEF none
    <3>3. QED BY <3>1, <3>2, NothingTwice DEF MevInv
  <2>2. CASE MevAsks
    <3>1. PICK swap \in mev_opps :
            /\ asked' = [asked EXCEPT !.mev = Append(asked.mev, swap)]
            /\ mev_opps' = mev_opps \ {swap} /\ mev_batch' = mev_batch
      BY <2>2 DEF MevAsks
    <3>2. /\ mev_opps \subseteq mev_batch /\ mev_batch \subseteq SWAPS
          /\ Range(asked.mev) \subseteq mev_batch \ mev_opps /\ IsInjective(asked.mev)
          /\ asked.mev \in Seq(SWAPS) /\ swap \in SWAPS /\ swap \notin Range(asked.mev)
      BY <1>1, <1>2, <3>1 DEF AdvancedTypeOK, MevInv
    <3> DEFINE list == Append(asked.mev, swap)
    <3>3. list \in Seq(SWAPS) /\ IsInjective(list) /\ Range(list) = Range(asked.mev) \cup {swap}
      BY <3>2, OneNew
    <3>4. asked' = [asked EXCEPT !.mev = list]
      BY <3>1
    <3> HIDE DEF list
    <3>5. /\ asked' \in [gmx : Seq(Range(MARKETS)), mev : Seq(SWAPS), cross_chain : SUBSET BRIDGE_ROUTES]
          /\ asked'.gmx = asked.gmx /\ asked'.cross_chain = asked.cross_chain /\ asked'.mev = list
      BY <1>2, <3>3, <3>4
    <3>6. MevInv'
      BY <3>1, <3>2, <3>3, <3>5 DEF MevInv
    <3>7. QED BY <3>1, <3>2, <3>5, <3>6
  <2>3. QED BY <2>1, <2>2
<1>5. mev_opps' \subseteq SWAPS
  BY <1>4 DEF MevInv
<1>6. AdvancedTypeOK'
  BY <1>1, <1>3, <1>4, <1>5 DEF AdvancedTypeOK
<1>7. GmxInv'
  BY <1>1, <1>3, <1>4 DEF GmxInv
<1>8. XchainInv' /\ YieldInv'
  BY <1>1, <1>3, <1>4 DEF XchainInv, YieldInv, Within
<1>9. QED BY <1>4, <1>6, <1>7, <1>8 DEF AdvancedInv

LEMMA OthersKeep ==
  ASSUME AdvancedInv, NewBlock \/ PriceTick \/ XchainScan \/ YieldRound \/ UNCHANGED advancedVars
  PROVE  AdvancedInv'
<1>1. AdvancedTypeOK /\ GmxInv /\ MevInv /\ XchainInv /\ YieldInv
  BY DEF AdvancedInv
<1>2. asked \in [gmx : Seq(Range(MARKETS)), mev : Seq(SWAPS), cross_chain : SUBSET BRIDGE_ROUTES]
  BY <1>1, AdvancedTypes
<1>3. UNCHANGED <<gmx_at, gmx_opps, gmx_read, mev_batch, mev_opps>>
  BY DEF NewBlock, PriceTick, XchainScan, YieldRound, advancedVars
<1>4. asked' = asked
  <2>1. CASE XchainScan
    <3>1. asked' = [asked EXCEPT !.cross_chain = CrossChainOpps]
      BY <2>1 DEF XchainScan
    <3>2. CrossChainOpps = {} /\ asked.cross_chain = {}
      BY <1>1, AdvancedTypes, NoBridge DEF XchainInv
    <3>3. QED BY <1>2, <3>1, <3>2
  <2>2. CASE NewBlock \/ PriceTick \/ YieldRound \/ UNCHANGED advancedVars
    BY <2>2 DEF NewBlock, PriceTick, YieldRound, advancedVars
  <2>3. QED BY <2>1, <2>2
<1>5. /\ block' \in FirstBlock..LastBlock /\ price' \in PRICES \cup {0}
      /\ rotation' \in [capital : CAPITALS \cup {0}, found : SUBSET YIELD_SOURCES] /\ YieldInv'
  <2>1. /\ block \in FirstBlock..LastBlock /\ price \in PRICES \cup {0}
        /\ rotation \in [capital : CAPITALS \cup {0}, found : SUBSET YIELD_SOURCES]
    BY <1>1 DEF AdvancedTypeOK
  <2>2. CASE YieldRound
    <3>1. PICK capital \in CAPITALS :
            rotation' = [capital |-> capital, found |-> FindBestYield(capital)]
      BY <2>2 DEF YieldRound
    <3>2. FindBestYield(capital) \subseteq YIELD_SOURCES
      BY DEF FindBestYield, Within
    <3>3. capital \in Nat
      BY AdvancedAssumption
    <3>4. rotation'.capital = capital /\ rotation'.found = FindBestYield(capital)
      BY <3>1
    <3>5. YieldInv'
      BY <3>3, <3>4, BestYield DEF YieldInv, Within
    <3>6. UNCHANGED <<block, price>>
      BY <2>2 DEF YieldRound
    <3>7. QED BY <2>1, <3>1, <3>2, <3>5, <3>6
  <2>3. CASE NewBlock \/ PriceTick \/ XchainScan \/ UNCHANGED advancedVars
    <3>1. rotation' = rotation
      BY <2>3 DEF NewBlock, PriceTick, XchainScan, advancedVars
    <3>2. block' \in FirstBlock..LastBlock
      BY <2>1, <2>3, AdvancedAssumption DEF NewBlock, PriceTick, XchainScan, advancedVars
    <3>3. price' \in PRICES \cup {0}
      BY <2>1, <2>3 DEF NewBlock, PriceTick, XchainScan, advancedVars
    <3>4. YieldInv'
      BY <1>1, <3>1 DEF YieldInv, Within
    <3>5. QED BY <2>1, <3>1, <3>2, <3>3, <3>4
  <2>4. QED BY <2>2, <2>3
<1>6. AdvancedTypeOK'
  BY <1>1, <1>3, <1>4, <1>5 DEF AdvancedTypeOK
<1>7. GmxInv'
  BY <1>1, <1>3, <1>4 DEF GmxInv
<1>8. MevInv' /\ XchainInv'
  BY <1>1, <1>3, <1>4 DEF MevInv, XchainInv
<1>9. QED BY <1>5, <1>6, <1>7, <1>8 DEF AdvancedInv

\* Every opportunity still to be asked for was seen in this round, at the rate
\* or in the poll that made it one, and was not asked for yet: the invariant of
\* the loops of src/src/core/engine.py over advanced_strategies.py.
THEOREM AdvancedInvariant == AdvancedSpec => []AdvancedInv
<1>1. AdvancedInit => AdvancedInv
  BY AdvancedStart
<1>2. AdvancedInv /\ [AdvancedNext]_advancedVars => AdvancedInv'
  <2> SUFFICES ASSUME AdvancedInv, [AdvancedNext]_advancedVars
               PROVE  AdvancedInv'
    OBVIOUS
  <2>1. CASE GmxLoop
    <3>1. GmxWakes \/ GmxReads \/ GmxRanks \/ GmxAsks \/ GmxSleeps
      BY <2>1 DEF GmxLoop
    <3>2. AdvancedTypeOK /\ GmxInv /\ MevInv /\ XchainInv /\ YieldInv
      BY DEF AdvancedInv
    <3>3. MevInv' /\ XchainInv' /\ YieldInv'
      BY <3>1, <3>2, GmxApart
    <3>4. AdvancedTypeOK' /\ GmxInv'
      BY <3>1, <3>2, GmxWakesKeeps, GmxReadsKeeps, GmxRanksKeeps, GmxAsksKeeps, GmxSleepsKeeps
    <3>5. QED BY <3>3, <3>4 DEF AdvancedInv
  <2>2. CASE MevLoop
    BY <2>2, MevKeeps DEF MevLoop
  <2>3. CASE NewBlock \/ PriceTick \/ XchainLoop \/ YieldLoop \/ UNCHANGED advancedVars
    BY <2>3, OthersKeep DEF XchainLoop, YieldLoop
  <2>4. QED BY <2>1, <2>2, <2>3 DEF AdvancedNext
<1>3. QED BY <1>1, <1>2, PTL DEF AdvancedSpec

\* The gate is asked only for what a loop saw in the same round, once, never
\* for a bridge; and the pool announced is the one that pays best: for any
\* mempool, markets, prices and capital.
THEOREM AsksAreBackedTheorem == AdvancedSpec => []AsksAreBacked
<1>1. AdvancedInv => AsksAreBacked
  BY DEF AdvancedInv, GmxInv, MevInv, XchainInv, YieldInv, LowestIn, AsksAreBacked
<1>2. QED BY <1>1, AdvancedInvariant, PTL
=============================================================================
