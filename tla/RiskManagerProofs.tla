------------------------- MODULE RiskManagerProofs -------------------------
(***************************************************************************)
(* Proofs about the risk gate, for any set of strategies, any amounts and  *)
(* any limits.  RiskInv is the inductive invariant: the parts lean on each *)
(* other (the lock makes the health reading and the straggler unique, the  *)
(* entry checks bound the counters while trades are in flight).            *)
(***************************************************************************)
EXTENDS RiskManager, FiniteSetTheorems, TLAPS

RiskInv ==
  /\ TypeOK
  /\ LockDiscipline
  /\ LeverageSeesHealth
  /\ AtMostOneTradeAfterPause
  /\ BreakerOvershoot
  /\ DailyLossOvershoot

(***************************************************************************)
(* The transformations of the state                                        *)
(***************************************************************************)

\* Every transformation of self.state yields a risk state.
LEMMA TransformationsTyped ==
  ASSUME NEW st \in RiskState
  PROVE  /\ \A r \in PauseReasons : Pause(st, r) \in RiskState
         /\ Resume(st) \in RiskState
         /\ MaybeResetDaily(st) \in RiskState
         /\ ClearDegraded(st) \in RiskState
         /\ RefreshDegraded(st) \in RiskState
         /\ EnterDegraded(st) \in RiskState
<1>1. \A r \in PauseReasons : Pause(st, r) \in RiskState
  BY DEF RiskState, Pause
<1>2. Resume(st) \in RiskState
  BY DEF RiskState, Resume
<1>3. MaybeResetDaily(st) \in RiskState
  BY DEF RiskState, Resume, MaybeResetDaily
<1>4. ClearDegraded(st) \in RiskState
  BY DEF RiskState, ClearDegraded
<1>5. RefreshDegraded(st) \in RiskState
  BY <1>4 DEF RefreshDegraded
<1>6. EnterDegraded(st) \in RiskState
  <2> DEFINE n == IF st.retries < TELEMETRY_MAX_RETRIES THEN st.retries + 1
                                                       ELSE st.retries
             uncertain == [st EXCEPT !.degraded = TRUE, !.graceOver = FALSE,
                                     !.retries = n]
  <2>1. n \in Nat
    BY LimitsAssumption DEF RiskState
  <2>2. uncertain \in RiskState
    <3> HIDE DEF n
    <3>1. QED BY <2>1 DEF RiskState
  <2>3. Pause(uncertain, "telemetry_uncertain_retries") \in RiskState
    <3> HIDE DEF uncertain
    <3>1. QED BY <2>2 DEF RiskState, Pause, PauseReasons
  <2>4. EnterDegraded(st) \in
          {uncertain, Pause(uncertain, "telemetry_uncertain_retries")}
    BY DEF EnterDegraded
  <2>5. QED BY <2>2, <2>3, <2>4
<1>7. QED BY <1>1, <1>2, <1>3, <1>4, <1>5, <1>6

\* The state judged at entry never has more failures or losses than the one
\* before, has the same profit, and is paused only if that one was, under the
\* same reason.
LEMMA AtEntryFacts ==
  ASSUME TypeOK
  PROVE  /\ AtEntry \in RiskState
         /\ AtEntry.failures <= risk.failures
         /\ AtEntry.dailyLoss <= risk.dailyLoss
         /\ AtEntry.totalProfit = risk.totalProfit
         /\ AtEntry.degraded => risk.degraded
         /\ AtEntry.paused => risk.paused
         /\ risk.pauseReason # "daily_loss" =>
              /\ AtEntry.paused = risk.paused
              /\ AtEntry.pauseReason = risk.pauseReason
<1> DEFINE day == MaybeResetDaily(risk)
<1>1. day \in RiskState /\ AtEntry \in RiskState
  BY TransformationsTyped DEF TypeOK, AtEntry
<1>2. /\ day.failures <= risk.failures
      /\ day.dailyLoss <= risk.dailyLoss
      /\ day.totalProfit = risk.totalProfit
      /\ day.degraded = risk.degraded
      /\ day.paused => risk.paused
      /\ risk.pauseReason # "daily_loss" =>
           /\ day.paused = risk.paused
           /\ day.pauseReason = risk.pauseReason
  <2> DEFINE fresh == [risk EXCEPT !.dailyLoss = 0, !.dayOver = FALSE]
  <2>1. fresh \in RiskState
    BY DEF TypeOK, RiskState
  <2>2. day \in {risk, fresh, Resume(fresh)}
    BY DEF MaybeResetDaily
  <2>3. risk.pauseReason # "daily_loss" => day \in {risk, fresh}
    BY DEF MaybeResetDaily, TypeOK, RiskState
  <2>4. CASE day = risk
    BY <2>4 DEF TypeOK, RiskState
  <2>5. CASE day = fresh
    BY <2>5 DEF TypeOK, RiskState
  <2>6. CASE day = Resume(fresh) /\ risk.pauseReason = "daily_loss"
    BY <2>6 DEF TypeOK, RiskState, Resume
  <2>7. QED BY <2>2, <2>3, <2>4, <2>5, <2>6
<1>3. /\ AtEntry.failures = day.failures
      /\ AtEntry.dailyLoss = day.dailyLoss
      /\ AtEntry.totalProfit = day.totalProfit
      /\ AtEntry.degraded => day.degraded
      /\ AtEntry.paused = day.paused
      /\ AtEntry.pauseReason = day.pauseReason
  BY <1>1 DEF RiskState, AtEntry, RefreshDegraded, ClearDegraded
<1>4. QED BY <1>1, <1>2, <1>3

(***************************************************************************)
(* Type correctness                                                        *)
(***************************************************************************)

LEMMA TypeStep == TypeOK /\ [Next]_vars => TypeOK'
<1> SUFFICES ASSUME TypeOK, [Next]_vars PROVE TypeOK'
  OBVIOUS
<1> USE DEF TypeOK, Goto, Steps
<1>1. ASSUME NEW s \in Strategies, Call(s) PROVE TypeOK'
  BY <1>1 DEF Call
<1>2. ASSUME NEW s \in Strategies, Enter(s) PROVE TypeOK'
  <2>1. AtEntry \in RiskState
    BY AtEntryFacts
  <2>2. leaked' \in Nat
    BY <1>2 DEF Enter, RefusedAtEntry, TripFailures, TripDailyLoss,
                BeginChecks, KeepLeaked
  <2>3. risk' \in RiskState
    BY <1>2, <2>1, TransformationsTyped
       DEF Enter, RefusedAtEntry, TripFailures, TripDailyLoss, BeginChecks,
           PauseReasons
  <2>4. lock' \in Strategies \cup {Nobody} /\ pc' \in [Strategies -> Steps]
    BY <1>2 DEF Enter, RefusedAtEntry, TripFailures, TripDailyLoss,
                BeginChecks
  <2>5. QED BY <2>2, <2>3, <2>4
<1>3. ASSUME NEW s \in Strategies, Answer(s) PROVE TypeOK'
  <2>1. CASE HealthKnown(s)
    BY <2>1, TransformationsTyped DEF HealthKnown
  <2>2. CASE HealthUnknown(s)
    BY <2>2, TransformationsTyped DEF HealthUnknown
  <2>3. CASE RefusedOnGas(s)
    BY <2>3 DEF RefusedOnGas
  <2>4. CASE Clear(s)
    BY <2>4 DEF Clear
  <2>5. QED BY <1>3, <2>1, <2>2, <2>3, <2>4 DEF Answer
<1>4. ASSUME NEW s \in Strategies, Record(s) PROVE TypeOK'
  <2>1. ASSUME NEW a \in WinAmounts, RecordWin(s, a) PROVE TypeOK'
    <3>1. a \in Nat
      BY AmountsAssumption
    <3> DEFINE sum == risk.totalProfit + a
    <3>2. sum \in Nat
      BY <3>1 DEF RiskState
    <3>3. risk' = [risk EXCEPT !.failures = 0, !.totalProfit = sum]
      BY <2>1 DEF RecordWin
    <3>4. risk' \in RiskState
      <4> HIDE DEF sum
      <4>1. QED BY <3>2, <3>3 DEF RiskState
    <3>5. QED BY <2>1, <3>4 DEF RecordWin
  <2>2. ASSUME NEW a \in LossAmounts, RecordLoss(s, a) PROVE TypeOK'
    <3>1. a \in Nat
      BY AmountsAssumption
    <3> DEFINE count == risk.failures + 1
               loss == risk.dailyLoss + a
    <3>2. count \in Nat /\ loss \in Nat
      BY <3>1 DEF RiskState
    <3>3. risk' = [risk EXCEPT !.failures = count, !.dailyLoss = loss]
      BY <2>2 DEF RecordLoss
    <3>4. risk' \in RiskState
      <4> HIDE DEF count, loss
      <4>1. QED BY <3>2, <3>3 DEF RiskState
    <3>5. QED BY <2>2, <3>4 DEF RecordLoss
  <2>3. CASE Unrecorded(s)
    BY <2>3 DEF Unrecorded
  <2>4. QED BY <1>4, <2>1, <2>2, <2>3 DEF Record
<1>5. ASSUME NEW r \in OperatorReasons, OperatorPause(r) PROVE TypeOK'
  BY <1>5, TransformationsTyped DEF OperatorPause, PauseReasons
<1>6. CASE OperatorResume
  BY <1>6, TransformationsTyped DEF OperatorResume
<1>7. CASE DayPasses
  BY <1>7 DEF DayPasses, RiskState
<1>8. CASE GracePasses
  BY <1>8 DEF GracePasses, RiskState
<1>9. CASE UNCHANGED vars
  BY <1>9 DEF vars
<1>10. QED
  BY <1>1, <1>2, <1>3, <1>4, <1>5, <1>6, <1>7, <1>8, <1>9
     DEF Next, StrategyStep

LEMMA InitTyped == Init => TypeOK
  BY DEF Init, TypeOK, RiskState, Steps

\* Every variable of the gate keeps its type.
THEOREM RiskManagerTypeCorrect == Spec => []TypeOK
<1>1. QED BY InitTyped, TypeStep, PTL DEF Spec

(***************************************************************************)
(* The lock, and what it keeps together                                    *)
(***************************************************************************)

LEMMA LockStep ==
  TypeOK /\ LockDiscipline /\ [Next]_vars => LockDiscipline'
<1> SUFFICES ASSUME TypeOK, LockDiscipline, [Next]_vars
             PROVE  LockDiscipline'
  OBVIOUS
<1> USE StrategiesAssumption
    DEF TypeOK, LockDiscipline, Checking, Goto, Steps
<1>1. ASSUME NEW s \in Strategies, Call(s) PROVE LockDiscipline'
  BY <1>1 DEF Call
<1>2. ASSUME NEW s \in Strategies, Enter(s) PROVE LockDiscipline'
  <2>1. CASE BeginChecks(s)
    BY <2>1 DEF BeginChecks, TakeLock
  <2>2. CASE RefusedAtEntry(s) \/ TripFailures(s) \/ TripDailyLoss(s)
    BY <2>2 DEF RefusedAtEntry, TripFailures, TripDailyLoss, TakeLock
  <2>3. QED BY <1>2, <2>1, <2>2 DEF Enter
<1>3. ASSUME NEW s \in Strategies, Answer(s) PROVE LockDiscipline'
  BY <1>3 DEF Answer, HealthKnown, HealthUnknown, RefusedOnGas, Clear
<1>4. ASSUME NEW s \in Strategies, Record(s) PROVE LockDiscipline'
  BY <1>4 DEF Record, RecordWin, RecordLoss, Unrecorded
<1>5. ASSUME UNCHANGED <<lock, pc>> PROVE LockDiscipline'
  BY <1>5
<1>6. QED
  BY <1>1, <1>2, <1>3, <1>4, <1>5
     DEF Next, StrategyStep, OperatorPause, OperatorResume, DayPasses,
         GracePasses, vars

LEMMA LeverageStep ==
  TypeOK /\ LockDiscipline /\ LeverageSeesHealth /\ [Next]_vars
    => LeverageSeesHealth'
<1> SUFFICES ASSUME TypeOK, LockDiscipline, LeverageSeesHealth, [Next]_vars,
                    NEW t \in Leveraged, pc'[t] = "gas"
             PROVE  ~risk'.degraded
  BY DEF LeverageSeesHealth
<1>0. t \in Strategies
  BY StrategiesAssumption
<1> USE DEF TypeOK, Goto, Steps
<1>1. ASSUME NEW s \in Strategies, Call(s) PROVE ~risk'.degraded
  BY <1>1, <1>0 DEF Call, LeverageSeesHealth
<1>2. ASSUME NEW s \in Strategies, Enter(s) PROVE ~risk'.degraded
  <2>1. pc[t] = "gas"
    BY <1>2, <1>0 DEF Enter, RefusedAtEntry, TripFailures, TripDailyLoss,
                      BeginChecks, TakeLock
  <2>2. lock = t
    BY <2>1, <1>0 DEF LockDiscipline, Checking
  <2>3. QED
    BY <1>2, <2>2, <1>0, StrategiesAssumption
       DEF Enter, RefusedAtEntry, TripFailures, TripDailyLoss, BeginChecks,
           TakeLock
<1>3. ASSUME NEW s \in Strategies, Answer(s) PROVE ~risk'.degraded
  <2>1. pc[s] \in {"health", "gas"} /\ lock = s
    BY <1>3 DEF Answer, HealthKnown, HealthUnknown, RefusedOnGas, Clear,
                LockDiscipline, Checking
  <2>2. t = s
    BY <1>3, <2>1, <1>0
       DEF Answer, HealthKnown, HealthUnknown, RefusedOnGas, Clear,
           LockDiscipline, Checking
  <2>3. HealthKnown(s)
    BY <1>3, <2>2, <1>0
       DEF Answer, HealthUnknown, RefusedOnGas, Clear
  <2>4. QED BY <2>3 DEF HealthKnown, ClearDegraded, RiskState
<1>4. ASSUME NEW s \in Strategies, Record(s) PROVE ~risk'.degraded
  <2>1. pc[t] = "gas"
    BY <1>4, <1>0 DEF Record, RecordWin, RecordLoss, Unrecorded
  <2>2. risk'.degraded = risk.degraded
    BY <1>4 DEF Record, RecordWin, RecordLoss, Unrecorded, RiskState
  <2>3. QED BY <2>1, <2>2 DEF LeverageSeesHealth
<1>5. ASSUME pc' = pc, risk'.degraded = risk.degraded
      PROVE  ~risk'.degraded
  BY <1>5 DEF LeverageSeesHealth
<1>6. ASSUME NEW r \in OperatorReasons, OperatorPause(r)
      PROVE  ~risk'.degraded
  BY <1>5, <1>6 DEF OperatorPause, Pause, RiskState
<1>7. CASE OperatorResume
  BY <1>5, <1>7 DEF OperatorResume, Resume, RiskState
<1>8. CASE DayPasses
  BY <1>5, <1>8 DEF DayPasses, RiskState
<1>9. CASE GracePasses
  BY <1>5, <1>9 DEF GracePasses, RiskState
<1>10. CASE UNCHANGED vars
  BY <1>5, <1>10 DEF vars
<1>11. QED
  BY <1>1, <1>2, <1>3, <1>4, <1>6, <1>7, <1>8, <1>9, <1>10
     DEF Next, StrategyStep

LEMMA StragglerStep ==
  TypeOK /\ LockDiscipline /\ AtMostOneTradeAfterPause /\ [Next]_vars
    => AtMostOneTradeAfterPause'
<1> DEFINE held == IF lock = Nobody THEN 0 ELSE 1
<1> SUFFICES ASSUME TypeOK, LockDiscipline, AtMostOneTradeAfterPause,
                    [Next]_vars, risk'.paused
             PROVE  leaked' + held' <= 1
  BY DEF AtMostOneTradeAfterPause
<1>0. risk.paused => leaked + held <= 1
  BY DEF AtMostOneTradeAfterPause
<1> USE DEF TypeOK
<1>1. ASSUME NEW s \in Strategies, Call(s) PROVE leaked' + held' <= 1
  BY <1>0, <1>1 DEF Call
<1>2. ASSUME NEW s \in Strategies, Enter(s) PROVE leaked' + held' <= 1
  <2>1. AtEntry.paused => risk.paused
    BY AtEntryFacts
  <2>2. CASE BeginChecks(s)
    BY <2>2 DEF BeginChecks, Admissible
  <2>3. CASE RefusedAtEntry(s) \/ TripFailures(s) \/ TripDailyLoss(s)
    <3>1. lock = Nobody /\ lock' = Nobody
      BY <2>3 DEF RefusedAtEntry, TripFailures, TripDailyLoss, TakeLock
    <3>2. leaked' = IF AtEntry.paused THEN leaked ELSE 0
      BY <2>3 DEF RefusedAtEntry, TripFailures, TripDailyLoss, KeepLeaked
    <3>3. QED BY <1>0, <2>1, <3>1, <3>2
  <2>4. QED BY <1>2, <2>2, <2>3 DEF Enter
<1>3. ASSUME NEW s \in Strategies, Answer(s) PROVE leaked' + held' <= 1
  <2>1. lock = s /\ held = 1
    BY <1>3, StrategiesAssumption
       DEF Answer, HealthKnown, HealthUnknown, RefusedOnGas, Clear,
           LockDiscipline, Checking
  <2>2. CASE HealthKnown(s)
    BY <1>0, <2>1, <2>2 DEF HealthKnown, ClearDegraded, RiskState
  <2>3. CASE HealthUnknown(s)
    BY <1>0, <2>1, <2>3 DEF HealthUnknown
  <2>4. CASE RefusedOnGas(s)
    BY <1>0, <2>1, <2>4 DEF RefusedOnGas
  <2>5. CASE Clear(s)
    BY <1>0, <2>1, <2>5 DEF Clear
  <2>6. QED BY <1>3, <2>2, <2>3, <2>4, <2>5 DEF Answer
<1>4. ASSUME NEW s \in Strategies, Record(s) PROVE leaked' + held' <= 1
  <2>1. risk'.paused = risk.paused /\ UNCHANGED <<lock, leaked>>
    BY <1>4 DEF Record, RecordWin, RecordLoss, Unrecorded, RiskState
  <2>2. QED BY <1>0, <2>1
<1>5. ASSUME NEW r \in OperatorReasons, OperatorPause(r)
      PROVE  leaked' + held' <= 1
  BY <1>0, <1>5 DEF OperatorPause
<1>6. CASE OperatorResume
  BY <1>6 DEF OperatorResume, Resume, RiskState
<1>7. CASE DayPasses \/ GracePasses
  BY <1>0, <1>7 DEF DayPasses, GracePasses, RiskState
<1>8. CASE UNCHANGED vars
  BY <1>0, <1>8 DEF vars
<1>9. QED
  BY <1>1, <1>2, <1>3, <1>4, <1>5, <1>6, <1>7, <1>8 DEF Next, StrategyStep

(***************************************************************************)
(* The counters, bounded by the trades in flight                           *)
(***************************************************************************)

LEMMA SubsetCount ==
  ASSUME NEW T \in SUBSET Strategies
  PROVE  /\ IsFiniteSet(T)
         /\ Cardinality(T) \in Nat
         /\ Cardinality(Strategies) \in Nat
         /\ Cardinality(T) <= Cardinality(Strategies)
BY StrategiesAssumption, FS_Subset, FS_CardinalityType

\* What a step does to the trades in flight and to the counters they bound:
\* either a strategy passes the entry checks, or a trade is recorded, or
\* neither the set nor the counters grow and the profit stays.
LEMMA InFlightStep ==
  ASSUME TypeOK, [Next]_vars
  PROVE  \/ /\ risk' = AtEntry
            /\ ~TooManyFailures(AtEntry)
            /\ ~OverDailyLimit(AtEntry)
         \/ \E s \in InFlight, a \in 0..MaxLoss :
              /\ InFlight' = InFlight \ {s}
              /\ risk'.failures = risk.failures + 1
              /\ risk'.dailyLoss = risk.dailyLoss + a
              /\ risk'.totalProfit = risk.totalProfit
         \/ /\ InFlight' \subseteq InFlight
            /\ risk'.failures <= risk.failures
            /\ risk'.dailyLoss <= risk.dailyLoss
            /\ risk'.totalProfit >= risk.totalProfit
<1> DEFINE Shrinks == /\ InFlight' \subseteq InFlight
                      /\ risk'.failures <= risk.failures
                      /\ risk'.dailyLoss <= risk.dailyLoss
                      /\ risk'.totalProfit >= risk.totalProfit
<1> USE DEF TypeOK, Goto, Steps
<1>1. ASSUME NEW s \in Strategies, Call(s) PROVE Shrinks
  BY <1>1 DEF Call, InFlight, RiskState
<1>2. ASSUME NEW s \in Strategies, BeginChecks(s)
      PROVE  /\ risk' = AtEntry
             /\ ~TooManyFailures(AtEntry)
             /\ ~OverDailyLimit(AtEntry)
  BY <1>2 DEF BeginChecks
<1>3. ASSUME NEW s \in Strategies,
             RefusedAtEntry(s) \/ TripFailures(s) \/ TripDailyLoss(s)
      PROVE  Shrinks
  <2>1. InFlight' \subseteq InFlight
    BY <1>3 DEF RefusedAtEntry, TripFailures, TripDailyLoss, TakeLock,
                InFlight
  <2>2. /\ risk'.failures = AtEntry.failures
        /\ risk'.dailyLoss = AtEntry.dailyLoss
        /\ risk'.totalProfit = AtEntry.totalProfit
    BY <1>3, AtEntryFacts
       DEF RefusedAtEntry, TripFailures, TripDailyLoss, Pause, RiskState
  <2>3. QED BY <2>1, <2>2, AtEntryFacts DEF RiskState
<1>4. ASSUME NEW s \in Strategies, Answer(s) PROVE Shrinks
  <2>1. InFlight' \subseteq InFlight
    BY <1>4 DEF Answer, HealthKnown, HealthUnknown, RefusedOnGas, Clear,
                InFlight
  <2>2. /\ risk'.failures = risk.failures
        /\ risk'.dailyLoss = risk.dailyLoss
        /\ risk'.totalProfit = risk.totalProfit
    <3>1. CASE HealthUnknown(s)
      BY <3>1 DEF HealthUnknown, EnterDegraded, Pause, RiskState
    <3>2. CASE HealthKnown(s)
      BY <3>2 DEF HealthKnown, ClearDegraded, RiskState
    <3>3. CASE RefusedOnGas(s) \/ Clear(s)
      BY <3>3 DEF RefusedOnGas, Clear
    <3>4. QED BY <1>4, <3>1, <3>2, <3>3 DEF Answer
  <2>3. QED BY <2>1, <2>2 DEF RiskState
<1>5. ASSUME NEW s \in Strategies, NEW a \in WinAmounts, RecordWin(s, a)
      PROVE  Shrinks
  <2>1. a \in Nat
    BY AmountsAssumption
  <2>2. QED BY <1>5, <2>1 DEF RecordWin, InFlight, RiskState
<1>6. ASSUME NEW s \in Strategies, NEW a \in LossAmounts, RecordLoss(s, a)
      PROVE  /\ s \in InFlight /\ a \in 0..MaxLoss
             /\ InFlight' = InFlight \ {s}
             /\ risk'.failures = risk.failures + 1
             /\ risk'.dailyLoss = risk.dailyLoss + a
             /\ risk'.totalProfit = risk.totalProfit
  <2>1. s \in InFlight /\ InFlight' = InFlight \ {s}
    BY <1>6 DEF RecordLoss, InFlight
  <2>2. a \in 0..MaxLoss
    BY AmountsAssumption
  <2>3. QED BY <1>6, <2>1, <2>2 DEF RecordLoss, RiskState
<1>7. ASSUME NEW s \in Strategies, Unrecorded(s) PROVE Shrinks
  BY <1>7 DEF Unrecorded, InFlight, RiskState
<1>8. ASSUME NEW r \in OperatorReasons, OperatorPause(r) PROVE Shrinks
  BY <1>8 DEF OperatorPause, Pause, InFlight, RiskState
<1>9. CASE OperatorResume
  BY <1>9 DEF OperatorResume, Resume, InFlight, RiskState
<1>10. CASE DayPasses \/ GracePasses
  BY <1>10 DEF DayPasses, GracePasses, InFlight, RiskState
<1>11. CASE UNCHANGED vars
  BY <1>11 DEF vars, InFlight, RiskState
<1>12. QED
  BY <1>1, <1>2, <1>3, <1>4, <1>5, <1>6, <1>7, <1>8, <1>9, <1>10, <1>11
     DEF Next, StrategyStep, Enter, Record

LEMMA BreakerStep ==
  TypeOK /\ BreakerOvershoot /\ [Next]_vars => BreakerOvershoot'
<1> SUFFICES ASSUME TypeOK, BreakerOvershoot, [Next]_vars
             PROVE  BreakerOvershoot'
  OBVIOUS
<1> DEFINE k == Cardinality(InFlight)
           n == Cardinality(Strategies)
<1>1. /\ IsFiniteSet(InFlight) /\ k \in Nat /\ n \in Nat
      /\ InFlight' \subseteq Strategies /\ k' \in Nat /\ k' <= n
  BY SubsetCount DEF InFlight
<1>2. risk.failures \in Nat /\ risk'.failures \in Nat
  BY TypeStep DEF TypeOK, RiskState
<1>3. risk.failures + k < MAX_CONSECUTIVE_FAILURES + n
  BY DEF BreakerOvershoot
<1>4. SUFFICES risk'.failures + k' < MAX_CONSECUTIVE_FAILURES + n
  BY DEF BreakerOvershoot
<1>5. CASE risk' = AtEntry /\ ~TooManyFailures(AtEntry)
  BY <1>1, <1>2, <1>5, LimitsAssumption DEF TooManyFailures
<1>6. ASSUME NEW s \in InFlight, InFlight' = InFlight \ {s},
             risk'.failures = risk.failures + 1
      PROVE  risk'.failures + k' < MAX_CONSECUTIVE_FAILURES + n
  <2>1. k' = k - 1
    BY <1>1, <1>6, FS_RemoveElement
  <2>2. QED BY <1>1, <1>2, <1>3, <1>6, <2>1, LimitsAssumption
<1>7. CASE InFlight' \subseteq InFlight /\ risk'.failures <= risk.failures
  <2>1. k' <= k
    BY <1>1, <1>7, FS_Subset
  <2>2. QED BY <1>1, <1>2, <1>3, <1>7, <2>1, LimitsAssumption
<1>8. QED BY <1>5, <1>6, <1>7, InFlightStep

LEMMA DailyLossStep ==
  TypeOK /\ DailyLossOvershoot /\ [Next]_vars => DailyLossOvershoot'
<1> SUFFICES ASSUME TypeOK, DailyLossOvershoot, [Next]_vars
             PROVE  DailyLossOvershoot'
  OBVIOUS
<1> DEFINE k == Cardinality(InFlight)
           n == Cardinality(Strategies)
           m == MaxLoss
<1>1. /\ IsFiniteSet(InFlight) /\ k \in Nat /\ n \in Nat
      /\ InFlight' \subseteq Strategies /\ k' \in Nat /\ k' <= n
  BY SubsetCount DEF InFlight
<1>2. /\ risk.dailyLoss \in Nat /\ risk'.dailyLoss \in Nat
      /\ risk.totalProfit \in Nat /\ risk'.totalProfit \in Nat
  BY TypeStep DEF TypeOK, RiskState
<1>3. m \in Nat
  BY AmountsAssumption
<1>4. 100 * (risk.dailyLoss + m * k)
        <= 5 * (risk.totalProfit + 100) + 100 * m * n
  BY <1>2 DEF DailyLossOvershoot, Capital, MAX_DAILY_LOSS_PCT
<1>5. SUFFICES 100 * (risk'.dailyLoss + m * k')
                 <= 5 * (risk'.totalProfit + 100) + 100 * m * n
  BY <1>2 DEF DailyLossOvershoot, Capital, MAX_DAILY_LOSS_PCT
<1>6. CASE risk' = AtEntry /\ ~OverDailyLimit(AtEntry)
  <2>1. 100 * risk'.dailyLoss <= 5 * (risk'.totalProfit + 100)
    BY <1>2, <1>6 DEF OverDailyLimit, Capital, MAX_DAILY_LOSS_PCT
  <2> DEFINE risked == m * k'
             all == m * n
  <2>2. risked \in Nat /\ all \in Nat /\ risked <= all
    BY <1>1, <1>3
  <2>3. 100 * (risk'.dailyLoss + risked)
          <= 5 * (risk'.totalProfit + 100) + 100 * all
    <3> HIDE DEF risked, all
    <3>1. QED BY <1>2, <2>1, <2>2
  <2>4. 100 * m * n = 100 * all
    BY <1>1, <1>3
  <2>5. QED BY <2>3, <2>4
<1>7. ASSUME NEW s \in InFlight, NEW a \in 0..MaxLoss,
             InFlight' = InFlight \ {s},
             risk'.dailyLoss = risk.dailyLoss + a,
             risk'.totalProfit = risk.totalProfit
      PROVE  100 * (risk'.dailyLoss + m * k')
               <= 5 * (risk'.totalProfit + 100) + 100 * m * n
  <2>1. k' = k - 1
    BY <1>1, <1>7, FS_RemoveElement
  <2>2. m * k' = m * k - m
    BY <1>1, <1>3, <2>1
  <2>3. a \in Nat /\ a <= m
    BY <1>3
  <2>4. QED BY <1>1, <1>2, <1>3, <1>4, <1>7, <2>2, <2>3
<1>8. CASE /\ InFlight' \subseteq InFlight
           /\ risk'.dailyLoss <= risk.dailyLoss
           /\ risk'.totalProfit >= risk.totalProfit
  <2>1. k' <= k
    BY <1>1, <1>8, FS_Subset
  <2> DEFINE before == m * k
             after == m * k'
             all == 100 * m * n
  <2>2. before \in Nat /\ after \in Nat /\ all \in Nat /\ after <= before
    BY <1>1, <1>3, <2>1
  <2>3. 100 * (risk.dailyLoss + before) <= 5 * (risk.totalProfit + 100) + all
    BY <1>4
  <2>4. 100 * (risk'.dailyLoss + after) <= 5 * (risk'.totalProfit + 100) + all
    <3> HIDE DEF before, after, all
    <3>1. QED BY <1>2, <1>8, <2>2, <2>3
  <2>5. QED BY <2>4
<1>9. QED BY <1>6, <1>7, <1>8, InFlightStep

(***************************************************************************)
(* The inductive invariant and the theorems                                *)
(***************************************************************************)

LEMMA RiskInvInit == Init => RiskInv
<1> SUFFICES ASSUME Init PROVE RiskInv
  OBVIOUS
<1>1. TypeOK
  BY InitTyped
<1>2. Cardinality(InFlight) = 0 /\ Cardinality(Strategies) \in Nat
  <2>1. InFlight = {}
    BY DEF Init, InFlight
  <2>2. QED BY <2>1, FS_EmptySet, FS_CardinalityType, StrategiesAssumption
<1>3. LockDiscipline /\ LeverageSeesHealth /\ AtMostOneTradeAfterPause
  BY StrategiesAssumption
     DEF Init, LockDiscipline, LeverageSeesHealth, AtMostOneTradeAfterPause,
         Checking
<1>4. BreakerOvershoot
  BY <1>2, LimitsAssumption DEF Init, BreakerOvershoot
<1>5. DailyLossOvershoot
  <2>1. MaxLoss * Cardinality(Strategies) \in Nat /\ MaxLoss \in Nat
    BY <1>2, AmountsAssumption
  <2>2. QED
    BY <1>2, <2>1
       DEF Init, DailyLossOvershoot, Capital, MAX_DAILY_LOSS_PCT
<1>6. QED BY <1>1, <1>3, <1>4, <1>5 DEF RiskInv

LEMMA RiskInvStep == RiskInv /\ [Next]_vars => RiskInv'
BY TypeStep, LockStep, LeverageStep, StragglerStep, BreakerStep,
   DailyLossStep DEF RiskInv

\* The inductive invariant holds in every reachable state.
THEOREM RiskInvariant == Spec => []RiskInv
BY RiskInvInit, RiskInvStep, PTL DEF Spec

\* A leveraged trade is only ever cleared with a health reading that is the
\* last word on the account.
THEOREM LeverageIsNeverBlind == Spec => []LeverageSeesHealth
<1>1. RiskInv => LeverageSeesHealth
  BY DEF RiskInv
<1>2. QED BY <1>1, RiskInvariant, PTL

\* A pause lets at most one more trade through.
THEOREM PauseStopsAllButOne == Spec => []AtMostOneTradeAfterPause
<1>1. RiskInv => AtMostOneTradeAfterPause
  BY DEF RiskInv
<1>2. QED BY <1>1, RiskInvariant, PTL

\* The failure count, with the trades in flight, stays below its limit and one
\* for each strategy: the breaker of lines 165 and 270 is late by no more.
THEOREM BreakerOvershootBounded == Spec => []BreakerOvershoot
<1>1. RiskInv => BreakerOvershoot
  BY DEF RiskInv
<1>2. QED BY <1>1, RiskInvariant, PTL

\* The loss of a day exceeds its limit (lines 173-179 and 271) by no more than
\* the trades in flight can add.
THEOREM DailyLossOvershootBounded == Spec => []DailyLossOvershoot
<1>1. RiskInv => DailyLossOvershoot
  BY DEF RiskInv
<1>2. QED BY <1>1, RiskInvariant, PTL

(***************************************************************************)
(* Who may lift a pause                                                    *)
(***************************************************************************)

\* A pause that is not the daily limit's is lifted by the operator alone.
THEOREM PauseNeedsOperator == Spec => OnlyOperatorLifts
<1> DEFINE Halted(st) == st.paused /\ st.pauseReason # "daily_loss"
<1>1. ASSUME TypeOK, [Next]_vars, Halted(risk), ~OperatorResume
      PROVE  Halted(risk')
  <2> USE DEF TypeOK
  <2>1. ASSUME NEW s \in Strategies, Enter(s) PROVE Halted(risk')
    <3>1. Halted(AtEntry)
      BY <1>1, AtEntryFacts
    <3>2. RefusedAtEntry(s)
      BY <2>1, <3>1
         DEF Enter, TripFailures, TripDailyLoss, BeginChecks, Admissible
    <3>3. QED BY <3>1, <3>2 DEF RefusedAtEntry
  <2>2. ASSUME NEW s \in Strategies, Answer(s) PROVE Halted(risk')
    <3>1. CASE HealthUnknown(s)
      BY <1>1, <3>1 DEF HealthUnknown, EnterDegraded, Pause, RiskState
    <3>2. CASE HealthKnown(s)
      BY <1>1, <3>2 DEF HealthKnown, ClearDegraded, RiskState
    <3>3. CASE RefusedOnGas(s) \/ Clear(s)
      BY <1>1, <3>3 DEF RefusedOnGas, Clear
    <3>4. QED BY <2>2, <3>1, <3>2, <3>3 DEF Answer
  <2>3. ASSUME NEW s \in Strategies, Call(s) \/ Record(s)
        PROVE  Halted(risk')
    BY <1>1, <2>3
       DEF Call, Record, RecordWin, RecordLoss, Unrecorded, RiskState
  <2>4. ASSUME NEW r \in OperatorReasons, OperatorPause(r)
        PROVE  Halted(risk')
    BY <2>4 DEF OperatorPause, Pause, OperatorReasons, RiskState
  <2>5. CASE DayPasses \/ GracePasses
    BY <1>1, <2>5 DEF DayPasses, GracePasses, RiskState
  <2>6. CASE UNCHANGED vars
    BY <1>1, <2>6 DEF vars
  <2>7. QED
    BY <1>1, <2>1, <2>2, <2>3, <2>4, <2>5, <2>6 DEF Next, StrategyStep
<1>2. TypeOK /\ [Next]_vars
        => [risk.paused /\ risk.pauseReason # "daily_loss"
              => \/ risk'.paused /\ risk'.pauseReason # "daily_loss"
                 \/ OperatorResume]_vars
  BY <1>1
<1>3. QED
  BY <1>2, RiskManagerTypeCorrect, PTL DEF Spec, OnlyOperatorLifts

(***************************************************************************)
(* The gate implements TradeGate                                           *)
(***************************************************************************)

LEMMA GateInit == Init => Gate!Init
BY DEF Init, Gate!Init

LEMMA GateStep ==
  TypeOK /\ LockDiscipline /\ [Next]_vars => [Gate!Next]_Gate!vars
<1> SUFFICES ASSUME TypeOK, LockDiscipline, [Next]_vars
             PROVE  Gate!Next \/ UNCHANGED Gate!vars
  OBVIOUS
<1> DEFINE trading == {s \in Strategies : pc[s] = "cleared"}
           straggler == risk.paused /\ lock # Nobody
<1>0. risk.paused \in BOOLEAN /\ risk'.paused \in BOOLEAN
  BY TypeStep DEF TypeOK, RiskState
<1>1. ASSUME trading' = trading, straggler' = FALSE \/ straggler' = straggler,
             risk.paused = risk'.paused
      PROVE  Gate!Next \/ UNCHANGED Gate!vars
  BY <1>1 DEF Gate!Next, Gate!Forfeit, Gate!vars
<1>2. ASSUME trading' = trading, straggler' = FALSE, risk.paused, ~risk'.paused
      PROVE  Gate!Next
  BY <1>0, <1>2 DEF Gate!Next, Gate!Lift
<1>3. ASSUME trading' = trading, ~risk.paused, risk'.paused
      PROVE  Gate!Next
  BY <1>0, <1>3 DEF Gate!Next, Gate!Halt
<1> USE DEF TypeOK, Goto, Steps
<1>4. ASSUME NEW s \in Strategies, Call(s)
      PROVE  Gate!Next \/ UNCHANGED Gate!vars
  BY <1>1, <1>4 DEF Call
<1>5. ASSUME NEW s \in Strategies, Enter(s)
      PROVE  Gate!Next \/ UNCHANGED Gate!vars
  <2>1. trading' = trading
    BY <1>5 DEF Enter, RefusedAtEntry, TripFailures, TripDailyLoss,
                BeginChecks, TakeLock
  <2>2. straggler' = FALSE
    BY <1>5, AtEntryFacts
       DEF Enter, RefusedAtEntry, TripFailures, TripDailyLoss, BeginChecks,
           TakeLock, Admissible
  <2>3. QED BY <1>0, <1>1, <1>2, <1>3, <2>1, <2>2
<1>6. ASSUME NEW s \in Strategies, Answer(s)
      PROVE  Gate!Next \/ UNCHANGED Gate!vars
  <2>1. lock = s /\ lock # Nobody
    BY <1>6, StrategiesAssumption
       DEF Answer, HealthKnown, HealthUnknown, RefusedOnGas, Clear,
           LockDiscipline, Checking
  <2>2. CASE HealthKnown(s)
    <3>1. trading' = trading /\ risk'.paused = risk.paused
      BY <2>2 DEF HealthKnown, ClearDegraded, RiskState
    <3>2. straggler' = FALSE \/ straggler' = straggler
      BY <2>2, <3>1 DEF HealthKnown
    <3>3. QED BY <1>1, <3>1, <3>2
  <2>3. CASE HealthUnknown(s)
    <3>1. trading' = trading
      BY <2>3 DEF HealthUnknown
    <3>2. risk.paused => risk'.paused
      BY <2>3 DEF HealthUnknown, EnterDegraded, Pause, RiskState
    <3>3. CASE risk.paused
      <4>1. straggler' = FALSE \/ straggler' = straggler
        BY <2>3, <3>2, <3>3 DEF HealthUnknown
      <4>2. QED BY <1>0, <1>1, <3>1, <3>2, <3>3, <4>1
    <3>4. CASE ~risk.paused
      BY <1>0, <1>1, <1>3, <3>1, <3>4
    <3>5. QED BY <3>3, <3>4
  <2>4. CASE RefusedOnGas(s)
    BY <1>1, <2>4 DEF RefusedOnGas
  <2>5. CASE Clear(s)
    <3>1. s \notin trading /\ trading' = trading \cup {s}
      BY <2>5 DEF Clear
    <3>2. risk' = risk /\ (risk.paused => straggler) /\ straggler' = FALSE
      BY <2>1, <2>5 DEF Clear
    <3>3. QED BY <3>1, <3>2 DEF Gate!Next, Gate!Grant
  <2>6. QED BY <1>6, <2>2, <2>3, <2>4, <2>5 DEF Answer
<1>7. ASSUME NEW s \in Strategies, Record(s)
      PROVE  Gate!Next \/ UNCHANGED Gate!vars
  <2>1. s \in trading /\ trading' = trading \ {s}
    BY <1>7 DEF Record, RecordWin, RecordLoss, Unrecorded
  <2>2. risk'.paused = risk.paused /\ lock' = lock
    BY <1>7 DEF Record, RecordWin, RecordLoss, Unrecorded, RiskState
  <2>3. QED BY <2>1, <2>2 DEF Gate!Next, Gate!Finish
<1>8. ASSUME NEW r \in OperatorReasons, OperatorPause(r)
      PROVE  Gate!Next \/ UNCHANGED Gate!vars
  <2>1. trading' = trading /\ risk'.paused /\ lock' = lock
    BY <1>8 DEF OperatorPause, Pause, RiskState
  <2>2. QED BY <1>0, <1>1, <1>3, <2>1
<1>9. CASE OperatorResume
  <2>1. trading' = trading /\ ~risk'.paused
    BY <1>9 DEF OperatorResume, Resume, RiskState
  <2>2. QED BY <1>0, <1>1, <1>2, <2>1
<1>10. CASE DayPasses \/ GracePasses
  <2>1. trading' = trading /\ risk'.paused = risk.paused /\ lock' = lock
    BY <1>10 DEF DayPasses, GracePasses, RiskState
  <2>2. QED BY <1>1, <2>1
<1>11. CASE UNCHANGED vars
  BY <1>1, <1>11 DEF vars
<1>12. QED
  BY <1>4, <1>5, <1>6, <1>7, <1>8, <1>9, <1>10, <1>11
     DEF Next, StrategyStep

\* The gate implements the abstract gate: every step of it is a step of
\* TradeGate or leaves TradeGate's variables alone.
THEOREM RiskManagerRefinesTradeGate == Spec => ImplementsTradeGate
<1>1. RiskInv => TypeOK /\ LockDiscipline
  BY DEF RiskInv
<1>2. QED
  BY <1>1, GateInit, GateStep, RiskInvariant, PTL
     DEF Spec, ImplementsTradeGate, Gate!Spec
=============================================================================
