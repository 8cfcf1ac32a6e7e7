---------------------------- MODULE RiskManager ----------------------------
(***************************************************************************)
(* The risk gate of src/src/core/risk_manager.py: every strategy task of   *)
(* the asyncio loop asks clear_trade() before it trades, executes, and     *)
(* reports the outcome with record_trade().  clear_trade() holds an        *)
(* asyncio.Lock across its two awaits (the Aave account state and the gas  *)
(* price); pause(), resume(), check_price_anomaly() and record_trade() do  *)
(* not take the lock and therefore run between those awaits.               *)
(*                                                                         *)
(* Clocks are reduced to the two comparisons the code makes: dayOver is    *)
(* `now - day_start_ts > 86400', graceOver is `now > degraded_until_ts'.   *)
(* Money is in whole dollars.                                              *)
(*                                                                         *)
(* A definition marked `Slip:' is a mistake the code could have made where *)
(* the next definition is right; nothing uses it.  PROJECT.json names the  *)
(* property that tells the two apart.                                      *)
(***************************************************************************)
EXTENDS Integers, FiniteSets

CONSTANTS
  Strategies,               \* the tasks that call clear_trade()
  Leveraged,                \* those that call it with flash_amount_usd > 0
  Nobody,                   \* the value of the lock when it is free
  WinAmounts, LossAmounts,  \* profits and losses record_trade() is given
  MaxWin, MaxLoss,          \* the largest of them
  MaxProfit,                \* bound of the model: total profit stops here
  MAX_CONSECUTIVE_FAILURES, \* 3 in the code
  TELEMETRY_MAX_RETRIES     \* 5 in the code

ASSUME StrategiesAssumption ==
  /\ IsFiniteSet(Strategies)
  /\ Leveraged \subseteq Strategies
  /\ Nobody \notin Strategies

ASSUME AmountsAssumption ==
  /\ MaxWin \in Nat /\ WinAmounts \subseteq 1..MaxWin
  /\ MaxLoss \in Nat /\ LossAmounts \subseteq 0..MaxLoss
  /\ MaxProfit \in Nat

ASSUME LimitsAssumption ==
  /\ MAX_CONSECUTIVE_FAILURES \in Nat \ {0}
  /\ TELEMETRY_MAX_RETRIES \in Nat \ {0}

VARIABLES
  risk,    \* self.state, a RiskState
  lock,    \* self._lock: the strategy inside clear_trade(), or Nobody
  pc,      \* where each strategy stands
  leaked   \* history: clearances granted since the pause in force began

vars == <<risk, lock, pc, leaked>>

(***************************************************************************)
(* State                                                                   *)
(***************************************************************************)

OperatorReasons == {"hud_emergency_stop", "anomalous_price", "audit"}
PauseReasons ==
  OperatorReasons \cup
    {"consecutive_failures", "daily_loss", "telemetry_uncertain_retries"}

RiskState ==
  [paused : BOOLEAN, pauseReason : PauseReasons \cup {"none"},
   failures : Nat, dailyLoss : Nat, totalProfit : Nat, dayOver : BOOLEAN,
   degraded : BOOLEAN, graceOver : BOOLEAN, retries : Nat]

Steps == {"idle", "waiting", "health", "gas", "cleared"}

TypeOK ==
  /\ risk \in RiskState
  /\ lock \in Strategies \cup {Nobody}
  /\ pc \in [Strategies -> Steps]
  /\ leaked \in Nat

Init ==
  /\ risk = [paused |-> FALSE, pauseReason |-> "none",
             failures |-> 0, dailyLoss |-> 0, totalProfit |-> 0,
             dayOver |-> FALSE,
             degraded |-> FALSE, graceOver |-> FALSE, retries |-> 0]
  /\ lock = Nobody
  /\ pc = [s \in Strategies |-> "idle"]
  /\ leaked = 0

(***************************************************************************)
(* The methods that only transform self.state                              *)
(***************************************************************************)

MAX_DAILY_LOSS_PCT == 5

Capital(st) == IF st.totalProfit + 100 > 1 THEN st.totalProfit + 100 ELSE 1

\* Slip: the percentage is used as if it were a fraction.
OverDailyLimitUnscaled(st) == st.dailyLoss > MAX_DAILY_LOSS_PCT * Capital(st)

OverDailyLimit(st) == 100 * st.dailyLoss > MAX_DAILY_LOSS_PCT * Capital(st)

Pause(st, reason) == [st EXCEPT !.paused = TRUE, !.pauseReason = reason]

Resume(st) ==
  [st EXCEPT !.paused = FALSE, !.pauseReason = "none", !.failures = 0]

\* Slip: the new day resumes whatever the reason of the pause.
MaybeResetDailyResumes(st) ==
  IF st.dayOver
  THEN Resume([st EXCEPT !.dailyLoss = 0, !.dayOver = FALSE])
  ELSE st

MaybeResetDaily(st) ==
  LET fresh == [st EXCEPT !.dailyLoss = 0, !.dayOver = FALSE]
  IN  IF ~st.dayOver THEN st
      ELSE IF st.pauseReason = "daily_loss" THEN Resume(fresh) ELSE fresh

ClearDegraded(st) ==
  [st EXCEPT !.degraded = FALSE, !.graceOver = FALSE, !.retries = 0]

\* Slip: the end of the degraded mode is left to the next reading.
RefreshDegradedNever(st) == st

RefreshDegraded(st) ==
  IF st.degraded /\ st.graceOver THEN ClearDegraded(st) ELSE st

\* The retry count is only ever compared with TELEMETRY_MAX_RETRIES, so it
\* saturates there.
EnterDegraded(st) ==
  LET n == IF st.retries < TELEMETRY_MAX_RETRIES THEN st.retries + 1
                                                 ELSE st.retries
      uncertain == [st EXCEPT !.degraded = TRUE, !.graceOver = FALSE,
                              !.retries = n]
  IN  IF n >= TELEMETRY_MAX_RETRIES
      THEN Pause(uncertain, "telemetry_uncertain_retries")
      ELSE uncertain

(***************************************************************************)
(* clear_trade()                                                           *)
(***************************************************************************)

Goto(s, step) == pc' = [pc EXCEPT ![s] = step]

\* The state clear_trade() judges: counters of a finished day and an expired
\* degraded mode are dropped first.
AtEntry == RefreshDegraded(MaybeResetDaily(risk))

\* An automatic resume ends the pause the history variable counts for.
KeepLeaked == leaked' = IF AtEntry.paused THEN leaked ELSE 0

Call(s) ==
  /\ pc[s] = "idle"
  /\ Goto(s, "waiting")
  /\ UNCHANGED <<risk, lock, leaked>>

\* Slip: the checks run without the lock.
TakeLockUnguarded(s) == pc[s] = "waiting"

TakeLock(s) == pc[s] = "waiting" /\ lock = Nobody

\* Some check before the first await fails; clear_trade() returns and gives
\* the lock back in the same step.
RefusedAtEntry(s) ==
  /\ TakeLock(s)
  /\ \/ AtEntry.paused
     \/ AtEntry.degraded /\ s \in Leveraged
  /\ risk' = AtEntry
  /\ Goto(s, "idle")
  /\ KeepLeaked
  /\ UNCHANGED lock

\* Slip: the pause is not looked at before the other checks.
AdmissibleWhilePaused(s) == ~(AtEntry.degraded /\ s \in Leveraged)

Admissible(s) ==
  ~AtEntry.paused /\ ~(AtEntry.degraded /\ s \in Leveraged)

\* Slip: off by one.
TooManyFailuresOffByOne(st) == st.failures > MAX_CONSECUTIVE_FAILURES

TooManyFailures(st) == st.failures >= MAX_CONSECUTIVE_FAILURES

TripFailures(s) ==
  /\ TakeLock(s)
  /\ Admissible(s)
  /\ TooManyFailures(AtEntry)
  /\ risk' = Pause(AtEntry, "consecutive_failures")
  /\ Goto(s, "idle")
  /\ KeepLeaked
  /\ UNCHANGED lock

TripDailyLoss(s) ==
  /\ TakeLock(s)
  /\ Admissible(s)
  /\ ~TooManyFailures(AtEntry)
  /\ OverDailyLimit(AtEntry)
  /\ risk' = Pause(AtEntry, "daily_loss")
  /\ Goto(s, "idle")
  /\ KeepLeaked
  /\ UNCHANGED lock

\* All local checks pass; clear_trade() awaits the account state and keeps
\* the lock while it does.
BeginChecks(s) ==
  /\ TakeLock(s)
  /\ Admissible(s)
  /\ ~TooManyFailures(AtEntry)
  /\ ~OverDailyLimit(AtEntry)
  /\ risk' = AtEntry
  /\ lock' = s
  /\ Goto(s, "health")
  /\ KeepLeaked

\* get_account_state() answers.  Any answer ends the degraded mode; a low
\* health factor with debt refuses the trade.
HealthKnown(s) ==
  /\ pc[s] = "health"
  /\ risk' = IF risk.degraded THEN ClearDegraded(risk) ELSE risk
  /\ \/ Goto(s, "gas") /\ UNCHANGED lock
     \/ Goto(s, "idle") /\ lock' = Nobody
  /\ UNCHANGED leaked

\* Slip: a failed reading lets leveraged trades go on as well.
HealthUnknownGoesOn(s) ==
  /\ pc[s] = "health"
  /\ risk' = EnterDegraded(risk)
  /\ Goto(s, "gas")
  /\ UNCHANGED lock
  /\ leaked' = IF risk.paused THEN leaked ELSE 0

\* Slip: the refusal returns without releasing the lock.
HealthUnknownKeepsLock(s) ==
  /\ pc[s] = "health"
  /\ risk' = EnterDegraded(risk)
  /\ IF s \in Leveraged THEN Goto(s, "idle") ELSE Goto(s, "gas")
  /\ leaked' = IF risk.paused THEN leaked ELSE 0
  /\ UNCHANGED lock

\* get_account_state() raises.  A trade without leverage goes on, even when
\* this failure is the one that pauses trading.
HealthUnknown(s) ==
  /\ pc[s] = "health"
  /\ risk' = EnterDegraded(risk)
  /\ IF s \in Leveraged
     THEN Goto(s, "idle") /\ lock' = Nobody
     ELSE Goto(s, "gas") /\ UNCHANGED lock
  /\ leaked' = IF risk.paused THEN leaked ELSE 0

\* The gas price is read (or defaulted); the trade is refused when it is
\* above the ceiling or when the expected profit does not cover the costs.
RefusedOnGas(s) ==
  /\ pc[s] = "gas"
  /\ Goto(s, "idle")
  /\ lock' = Nobody
  /\ UNCHANGED <<risk, leaked>>

Clear(s) ==
  /\ pc[s] = "gas"
  /\ Goto(s, "cleared")
  /\ lock' = Nobody
  /\ leaked' = IF risk.paused THEN leaked + 1 ELSE leaked
  /\ UNCHANGED risk

(***************************************************************************)
(* record_trade(), and a cleared trade that is never recorded or whose     *)
(* record changes nothing the gate looks at (success without profit).      *)
(* Losses are part of the method; the engine's one call of it records wins *)
(* (engine.py:470), see ClaimBreaker.cfg for what follows.                 *)
(***************************************************************************)

\* Slip: a win takes back one failure instead of all of them.
RecordWinTakesOneBack(s, amount) ==
  /\ pc[s] = "cleared"
  /\ risk.totalProfit + amount <= MaxProfit
  /\ risk' = [risk EXCEPT !.failures = @ - 1, !.totalProfit = @ + amount]
  /\ Goto(s, "idle")
  /\ UNCHANGED <<lock, leaked>>

RecordWin(s, amount) ==
  /\ pc[s] = "cleared"
  /\ risk.totalProfit + amount <= MaxProfit
  /\ risk' = [risk EXCEPT !.failures = 0, !.totalProfit = @ + amount]
  /\ Goto(s, "idle")
  /\ UNCHANGED <<lock, leaked>>

RecordLoss(s, amount) ==
  /\ pc[s] = "cleared"
  /\ risk' = [risk EXCEPT !.failures = @ + 1, !.dailyLoss = @ + amount]
  /\ Goto(s, "idle")
  /\ UNCHANGED <<lock, leaked>>

Unrecorded(s) ==
  /\ pc[s] = "cleared"
  /\ Goto(s, "idle")
  /\ UNCHANGED <<risk, lock, leaked>>

(***************************************************************************)
(* What happens between the awaits                                         *)
(***************************************************************************)

\* The HUD's emergency stop, a price move of more than 10%, the self-audit.
OperatorPause(reason) ==
  /\ risk' = Pause(risk, reason)
  /\ leaked' = IF risk.paused THEN leaked ELSE 0
  /\ UNCHANGED <<lock, pc>>

\* The HUD's reset_circuit command.
OperatorResume ==
  /\ risk' = Resume(risk)
  /\ leaked' = 0
  /\ UNCHANGED <<lock, pc>>

DayPasses ==
  /\ ~risk.dayOver
  /\ risk' = [risk EXCEPT !.dayOver = TRUE]
  /\ UNCHANGED <<lock, pc, leaked>>

GracePasses ==
  /\ risk.degraded /\ ~risk.graceOver
  /\ risk' = [risk EXCEPT !.graceOver = TRUE]
  /\ UNCHANGED <<lock, pc, leaked>>

(***************************************************************************)
(* Specification                                                           *)
(***************************************************************************)

Enter(s) ==
  RefusedAtEntry(s) \/ TripFailures(s) \/ TripDailyLoss(s) \/ BeginChecks(s)

Answer(s) ==
  HealthKnown(s) \/ HealthUnknown(s) \/ RefusedOnGas(s) \/ Clear(s)

Record(s) ==
  \/ \E a \in WinAmounts : RecordWin(s, a)
  \/ \E a \in LossAmounts : RecordLoss(s, a)
  \/ Unrecorded(s)

StrategyStep(s) == Call(s) \/ Enter(s) \/ Answer(s) \/ Record(s)

Next ==
  \/ \E s \in Strategies : StrategyStep(s)
  \/ \E r \in OperatorReasons : OperatorPause(r)
  \/ OperatorResume
  \/ DayPasses
  \/ GracePasses

Spec == Init /\ [][Next]_vars

\* The two awaits of clear_trade() return or raise, and asyncio.Lock hands
\* itself to its waiters in the order they came, so a strategy that keeps
\* waiting while the lock keeps becoming free gets it.
FairSpec ==
  /\ Spec
  /\ \A s \in Strategies : WF_vars(Answer(s)) /\ SF_vars(Enter(s))

\* Time passes.  No strategy is assumed to ask: a loop of the engine calls
\* clear_trade() only for the opportunities its scan() has found.
TimedFairSpec == FairSpec /\ WF_vars(GracePasses)

(***************************************************************************)
(* Properties                                                              *)
(***************************************************************************)

Checking == {s \in Strategies : pc[s] \in {"health", "gas"}}
InFlight == {s \in Strategies : pc[s] \in {"health", "gas", "cleared"}}

\* The lock is held by exactly the strategy that is between the awaits of
\* clear_trade() (`async with self._lock', line 134).
LockDiscipline == \A s \in Strategies : s \in Checking <=> lock = s

\* A leveraged trade that is past the health factor check was checked against
\* a health factor that is still the last word: no other strategy's failed
\* reading put the gate into degraded mode meanwhile (lines 147 and 201, which
\* only the lock makes atomic).
LeverageSeesHealth ==
  \A s \in Leveraged : pc[s] = "gas" => ~risk.degraded

\* A pause does not stop the clearance that is already under way (it is tested
\* once, before the awaits, line 140), but that is all it lets through: at most
\* one trade is cleared between a pause and the next resume.
AtMostOneTradeAfterPause ==
  risk.paused => leaked + (IF lock = Nobody THEN 0 ELSE 1) <= 1

\* The breaker counts failures of trades that were already in flight when the
\* limit was reached (lines 165 and 270): the counter overshoots the limit by
\* less than one failure per strategy.
BreakerOvershoot ==
  risk.failures + Cardinality(InFlight)
    < MAX_CONSECUTIVE_FAILURES + Cardinality(Strategies)

\* Likewise the loss of a day exceeds 5% of the capital by no more than what
\* the strategies could lose in the trades cleared before it was reached
\* (lines 173-179 and 271).
DailyLossOvershoot ==
  100 * (risk.dailyLoss + MaxLoss * Cardinality(InFlight))
    <= MAX_DAILY_LOSS_PCT * Capital(risk)
         + 100 * MaxLoss * Cardinality(Strategies)

\* The start of a new day lifts only a pause of the daily loss limit: while
\* trading is paused for any other reason it stays so, under a reason that the
\* next day does not lift either, until the operator resumes it.
OnlyOperatorLifts ==
  [][risk.paused /\ risk.pauseReason # "daily_loss"
       => \/ risk'.paused /\ risk'.pauseReason # "daily_loss"
          \/ OperatorResume]_vars

\* The gate implements TradeGate: a halt is a pause, and the straggler is the
\* strategy that holds the lock while trading is paused.
Gate ==
  INSTANCE TradeGate WITH
    halted <- risk.paused,
    straggler <- risk.paused /\ lock # Nobody,
    trading <- {s \in Strategies : pc[s] = "cleared"}

ImplementsTradeGate == Gate!Spec

\* Every call of clear_trade() is answered.
EveryCallAnswered ==
  \A s \in Strategies : pc[s] = "waiting" ~> pc[s] \in {"idle", "cleared"}

\* The degraded mode is tested for its end only when the gate is asked (line
\* 137).  If it is asked again and again, and callers without leverage, which the
\* engine has none of, take no readings any more, the mode ends: leveraged callers
\* are refused before they take one, so a failing source cannot keep extending it,
\* and neither a pause nor a lock that others hold keeps the test from being made.
AskedAgainAndAgain == []<><<\E s \in Strategies : Call(s)>>_vars
ReadsUnleveraged == \E s \in Strategies \ Leveraged : pc[s] = "health"
DegradedModeEnds ==
  AskedAgainAndAgain /\ <>[]~ReadsUnleveraged => (risk.degraded ~> ~risk.degraded)
=============================================================================
