----------------------------- MODULE Lifecycle ------------------------------
(***************************************************************************)
(* Boot, supervision and shutdown of the bot: TradingEngine of             *)
(* src/src/core/engine.py with the task supervisor, the PartyKit client    *)
(* and the parts of the scanner, the reporter and the upgrades that start  *)
(* and stop them.                                                          *)
(*                                                                         *)
(* Every signal creates a shutdown task of its own, and the loops go on    *)
(* while it waits: an action is the code between two awaits.  The          *)
(* reporter's worker and the scanner's loops are looked into by            *)
(* TradeReporting and LiquidationScanner; here they end when told to.      *)
(* A definition marked `Slip:' is a plausible mistake, kept to test the    *)
(* properties with; nothing uses it.                                       *)
(***************************************************************************)
EXTENDS Integers

CONSTANTS
  Signals,       \* the SIGTERMs and SIGINTs the process gets
  Sleepers,      \* loops that sleep, work and test _running: arb, capital, ...
  Optional,      \* of "mev" and "keep_warm", what the environment asks for
  MaxRestarts,   \* max_restarts of the health task
  FailureBudget  \* failure_budget of the health task

VARIABLES
  stage,           \* how far _initialize_impl() and run() are
  running,         \* TradingEngine._running
  scanner_running, \* LiquidationScanner._running
  http_session,    \* the session shared by scanner and reporter
  worker,          \* the reporter's worker task
  partykit,        \* PartyKitClient._session
  connected,       \* PartyKitClient.is_connected
  task,            \* where each task waits
  restarts,        \* of the health task
  pk_interval,     \* of _hud_state_loop()
  shutdown         \* where each signal's shutdown() waits

vars == <<stage, running, scanner_running, http_session, worker, partykit,
          connected, task, restarts, pk_interval, shutdown>>

ASSUME LifecycleAssumption ==
  MaxRestarts \in Nat /\ FailureBudget \in Nat /\ Optional \subseteq {"mev", "keep_warm"}

Stages == <<"wallet", "http", "rpc", "nonce", "strategies", "vault", "reporter",
            "advanced", "partykit", "initialized", "running">>
NextStage(s) == Stages[1 + CHOOSE i \in DOMAIN Stages : Stages[i] = s]

\* The loops that test a flag shutdown() clears, and those that do not.
Watching == Sleepers \cup {"price_feed", "liq_scanner", "hud_state", "health"}
Unwatched == {"mev", "keep_warm", "self_audit"}
Tasks == Watching \cup Unwatched
Over == {"ended", "given up"}
Sessions == {"none", "open", "closed"}

TypeOK ==
  /\ stage \in {Stages[i] : i \in DOMAIN Stages} \cup {"failed"}
  /\ running \in BOOLEAN /\ scanner_running \in BOOLEAN
  /\ http_session \in Sessions /\ partykit \in Sessions
  /\ worker \in {"none", "working", "cancelled", "ended"}
  /\ connected \in BOOLEAN
  /\ task \in [Tasks -> {"off", "waiting", "connecting", "streaming", "sending",
                         "starting", "backoff"} \cup Over]
  /\ restarts \in 0..MaxRestarts
  /\ pk_interval \in 0..1
  /\ shutdown \in [Signals -> {"none", "created", "worker", "socket", "http", "done"}]

Init ==
  /\ stage = "wallet"
  /\ running = FALSE /\ scanner_running = FALSE
  /\ http_session = "none" /\ worker = "none"
  /\ partykit = "none" /\ connected = FALSE
  /\ task = [t \in Tasks |-> "off"]
  /\ restarts = 0 /\ pk_interval = 0
  /\ shutdown = [s \in Signals |-> "none"]

-----------------------------------------------------------------------------
\* Boot, in dependency order.

Boot ==
  /\ stage \notin {"partykit", "initialized", "running", "failed"}
  /\ stage' = NextStage(stage)
  /\ http_session' = IF stage = "http" THEN "open" ELSE http_session
  /\ worker' = IF stage = "reporter" THEN "working" ELSE worker
  /\ UNCHANGED <<running, scanner_running, partykit, connected, task, restarts,
                 pk_interval, shutdown>>

\* No key, no nonce from the node, or a quoter that does not answer: the warning
\* about the quoter passes keywords the logger refuses, and its TypeError ends
\* the boot.  The session is left open; run() raises and the process ends.
BootFails ==
  /\ stage \in {"wallet", "nonce", "strategies"}
  /\ stage' = "failed"
  /\ UNCHANGED <<running, scanner_running, http_session, worker, partykit,
                 connected, task, restarts, pk_interval, shutdown>>

\* The first connection to PartyKit: a failure raises, since the warning about
\* it does, before any back-off; initialize() goes on without the dashboard.
BootPartyKit ==
  /\ stage = "partykit" /\ stage' = "initialized"
  /\ running' = TRUE
  /\ partykit' = "open"
  /\ connected' \in BOOLEAN
  /\ UNCHANGED <<scanner_running, http_session, worker, task, restarts,
                 pk_interval, shutdown>>

\* _mev_loop_impl(): the mempool watch, if boot has built the strategy.
MevFirstWait == IF "mev" \in Optional THEN "waiting" ELSE "ended"

\* Where each task waits after its first step.  A task that was not asked for
\* returns at once, or is not created.
FirstWait(t) ==
  CASE t = "price_feed" -> "connecting"
    [] t = "health" -> "starting"
    [] t = "mev" -> MevFirstWait
    [] t = "keep_warm" /\ "keep_warm" \notin Optional -> "ended"
    [] OTHER -> "waiting"

\* The tasks are created without an await, so their first steps come before any
\* signal is looked at.
Run ==
  /\ stage = "initialized" /\ stage' = "running"
  /\ task' = [t \in Tasks |-> FirstWait(t)]
  /\ scanner_running' = TRUE
  /\ UNCHANGED <<running, http_session, worker, partykit, connected, restarts,
                 pk_interval, shutdown>>

-----------------------------------------------------------------------------
\* The loops.

Moves(t, to) ==
  /\ task' = [task EXCEPT ![t] = to]
  /\ UNCHANGED <<stage, running, scanner_running, http_session, worker, partykit,
                 connected, restarts, pk_interval, shutdown>>

SleeperEnds(t) == t \in Sleepers /\ task[t] = "waiting" /\ ~running /\ Moves(t, "ended")

ScannerEnds ==
  task["liq_scanner"] = "waiting" /\ ~scanner_running /\ Moves("liq_scanner", "ended")

\* The price feed tests the flag at every tick and before every connection.
FeedConnects == task["price_feed"] = "connecting" /\ Moves("price_feed", "streaming")
FeedLost ==
  /\ task["price_feed"] \in {"connecting", "streaming"}
  /\ Moves("price_feed", "waiting")
FeedTick == task["price_feed"] = "streaming" /\ ~running /\ Moves("price_feed", "ended")
FeedAgain ==
  /\ task["price_feed"] = "waiting"
  /\ Moves("price_feed", IF running THEN "connecting" ELSE "ended")

\* The health task is the only one that raises: its port may be taken.
HealthServes == task["health"] = "starting" /\ Moves("health", "waiting")
HealthEnds == task["health"] = "waiting" /\ ~running /\ Moves("health", "ended")

\* Slip: the supervisor restarts a task for ever.
HealthFailsFreely ==
  /\ task["health"] = "starting"
  /\ task' = [task EXCEPT !["health"] = "backoff"]
  /\ UNCHANGED <<stage, running, scanner_running, http_session, worker, partykit,
                 connected, restarts, pk_interval, shutdown>>

\* _runner(): every failure but the last is followed by a restart, so there is
\* always one failure more than there are restarts.
HealthFails ==
  LET last == restarts + 1 > FailureBudget \/ restarts >= MaxRestarts IN
  /\ task["health"] = "starting"
  /\ task' = [task EXCEPT !["health"] = IF last THEN "given up" ELSE "backoff"]
  /\ restarts' = IF last THEN restarts ELSE restarts + 1
  /\ UNCHANGED <<stage, running, scanner_running, http_session, worker, partykit,
                 connected, pk_interval, shutdown>>
HealthAgain == task["health"] = "backoff" /\ Moves("health", "starting")

-----------------------------------------------------------------------------
\* The HUD loop and its connection.

\* The head of the loop.
HudHead == IF running THEN "waiting" ELSE "ended"

\* Slip: push_state() returns at once when there is no connection.
HudTurnGivesUp ==
  /\ task["hud_state"] = "waiting"
  /\ pk_interval' = 1 - pk_interval
  /\ task' = [task EXCEPT !["hud_state"] =
                IF pk_interval = 1 /\ connected THEN "sending" ELSE HudHead]
  /\ UNCHANGED <<stage, running, scanner_running, http_session, worker, partykit,
                 connected, restarts, shutdown>>

\* Every second turn pushes the state, over a new connection if there is none.
HudTurn ==
  /\ task["hud_state"] = "waiting"
  /\ pk_interval' = 1 - pk_interval
  /\ task' = [task EXCEPT !["hud_state"] =
                IF pk_interval = 0 THEN HudHead
                ELSE IF connected THEN "sending" ELSE "connecting"]
  /\ UNCHANGED <<stage, running, scanner_running, http_session, worker, partykit,
                 connected, restarts, shutdown>>

\* Slip: connect() makes a session when the one it has is closed.
HudConnectsAnew ==
  /\ task["hud_state"] = "connecting"
  /\ partykit' = "open" /\ connected' = TRUE
  /\ task' = [task EXCEPT !["hud_state"] = "sending"]
  /\ UNCHANGED <<stage, running, scanner_running, http_session, worker, restarts,
                 pk_interval, shutdown>>

\* A closed session refuses the connection, also one that was under way.  With
\* the pinned aiohttp 3.9.3 this never happens: it has no ClientWSTimeout, so that
\* every attempt, like the one at boot, fails before it reaches the network.
HudConnects ==
  /\ task["hud_state"] = "connecting"
  /\ partykit = "open"
  /\ connected' = TRUE
  /\ task' = [task EXCEPT !["hud_state"] = "sending"]
  /\ UNCHANGED <<stage, running, scanner_running, http_session, worker, partykit,
                 restarts, pk_interval, shutdown>>

HudConnectFails ==
  /\ task["hud_state"] = "connecting"
  /\ connected' = FALSE
  /\ task' = [task EXCEPT !["hud_state"] = HudHead]
  /\ UNCHANGED <<stage, running, scanner_running, http_session, worker, partykit,
                 restarts, pk_interval, shutdown>>

\* push_state() counts the failed message and then raises from its own warning,
\* so _reconnect() is never started: the next push but one connects again.
HudSent(ok) ==
  /\ task["hud_state"] = "sending"
  /\ ok => connected
  /\ connected' = ok
  /\ task' = [task EXCEPT !["hud_state"] = HudHead]
  /\ UNCHANGED <<stage, running, scanner_running, http_session, worker, partykit,
                 restarts, pk_interval, shutdown>>

PeerCloses ==
  /\ connected /\ connected' = FALSE
  /\ UNCHANGED <<stage, running, scanner_running, http_session, worker, partykit,
                 task, restarts, pk_interval, shutdown>>

-----------------------------------------------------------------------------
\* Shutdown.  Handlers are installed once the boot is done.

Signal(s) ==
  /\ stage = "running"
  /\ shutdown[s] = "none"
  /\ shutdown' = [shutdown EXCEPT ![s] = "created"]
  /\ UNCHANGED <<stage, running, scanner_running, http_session, worker, partykit,
                 connected, task, restarts, pk_interval>>

\* partykit.disconnect(): the open socket first, then the session.
CloseSession(s) ==
  /\ partykit' = "closed" /\ connected' = FALSE
  /\ shutdown' = [shutdown EXCEPT ![s] = "http"]
Disconnect(s) ==
  IF connected
  THEN /\ connected' = FALSE /\ UNCHANGED partykit
       /\ shutdown' = [shutdown EXCEPT ![s] = "socket"]
  ELSE CloseSession(s)

\* Up to the first real await: the flags, and the worker's cancellation.
Begin(s) ==
  /\ shutdown[s] = "created"
  /\ running' = FALSE /\ scanner_running' = FALSE
  /\ IF worker = "ended" THEN Disconnect(s) /\ UNCHANGED worker
     ELSE /\ worker' = "cancelled"
          /\ shutdown' = [shutdown EXCEPT ![s] = "worker"]
          /\ UNCHANGED <<partykit, connected>>
  /\ UNCHANGED <<stage, http_session, task, restarts, pk_interval>>

\* The cancelled worker posts what it holds over http_session, and ends.
WorkerEnds ==
  /\ worker = "cancelled" /\ worker' = "ended"
  /\ UNCHANGED <<stage, running, scanner_running, http_session, partykit, connected,
                 task, restarts, pk_interval, shutdown>>

\* Slip: reporter.stop() cancels its worker and does not wait for it.
AfterReporterAtOnce(s) ==
  /\ shutdown[s] = "worker"
  /\ Disconnect(s)
  /\ UNCHANGED <<stage, running, scanner_running, http_session, worker, task,
                 restarts, pk_interval>>

AfterReporter(s) ==
  /\ shutdown[s] = "worker" /\ worker = "ended"
  /\ Disconnect(s)
  /\ UNCHANGED <<stage, running, scanner_running, http_session, worker, task,
                 restarts, pk_interval>>

AfterSocket(s) ==
  /\ shutdown[s] = "socket"
  /\ CloseSession(s)
  /\ UNCHANGED <<stage, running, scanner_running, http_session, worker, task,
                 restarts, pk_interval>>

CloseHttp(s) ==
  /\ shutdown[s] = "http"
  /\ http_session' = "closed"
  /\ shutdown' = [shutdown EXCEPT ![s] = "done"]
  /\ UNCHANGED <<stage, running, scanner_running, worker, partykit, connected, task,
                 restarts, pk_interval>>

Progress(s) == Begin(s) \/ AfterReporter(s) \/ AfterSocket(s) \/ CloseHttp(s)
HudPush == HudConnects \/ HudConnectFails \/ \E ok \in BOOLEAN : HudSent(ok)

Next ==
  \/ Boot \/ BootFails \/ BootPartyKit \/ Run
  \/ \E t \in Sleepers : SleeperEnds(t)
  \/ ScannerEnds
  \/ FeedConnects \/ FeedLost \/ FeedTick \/ FeedAgain
  \/ HealthServes \/ HealthEnds \/ HealthFails \/ HealthAgain
  \/ HudTurn \/ HudPush \/ PeerCloses
  \/ \E s \in Signals : Signal(s) \/ Progress(s)
  \/ WorkerEnds

Spec == Init /\ [][Next]_vars

\* Every await returns: sleeps do, connections and messages have time limits,
\* the feed ticks or its ping fails, the worker's requests are bounded.  Nothing
\* is assumed of the dashboard: every connection may fail, for ever.
Fairness ==
  /\ \A t \in Sleepers : WF_vars(SleeperEnds(t))
  /\ WF_vars(ScannerEnds)
  /\ WF_vars(FeedConnects \/ FeedLost) /\ WF_vars(FeedTick) /\ WF_vars(FeedAgain)
  /\ WF_vars(HealthServes \/ HealthFails) /\ WF_vars(HealthEnds) /\ WF_vars(HealthAgain)
  /\ WF_vars(HudTurn) /\ WF_vars(HudPush)
  /\ \A s \in Signals : WF_vars(Progress(s))
  /\ WF_vars(WorkerEnds)

FairSpec == Spec /\ Fairness

-----------------------------------------------------------------------------
\* Properties.

\* The reporter's worker always has its session: boot opens it first, and no
\* shutdown closes it while any shutdown still waits for the worker.  A shutdown
\* that has come to its end has closed everything, and nothing opens again: not
\* the loop that was just pushing to the dashboard, not another signal's task.
ShutdownIsFinal ==
  /\ TypeOK
  /\ worker \in {"working", "cancelled"} => http_session = "open"
  /\ (\E s \in Signals : shutdown[s] = "done") =>
       /\ ~running /\ ~scanner_running
       /\ worker = "ended" /\ http_session = "closed"
       /\ partykit = "closed" /\ ~connected

\* The stop reaches every loop that tests a flag, wherever it was waiting: the
\* feed between two connections, the health task between two restarts.
StopReachesLoops ==
  (stage = "running" /\ ~running) ~> \A t \in Watching : task[t] \in Over

\* A dashboard that is lost, or that never answered, is tried again and again by
\* the pushes themselves, although neither the back-off of connect() nor
\* _reconnect() is ever reached, and no attempt keeps the loop: as long as the bot
\* runs without a connection the loop is in connect(), and at its head, once more.
DashboardRetried ==
  \A at \in {"connecting", "waiting"} :
    (stage = "running" /\ running) ~> (connected \/ task["hud_state"] = at \/ ~running)

=============================================================================
