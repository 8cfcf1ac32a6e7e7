--------------------------- MODULE TradeReporting ---------------------------
(***************************************************************************)
(* The way of a profitable trade from the strategies to the backend's      *)
(* profit records: PlatformReporter of src/src/monitoring/                 *)
(* platform_reporter.py with its queue and its worker task, and the        *)
(* endpoint /internal/trade of src/backend/auth.py.                        *)
(*                                                                         *)
(* The worker takes trades from the queue one by one and posts them in     *)
(* batches, each up to MaxRetries + 1 times until one answer says 200.     *)
(* The pause between two attempts is part of the failed one.  The endpoint *)
(* writes one more record for every request it gets to see.                *)
(*                                                                         *)
(* The worker waits for the queue through asyncio.wait_for() of Python     *)
(* 3.11, which the Dockerfile names: a cancellation that comes when the    *)
(* trade is already taken off the queue is swallowed.                      *)
(*                                                                         *)
(* The vault deposit and the Telegram message report_trade() starts are    *)
(* tasks of their own that share nothing with the queue; so are the        *)
(* statistics.  The reporter has the address and the token of the backend; *)
(* without them it posts nothing at all.                                   *)
(*                                                                         *)
(* A definition marked `Slip:' is a mistake the code could have made where *)
(* the next definition is right; nothing uses it.                          *)
(***************************************************************************)
EXTENDS Naturals, Sequences, Functions

CONSTANTS
  Trades,      \* the profitable trades of a run
  QueueSize,   \* maxsize of the queue, 2000 in the code
  BatchSize,   \* REPORT_BATCH_SIZE, 25 by default
  MaxRetries   \* REPORT_API_MAX_RETRIES, 3 by default

ASSUME SizesAssumption ==
  /\ QueueSize \in Nat \ {0}
  /\ BatchSize \in Nat \ {0}
  /\ MaxRetries \in Nat

VARIABLES
  running,     \* self._running
  queue,       \* self._queue
  worker,      \* where _worker() stands
  batch,       \* its batch
  next,        \* while it flushes: index of the trade it is posting
  attempt,     \* and how many posts of this trade failed
  records,     \* the backend: number of profit records of each trade
  late,        \* requests nobody waits for that the backend may still commit
  reported,    \* history: trades given to report_trade()
  turnedAway,  \* history: trades report_trade() did not enqueue
  givenUp,     \* history: trades whose last attempt failed
  unanswered,  \* history: trades with a request that became late
  reposted,    \* history: trades posted before the flush was begun anew
  leftBehind   \* history: trades the reporter had when it was stopped

reporter == <<running, queue, worker, batch, next, attempt>>
backend == <<records, late>>
history == <<reported, turnedAway, givenUp, unanswered, reposted, leftBehind>>
vars == <<reporter, backend, history>>

\* polling: in wait_for(queue.get()); took: the trade is off the queue and in
\* the batch, the worker not resumed; flushing: a full batch; idleFlushing: in
\* the handler of TimeoutError; lastFlushing: in the handler of CancelledError; gone:
\* the worker has ended; dead: the process has.
Flushes == {"flushing", "idleFlushing", "lastFlushing"}

TypeOK ==
  /\ running \in BOOLEAN
  /\ queue \in Seq(Trades) /\ Len(queue) <= QueueSize
  /\ worker \in {"polling", "took", "gone", "dead"} \cup Flushes
  /\ batch \in Seq(Trades) /\ Len(batch) <= BatchSize
  /\ next \in 1..BatchSize /\ attempt \in 0..MaxRetries
  /\ records \in [Trades -> Nat] /\ late \in [Trades -> Nat]
  /\ reported \cup turnedAway \cup givenUp \cup unanswered
       \cup reposted \cup leftBehind \subseteq Trades

\* start() has been awaited by the engine's initialize().
Init ==
  /\ running = TRUE
  /\ queue = <<>> /\ worker = "polling" /\ batch = <<>>
  /\ next = 1 /\ attempt = 0
  /\ records = [t \in Trades |-> 0] /\ late = [t \in Trades |-> 0]
  /\ reported = {} /\ turnedAway = {} /\ givenUp = {}
  /\ unanswered = {} /\ reposted = {} /\ leftBehind = {}

(***************************************************************************)
(* report_trade()                                                          *)
(***************************************************************************)

\* The strategies' loops are not cancelled by a shutdown and may report to a
\* reporter that has stopped.
ReportTrade(t) ==
  /\ worker # "dead"
  /\ t \notin reported
  /\ reported' = reported \cup {t}
  /\ IF running /\ Len(queue) < QueueSize
     THEN queue' = Append(queue, t) /\ UNCHANGED turnedAway
     ELSE turnedAway' = turnedAway \cup {t} /\ UNCHANGED queue
  /\ UNCHANGED <<running, worker, batch, next, attempt, backend,
                 givenUp, unanswered, reposted, leftBehind>>

(***************************************************************************)
(* _worker()                                                               *)
(***************************************************************************)

Begin(flush) == worker' = flush /\ next' = 1 /\ attempt' = 0

\* Slip: the loop's condition is `while True'.
LoopForever == worker' = "polling"

\* Back to the head of the loop, `while self._running'.
Loop == worker' = IF running THEN "polling" ELSE "gone"

TakeTrade ==
  /\ worker = "polling" /\ queue # <<>>
  /\ worker' = "took"
  /\ queue' = Tail(queue)
  /\ batch' = Append(batch, Head(queue))
  /\ UNCHANGED <<running, next, attempt, backend, history>>

\* Slip: off by one.
ResumeOffByOne ==
  /\ worker = "took"
  /\ IF Len(batch) > BatchSize
     THEN Begin("flushing")
     ELSE Loop /\ UNCHANGED <<next, attempt>>
  /\ UNCHANGED <<running, queue, batch, backend, history>>

Resume ==
  /\ worker = "took"
  /\ IF Len(batch) >= BatchSize
     THEN Begin("flushing")
     ELSE Loop /\ UNCHANGED <<next, attempt>>
  /\ UNCHANGED <<running, queue, batch, backend, history>>

\* Slip: the timeout only goes on polling, and a batch waits until it is full.
IdleTimeoutSkips ==
  /\ worker = "polling" /\ queue = <<>> /\ batch # <<>>
  /\ UNCHANGED vars

\* wait_for() raises TimeoutError.
IdleTimeout ==
  /\ worker = "polling" /\ queue = <<>> /\ batch # <<>>
  /\ Begin("idleFlushing")
  /\ UNCHANGED <<running, queue, batch, backend, history>>

(***************************************************************************)
(* _flush_batch() and _report_to_api()                                     *)
(***************************************************************************)

Posting == batch[next]

\* Slip: the batch is not cleared after it was flushed.
AdvanceKeepsBatch ==
  /\ attempt' = 0
  /\ IF next < Len(batch)
     THEN next' = next + 1 /\ UNCHANGED <<worker, batch>>
     ELSE /\ next' = 1
          /\ UNCHANGED batch
          /\ IF worker = "lastFlushing" THEN worker' = "gone" ELSE Loop

\* On to the next trade of the batch, or out of the flush.
Advance ==
  /\ attempt' = 0
  /\ IF next < Len(batch)
     THEN next' = next + 1 /\ UNCHANGED <<worker, batch>>
     ELSE /\ next' = 1
          /\ batch' = <<>>
          /\ IF worker = "lastFlushing" THEN worker' = "gone" ELSE Loop

\* The request under way is dropped by the client; the endpoint may never see
\* it, or commit it later.
DropRequest ==
  \/ UNCHANGED <<late, unanswered>>
  \/ /\ late' = [late EXCEPT ![Posting] = @ + 1]
     /\ unanswered' = unanswered \cup {Posting}

\* The endpoint commits a record and its answer arrives.
PostAnswered ==
  /\ worker \in Flushes
  /\ records' = [records EXCEPT ![Posting] = @ + 1]
  /\ Advance
  /\ UNCHANGED <<running, queue, late, history>>

\* Slip: the attempt after the last one is made as well.
MoreAttemptsOffByOne == attempt <= MaxRetries

MoreAttempts == attempt < MaxRetries

\* No answer within ten seconds, a broken connection, or a status other than
\* 200: try again, or let the trade go.
PostFailed ==
  /\ worker \in Flushes
  /\ DropRequest
  /\ IF MoreAttempts
     THEN attempt' = attempt + 1 /\ UNCHANGED <<worker, batch, next, givenUp>>
     ELSE Advance /\ givenUp' = givenUp \cup {Posting}
  /\ UNCHANGED <<running, queue, records, reported, turnedAway, reposted,
                 leftBehind>>

\* The endpoint commits a request whose sender is not waiting any more.
LateCommit(t) ==
  /\ late[t] > 0
  /\ late' = [late EXCEPT ![t] = @ - 1]
  /\ records' = [records EXCEPT ![t] = @ + 1]
  /\ UNCHANGED <<reporter, history>>

(***************************************************************************)
(* stop(), and the end of the process                                      *)
(***************************************************************************)

\* The trades the worker has in its batch and has not dealt with.
InHand ==
  IF worker \in Flushes THEN {batch[i] : i \in next..Len(batch)}
  ELSE IF worker \in {"polling", "took"} THEN Range(batch) ELSE {}

\* Slip: the last flush goes on after the trade the cancelled one was posting.
StopSkipsOne ==
  /\ worker = "flushing"
  /\ running' = FALSE
  /\ IF next < Len(batch)
     THEN worker' = "lastFlushing" /\ next' = next + 1 /\ attempt' = 0
     ELSE worker' = "gone" /\ UNCHANGED <<next, attempt>>
  /\ DropRequest
  /\ leftBehind' = leftBehind \cup Range(queue)
  /\ UNCHANGED <<queue, batch, records, reported, turnedAway, givenUp, reposted>>

\* The cancellation ends the flush of a full batch, and the handler flushes
\* the whole batch once more.
StopWhileFlushing ==
  /\ worker = "flushing"
  /\ running' = FALSE
  /\ Begin("lastFlushing")
  /\ DropRequest
  /\ reposted' = reposted \cup {batch[i] : i \in 1..next}
  /\ leftBehind' = leftBehind \cup Range(queue)
  /\ UNCHANGED <<queue, batch, records, reported, turnedAway, givenUp>>

\* The cancellation ends a flush inside an exception handler, which no other
\* handler catches.
StopInHandler ==
  /\ worker \in {"idleFlushing", "lastFlushing"}
  /\ running' = FALSE
  /\ worker' = "gone"
  /\ DropRequest
  /\ leftBehind' = leftBehind \cup Range(queue) \cup InHand
  /\ UNCHANGED <<queue, batch, next, attempt, records, reported, turnedAway,
                 givenUp, reposted>>

StopWhilePolling ==
  /\ worker = "polling"
  /\ running' = FALSE
  /\ IF batch # <<>> THEN Begin("lastFlushing")
                     ELSE worker' = "gone" /\ UNCHANGED <<next, attempt>>
  /\ leftBehind' = leftBehind \cup Range(queue)
  /\ UNCHANGED <<queue, batch, backend, reported, turnedAway, givenUp,
                 unanswered, reposted>>

\* The cancellation is swallowed: the worker resumes with the trade it took
\* and leaves the loop, without a flush unless the batch is full.
StopSwallowed ==
  /\ worker = "took"
  /\ running' = FALSE
  /\ leftBehind' = leftBehind \cup Range(queue)
                     \cup (IF Len(batch) >= BatchSize THEN {} ELSE InHand)
  /\ UNCHANGED <<queue, worker, batch, next, attempt, backend, reported,
                 turnedAway, givenUp, unanswered, reposted>>

\* Each SIGTERM or SIGINT starts a shutdown, so the worker may be cancelled
\* while it is stopping already.
Stop ==
  StopWhilePolling \/ StopSwallowed \/ StopWhileFlushing \/ StopInHandler

\* The process ends, by a crash, a SIGKILL or after its shutdown; nothing is on
\* disk.
Crash ==
  /\ worker # "dead"
  /\ running' = FALSE /\ worker' = "dead"
  /\ IF worker \in Flushes THEN DropRequest ELSE UNCHANGED <<late, unanswered>>
  /\ leftBehind' = leftBehind \cup Range(queue) \cup InHand
  /\ UNCHANGED <<queue, batch, next, attempt, records, reported, turnedAway,
                 givenUp, reposted>>

(***************************************************************************)
(* Specification                                                           *)
(***************************************************************************)

Work ==
  TakeTrade \/ Resume \/ IdleTimeout \/ PostAnswered \/ PostFailed

Next ==
  \/ \E t \in Trades : ReportTrade(t) \/ LateCommit(t)
  \/ Work \/ Stop \/ Crash

Spec == Init /\ [][Next]_vars

\* The event loop runs a worker that can go on: the wait for the queue ends
\* after REPORT_BATCH_INTERVAL_S seconds, a post after ten.
FairSpec == Spec /\ WF_vars(Work)

(***************************************************************************)
(* Properties                                                              *)
(***************************************************************************)

\* A trade that was reported is recorded, on its way, refused by a full or
\* stopped queue, given up after the last attempt, or was with the reporter
\* when it was stopped and the stop had no flush for it.  In particular no
\* trade gets lost as long as the reporter runs and the backend answers.
EveryTradeAccounted ==
  \A t \in reported :
    \/ records[t] > 0
    \/ t \in InHand
    \/ running /\ t \in Range(queue)
    \/ t \in turnedAway \cup givenUp \cup leftBehind

\* A profit is recorded twice only when a request went unanswered or a flush
\* was cancelled and begun anew: the endpoint does not recognise a trade it
\* has seen, so nothing else may post it twice.
DuplicatesHaveCause ==
  \A t \in Trades : records[t] + late[t] > 1 => t \in unanswered \cup reposted

\* However often that happens, a trade is recorded no more than once per
\* attempt, and twice as often only if its flush was begun anew.
RecordsBounded ==
  \A t \in Trades :
    records[t] + late[t]
      <= (MaxRetries + 1) * (IF t \in reposted THEN 2 ELSE 1)

\* A trade in the queue does not stay there: it is recorded or given up, or
\* the reporter stops, even when no other trade ever fills its batch.
QueuedIsSettled ==
  \A t \in Trades :
    t \in Range(queue) ~> records[t] > 0 \/ t \in givenUp \/ ~running

\* stop() waits for the worker, and the engine's shutdown for stop(): the
\* worker ends, although its cancellation can be swallowed.
StopEnds == ~running ~> worker \in {"gone", "dead"}
=============================================================================
