--------------------------- MODULE ProfitPipeline ---------------------------
(***************************************************************************)
(* From a quote to the books: the arbitrage loop of src/src/core/engine.py *)
(* with FlashArbStrategy.scan() and execute(), _report_profit() and every  *)
(* place that counts the profit.  An action is the code between two        *)
(* awaits; execute() gives way at the gas price, the send and the receipt. *)
(*                                                                         *)
(* Amounts are in cents, a float is rounded down.  The gate's answers are  *)
(* those of RiskManager: here a call may be refused at any time, and is    *)
(* refused when the gate is paused or has counted too many failures.       *)
(* A definition marked `Slip:' is a plausible mistake, kept to test the    *)
(* properties with.                                                        *)
(***************************************************************************)
EXTENDS Integers, Sequences, FiniteSets, FiniteSetsExt

CONSTANTS
  DEXES,
  PAIRS,          \* pairs and fee tiers of the two-hop search, as numbers
  TwoHopQuotes,   \* what a quoter answers for the test amount, 0 for a failure
  TriangularOuts, \* what the three hops return for 5000 dollars, in cents
  MaxSent         \* bound: transactions sent

VARIABLES
  running,       \* TradingEngine._running
  at,            \* where the arbitrage loop waits
  opps,          \* what is left of the scan's opportunities
  sent,          \* the bot's transactions, in the order they were sent
  reporting,     \* PlatformReporter._running
  queued,        \* trades put in the reporter's queue
  counted,       \* trades _report_profit() was called for
  books,         \* the places that count
  failures,      \* RiskState.consecutive_failures
  misses         \* history: executions failed since the last success

vars == <<running, at, opps, sent, reporting, queued, counted, books, failures, misses>>

ASSUME PipelineAssumption ==
  /\ PAIRS \subseteq Nat /\ TwoHopQuotes \subseteq Nat /\ TriangularOuts \subseteq Nat
  /\ IsFiniteSet(PAIRS) /\ IsFiniteSet(TwoHopQuotes)
  /\ MaxSent \in Nat

GAS_COST == 35
MIN_PROFIT == 50
MAX_CONSECUTIVE_FAILURES == 3
FlashLoanFee(flash) == (flash * 5) \div 10000

-----------------------------------------------------------------------------
\* scan()

TwoHopFlash == 1000000
TriangularFlash == 500000

\* What the model keeps of an ArbOpportunity.
Opportunity == [flash : Nat, gross : Nat, net : Nat]

\* An opportunity, if it covers the flash loan's fee and the gas.
Offer(flash, gross) ==
  LET net == gross - FlashLoanFee(flash) - GAS_COST
  IN IF net < MIN_PROFIT THEN {} ELSE {[flash |-> flash, gross |-> gross, net |-> net]}

\* Best against worst of the exchanges that answered.
TwoHop(quotes) ==
  LET outs == {quotes[d] : d \in {e \in DEXES : quotes[e] > 0}}
      best == Max(outs)
      worst == Min(outs)
  IN IF Cardinality(outs) < 2 THEN {}
     ELSE Offer(TwoHopFlash, (TwoHopFlash * (best - worst)) \div worst)
TwoHopResults == {TwoHop(quotes) : quotes \in [DEXES -> TwoHopQuotes]}

Triangular(out) == IF out = 0 THEN {} ELSE Offer(TriangularFlash, out - TriangularFlash)
TriangularResults == {Triangular(out) : out \in TriangularOuts}

\* Most profitable first, and in the order found among equals: the one ranking
\* of the offers found, an offer being found at a place or not.
Ranked(found) ==
  LET places == {p \in DOMAIN found : found[p] # {}}
      OfferAt(p) == CHOOSE o \in found[p] : TRUE
      Before(p, q) == \/ OfferAt(p).net > OfferAt(q).net
                      \/ OfferAt(p).net = OfferAt(q).net /\ p < q
      rankings == {r \in [1..Cardinality(places) -> places] :
                     \A i, j \in DOMAIN r : i < j => Before(r[i], r[j])}
  IN {[i \in DOMAIN r |-> OfferAt(r[i])] : r \in rankings}

\* What a scan may find: the two-hop pairs, then the triangle.
Findings ==
  LET last == 1 + Max(PAIRS \cup {0})
  IN {[p \in PAIRS \cup {last} |-> IF p = last THEN round ELSE hops[p]] :
        hops \in [PAIRS -> TwoHopResults], round \in TriangularResults}

-----------------------------------------------------------------------------
Books == [arb_strategy : Nat,    \* FlashArbStrategy._total_profit
          executed : Nat,        \* and _opps_executed
          engine : Nat,          \* TradingEngine._profit_arb + _profit_tri
          reporter : Nat,        \* PlatformReporter._total_gross - _total_gas
          hud : Nat,             \* shared_state.total_profit
          trades : Nat,          \* shared_state.trades_total, wins_total
          pnl : Nat]             \* RiskState.daily_pnl_usd

TypeOK ==
  /\ running \in BOOLEAN /\ reporting \in BOOLEAN
  /\ at \in {"sleep", "gate", "send", "receipt", "publish", "ended"}
  /\ opps \in Seq(Opportunity)
  /\ sent \in Seq([offer : Opportunity, status : {"pool", "success", "reverted"},
                   watched : {"waiting", "answered", "given up"}])
  /\ Len(sent) <= MaxSent
  /\ queued \subseteq counted /\ counted \subseteq DOMAIN sent
  /\ books \in Books
  /\ failures \in 0..MAX_CONSECUTIVE_FAILURES
  /\ misses \in 0..MAX_CONSECUTIVE_FAILURES + 1

Init ==
  /\ running = TRUE /\ at = "sleep" /\ opps = << >> /\ sent = << >>
  /\ reporting = TRUE /\ queued = {} /\ counted = {}
  /\ books = [arb_strategy |-> 0, executed |-> 0, engine |-> 0, reporter |-> 0,
              hud |-> 0, trades |-> 0, pnl |-> 0]
  /\ failures = 0 /\ misses = 0

\* The loop goes to the next opportunity, or to sleep after the last.
Continue(rest) == opps' = rest /\ at' = IF rest = << >> THEN "sleep" ELSE "gate"

\* Slip: the loop does not look at _running.
ScanForEver ==
  /\ at = "sleep"
  /\ \E found \in Findings : \E ranking \in Ranked(found) : Continue(ranking)
  /\ UNCHANGED <<running, sent, reporting, queued, counted, books, failures, misses>>

Scan ==
  /\ at = "sleep" /\ running
  /\ \E found \in Findings : \E ranking \in Ranked(found) : Continue(ranking)
  /\ UNCHANGED <<running, sent, reporting, queued, counted, books, failures, misses>>

LoopEnds ==
  /\ at = "sleep" /\ ~running /\ at' = "ended"
  /\ UNCHANGED <<running, opps, sent, reporting, queued, counted, books, failures, misses>>

\* clear_trade() refuses: paused, gas, health, or its own limits.
Refused ==
  /\ at = "gate"
  /\ Continue(Tail(opps))
  /\ UNCHANGED <<running, sent, reporting, queued, counted, books, failures, misses>>

Cleared ==
  /\ at = "gate"
  /\ failures < MAX_CONSECUTIVE_FAILURES
  /\ at' = "send"
  /\ UNCHANGED <<running, opps, sent, reporting, queued, counted, books, failures, misses>>

\* The result of an execution that failed in any way is not looked at again.
Miss ==
  /\ misses' = IF misses > MAX_CONSECUTIVE_FAILURES THEN misses ELSE misses + 1
  /\ Continue(Tail(opps))
  /\ UNCHANGED <<running, reporting, queued, counted, books, failures>>

Transaction(watched) ==
  /\ Len(sent) < MaxSent
  /\ sent' = Append(sent, [offer |-> Head(opps), status |-> "pool", watched |-> watched])

Send ==
  /\ at = "send" /\ at' = "receipt"
  /\ Transaction("waiting")
  /\ UNCHANGED <<running, opps, reporting, queued, counted, books, failures, misses>>

\* Nothing was sent, or the node's answer was lost.
SendFails ==
  /\ at = "send"
  /\ UNCHANGED sent \/ Transaction("given up")
  /\ Miss

\* The transaction execute() waits for, and what comes of the wait.
Awaited == CHOOSE i \in DOMAIN sent : sent[i].watched = "waiting"
WaitEnds(how) == sent' = [sent EXCEPT ![Awaited].watched = how]

Reverted ==
  /\ at = "receipt" /\ sent[Awaited].status = "reverted"
  /\ WaitEnds("answered")
  /\ Miss

\* Sixty seconds without a receipt.
ReceiptTimeout ==
  /\ at = "receipt"
  /\ WaitEnds("given up")
  /\ Miss

\* Slip: the dashboard counts what the strategy counts.
CreditNet(books_, offer) ==
  [arb_strategy |-> books_.arb_strategy + offer.net,
   executed |-> books_.executed + 1,
   engine |-> books_.engine + offer.net,
   reporter |-> books_.reporter + offer.gross - GAS_COST,
   hud |-> books_.hud + offer.net,
   trades |-> books_.trades + 1,
   pnl |-> books_.pnl + offer.net]

\* execute() counts the profit after all costs; _report_profit() is given the
\* gross and takes off the gas, but not the flash loan's fee.
Credit(books_, offer) ==
  LET net_usd == offer.gross - GAS_COST IN
  [arb_strategy |-> books_.arb_strategy + offer.net,
   executed |-> books_.executed + 1,
   engine |-> books_.engine + offer.net,
   reporter |-> books_.reporter + net_usd,
   hud |-> books_.hud + net_usd,
   trades |-> books_.trades + 1,
   pnl |-> books_.pnl + net_usd]

\* Slip: the receipt's status is not looked at.
WonWhatever ==
  /\ at = "receipt" /\ sent[Awaited].status # "pool"
  /\ WaitEnds("answered")
  /\ books' = Credit(books, Head(opps))
  /\ counted' = counted \cup {Awaited}
  /\ queued' = IF reporting THEN queued \cup {Awaited} ELSE queued
  /\ failures' = 0 /\ misses' = 0
  /\ at' = "publish"
  /\ UNCHANGED <<running, opps, reporting>>

\* Up to the message to PartyKit nothing gives way: every book is written in
\* the step that sees the receipt.  The net is positive, so the gate counts a
\* win.  A reporter that was stopped takes nothing into its queue.
Won ==
  /\ at = "receipt" /\ sent[Awaited].status = "success"
  /\ WaitEnds("answered")
  /\ books' = Credit(books, Head(opps))
  /\ counted' = counted \cup {Awaited}
  /\ queued' = IF reporting THEN queued \cup {Awaited} ELSE queued
  /\ failures' = 0 /\ misses' = 0
  /\ at' = "publish"
  /\ UNCHANGED <<running, opps, reporting>>

\* TradeRecord has none of the arguments it is given: the TypeError ends the
\* scan, and what is left of it is never tried.
RecordTrade ==
  /\ at = "publish" /\ at' = "sleep" /\ opps' = << >>
  /\ UNCHANGED <<running, sent, reporting, queued, counted, books, failures, misses>>

\* shutdown(): the loop's flag, then the reporter's.
Shutdown ==
  /\ running
  /\ running' = FALSE /\ reporting' = FALSE
  /\ UNCHANGED <<at, opps, sent, queued, counted, books, failures, misses>>

Mine(i) ==
  /\ sent[i].status = "pool"
  /\ \E status \in {"success", "reverted"} : sent' = [sent EXCEPT ![i].status = status]
  /\ UNCHANGED <<running, at, opps, reporting, queued, counted, books, failures, misses>>

Execution == Send \/ SendFails \/ Reverted \/ ReceiptTimeout \/ Won

Next ==
  \/ Scan \/ LoopEnds \/ Refused \/ Cleared \/ Execution \/ RecordTrade
  \/ Shutdown
  \/ \E i \in DOMAIN sent : Mine(i)

Spec == Init /\ [][Next]_vars

\* Sleeps end, the gate answers, a request returns or fails, the wait for a
\* receipt is limited.
FairSpec ==
  /\ Spec
  /\ WF_vars(LoopEnds) /\ WF_vars(Refused \/ Cleared) /\ WF_vars(Execution) /\ WF_vars(RecordTrade)

-----------------------------------------------------------------------------
(***************************************************************************)
(* What the bot counts as a profit has been mined as a success, and what   *)
(* has been mined as a success is counted, unless execute() stopped        *)
(* watching it (the wait timed out, or the answer to the send was lost) or *)
(* is about to see it.  A trade is queued for the platform only if it was  *)
(* counted.                                                                *)
(***************************************************************************)
CountedIffMined ==
  /\ TypeOK
  /\ \A i \in DOMAIN sent :
       /\ i \in counted => sent[i].status = "success" /\ sent[i].watched = "answered"
       /\ sent[i].status = "success" /\ sent[i].watched = "answered" => i \in counted

(***************************************************************************)
(* The books agree on the number of trades; the platform, the dashboard    *)
(* and the gate count one amount, and it exceeds the strategy's and the    *)
(* engine's by the flash loan fees of the trades counted, which are those  *)
(* of the two-hop loans and of the triangular ones.                        *)
(***************************************************************************)
CountedLoans(flash) == {i \in counted : sent[i].offer.flash = flash}
BooksAgree ==
  LET Fees(flash) == FlashLoanFee(flash) * Cardinality(CountedLoans(flash)) IN
  /\ books.trades = Cardinality(counted) /\ books.executed = books.trades
  /\ books.reporter = books.hud /\ books.pnl = books.hud
  /\ books.arb_strategy = books.engine
  /\ books.hud = books.engine + Fees(TwoHopFlash) + Fees(TriangularFlash)

(***************************************************************************)
(* Once the engine is stopped the loop ends, however many opportunities it *)
(* had in hand, and after the stop nothing more is queued.                 *)
(***************************************************************************)
NothingQueuedAfterStop == [][~running => queued' = queued]_vars
StopEndsTrading == (~running ~> at = "ended") /\ NothingQueuedAfterStop

\* As the header of risk_manager.py has it, a counter of consecutive failures
\* breaks the circuit: no fourth execution fails in a row.
FailuresTripBreaker == misses <= MAX_CONSECUTIVE_FAILURES
=============================================================================
