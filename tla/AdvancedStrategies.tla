------------------------- MODULE AdvancedStrategies -------------------------
(***************************************************************************)
(* What the advanced strategies of src/src/strategies/                     *)
(* advanced_strategies.py ask the risk gate for, under the loops of        *)
(* src/src/core/engine.py that run them.  None of them sends anything: the *)
(* call of clear_trade() is all that comes of an opportunity.  A           *)
(* definition marked `Slip:' is a plausible mistake, kept to test the      *)
(* properties with.                                                        *)
(*                                                                         *)
(* An action is the code between two awaits.  Swaps are valued in dollars, *)
(* rates in units of 1/500000 and prices in cents.                         *)
(***************************************************************************)
EXTENDS Integers, Sequences, FiniteSets, Functions

CONSTANTS
  SWAPS,      \* swaps in the mempool: [id, eth, calldata]
  MARKETS,    \* GMX markets, the keys of a dictionary in its order
  CHAINS,     \* chains the cross-chain strategy is connected to
  PRICES,     \* prices the feed may report, 0 before the first tick
  CAPITALS,   \* what the vault may hold for the bot, in dollars
  Enabled,    \* ENABLED_STRATEGIES of the environment
  FirstBlock, LastBlock   \* bound: blocks of the run

VARIABLES
  block,        \* number of the last block
  gmx_at,       \* where the GMX loop waits: "sleep", a market's number, "ask"
  gmx_opps,     \* opportunities found, then those left to ask for
  gmx_read,     \* history: the rate each market of this scan was read with
  mev_batch,    \* history: swaps of this poll
  mev_opps,     \* swaps of it left to backrun
  price,        \* _price_cache["WETH"] of the engine
  rotation,     \* the last round of the yield loop: capital and pool found
  asked         \* history: what each loop asked for in this round

advancedVars == <<block, gmx_at, gmx_opps, gmx_read, mev_batch, mev_opps, price, rotation, asked>>

ASSUME AdvancedAssumption ==
  /\ PRICES \subseteq Nat /\ CAPITALS \subseteq Nat /\ \A s \in SWAPS : s.eth \in Nat
  /\ MARKETS \in Seq(Range(MARKETS)) /\ IsInjective(MARKETS)
  /\ FirstBlock \in Nat /\ LastBlock \in Nat /\ FirstBlock <= LastBlock

MIN_BACKRUN_SWAP_USD == 50000
MIN_FUNDING_RATE == 500
GMX_SIZE == 10000

-----------------------------------------------------------------------------
\* The price cache of the MEV strategy is never filled: ether is worth the
\* default.  The digits read from the calldata are those of the fee and the
\* recipient, far more than any amount.
Misread == 1000000000
SwapValue(swap) == IF swap.eth > 0 THEN swap.eth * 3400
                   ELSE IF swap.calldata = "short" THEN 0
                   ELSE Misread

\* 0.1 % less the gas is at least 50 cents.
Backrunnable(swap) ==
  /\ SwapValue(swap) >= MIN_BACKRUN_SWAP_USD
  /\ SwapValue(swap) \div 10 - 35 >= 50

FundingRate(b) == (b % 1000) - 500
Size(rate) == IF rate < 0 THEN -rate ELSE rate

\* In cents.
FundingProfit(rate) == (GMX_SIZE * 100 * Size(rate)) \div 500000

\* Slip: the rate is taken for a percentage.
WorthFundingPercent(rate) == Size(rate) * 100 >= MIN_FUNDING_RATE /\ FundingProfit(rate) >= 200

WorthFunding(rate) == Size(rate) >= MIN_FUNDING_RATE /\ FundingProfit(rate) >= 200

BRIDGE_ROUTES ==  \* fees in hundredths of a percent
  {[buy |-> "arbitrum", sell |-> "optimism", fee |-> 6],
   [buy |-> "arbitrum", sell |-> "base", fee |-> 6],
   [buy |-> "base", sell |-> "arbitrum", fee |-> 6],
   [buy |-> "arbitrum", sell |-> "polygon", fee |-> 4],
   [buy |-> "polygon", sell |-> "arbitrum", fee |-> 4],
   [buy |-> "base", sell |-> "polygon", fee |-> 8]}

\* The engine gives the strategy the prices of one chain; for another the
\* token is looked up among the chains.
ChainPrice(chain) == IF chain = "arbitrum" THEN price ELSE 0

\* A spread that pays three times for bridge, gas and slippage.
CrossChainOpps ==
  {route \in BRIDGE_ROUTES :
     LET buy == ChainPrice(route.buy)
         sell == ChainPrice(route.sell)
         cost == route.fee + 10 + 50
     IN /\ {route.buy, route.sell} \subseteq CHAINS
        /\ 0 < buy /\ buy < sell
        /\ (sell - buy) * 10000 >= 3 * cost * buy}

\* In tenths of a percent a year, and hundredths of risk.
YIELD_SOURCES ==
  {[pool |-> "PT-stETH", apy |-> 52, risk |-> 20, min |-> 50],
   [pool |-> "PT-USDe", apy |-> 85, risk |-> 30, min |-> 50],
   [pool |-> "GLP", apy |-> 150, risk |-> 40, min |-> 100],
   [pool |-> "USDC/USDT", apy |-> 55, risk |-> 15, min |-> 100],
   [pool |-> "tricrypto", apy |-> 120, risk |-> 50, min |-> 200],
   [pool |-> "aUSDC", apy |-> 40, risk |-> 10, min |-> 10]}
MIN_CAPITAL == 100
Within(capital) == {p \in YIELD_SOURCES : capital >= p.min}
RiskAdjusted(p) == p.apy * (200 - p.risk)

\* No rotation is ever carried out, so there is no pool to rotate from and the
\* threshold of two percent never applies.
FindBestYield(capital) ==
  IF capital < MIN_CAPITAL THEN {}
  ELSE {p \in Within(capital) :
          \A q \in Within(capital) : RiskAdjusted(q) <= RiskAdjusted(p)}

\* What boot built.  `_enabled' is not read again: what the dashboard switches
\* on or off later changes nothing.
Built(strategy) == strategy \in Enabled

-----------------------------------------------------------------------------
AdvancedInit ==
  /\ block = FirstBlock /\ price = 0 /\ rotation = [capital |-> 0, found |-> {}]
  /\ gmx_at = "sleep" /\ gmx_opps = << >> /\ gmx_read = << >>
  /\ mev_batch = {} /\ mev_opps = {}
  /\ asked = [gmx |-> << >>, mev |-> << >>, cross_chain |-> {}]

NewBlock ==
  /\ block < LastBlock /\ block' = block + 1
  /\ UNCHANGED <<gmx_at, gmx_opps, gmx_read, mev_batch, mev_opps, price, rotation, asked>>

PriceTick ==
  /\ \E p \in PRICES : price' = p
  /\ UNCHANGED <<block, gmx_at, gmx_opps, gmx_read, mev_batch, mev_opps, rotation, asked>>

GmxWakes ==
  /\ gmx_at = "sleep" /\ gmx_at' = "read"
  /\ gmx_opps' = << >> /\ gmx_read' = << >> /\ asked' = [asked EXCEPT !.gmx = << >>]
  /\ UNCHANGED <<block, mev_batch, mev_opps, price, rotation>>

\* One market's rate, from the block that is the last one then; a reading that
\* fails is a rate of zero.
GmxReads ==
  /\ gmx_at = "read" /\ Len(gmx_read) < Len(MARKETS)
  /\ \E rate \in {FundingRate(block), 0} :
       /\ gmx_read' = Append(gmx_read, rate)
       /\ gmx_opps' = IF WorthFunding(rate)
                      THEN Append(gmx_opps, [market |-> MARKETS[Len(gmx_read) + 1], rate |-> rate])
                      ELSE gmx_opps
  /\ UNCHANGED <<block, gmx_at, mev_batch, mev_opps, price, rotation, asked>>

\* Most profit first; of equals, the one read first.
Ranks(order, opps) ==
  /\ IsInjective(order)
  /\ \A i, j \in DOMAIN order : i < j =>
       LET first == Size(opps[order[i]].rate)
           second == Size(opps[order[j]].rate)
       IN first > second \/ (first = second /\ order[i] < order[j])

\* Two at most.
GmxRanks ==
  /\ gmx_at = "read" /\ Len(gmx_read) = Len(MARKETS)
  /\ \E order \in [DOMAIN gmx_opps -> DOMAIN gmx_opps] :
       /\ Ranks(order, gmx_opps)
       /\ gmx_opps' = [i \in 1..(IF Len(gmx_opps) > 2 THEN 2 ELSE Len(gmx_opps)) |-> gmx_opps[order[i]]]
  /\ gmx_at' = "ask"
  /\ UNCHANGED <<block, gmx_read, mev_batch, mev_opps, price, rotation, asked>>

GmxAsks ==
  /\ gmx_at = "ask" /\ gmx_opps # << >>
  /\ asked' = [asked EXCEPT !.gmx = Append(@, Head(gmx_opps).market)]
  /\ gmx_opps' = Tail(gmx_opps)
  /\ UNCHANGED <<block, gmx_at, gmx_read, mev_batch, mev_opps, price, rotation>>

GmxSleeps ==
  /\ gmx_at = "ask" /\ gmx_opps = << >> /\ gmx_at' = "sleep"
  /\ UNCHANGED <<block, gmx_opps, gmx_read, mev_batch, mev_opps, price, rotation, asked>>

\* A poll of the mempool: a transaction may be gone when it is asked for.
MevPolls ==
  /\ mev_opps = {}
  /\ \E batch \in SUBSET SWAPS : \E answered \in SUBSET batch :
       /\ mev_batch' = batch
       /\ mev_opps' = {swap \in answered : Backrunnable(swap)}
  /\ asked' = [asked EXCEPT !.mev = << >>]
  /\ UNCHANGED <<block, gmx_at, gmx_opps, gmx_read, price, rotation>>

\* The gate is asked for a tenth of the swap; the order is the node's.
MevAsks ==
  /\ \E swap \in mev_opps :
       /\ asked' = [asked EXCEPT !.mev = Append(@, swap)]
       /\ mev_opps' = mev_opps \ {swap}
  /\ UNCHANGED <<block, gmx_at, gmx_opps, gmx_read, mev_batch, price, rotation>>

\* Nothing gives way from the prices to the first call of the gate.
XchainScan ==
  /\ asked' = [asked EXCEPT !.cross_chain = CrossChainOpps]
  /\ UNCHANGED <<block, gmx_at, gmx_opps, gmx_read, mev_batch, mev_opps, price, rotation>>

\* Every hour.  The capital is the engine's, and 0 without a vault client; what
\* is found is only logged.
YieldRound ==
  /\ \E capital \in CAPITALS :
       rotation' = [capital |-> capital, found |-> FindBestYield(capital)]
  /\ UNCHANGED <<block, gmx_at, gmx_opps, gmx_read, mev_batch, mev_opps, price, asked>>

\* A loop whose strategy was not built returns at once.
GmxLoop == Built("gmx_funding") /\ (GmxWakes \/ GmxReads \/ GmxRanks \/ GmxAsks \/ GmxSleeps)
MevLoop == Built("mev_backrun") /\ (MevPolls \/ MevAsks)
XchainLoop == Built("cross_chain") /\ XchainScan
YieldLoop == Built("yield") /\ YieldRound

AdvancedNext == NewBlock \/ PriceTick \/ GmxLoop \/ MevLoop \/ XchainLoop \/ YieldLoop

AdvancedSpec == AdvancedInit /\ [][AdvancedNext]_advancedVars

-----------------------------------------------------------------------------
AdvancedTypeOK ==
  /\ block \in FirstBlock..LastBlock /\ price \in PRICES \cup {0}
  /\ gmx_at \in {"sleep", "read", "ask"}
  /\ gmx_opps \in Seq([market : Range(MARKETS), rate : -500..499])
  /\ gmx_read \in Seq(-500..499) /\ Len(gmx_read) <= Len(MARKETS)
  /\ mev_batch \subseteq SWAPS
  /\ mev_opps \subseteq SWAPS
  /\ rotation \in [capital : CAPITALS \cup {0}, found : SUBSET YIELD_SOURCES]
  /\ asked \in [gmx : Seq(Range(MARKETS)), mev : Seq(SWAPS), cross_chain : SUBSET BRIDGE_ROUTES]

(***************************************************************************)
(* The gate is asked for nothing a loop did not see in the same round: for *)
(* a GMX market only if this scan read it at its lowest rate, which it has *)
(* in one block of a thousand, and for two at most; for a swap of this     *)
(* poll, once; and never for a bridge, since the engine feeds the prices   *)
(* of one chain.  The pool announced is one, the capital reaches it, and   *)
(* taking the risk off the yield never costs any: none that the capital    *)
(* reaches pays more.                                                      *)
(***************************************************************************)
AsksAreBacked ==
  /\ AdvancedTypeOK
  /\ Len(asked.gmx) <= 2 /\ IsInjective(asked.gmx)
  /\ \A market \in Range(asked.gmx) :
       \E i \in DOMAIN gmx_read : MARKETS[i] = market /\ gmx_read[i] = -500
  /\ Range(asked.mev) \subseteq mev_batch /\ IsInjective(asked.mev)
  /\ asked.cross_chain = {}
  /\ rotation.capital >= MIN_CAPITAL => \E p \in Within(rotation.capital) :
       /\ rotation.found = {p}
       /\ \A q \in Within(rotation.capital) : q.apy <= p.apy
=============================================================================
