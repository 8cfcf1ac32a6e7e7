------------------------ MODULE ProfitPipelineProofs ------------------------
(***************************************************************************)
(* Proofs about ProfitPipeline, for any exchanges, pairs, answers of the   *)
(* quoters and number of transactions.                                     *)
(***************************************************************************)
EXTENDS ProfitPipeline, FiniteSetTheorems, WellFoundedInduction, TLAPS

(***************************************************************************)
(* The best and the worst quote exist: a finite set of numbers has its     *)
(* largest and its smallest.                                               *)
(***************************************************************************)
LEMMA SmallestSet ==
  ASSUME NEW S, IsFiniteSet(S), NEW F \in SUBSET SUBSET S, F # {}
  PROVE  \E T \in F : \A U \in F : U \subseteq T => U = T
<1>1. F \subseteq FiniteSubsetsOf(S)
  BY FS_Subset DEF FiniteSubsetsOf
<1>2. IsWellFoundedOn(StrictSubsetOrdering(S), FiniteSubsetsOf(S))
  BY FS_StrictSubsetOrderingWellFounded
<1>3. PICK T \in F : \A U \in F : ~(<<U, T>> \in StrictSubsetOrdering(S))
  BY <1>1, <1>2, WFMin
<1>4. \A U \in F : U \subseteq T => U = T
  BY <1>3 DEF StrictSubsetOrdering
<1>5. QED BY <1>4

LEMMA LargestNumber ==
  ASSUME NEW D, IsFiniteSet(D), D \subseteq Nat, D # {}
  PROVE  Max(D) \in D
<1> DEFINE Above(x) == {y \in D : y > x}
           F == {Above(x) : x \in D}
<1>1. F \in SUBSET SUBSET D /\ F # {}
  OBVIOUS
<1>2. PICK T \in F : \A U \in F : U \subseteq T => U = T
  <2>1. IsFiniteSet(D)
    OBVIOUS
  <2> HIDE DEF F
  <2>2. QED BY ONLY <1>1, <2>1, SmallestSet
<1>3. PICK x \in D : T = Above(x)
  BY <1>2
<1>4. \A y \in D : ~(y > x)
  <2> SUFFICES ASSUME NEW y \in D, y > x PROVE FALSE
    OBVIOUS
  <2>1. \A z \in D : z > y => z > x
    OBVIOUS
  <2>2. Above(y) \subseteq T /\ Above(y) \in F
    BY <1>3, <2>1
  <2>3. y \in T /\ y \notin Above(y)
    BY <1>3
  <2>4. QED BY <1>2, <2>2, <2>3
<1>5. \A y \in D : x >= y
  BY <1>4
<1>6. QED BY <1>5 DEF Max

LEMMA SmallestNumber ==
  ASSUME NEW D, IsFiniteSet(D), D \subseteq Nat, D # {}
  PROVE  Min(D) \in D
<1> DEFINE Below(x) == {y \in D : y < x}
           F == {Below(x) : x \in D}
<1>1. F \in SUBSET SUBSET D /\ F # {}
  OBVIOUS
<1>2. PICK T \in F : \A U \in F : U \subseteq T => U = T
  <2>1. IsFiniteSet(D)
    OBVIOUS
  <2> HIDE DEF F
  <2>2. QED BY ONLY <1>1, <2>1, SmallestSet
<1>3. PICK x \in D : T = Below(x)
  BY <1>2
<1>4. \A y \in D : ~(y < x)
  <2> SUFFICES ASSUME NEW y \in D, y < x PROVE FALSE
    OBVIOUS
  <2>1. \A z \in D : z < y => z < x
    OBVIOUS
  <2>2. Below(y) \subseteq T /\ Below(y) \in F
    BY <1>3, <2>1
  <2>3. y \in T /\ y \notin Below(y)
    BY <1>3
  <2>4. QED BY <1>2, <2>2, <2>3
<1>5. \A y \in D : x <= y
  BY <1>4
<1>6. QED BY <1>5 DEF Min

(***************************************************************************)
(* What scan() finds: an offer is for one of the two loans, and its net is *)
(* its gross without the loan's fee and the gas.                           *)
(***************************************************************************)
Flashes == {TwoHopFlash, TriangularFlash}
PricedOffers == {o \in Opportunity : /\ o.flash \in Flashes
                                     /\ o.gross >= GAS_COST
                                     /\ o.net = o.gross - FlashLoanFee(o.flash) - GAS_COST}

LEMMA LoanFees == FlashLoanFee(TwoHopFlash) = 500 /\ FlashLoanFee(TriangularFlash) = 250
BY DEF FlashLoanFee, TwoHopFlash, TriangularFlash

LEMMA OffersPriced ==
  ASSUME NEW flash \in Flashes, NEW gross \in Int
  PROVE  Offer(flash, gross) \subseteq PricedOffers
<1>1. FlashLoanFee(flash) \in Nat /\ flash \in Nat
  BY LoanFees DEF Flashes, TwoHopFlash, TriangularFlash
<1>2. QED
  BY <1>1 DEF Offer, PricedOffers, Opportunity, GAS_COST, MIN_PROFIT

LEMMA TwoHopPriced ==
  ASSUME NEW quotes \in [DEXES -> TwoHopQuotes]
  PROVE  TwoHop(quotes) \subseteq PricedOffers
<1> DEFINE outs == {quotes[d] : d \in {e \in DEXES : quotes[e] > 0}}
           best == Max(outs)
           worst == Min(outs)
<1>1. outs \in SUBSET TwoHopQuotes /\ outs \in SUBSET Nat /\ \A q \in outs : q > 0
  BY PipelineAssumption
<1>2. TwoHop(quotes) =
        IF Cardinality(outs) < 2 THEN {}
        ELSE Offer(TwoHopFlash, (TwoHopFlash * (best - worst)) \div worst)
  BY DEF TwoHop
<1> HIDE DEF outs
<1>3. IsFiniteSet(outs)
  BY <1>1, FS_Subset, PipelineAssumption
<1>4. CASE Cardinality(outs) < 2
  BY <1>2, <1>4
<1>5. CASE ~(Cardinality(outs) < 2)
  <2>1. outs # {}
    BY <1>5, FS_EmptySet
  <2>2. best \in Nat /\ worst \in Nat /\ worst > 0
    BY <1>1, <1>3, <2>1, LargestNumber, SmallestNumber
  <2>3. (TwoHopFlash * (best - worst)) \div worst \in Int
    BY <2>2 DEF TwoHopFlash
  <2>4. QED BY <1>2, <1>5, <2>3, OffersPriced DEF Flashes
<1>6. QED BY <1>4, <1>5

LEMMA RankedPriced ==
  ASSUME NEW found \in Findings, NEW ranking \in Ranked(found)
  PROVE  ranking \in Seq(PricedOffers)
<1> DEFINE last == 1 + Max(PAIRS \cup {0})
           places == {p \in DOMAIN found : found[p] # {}}
           OfferAt(p) == CHOOSE o \in found[p] : TRUE
<1>1. PICK hops \in [PAIRS -> TwoHopResults], round \in TriangularResults :
        found = [p \in PAIRS \cup {last} |-> IF p = last THEN round ELSE hops[p]]
  BY DEF Findings
<1>2. round \subseteq PricedOffers
  <2>1. PICK out \in TriangularOuts : round = Triangular(out)
    BY DEF TriangularResults
  <2>2. out - TriangularFlash \in Int
    BY PipelineAssumption DEF TriangularFlash
  <2>3. Offer(TriangularFlash, out - TriangularFlash) \subseteq PricedOffers
    BY <2>2, OffersPriced DEF Flashes
  <2>4. QED BY <2>1, <2>3 DEF Triangular
<1>3. \A p \in PAIRS : hops[p] \subseteq PricedOffers
  BY TwoHopPriced DEF TwoHopResults
<1> HIDE DEF last
<1>4. /\ DOMAIN found = PAIRS \cup {last}
      /\ \A p \in DOMAIN found : found[p] \subseteq PricedOffers
  BY <1>1, <1>2, <1>3
<1>5. \A p \in places : OfferAt(p) \in PricedOffers
  BY <1>4
<1>6. PICK r \in [1..Cardinality(places) -> places] :
        ranking = [i \in DOMAIN r |-> OfferAt(r[i])]
  BY DEF Ranked
<1>7. Cardinality(places) \in Nat
  <2>1. IsFiniteSet(PAIRS \cup {last})
    BY FS_AddElement, PipelineAssumption
  <2>2. places \in SUBSET (PAIRS \cup {last})
    BY <1>4
  <2> HIDE DEF places
  <2>3. QED BY <2>1, <2>2, FS_Subset, FS_CardinalityType
<1> HIDE DEF places, OfferAt
<1>8. ranking \in [1..Cardinality(places) -> PricedOffers]
  BY <1>5, <1>6
<1>9. QED BY <1>7, <1>8

(***************************************************************************)
(* The inductive invariant: the loop has the offer it works on in hand; it *)
(* waits for exactly one transaction, which is for this offer, or for      *)
(* none; an answer it has seen is on the chain; and the reporter takes     *)
(* trades as long as the engine runs.                                      *)
(***************************************************************************)
InHand ==
  /\ opps \in Seq(PricedOffers)
  /\ at \in {"gate", "send", "receipt", "publish"} => opps # << >>

OneAwaited ==
  /\ at # "receipt" => \A j \in DOMAIN sent : sent[j].watched # "waiting"
  /\ at = "receipt" =>
       \E i \in DOMAIN sent :
         /\ sent[i].watched = "waiting" /\ sent[i].offer = Head(opps)
         /\ \A j \in DOMAIN sent : sent[j].watched = "waiting" => j = i

SentSound ==
  \A i \in DOMAIN sent :
    /\ sent[i].offer \in PricedOffers
    /\ sent[i].watched = "answered" => sent[i].status # "pool"

PipelineInv ==
  /\ CountedIffMined /\ BooksAgree
  /\ InHand /\ OneAwaited /\ SentSound
  /\ reporting = running

Txs == [offer : Opportunity, status : {"pool", "success", "reverted"},
        watched : {"waiting", "answered", "given up"}]

LEMMA PipelineStart == Init => PipelineInv
<1> SUFFICES ASSUME Init PROVE PipelineInv
  OBVIOUS
<1>1. sent = << >> /\ counted = {} /\ opps = << >>
  BY DEF Init
<1>2. TypeOK
  BY PipelineAssumption DEF Init, TypeOK, Books, MAX_CONSECUTIVE_FAILURES
<1>3. BooksAgree
  <2>1. \A flash : CountedLoans(flash) = {}
    BY <1>1 DEF CountedLoans
  <2>2. Cardinality({}) = 0
    BY FS_EmptySet
  <2>3. /\ Cardinality(counted) = 0 /\ Cardinality(CountedLoans(TwoHopFlash)) = 0
        /\ Cardinality(CountedLoans(TriangularFlash)) = 0
    BY <1>1, <2>1, <2>2
  <2>4. QED BY <2>3, LoanFees DEF Init, BooksAgree
<1>4. QED
  BY <1>1, <1>2, <1>3
     DEF Init, PipelineInv, CountedIffMined, InHand, OneAwaited, SentSound

\* What the loop goes on with is part of what it had.
LEMMA ContinueKeeps ==
  ASSUME NEW rest \in Seq(PricedOffers), Continue(rest)
  PROVE  /\ opps' \in Seq(PricedOffers) /\ opps' \in Seq(Opportunity)
         /\ at' \in {"sleep", "gate"}
         /\ at' = "gate" => opps' # << >>
<1>1. PricedOffers \subseteq Opportunity
  BY DEF PricedOffers
<1>2. QED BY <1>1 DEF Continue

\* The transaction the loop waits for.
LEMMA AwaitedIs ==
  ASSUME PipelineInv, at = "receipt"
  PROVE  /\ Awaited \in DOMAIN sent
         /\ sent[Awaited].watched = "waiting" /\ sent[Awaited].offer = Head(opps)
         /\ \A j \in DOMAIN sent : sent[j].watched = "waiting" => j = Awaited
         /\ Awaited \notin counted
<1>1. PICK i \in DOMAIN sent :
        /\ sent[i].watched = "waiting" /\ sent[i].offer = Head(opps)
        /\ \A j \in DOMAIN sent : sent[j].watched = "waiting" => j = i
  BY DEF PipelineInv, OneAwaited
<1>2. Awaited = i
  BY <1>1 DEF Awaited
<1>3. QED BY <1>1, <1>2 DEF PipelineInv, CountedIffMined

(***************************************************************************)
(* The books.  They change with the trade that is counted, by its offer.   *)
(***************************************************************************)
LEMMA BooksUntouched ==
  ASSUME BooksAgree, UNCHANGED <<books, counted>>,
         \A i \in counted : sent'[i].offer = sent[i].offer
  PROVE  BooksAgree'
<1>1. \A flash : CountedLoans(flash)' = CountedLoans(flash)
  BY DEF CountedLoans
<1>2. QED BY <1>1 DEF BooksAgree

LEMMA CountedFinite ==
  ASSUME TypeOK
  PROVE  /\ IsFiniteSet(counted) /\ Cardinality(counted) \in Nat
         /\ \A flash : /\ IsFiniteSet(CountedLoans(flash))
                       /\ Cardinality(CountedLoans(flash)) \in Nat
<1>1. IsFiniteSet(DOMAIN sent)
  <2>1. DOMAIN sent = 1..Len(sent) /\ 1 \in Int /\ Len(sent) \in Int
    <3>1. sent \in Seq(Txs)
      BY DEF TypeOK, Txs
    <3>2. QED BY ONLY <3>1
  <2>2. QED BY <2>1, FS_Interval
<1>2. counted \in SUBSET DOMAIN sent /\ \A flash : CountedLoans(flash) \in SUBSET DOMAIN sent
  BY DEF TypeOK, CountedLoans
<1>3. QED BY <1>1, <1>2, FS_Subset, FS_CardinalityType

LEMMA CreditKeeps ==
  ASSUME TypeOK, BooksAgree, NEW i \in DOMAIN sent \ counted, sent[i].offer \in PricedOffers,
         books' = Credit(books, sent[i].offer), counted' = counted \cup {i},
         \A j \in DOMAIN sent : sent'[j].offer = sent[j].offer
  PROVE  BooksAgree' /\ books' \in Books
<1> DEFINE o == sent[i].offer
           Two == CountedLoans(TwoHopFlash)
           Tri == CountedLoans(TriangularFlash)
<1>1. /\ Cardinality(counted') = Cardinality(counted) + 1
      /\ \A flash \in Flashes :
           Cardinality(CountedLoans(flash)') =
             IF o.flash = flash THEN Cardinality(CountedLoans(flash)) + 1
             ELSE Cardinality(CountedLoans(flash))
  <2>1. Cardinality(counted') = Cardinality(counted) + 1
    BY CountedFinite, FS_AddElement
  <2>2. ASSUME NEW flash \in Flashes
        PROVE  Cardinality(CountedLoans(flash)') =
                 IF o.flash = flash THEN Cardinality(CountedLoans(flash)) + 1
                 ELSE Cardinality(CountedLoans(flash))
    <3>1. /\ i \notin CountedLoans(flash)
          /\ o.flash = flash => CountedLoans(flash)' = CountedLoans(flash) \cup {i}
          /\ o.flash # flash => CountedLoans(flash)' = CountedLoans(flash)
      BY DEF CountedLoans, TypeOK
    <3>2. Cardinality(CountedLoans(flash) \cup {i}) = Cardinality(CountedLoans(flash)) + 1
      BY <3>1, CountedFinite, FS_AddElement
    <3>3. QED BY <3>1, <3>2
  <2>3. QED BY <2>1, <2>2
<1>2. /\ o.flash \in Flashes /\ o.gross \in Nat /\ o.net \in Nat /\ o.gross >= GAS_COST
      /\ o.net = o.gross - FlashLoanFee(o.flash) - GAS_COST
  BY DEF PricedOffers, Opportunity
<1>3. /\ books' = [arb_strategy |-> books.arb_strategy + o.net,
                   executed |-> books.executed + 1,
                   engine |-> books.engine + o.net,
                   reporter |-> books.reporter + (o.gross - GAS_COST),
                   hud |-> books.hud + (o.gross - GAS_COST),
                   trades |-> books.trades + 1,
                   pnl |-> books.pnl + (o.gross - GAS_COST)]
      /\ books \in Books
  BY DEF Credit, TypeOK
<1> HIDE DEF o
<1>4. books' \in Books
  <2>1. o.gross - GAS_COST \in Nat
    BY <1>2 DEF GAS_COST
  <2>2. QED BY <1>2, <1>3, <2>1 DEF Books
<1>5. /\ books.hud = books.engine + 500 * Cardinality(Two) + 250 * Cardinality(Tri)
      /\ Cardinality(Two) \in Nat /\ Cardinality(Tri) \in Nat /\ Cardinality(counted) \in Nat
  BY LoanFees, CountedFinite DEF BooksAgree
<1>6. books'.hud = books'.engine + 500 * Cardinality(Two') + 250 * Cardinality(Tri')
  <2>1. TwoHopFlash # TriangularFlash /\ TwoHopFlash \in Flashes /\ TriangularFlash \in Flashes
    BY DEF TwoHopFlash, TriangularFlash, Flashes
  <2> DEFINE two == Cardinality(Two)
             tri == Cardinality(Tri)
  <2>2. /\ books'.hud = books.hud + (o.gross - GAS_COST) /\ books'.engine = books.engine + o.net
        /\ books.hud \in Nat /\ books.engine \in Nat
    BY <1>3 DEF Books
  <2>3. CASE o.flash = TwoHopFlash
    <3>1. Cardinality(Two') = Cardinality(Two) + 1 /\ Cardinality(Tri') = Cardinality(Tri)
      BY <1>1, <2>1, <2>3
    <3>2. o.net = o.gross - 500 - GAS_COST
      BY <1>2, <2>3, LoanFees
    <3> HIDE DEF Two, Tri
    <3>3. QED BY <1>2, <1>5, <2>2, <3>1, <3>2 DEF GAS_COST
  <2>4. CASE o.flash = TriangularFlash
    <3>1. Cardinality(Two') = Cardinality(Two) /\ Cardinality(Tri') = Cardinality(Tri) + 1
      BY <1>1, <2>1, <2>4
    <3>2. o.net = o.gross - 250 - GAS_COST
      BY <1>2, <2>4, LoanFees
    <3> HIDE DEF Two, Tri
    <3>3. QED BY <1>2, <1>5, <2>2, <3>1, <3>2 DEF GAS_COST
  <2>5. QED BY <1>2, <2>3, <2>4 DEF Flashes
<1>7. /\ books'.trades = Cardinality(counted') /\ books'.executed = books'.trades
      /\ books'.reporter = books'.hud /\ books'.pnl = books'.hud
      /\ books'.arb_strategy = books'.engine
  BY <1>1, <1>3 DEF BooksAgree
<1>8. QED BY <1>4, <1>6, <1>7, LoanFees DEF BooksAgree

(***************************************************************************)
(* A sequence with one element more, or with one element replaced.         *)
(***************************************************************************)
LEMMA OneElement ==
  ASSUME NEW S, NEW s \in Seq(S), NEW i \in DOMAIN s
  PROVE  s[i] \in S
OBVIOUS

LEMMA FirstElement ==
  ASSUME NEW S, NEW s \in Seq(S), s # << >>
  PROVE  Head(s) \in S
OBVIOUS

LEMMA OneMore ==
  ASSUME NEW S, NEW s \in Seq(S), NEW e \in S
  PROVE  /\ Append(s, e) \in Seq(S) /\ Len(Append(s, e)) = Len(s) + 1 /\ Len(s) \in Nat
         /\ DOMAIN s = 1..Len(s) /\ DOMAIN Append(s, e) = 1..(Len(s) + 1)
         /\ \A i \in DOMAIN s : Append(s, e)[i] = s[i]
         /\ Append(s, e)[Len(s) + 1] = e
OBVIOUS

LEMMA OneReplaced ==
  ASSUME NEW S, NEW s \in Seq(S), NEW i \in DOMAIN s, NEW e \in S
  PROVE  /\ [s EXCEPT ![i] = e] \in Seq(S)
         /\ Len([s EXCEPT ![i] = e]) = Len(s)
         /\ DOMAIN [s EXCEPT ![i] = e] = DOMAIN s
<1> DEFINE t == [s EXCEPT ![i] = e]
<1>1. DOMAIN s = 1..Len(s) /\ Len(s) \in Nat
  OBVIOUS
<1>2. t \in [1..Len(s) -> S]
  BY <1>1
<1> HIDE DEF t
<1>3. t \in Seq(S) /\ DOMAIN t = 1..Len(s) /\ Len(t) = Len(s)
  BY <1>1, <1>2
<1>4. QED BY <1>1, <1>3 DEF t

(***************************************************************************)
(* The steps of the loop.                                                  *)
(***************************************************************************)
\* Steps that touch neither the transactions nor what was counted.
LEMMA QuietKeeps ==
  ASSUME PipelineInv,
         \/ Scan \/ LoopEnds \/ Refused \/ Cleared \/ RecordTrade \/ Shutdown
         \/ UNCHANGED vars
  PROVE  PipelineInv'
<1> USE DEF PipelineInv
<1>1. /\ UNCHANGED <<sent, counted, books>>
      /\ queued' = queued /\ failures' = failures /\ misses' = misses
  BY DEF Scan, LoopEnds, Refused, Cleared, RecordTrade, Shutdown, vars
<1>2. \/ at # "receipt" /\ at' # "receipt"
      \/ UNCHANGED <<at, opps>>
  BY DEF Scan, LoopEnds, Refused, Cleared, RecordTrade, Shutdown, vars, Continue
<1>3. InHand' /\ opps' \in Seq(Opportunity)
  <2>1. PricedOffers \subseteq Opportunity
    BY DEF PricedOffers
  <2>2. CASE Scan
    <3>1. PICK found \in Findings : \E ranking \in Ranked(found) : Continue(ranking)
      BY <2>2 DEF Scan
    <3>2. PICK ranking \in Seq(PricedOffers) : Continue(ranking)
      BY <3>1, RankedPriced
    <3>3. QED BY <3>2, ContinueKeeps DEF InHand
  <2>3. CASE Refused
    <3>1. Tail(opps) \in Seq(PricedOffers) /\ Continue(Tail(opps))
      BY <2>3 DEF Refused, InHand
    <3>2. QED BY <3>1, ContinueKeeps DEF InHand
  <2>4. CASE RecordTrade
    BY <2>4 DEF RecordTrade, InHand
  <2>5. CASE UNCHANGED opps /\ (LoopEnds \/ Cleared \/ UNCHANGED at)
    <3>1. opps \in Seq(Opportunity)
      BY DEF CountedIffMined, TypeOK
    <3>2. QED BY <2>5, <3>1 DEF LoopEnds, Cleared, InHand
  <2>6. QED
    BY <2>2, <2>3, <2>4, <2>5 DEF LoopEnds, Cleared, Shutdown, vars
<1>4. TypeOK'
  <2>1. at' \in {"sleep", "gate", "send", "receipt", "publish", "ended"}
    BY DEF CountedIffMined, TypeOK, Scan, LoopEnds, Refused, Cleared, RecordTrade, Shutdown,
           vars, Continue
  <2>2. running' \in BOOLEAN /\ reporting' \in BOOLEAN
    BY DEF CountedIffMined, TypeOK, Scan, LoopEnds, Refused, Cleared, RecordTrade, Shutdown,
           vars
  <2>3. QED BY <1>1, <1>3, <2>1, <2>2 DEF CountedIffMined, TypeOK
<1>5. OneAwaited'
  BY <1>1, <1>2 DEF OneAwaited
<1>6. BooksAgree'
  BY <1>1, BooksUntouched
<1>7. CountedIffMined' /\ SentSound'
  BY <1>1, <1>4 DEF CountedIffMined, SentSound
<1>8. (reporting = running)'
  BY DEF Scan, LoopEnds, Refused, Cleared, RecordTrade, Shutdown, vars
<1>9. QED BY <1>3, <1>5, <1>6, <1>7, <1>8

\* A failed execution goes on with the next offer.
LEMMA MissKeeps ==
  ASSUME PipelineInv, Miss, at \in {"send", "receipt"}
  PROVE  /\ InHand' /\ at' \in {"sleep", "gate"} /\ opps' \in Seq(Opportunity)
         /\ misses' \in 0..MAX_CONSECUTIVE_FAILURES + 1
         /\ UNCHANGED <<running, reporting, queued, counted, books, failures>>
<1>1. Tail(opps) \in Seq(PricedOffers)
  BY DEF PipelineInv, InHand
<1>2. misses' \in 0..MAX_CONSECUTIVE_FAILURES + 1
  <2>1. misses \in 0..MAX_CONSECUTIVE_FAILURES + 1
    BY DEF PipelineInv, CountedIffMined, TypeOK
  <2>2. misses' = IF misses > 3 THEN misses ELSE misses + 1
    BY DEF Miss, MAX_CONSECUTIVE_FAILURES
  <2>3. QED BY ONLY <2>1, <2>2 DEF MAX_CONSECUTIVE_FAILURES
<1>3. QED BY <1>1, <1>2, ContinueKeeps DEF Miss, InHand

\* A transaction is sent.
LEMMA TransactionKeeps ==
  ASSUME PipelineInv, at = "send", NEW watched,
         watched \in {"waiting", "given up"}, Transaction(watched)
  PROVE  /\ sent' \in Seq(Txs) /\ Len(sent') <= MaxSent
         /\ DOMAIN sent' = DOMAIN sent \cup {Len(sent) + 1}
         /\ Len(sent) + 1 \notin DOMAIN sent
         /\ \A i \in DOMAIN sent : sent'[i] = sent[i]
         /\ sent'[Len(sent) + 1].offer = Head(opps) /\ Head(opps) \in PricedOffers
         /\ sent'[Len(sent) + 1].status = "pool" /\ sent'[Len(sent) + 1].watched = watched
<1>1. Head(opps) \in PricedOffers /\ Head(opps) \in Opportunity
  <2>1. opps \in Seq(PricedOffers) /\ opps # << >>
    BY DEF PipelineInv, InHand
  <2>2. Head(opps) \in PricedOffers
    BY ONLY <2>1, FirstElement
  <2>3. QED BY <2>2 DEF PricedOffers
<1> DEFINE tx == [offer |-> Head(opps), status |-> "pool", watched |-> watched]
<1>2. tx \in Txs
  BY <1>1 DEF Txs
<1>3. sent \in Seq(Txs) /\ Len(sent) < MaxSent /\ sent' = Append(sent, tx)
  BY DEF Transaction, PipelineInv, CountedIffMined, TypeOK, Txs
<1> HIDE DEF tx
<1>4. /\ sent' \in Seq(Txs) /\ Len(sent') = Len(sent) + 1
      /\ DOMAIN sent = 1..Len(sent) /\ DOMAIN sent' = 1..(Len(sent) + 1)
      /\ \A i \in DOMAIN sent : sent'[i] = sent[i]
      /\ sent'[Len(sent) + 1] = tx /\ Len(sent) \in Nat
  <2>1. /\ Append(sent, tx) \in Seq(Txs) /\ Len(Append(sent, tx)) = Len(sent) + 1
        /\ Len(sent) \in Nat /\ DOMAIN sent = 1..Len(sent)
        /\ DOMAIN Append(sent, tx) = 1..(Len(sent) + 1)
        /\ \A i \in DOMAIN sent : Append(sent, tx)[i] = sent[i]
        /\ Append(sent, tx)[Len(sent) + 1] = tx
    BY ONLY <1>2, <1>3, OneMore
  <2>2. sent' = Append(sent, tx)
    BY <1>3
  <2>3. QED BY ONLY <2>1, <2>2, Zenon
<1> DEFINE n == Len(sent)
<1>5. Len(sent') <= MaxSent
  <2>1. n \in Nat /\ Len(sent') = n + 1 /\ n < MaxSent /\ MaxSent \in Nat
    BY <1>3, <1>4, PipelineAssumption
  <2> HIDE DEF n
  <2>2. QED BY ONLY <2>1
<1>6. /\ DOMAIN sent' = DOMAIN sent \cup {Len(sent) + 1}
      /\ Len(sent) + 1 \notin DOMAIN sent
  <2>1. n \in Nat /\ DOMAIN sent = 1..n /\ DOMAIN sent' = 1..(n + 1)
    BY <1>4
  <2> HIDE DEF n
  <2>2. 1..(n + 1) = (1..n) \cup {n + 1} /\ n + 1 \notin 1..n
    BY ONLY <2>1
  <2>3. QED BY ONLY <2>1, <2>2, Zenon DEF n
<1>7. tx.offer = Head(opps) /\ tx.status = "pool" /\ tx.watched = watched
  BY DEF tx
<1>8. QED BY ONLY <1>1, <1>4, <1>5, <1>6, <1>7, Zenon

LEMMA SendKeeps ==
  ASSUME PipelineInv, Send \/ SendFails
  PROVE  PipelineInv'
<1> USE DEF PipelineInv
<1>1. at = "send" /\ counted \subseteq DOMAIN sent
  BY DEF Send, SendFails, CountedIffMined, TypeOK
<1>2. CASE Send
  <2> DEFINE n == Len(sent) + 1
  <2>1. /\ sent' \in Seq(Txs) /\ Len(sent') <= MaxSent
        /\ DOMAIN sent' = DOMAIN sent \cup {n} /\ n \notin DOMAIN sent
        /\ \A i \in DOMAIN sent : sent'[i] = sent[i]
        /\ sent'[n].offer = Head(opps) /\ Head(opps) \in PricedOffers
        /\ sent'[n].status = "pool" /\ sent'[n].watched = "waiting"
    BY <1>1, <1>2, TransactionKeeps DEF Send
  <2> HIDE DEF n
  <2>2. /\ at' = "receipt"
        /\ UNCHANGED <<running, opps, reporting, queued, counted, books, failures, misses>>
    BY <1>2 DEF Send
  <2>3. TypeOK'
    BY <1>1, <2>1, <2>2 DEF CountedIffMined, TypeOK, Txs
  <2>4. CountedIffMined' /\ SentSound'
    BY <1>1, <2>1, <2>2, <2>3 DEF CountedIffMined, SentSound
  <2>5. OneAwaited'
    <3>1. \A j \in DOMAIN sent : sent'[j].watched # "waiting"
      BY <1>1, <2>1 DEF OneAwaited
    <3>2. QED BY <2>1, <2>2, <3>1 DEF OneAwaited
  <2>6. BooksAgree'
    BY <1>1, <2>1, <2>2, BooksUntouched
  <2>7. InHand'
    BY <1>1, <2>2 DEF InHand
  <2>8. QED BY <2>2, <2>4, <2>5, <2>6, <2>7
<1>3. CASE SendFails
  <2> DEFINE n == Len(sent) + 1
  <2>1. /\ InHand' /\ at' \in {"sleep", "gate"} /\ opps' \in Seq(Opportunity)
        /\ misses' \in 0..MAX_CONSECUTIVE_FAILURES + 1
        /\ UNCHANGED <<running, reporting, queued, counted, books, failures>>
    BY <1>1, <1>3, MissKeeps DEF SendFails
  <2>2. /\ sent' \in Seq(Txs) /\ Len(sent') <= MaxSent
        /\ DOMAIN sent' \in {DOMAIN sent, DOMAIN sent \cup {n}} /\ n \notin DOMAIN sent
        /\ \A i \in DOMAIN sent : sent'[i] = sent[i]
        /\ n \in DOMAIN sent' =>
             /\ sent'[n].offer \in PricedOffers
             /\ sent'[n].status = "pool" /\ sent'[n].watched = "given up"
    <3>1. CASE Transaction("given up")
      BY <1>1, <3>1, TransactionKeeps
    <3>2. CASE UNCHANGED sent
      <4>1. sent \in Seq(Txs) /\ Len(sent) <= MaxSent
        BY DEF CountedIffMined, TypeOK, Txs
      <4>2. n \notin DOMAIN sent
        BY <4>1
      <4>3. QED BY <3>2, <4>1, <4>2
    <3>3. QED BY <1>3, <3>1, <3>2 DEF SendFails
  <2> HIDE DEF n
  <2>3. TypeOK'
    BY <1>1, <2>1, <2>2 DEF CountedIffMined, TypeOK, Txs
  <2>4. /\ \A i \in DOMAIN sent : sent'[i] = sent[i]
        /\ \A i \in DOMAIN sent' \ DOMAIN sent :
             /\ i \notin counted' /\ sent'[i].offer \in PricedOffers
             /\ sent'[i].watched = "given up" /\ sent'[i].status = "pool"
    <3>1. \A i \in DOMAIN sent' \ DOMAIN sent : i = n
      BY <2>2
    <3>2. counted' \subseteq DOMAIN sent
      BY <1>1, <2>1
    <3>3. QED BY ONLY <2>2, <3>1, <3>2, Zenon
  <2>5. CountedIffMined' /\ SentSound' /\ OneAwaited'
    <3>1. \A i \in DOMAIN sent' : i \in DOMAIN sent \/ i \in DOMAIN sent' \ DOMAIN sent
      OBVIOUS
    <3>2. at' # "receipt" /\ counted' = counted
      BY <2>1
    <3>3. \A j \in DOMAIN sent : sent[j].watched # "waiting"
      BY <1>1 DEF OneAwaited
    <3>4. CountedIffMined'
      BY <2>3, <2>4, <3>1, <3>2 DEF CountedIffMined
    <3>5. SentSound'
      BY <2>4, <3>1 DEF SentSound
    <3>6. OneAwaited'
      BY <2>4, <3>1, <3>2, <3>3 DEF OneAwaited
    <3>7. QED BY <3>4, <3>5, <3>6
  <2>6. BooksAgree'
    BY <1>1, <2>1, <2>2, BooksUntouched
  <2>7. (reporting = running)'
    BY <2>1
  <2>8. QED BY <2>1, <2>5, <2>6, <2>7
<1>4. QED BY <1>2, <1>3

\* A wait ends: the one transaction waited for is not waited for any more.
LEMMA WaitEndKeeps ==
  ASSUME PipelineInv, at = "receipt", NEW how, how \in {"answered", "given up"},
         WaitEnds(how),
         how = "answered" => sent[Awaited].status # "pool"
  PROVE  /\ sent' \in Seq(Txs) /\ Len(sent') <= MaxSent
         /\ DOMAIN sent' = DOMAIN sent /\ SentSound'
         /\ \A i \in DOMAIN sent : /\ sent'[i].offer = sent[i].offer
                                   /\ sent'[i].status = sent[i].status
                                   /\ sent'[i].watched # "waiting"
         /\ \A i \in DOMAIN sent \ {Awaited} : sent'[i] = sent[i]
         /\ sent'[Awaited].watched = how
<1>1. sent \in Seq(Txs) /\ Len(sent) <= MaxSent
  BY DEF PipelineInv, CountedIffMined, TypeOK, Txs
<1>2. /\ Awaited \in DOMAIN sent
      /\ \A j \in DOMAIN sent : sent[j].watched = "waiting" => j = Awaited
  BY AwaitedIs
<1> DEFINE w == Awaited
<1>3. sent' = [sent EXCEPT ![w].watched = how] /\ w \in DOMAIN sent
  BY <1>2 DEF WaitEnds
<1>4. \A j \in DOMAIN sent : sent[j].watched = "waiting" => j = w
  BY <1>2
<1> HIDE DEF w
<1>5. sent[w] \in Txs /\ [sent[w] EXCEPT !.watched = how] \in Txs
  <2>1. sent[w] \in Txs
    BY ONLY <1>1, <1>3, OneElement
  <2>2. QED BY <2>1 DEF Txs
<1>6. sent' = [sent EXCEPT ![w] = [sent[w] EXCEPT !.watched = how]]
  BY <1>1, <1>3
<1>7. sent' \in Seq(Txs) /\ Len(sent') = Len(sent) /\ DOMAIN sent' = DOMAIN sent
  <2> DEFINE e == [sent[w] EXCEPT !.watched = how]
  <2>1. e \in Txs /\ w \in DOMAIN sent /\ sent \in Seq(Txs) /\ sent' = [sent EXCEPT ![w] = e]
    BY <1>1, <1>3, <1>5, <1>6
  <2> HIDE DEF e
  <2>2. /\ [sent EXCEPT ![w] = e] \in Seq(Txs) /\ Len([sent EXCEPT ![w] = e]) = Len(sent)
        /\ DOMAIN [sent EXCEPT ![w] = e] = DOMAIN sent
    BY ONLY <2>1, OneReplaced
  <2>3. QED BY ONLY <2>1, <2>2, Zenon
<1>8. /\ \A i \in DOMAIN sent \ {w} : sent'[i] = sent[i]
      /\ sent'[w].watched = how /\ sent'[w].offer = sent[w].offer
      /\ sent'[w].status = sent[w].status
  BY <1>3, <1>5, <1>6 DEF Txs
<1>9. \A i \in DOMAIN sent : /\ sent'[i].offer = sent[i].offer
                            /\ sent'[i].status = sent[i].status
                            /\ sent'[i].watched # "waiting"
  BY <1>4, <1>8
<1>10. SentSound'
  <2>1. SentSound
    BY DEF PipelineInv
  <2>2. how = "answered" => sent[w].status # "pool"
    BY DEF w
  <2>3. QED BY <1>3, <1>7, <1>8, <1>9, <2>1, <2>2 DEF SentSound
<1>11. QED BY <1>1, <1>7, <1>8, <1>9, <1>10 DEF w

\* Nothing comes of the transaction waited for.
LEMMA LostKeeps ==
  ASSUME PipelineInv, Reverted \/ ReceiptTimeout
  PROVE  PipelineInv'
<1> USE DEF PipelineInv
<1>1. at = "receipt" /\ Miss /\ counted \subseteq DOMAIN sent /\ TypeOK
  BY DEF Reverted, ReceiptTimeout, CountedIffMined, TypeOK
<1>2. /\ InHand' /\ at' \in {"sleep", "gate"} /\ opps' \in Seq(Opportunity)
      /\ misses' \in 0..MAX_CONSECUTIVE_FAILURES + 1
      /\ UNCHANGED <<running, reporting, queued, counted, books, failures>>
  BY <1>1, MissKeeps
<1>3. /\ Awaited \in DOMAIN sent /\ Awaited \notin counted
      /\ sent[Awaited].watched = "waiting"
  BY <1>1, AwaitedIs
<1>4. PICK how : /\ how \in {"answered", "given up"} /\ WaitEnds(how)
                 /\ how = "answered" => sent[Awaited].status = "reverted"
  <2>1. \/ WaitEnds("answered") /\ sent[Awaited].status = "reverted"
        \/ WaitEnds("given up")
    BY DEF Reverted, ReceiptTimeout
  <2>2. "given up" # "answered"
    OBVIOUS
  <2>3. QED BY ONLY <2>1, <2>2, Zenon
<1>5. /\ sent' \in Seq(Txs) /\ Len(sent') <= MaxSent
      /\ DOMAIN sent' = DOMAIN sent /\ SentSound'
      /\ \A i \in DOMAIN sent : /\ sent'[i].offer = sent[i].offer
                                /\ sent'[i].status = sent[i].status
                                /\ sent'[i].watched # "waiting"
      /\ \A i \in DOMAIN sent \ {Awaited} : sent'[i] = sent[i]
      /\ sent'[Awaited].watched = how
  BY <1>1, <1>4, WaitEndKeeps
<1>6. TypeOK'
  BY <1>1, <1>2, <1>5 DEF TypeOK, Txs
<1>7. CountedIffMined'
  <2>1. ASSUME NEW i \in DOMAIN sent, i # Awaited
        PROVE  /\ i \in counted => sent'[i].status = "success" /\ sent'[i].watched = "answered"
               /\ sent'[i].status = "success" /\ sent'[i].watched = "answered" => i \in counted
    BY <1>5, <2>1 DEF CountedIffMined
  <2>2. ~(sent'[Awaited].status = "success" /\ sent'[Awaited].watched = "answered")
    BY <1>3, <1>4, <1>5
  <2>3. QED BY <1>2, <1>3, <1>5, <1>6, <2>1, <2>2 DEF CountedIffMined
<1>8. OneAwaited'
  BY <1>2, <1>5 DEF OneAwaited
<1>9. BooksAgree'
  BY <1>1, <1>2, <1>5, BooksUntouched
<1>10. (reporting = running)'
  BY <1>2
<1>11. QED BY <1>2, <1>5, <1>7, <1>8, <1>9, <1>10

\* The transaction waited for was mined as a success, and is counted.
LEMMA WonKeeps ==
  ASSUME PipelineInv, Won
  PROVE  PipelineInv'
<1> USE DEF PipelineInv
<1>1. /\ at = "receipt" /\ WaitEnds("answered") /\ sent[Awaited].status = "success"
      /\ books' = Credit(books, Head(opps)) /\ counted' = counted \cup {Awaited}
      /\ queued' = IF reporting THEN queued \cup {Awaited} ELSE queued
      /\ failures' = 0 /\ misses' = 0 /\ at' = "publish"
      /\ UNCHANGED <<running, opps, reporting>>
  BY DEF Won
<1>2. TypeOK /\ counted \subseteq DOMAIN sent /\ queued \subseteq counted
  BY DEF CountedIffMined, TypeOK
<1>3. /\ Awaited \in DOMAIN sent /\ Awaited \notin counted
      /\ sent[Awaited].offer = Head(opps)
  BY <1>1, AwaitedIs
<1>4. /\ sent' \in Seq(Txs) /\ Len(sent') <= MaxSent
      /\ DOMAIN sent' = DOMAIN sent /\ SentSound'
      /\ \A i \in DOMAIN sent : /\ sent'[i].offer = sent[i].offer
                                /\ sent'[i].status = sent[i].status
                                /\ sent'[i].watched # "waiting"
      /\ \A i \in DOMAIN sent \ {Awaited} : sent'[i] = sent[i]
      /\ sent'[Awaited].watched = "answered"
  BY <1>1, WaitEndKeeps
<1>5. BooksAgree' /\ books' \in Books
  <2>1. sent[Awaited].offer \in PricedOffers
    BY <1>3 DEF SentSound
  <2>2. books' = Credit(books, sent[Awaited].offer)
    BY <1>1, <1>3
  <2>3. QED BY <1>1, <1>2, <1>3, <1>4, <2>1, <2>2, CreditKeeps
<1>6. queued' \subseteq counted' /\ counted' \subseteq DOMAIN sent'
  BY <1>1, <1>2, <1>3, <1>4
<1>7. TypeOK'
  <2>1. opps \in Seq(Opportunity) /\ running \in BOOLEAN /\ reporting \in BOOLEAN
    BY <1>2 DEF TypeOK
  <2>2. 0 \in 0..MAX_CONSECUTIVE_FAILURES /\ 0 \in 0..MAX_CONSECUTIVE_FAILURES + 1
    BY DEF MAX_CONSECUTIVE_FAILURES
  <2>3. QED BY <1>1, <1>4, <1>5, <1>6, <2>1, <2>2 DEF TypeOK, Txs
<1>8. CountedIffMined'
  <2>1. ASSUME NEW i \in DOMAIN sent, i # Awaited
        PROVE  /\ i \in counted' => sent'[i].status = "success" /\ sent'[i].watched = "answered"
               /\ sent'[i].status = "success" /\ sent'[i].watched = "answered" => i \in counted'
    BY <1>1, <1>4, <2>1 DEF CountedIffMined
  <2>2. /\ sent'[Awaited].status = "success" /\ sent'[Awaited].watched = "answered"
        /\ Awaited \in counted'
    BY <1>1, <1>3, <1>4
  <2>3. QED BY <1>4, <1>7, <2>1, <2>2 DEF CountedIffMined
<1>9. OneAwaited' /\ InHand'
  BY <1>1, <1>4 DEF OneAwaited, InHand
<1>10. QED BY <1>1, <1>4, <1>5, <1>8, <1>9

\* A transaction of the pool is mined.
LEMMA MineKeeps ==
  ASSUME PipelineInv, NEW m \in DOMAIN sent, Mine(m)
  PROVE  PipelineInv'
<1> USE DEF PipelineInv
<1>1. PICK outcome \in {"success", "reverted"} : sent' = [sent EXCEPT ![m].status = outcome]
  BY DEF Mine
<1>2. /\ sent[m].status = "pool"
      /\ UNCHANGED <<running, at, opps, reporting, queued, counted, books, failures, misses>>
  BY DEF Mine
<1>3. sent \in Seq(Txs) /\ TypeOK /\ Len(sent) <= MaxSent
  BY DEF CountedIffMined, TypeOK, Txs
<1>4. sent[m] \in Txs /\ [sent[m] EXCEPT !.status = outcome] \in Txs
  <2>1. sent[m] \in Txs
    BY ONLY <1>3, m \in DOMAIN sent, OneElement
  <2>2. QED BY <2>1 DEF Txs
<1>5. sent' = [sent EXCEPT ![m] = [sent[m] EXCEPT !.status = outcome]]
  BY <1>1, <1>3
<1>6. sent' \in Seq(Txs) /\ Len(sent') = Len(sent) /\ DOMAIN sent' = DOMAIN sent
  <2> DEFINE e == [sent[m] EXCEPT !.status = outcome]
  <2>1. e \in Txs /\ m \in DOMAIN sent /\ sent \in Seq(Txs) /\ sent' = [sent EXCEPT ![m] = e]
    BY <1>3, <1>4, <1>5
  <2> HIDE DEF e
  <2>2. /\ [sent EXCEPT ![m] = e] \in Seq(Txs) /\ Len([sent EXCEPT ![m] = e]) = Len(sent)
        /\ DOMAIN [sent EXCEPT ![m] = e] = DOMAIN sent
    BY ONLY <2>1, OneReplaced
  <2>3. QED BY ONLY <2>1, <2>2, Zenon
<1>7. /\ \A i \in DOMAIN sent \ {m} : sent'[i] = sent[i]
      /\ \A i \in DOMAIN sent : /\ sent'[i].offer = sent[i].offer
                                /\ sent'[i].watched = sent[i].watched
      /\ sent'[m].status = outcome
  BY <1>3, <1>4, <1>5 DEF Txs
<1>8. m \notin counted /\ sent[m].watched # "answered"
  BY <1>2 DEF CountedIffMined, SentSound
<1>9. TypeOK'
  BY <1>2, <1>3, <1>6 DEF TypeOK, Txs
<1>10. CountedIffMined' /\ SentSound'
  <2>1. ASSUME NEW i \in DOMAIN sent
        PROVE  /\ i \in counted => sent'[i].status = "success" /\ sent'[i].watched = "answered"
               /\ sent'[i].status = "success" /\ sent'[i].watched = "answered" => i \in counted
               /\ sent'[i].offer \in PricedOffers
               /\ sent'[i].watched = "answered" => sent'[i].status # "pool"
    <3>1. CASE i = m
      BY <1>7, <1>8, <3>1 DEF SentSound
    <3>2. CASE i # m
      BY <1>7, <3>2 DEF SentSound, CountedIffMined
    <3>3. QED BY <3>1, <3>2
  <2>2. QED BY <1>2, <1>6, <1>9, <2>1 DEF CountedIffMined, SentSound
<1>11. OneAwaited'
  BY <1>2, <1>6, <1>7 DEF OneAwaited
<1>12. BooksAgree'
  <2>1. counted \subseteq DOMAIN sent
    BY <1>3 DEF TypeOK
  <2>2. QED BY <1>2, <1>7, <2>1, BooksUntouched
<1>13. InHand' /\ (reporting = running)'
  BY <1>2 DEF InHand
<1>14. QED BY <1>10, <1>11, <1>12, <1>13

(***************************************************************************)
(* The invariant holds, whatever is quoted and however the chain answers.  *)
(***************************************************************************)
THEOREM PipelineInvariant == Spec => []PipelineInv
<1>1. PipelineInv /\ [Next]_vars => PipelineInv'
  <2> SUFFICES ASSUME PipelineInv, [Next]_vars PROVE PipelineInv'
    OBVIOUS
  <2>1. CASE \/ Scan \/ LoopEnds \/ Refused \/ Cleared \/ RecordTrade \/ Shutdown
             \/ UNCHANGED vars
    BY <2>1, QuietKeeps
  <2>2. CASE Send \/ SendFails
    BY <2>2, SendKeeps
  <2>3. CASE Reverted \/ ReceiptTimeout
    BY <2>3, LostKeeps
  <2>4. CASE Won
    BY <2>4, WonKeeps
  <2>5. CASE \E i \in DOMAIN sent : Mine(i)
    BY <2>5, MineKeeps
  <2>6. QED
    BY <2>1, <2>2, <2>3, <2>4, <2>5 DEF Next, Execution
<1>2. QED BY <1>1, PipelineStart, PTL DEF Spec

(***************************************************************************)
(* _report_profit() is called for a trade if and only if its receipt was   *)
(* seen and says success.                                                  *)
(***************************************************************************)
THEOREM CountedIffMinedTheorem == Spec => []CountedIffMined
<1>1. PipelineInv => CountedIffMined
  BY DEF PipelineInv
<1>2. QED BY <1>1, PipelineInvariant, PTL

(***************************************************************************)
(* The places that count agree on the trades, and their amounts differ by  *)
(* the flash loan fees of the trades counted and by nothing else.          *)
(***************************************************************************)
THEOREM BooksAgreeTheorem == Spec => []BooksAgree
<1>1. PipelineInv => BooksAgree
  BY DEF PipelineInv
<1>2. QED BY <1>1, PipelineInvariant, PTL

(***************************************************************************)
(* After shutdown() no trade is put in the reporter's queue: the safety    *)
(* part of StopEndsTrading.                                                *)
(***************************************************************************)
THEOREM NothingQueuedTheorem == Spec => NothingQueuedAfterStop
<1>1. PipelineInv /\ [Next]_vars => [~running => queued' = queued]_vars
  <2> SUFFICES ASSUME PipelineInv, Next, ~running PROVE queued' = queued
    BY DEF vars
  <2>1. CASE Won
    BY <2>1 DEF Won, PipelineInv
  <2>2. CASE SendFails \/ Reverted \/ ReceiptTimeout
    BY <2>2 DEF SendFails, Reverted, ReceiptTimeout, Miss
  <2>3. QED
    BY <2>1, <2>2
       DEF Next, Execution, Scan, LoopEnds, Refused, Cleared, Send, RecordTrade, Shutdown, Mine
<1>2. QED BY <1>1, PipelineInvariant, PTL DEF Spec, NothingQueuedAfterStop
=============================================================================
