------------------------ MODULE TradeReportingProofs ------------------------
(***************************************************************************)
(* Proofs of the safety properties of TradeReporting, for any set of       *)
(* trades and any sizes of the queue, the batch and the retries.           *)
(***************************************************************************)
EXTENDS TradeReporting, TLAPS

(***************************************************************************)
(* Sequences and their elements                                            *)
(***************************************************************************)

\* What Append puts into a sequence.
LEMMA RangeOfAppend ==
  ASSUME NEW S, NEW s \in Seq(S), NEW e \in S
  PROVE  /\ Append(s, e) \in Seq(S)
         /\ Len(Append(s, e)) = Len(s) + 1
         /\ Append(s, e) # <<>>
         /\ Range(Append(s, e)) = Range(s) \cup {e}
<1>1. Append(s, e) \in Seq(S) /\ Len(Append(s, e)) = Len(s) + 1
  OBVIOUS
<1>2. Append(s, e) # <<>>
  <2>1. Len(Append(s, e)) # 0 /\ Len(<<>>) = 0
    BY <1>1
  <2>. QED
    BY <2>1
<1>3. DOMAIN Append(s, e) = 1..(Len(s) + 1) /\ DOMAIN s = 1..Len(s)
  OBVIOUS
<1>4. \A i \in 1..Len(s) : Append(s, e)[i] = s[i]
  OBVIOUS
<1>5. Append(s, e)[Len(s) + 1] = e
  OBVIOUS
<1>6. Len(s) \in Nat
  OBVIOUS
<1>7. \A i : i \in 1..(Len(s) + 1) <=> i \in 1..Len(s) \/ i = Len(s) + 1
  BY <1>6
<1>8. Range(Append(s, e)) = Range(s) \cup {e}
  BY <1>3, <1>4, <1>5, <1>7, Zenon DEF Range
<1>. QED
  BY <1>1, <1>2, <1>8

\* A sequence that is not empty consists of its head and its tail.
LEMMA RangeOfTail ==
  ASSUME NEW S, NEW s \in Seq(S), s # <<>>
  PROVE  /\ Head(s) \in S /\ Tail(s) \in Seq(S)
         /\ Len(Tail(s)) = Len(s) - 1
         /\ Range(s) = {Head(s)} \cup Range(Tail(s))
<1>1. /\ Head(s) \in S /\ Tail(s) \in Seq(S) /\ Len(Tail(s)) = Len(s) - 1
      /\ Len(s) \in Nat /\ Len(s) >= 1 /\ Head(s) = s[1]
  OBVIOUS
<1>2. DOMAIN s = 1..Len(s) /\ DOMAIN Tail(s) = 1..(Len(s) - 1)
  BY <1>1
<1>3. \A i \in 1..(Len(s) - 1) : Tail(s)[i] = s[i + 1]
  BY <1>1
<1>4. \A x \in Range(s) : x \in {Head(s)} \cup Range(Tail(s))
  <2>1. SUFFICES ASSUME NEW i \in 1..Len(s), s[i] # Head(s)
                 PROVE  s[i] \in Range(Tail(s))
    BY <1>2 DEF Range
  <2>2. i - 1 \in 1..(Len(s) - 1) /\ (i - 1) + 1 = i
    BY <1>1, <2>1
  <2>3. Tail(s)[i - 1] = s[i]
    BY <1>3, <2>2
  <2>. QED
    BY <1>2, <2>2, <2>3 DEF Range
<1>5. \A x \in {Head(s)} \cup Range(Tail(s)) : x \in Range(s)
  <2>1. Head(s) \in Range(s)
    BY <1>1, <1>2 DEF Range
  <2>2. ASSUME NEW i \in 1..(Len(s) - 1)
        PROVE  Tail(s)[i] \in Range(s)
    <3>1. i + 1 \in 1..Len(s)
      BY <1>1
    <3>. QED
      BY <1>2, <1>3, <3>1 DEF Range
  <2>. QED
    BY <1>2, <2>1, <2>2 DEF Range
<1>. QED
  BY <1>1, <1>4, <1>5

\* A sequence's elements come from its set, and the empty one has none.
LEMMA RangeInSet ==
  ASSUME NEW S, NEW s \in Seq(S)
  PROVE  /\ Range(s) \subseteq S
         /\ DOMAIN s = 1..Len(s) /\ Len(s) \in Nat
         /\ s = <<>> <=> Len(s) = 0
         /\ \A i \in 1..Len(s) : s[i] \in S /\ s[i] \in Range(s)
  BY DEF Range

LEMMA RangeOfEmpty == Range(<<>>) = {}
  BY DEF Range

(***************************************************************************)
(* Types, and where the worker may stand with what batch                   *)
(***************************************************************************)

Positions ==
  /\ worker = "polling" => Len(batch) < BatchSize /\ running
  /\ worker = "took" => batch # <<>>
  /\ worker \in Flushes => next <= Len(batch)

WorkInv == TypeOK /\ Positions

LEMMA WorkInit == Init => WorkInv
<1>. SUFFICES ASSUME Init PROVE WorkInv
  OBVIOUS
<1>1. <<>> \in Seq(Trades) /\ Len(<<>>) = 0
  OBVIOUS
<1>. QED
  BY <1>1, SizesAssumption DEF Init, WorkInv, TypeOK, Positions, Flushes

\* What leaving a trade of the batch behind does to the worker.
LEMMA AdvanceSafe ==
  ASSUME WorkInv, worker \in Flushes, Advance
  PROVE  /\ worker' \in {"polling", "took", "gone", "dead"} \cup Flushes
         /\ batch' \in Seq(Trades) /\ Len(batch') <= BatchSize
         /\ next' \in 1..BatchSize /\ attempt' \in 0..MaxRetries
         /\ worker' = "polling" => Len(batch') < BatchSize /\ running
         /\ worker' # "took"
         /\ worker' \in Flushes => next' <= Len(batch')
<1>. USE SizesAssumption DEF WorkInv, TypeOK, Positions, Flushes, Advance, Loop
<1>1. CASE next < Len(batch)
  BY <1>1
<1>2. CASE ~(next < Len(batch))
  <2>1. batch' = <<>> /\ next' = 1 /\ attempt' = 0
    BY <1>2
  <2>2. <<>> \in Seq(Trades) /\ Len(<<>>) = 0
    OBVIOUS
  <2>. QED
    BY <1>2, <2>1, <2>2
<1>. QED
  BY <1>1, <1>2

\* The trade being posted is a trade of the batch.
LEMMA PostingIsTrade ==
  ASSUME WorkInv, worker \in Flushes
  PROVE  /\ Posting \in Trades /\ next \in 1..Len(batch)
         /\ \A i \in 1..Len(batch) : batch[i] \in Trades
  BY SizesAssumption DEF WorkInv, TypeOK, Positions, Posting

LEMMA DropRequestTypes ==
  ASSUME TypeOK, Posting \in Trades, DropRequest
  PROVE  late' \in [Trades -> Nat] /\ unanswered' \subseteq Trades
  BY DEF TypeOK, DropRequest

LEMMA InHandTypes ==
  ASSUME WorkInv
  PROVE  InHand \subseteq Trades /\ Range(queue) \subseteq Trades
<1>1. Range(queue) \subseteq Trades /\ Range(batch) \subseteq Trades
  BY RangeInSet DEF WorkInv, TypeOK
<1>2. CASE worker \in Flushes
  <2>1. \A i \in next..Len(batch) : i \in 1..Len(batch)
    BY <1>2, PostingIsTrade
  <2>. QED
    BY <1>1, <1>2, <2>1, PostingIsTrade DEF InHand
<1>. QED
  BY <1>1, <1>2 DEF InHand

LEMMA WorkStep == WorkInv /\ [Next]_vars => WorkInv'
<1>. SUFFICES ASSUME WorkInv, [Next]_vars
              PROVE  WorkInv'
  OBVIOUS
<1>. USE SizesAssumption
<1>1. ASSUME NEW t \in Trades, ReportTrade(t)
      PROVE  WorkInv'
  <2>1. CASE running /\ Len(queue) < QueueSize
    <3>1. queue' = Append(queue, t) /\ queue \in Seq(Trades) /\ Len(queue) \in Nat
      BY <1>1, <2>1 DEF ReportTrade, WorkInv, TypeOK
    <3>2. queue' \in Seq(Trades) /\ Len(queue') <= QueueSize
      BY <2>1, <3>1, RangeOfAppend
    <3>. QED
      BY <1>1, <2>1, <3>2 DEF ReportTrade, WorkInv, TypeOK, Positions, backend
  <2>2. CASE ~(running /\ Len(queue) < QueueSize)
    BY <1>1, <2>2 DEF ReportTrade, WorkInv, TypeOK, Positions, backend
  <2>. QED
    BY <2>1, <2>2
<1>2. ASSUME NEW t \in Trades, LateCommit(t)
      PROVE  WorkInv'
  BY <1>2 DEF LateCommit, WorkInv, TypeOK, Positions, reporter, history
<1>3. CASE TakeTrade
  <2>1. Head(queue) \in Trades /\ queue' \in Seq(Trades)
        /\ Len(queue') <= QueueSize
    BY <1>3, RangeOfTail DEF TakeTrade, WorkInv, TypeOK
  <2>2. batch' \in Seq(Trades) /\ Len(batch') = Len(batch) + 1 /\ batch' # <<>>
    BY <1>3, <2>1, RangeOfAppend DEF TakeTrade, WorkInv, TypeOK
  <2>3. Len(batch') <= BatchSize
    BY <1>3, <2>2 DEF TakeTrade, WorkInv, TypeOK, Positions
  <2>. QED
    BY <1>3, <2>1, <2>2, <2>3
       DEF TakeTrade, WorkInv, TypeOK, Positions, Flushes, backend, history
<1>4. CASE Resume
  BY <1>4 DEF Resume, Begin, Loop, WorkInv, TypeOK, Positions, Flushes,
              backend, history
<1>5. CASE IdleTimeout
  <2>1. Len(batch) >= 1
    BY <1>5, RangeInSet DEF IdleTimeout, WorkInv, TypeOK
  <2>. QED
    BY <1>5, <2>1 DEF IdleTimeout, Begin, WorkInv, TypeOK, Positions, Flushes,
                      backend, history
<1>6. CASE PostAnswered
  <2>1. records' \in [Trades -> Nat]
    BY <1>6, PostingIsTrade DEF PostAnswered, WorkInv, TypeOK
  <2>. QED
    BY <1>6, <2>1, AdvanceSafe
       DEF PostAnswered, WorkInv, TypeOK, Positions, history
<1>7. CASE PostFailed
  <2>1. late' \in [Trades -> Nat] /\ unanswered' \subseteq Trades
    BY <1>7, PostingIsTrade, DropRequestTypes DEF PostFailed, WorkInv
  <2>2. CASE MoreAttempts
    BY <1>7, <2>1, <2>2
       DEF PostFailed, MoreAttempts, WorkInv, TypeOK, Positions
  <2>3. CASE ~MoreAttempts
    <3>1. givenUp' \subseteq Trades
      BY <1>7, <2>3, PostingIsTrade DEF PostFailed, WorkInv, TypeOK
    <3>. QED
      BY <1>7, <2>1, <2>3, <3>1, AdvanceSafe
         DEF PostFailed, WorkInv, TypeOK, Positions
  <2>. QED
    BY <2>2, <2>3
<1>8. CASE StopWhilePolling
  <2>1. leftBehind' \subseteq Trades
    BY <1>8, InHandTypes DEF StopWhilePolling, WorkInv, TypeOK
  <2>2. batch = <<>> \/ Len(batch) >= 1
    BY RangeInSet DEF WorkInv, TypeOK
  <2>3. CASE batch # <<>>
    <3>1. /\ running' = FALSE /\ worker' = "lastFlushing"
          /\ next' = 1 /\ attempt' = 0
          /\ UNCHANGED <<queue, batch, backend, reported, turnedAway, givenUp,
                         unanswered, reposted>>
      BY <1>8, <2>3 DEF StopWhilePolling, Begin
    <3>2. TypeOK'
      <4>1. next' \in 1..BatchSize /\ attempt' \in 0..MaxRetries
        BY <3>1
      <4>. QED
        BY <2>1, <3>1, <4>1 DEF WorkInv, TypeOK, Flushes, backend
    <3>3. Positions'
      BY <2>2, <2>3, <3>1 DEF Positions, Flushes
    <3>. QED
      BY <3>2, <3>3 DEF WorkInv
  <2>4. CASE batch = <<>>
    BY <1>8, <2>1, <2>4 DEF StopWhilePolling, WorkInv, TypeOK, Positions,
                            Flushes, backend
  <2>. QED
    BY <2>3, <2>4
<1>9. CASE StopSwallowed
  <2>1. leftBehind' \subseteq Trades
    BY <1>9, InHandTypes DEF StopSwallowed, WorkInv, TypeOK
  <2>. QED
    BY <1>9, <2>1 DEF StopSwallowed, WorkInv, TypeOK, Positions, backend
<1>10. CASE StopWhileFlushing
  <2>1. leftBehind' \subseteq Trades
    BY <1>10, InHandTypes DEF StopWhileFlushing, WorkInv, TypeOK
  <2>2. worker \in Flushes
    BY <1>10 DEF StopWhileFlushing, Flushes
  <2>3. reposted' \subseteq Trades
    <3>1. \A i \in 1..next : i \in 1..Len(batch)
      BY <2>2, PostingIsTrade
    <3>. QED
      BY <1>10, <2>2, <3>1, PostingIsTrade
         DEF StopWhileFlushing, WorkInv, TypeOK
  <2>4. late' \in [Trades -> Nat] /\ unanswered' \subseteq Trades
    BY <1>10, <2>2, PostingIsTrade, DropRequestTypes
       DEF StopWhileFlushing, WorkInv
  <2>5. 1 <= Len(batch)
    BY <2>2, PostingIsTrade
  <2>6. /\ running' = FALSE /\ worker' = "lastFlushing"
        /\ next' = 1 /\ attempt' = 0
        /\ UNCHANGED <<queue, batch, records, reported, turnedAway, givenUp>>
    BY <1>10 DEF StopWhileFlushing, Begin
  <2>7. TypeOK'
    <3>1. next' \in 1..BatchSize /\ attempt' \in 0..MaxRetries
      BY <2>6
    <3>2. reported' \cup turnedAway' \cup givenUp' \cup unanswered'
            \cup reposted' \cup leftBehind' \subseteq Trades
      BY <2>1, <2>3, <2>4, <2>6, Zenon DEF WorkInv, TypeOK
    <3>. QED
      BY <2>4, <2>6, <3>1, <3>2 DEF WorkInv, TypeOK, Flushes
  <2>8. Positions'
    BY <2>5, <2>6 DEF Positions, Flushes
  <2>. QED
    BY <2>7, <2>8 DEF WorkInv
<1>11. CASE StopInHandler
  <2>1. leftBehind' \subseteq Trades
    BY <1>11, InHandTypes DEF StopInHandler, WorkInv, TypeOK
  <2>2. late' \in [Trades -> Nat] /\ unanswered' \subseteq Trades
    BY <1>11, PostingIsTrade, DropRequestTypes
       DEF StopInHandler, WorkInv, Flushes
  <2>. QED
    BY <1>11, <2>1, <2>2
       DEF StopInHandler, WorkInv, TypeOK, Positions, Flushes
<1>12. CASE Crash
  <2>1. leftBehind' \subseteq Trades
    BY <1>12, InHandTypes DEF Crash, WorkInv, TypeOK
  <2>2. late' \in [Trades -> Nat] /\ unanswered' \subseteq Trades
    BY <1>12, PostingIsTrade, DropRequestTypes DEF Crash, WorkInv, TypeOK
  <2>. QED
    BY <1>12, <2>1, <2>2 DEF Crash, WorkInv, TypeOK, Positions, Flushes
<1>13. CASE UNCHANGED vars
  BY <1>13 DEF vars, reporter, backend, history, WorkInv, TypeOK, Positions
<1>. QED
  BY <1>1, <1>2, <1>3, <1>4, <1>5, <1>6, <1>7, <1>8, <1>9, <1>10, <1>11,
     <1>12, <1>13 DEF Next, Work, Stop

\* The reporter, its worker and the backend's records are type correct.
THEOREM TradeReportingTypeCorrect == Spec => []TypeOK
<1>1. WorkInv => TypeOK
  BY DEF WorkInv
<1>. QED
  BY <1>1, WorkInit, WorkStep, PTL DEF Spec

(***************************************************************************)
(* No trade gets lost                                                      *)
(***************************************************************************)

\* A worker that will leave its loop with trades in the batch was stopped when
\* they were counted as left behind.
Swallowed ==
  worker = "took" /\ ~running /\ Len(batch) < BatchSize
    => Range(batch) \subseteq leftBehind

AccountInv == EveryTradeAccounted /\ Swallowed

LEMMA AccountInit == Init => AccountInv
  BY DEF Init, AccountInv, EveryTradeAccounted, Swallowed

\* A flush begins with the whole batch in hand.
LEMMA BeginInHand ==
  ASSUME WorkInv, worker' \in Flushes, next' = 1, batch' = batch
  PROVE  InHand' = Range(batch)
<1>1. DOMAIN batch = 1..Len(batch)
  BY RangeInSet DEF WorkInv, TypeOK
<1>2. InHand' = {batch[i] : i \in 1..Len(batch)}
  BY DEF InHand
<1>. QED
  BY <1>1, <1>2, Zenon DEF Range

LEMMA FlushInHand ==
  ASSUME WorkInv, worker \in Flushes
  PROVE  /\ InHand = {batch[i] : i \in next..Len(batch)}
         /\ InHand \subseteq Range(batch)
         /\ Posting \in InHand
<1>1. InHand = {batch[i] : i \in next..Len(batch)}
  BY DEF InHand
<1>2. next \in next..Len(batch)
  BY PostingIsTrade
<1>3. \A i \in next..Len(batch) : batch[i] \in Range(batch)
  <2>1. \A i \in next..Len(batch) : i \in 1..Len(batch)
    BY PostingIsTrade
  <2>. QED
    BY <2>1, RangeInSet DEF WorkInv, TypeOK
<1>. QED
  BY <1>1, <1>2, <1>3 DEF Posting

\* Leaving a trade of the batch behind takes this trade, and no other, off the
\* worker's hands.
LEMMA AdvanceInHand ==
  ASSUME WorkInv, worker \in Flushes, Advance
  PROVE  /\ InHand \subseteq {Posting} \cup InHand'
         /\ \/ /\ worker' = worker /\ batch' = batch /\ next' = next + 1
               /\ next' \in 1..Len(batch)
               /\ InHand' = {batch[i] : i \in (next + 1)..Len(batch)}
            \/ /\ worker' \in {"polling", "gone"} /\ batch' = <<>>
               /\ worker' = "polling" => worker # "lastFlushing"
               /\ InHand' = {}
<1>1. CASE next < Len(batch)
  <2>1. worker' = worker /\ batch' = batch /\ next' = next + 1
        /\ next' \in 1..Len(batch)
    BY <1>1, PostingIsTrade DEF Advance
  <2>2. InHand' = {batch[i] : i \in (next + 1)..Len(batch)}
    BY <2>1 DEF InHand
  <2>3. \A i \in next..Len(batch) : i = next \/ i \in (next + 1)..Len(batch)
    BY PostingIsTrade
  <2>4. InHand \subseteq {Posting} \cup InHand'
    BY <2>2, <2>3, FlushInHand, Zenon DEF Posting
  <2>. QED
    BY <2>1, <2>2, <2>4
<1>2. CASE ~(next < Len(batch))
  <2>1. worker' \in {"polling", "gone"} /\ batch' = <<>>
        /\ (worker' = "polling" => worker # "lastFlushing")
    BY <1>2 DEF Advance, Loop
  <2>2. InHand' = {}
    BY <2>1, RangeOfEmpty DEF InHand, Flushes
  <2>3. \A i \in next..Len(batch) : i = next
    BY <1>2, PostingIsTrade DEF WorkInv, TypeOK
  <2>4. InHand \subseteq {Posting}
    BY <2>3, FlushInHand, Zenon DEF Posting
  <2>. QED
    BY <2>1, <2>2, <2>4
<1>. QED
  BY <1>1, <1>2

LEMMA AccountStep == WorkInv /\ AccountInv /\ [Next]_vars => AccountInv'
<1>. SUFFICES ASSUME WorkInv, AccountInv, [Next]_vars
              PROVE  AccountInv'
  OBVIOUS
<1>. USE DEF AccountInv, EveryTradeAccounted, Swallowed
<1>a. queue \in Seq(Trades) /\ batch \in Seq(Trades) /\ Len(batch) \in Nat
      /\ reported \subseteq Trades
  BY DEF WorkInv, TypeOK
<1>1. ASSUME NEW t \in Trades, ReportTrade(t)
      PROVE  AccountInv'
  <2>1. InHand' = InHand
    BY <1>1 DEF ReportTrade, InHand
  <2>2. CASE running /\ Len(queue) < QueueSize
    <3>0. queue' = Append(queue, t)
      BY <1>1, <2>2 DEF ReportTrade
    <3>1. Range(queue') = Range(queue) \cup {t}
      BY <1>a, <3>0, RangeOfAppend
    <3>. QED
      BY <1>1, <2>1, <2>2, <3>1 DEF ReportTrade, backend
  <2>3. CASE ~(running /\ Len(queue) < QueueSize)
    BY <1>1, <2>1, <2>3 DEF ReportTrade, backend
  <2>. QED
    BY <2>2, <2>3
<1>2. ASSUME NEW t \in Trades, LateCommit(t)
      PROVE  AccountInv'
  <2>1. InHand' = InHand
    BY <1>2 DEF LateCommit, reporter, InHand
  <2>2. \A u \in Trades : records[u] > 0 => records'[u] > 0
    BY <1>2 DEF LateCommit, WorkInv, TypeOK
  <2>. QED
    BY <1>2, <1>a, <2>1, <2>2 DEF LateCommit, reporter, history
<1>3. CASE TakeTrade
  <2>1. Range(queue) = {Head(queue)} \cup Range(queue') /\ Head(queue) \in Trades
    BY <1>3, <1>a, RangeOfTail DEF TakeTrade
  <2>2. Range(batch') = Range(batch) \cup {Head(queue)}
    BY <1>3, <1>a, <2>1, RangeOfAppend DEF TakeTrade
  <2>3. InHand' = Range(batch') /\ InHand = Range(batch)
    BY <1>3 DEF TakeTrade, InHand, Flushes
  <2>4. running /\ running'
    BY <1>3 DEF TakeTrade, WorkInv, Positions
  <2>5. InHand \cup Range(queue) \subseteq InHand' \cup Range(queue')
    BY <2>1, <2>2, <2>3
  <2>6. UNCHANGED <<records, reported, turnedAway, givenUp, leftBehind>>
    BY <1>3 DEF TakeTrade, backend, history
  <2>7. EveryTradeAccounted'
    <3>1. SUFFICES ASSUME NEW t \in reported
                   PROVE  \/ records[t] > 0
                          \/ t \in InHand'
                          \/ running' /\ t \in Range(queue')
                          \/ t \in turnedAway \cup givenUp \cup leftBehind
      BY <2>6
    <3>2. CASE t \in InHand \/ t \in Range(queue)
      BY <2>4, <2>5, <3>2
    <3>. QED
      BY <3>2
  <2>. QED
    BY <2>4, <2>7
<1>4. CASE Resume
  <2>1. InHand = Range(batch)
    BY <1>4 DEF Resume, InHand, Flushes
  <2>2. InHand' = Range(batch) \/ Range(batch) \subseteq leftBehind
    <3>1. CASE Len(batch) >= BatchSize
      BY <1>4, <3>1, BeginInHand DEF Resume, Begin, Flushes
    <3>2. CASE ~(Len(batch) >= BatchSize) /\ running
      BY <1>4, <3>2 DEF Resume, Loop, InHand, Flushes
    <3>3. CASE ~(Len(batch) >= BatchSize) /\ ~running
      BY <1>4, <1>a, <3>3, SizesAssumption DEF Resume
    <3>. QED
      BY <3>1, <3>2, <3>3
  <2>3. worker' # "took"
    BY <1>4 DEF Resume, Begin, Loop
  <2>. QED
    BY <1>4, <2>1, <2>2, <2>3 DEF Resume, backend, history
<1>5. CASE IdleTimeout
  <2>1. InHand = Range(batch) /\ InHand' = Range(batch)
    BY <1>5, BeginInHand DEF IdleTimeout, Begin, InHand, Flushes
  <2>. QED
    BY <1>5, <2>1 DEF IdleTimeout, Begin, backend, history
<1>6. CASE PostAnswered
  <2>1. InHand \subseteq {Posting} \cup InHand' /\ worker' # "took"
    BY <1>6, AdvanceInHand DEF PostAnswered, Flushes
  <2>2. records'[Posting] > 0
        /\ \A u \in Trades : records[u] > 0 => records'[u] > 0
    BY <1>6, PostingIsTrade DEF PostAnswered, WorkInv, TypeOK
  <2>. QED
    BY <1>6, <1>a, <2>1, <2>2 DEF PostAnswered, history
<1>7. CASE PostFailed
  <2>1. CASE MoreAttempts
    <3>1. InHand' = InHand /\ worker' \in Flushes
      BY <1>7, <2>1 DEF PostFailed, InHand
    <3>. QED
      BY <1>7, <2>1, <3>1 DEF PostFailed, Flushes
  <2>2. CASE ~MoreAttempts
    <3>1. InHand \subseteq {Posting} \cup InHand' /\ worker' # "took"
      BY <1>7, <2>2, AdvanceInHand DEF PostFailed, Flushes
    <3>. QED
      BY <1>7, <2>2, <3>1 DEF PostFailed
  <2>. QED
    BY <2>1, <2>2
<1>8. CASE StopWhilePolling
  <2>1. InHand' = InHand
    <3>1. CASE batch # <<>>
      BY <1>8, <3>1, BeginInHand DEF StopWhilePolling, Begin, InHand, Flushes
    <3>2. CASE batch = <<>>
      BY <1>8, <3>2, RangeOfEmpty DEF StopWhilePolling, InHand, Flushes
    <3>. QED
      BY <3>1, <3>2
  <2>2. worker' # "took"
    BY <1>8 DEF StopWhilePolling, Begin
  <2>. QED
    BY <1>8, <2>1, <2>2 DEF StopWhilePolling, backend
<1>9. CASE StopSwallowed
  <2>1. InHand' = InHand /\ InHand = Range(batch)
    BY <1>9 DEF StopSwallowed, InHand, Flushes
  <2>. QED
    BY <1>9, <1>a, <2>1, SizesAssumption DEF StopSwallowed, backend
<1>10. CASE StopWhileFlushing
  <2>1. worker \in Flushes /\ worker' \in Flushes /\ worker' # "took"
    BY <1>10 DEF StopWhileFlushing, Begin, Flushes
  <2>2. InHand \subseteq InHand'
    BY <1>10, <2>1, FlushInHand, BeginInHand DEF StopWhileFlushing, Begin
  <2>. QED
    BY <1>10, <2>1, <2>2 DEF StopWhileFlushing
<1>11. CASE StopInHandler
  BY <1>11 DEF StopInHandler
<1>12. CASE Crash
  BY <1>12 DEF Crash
<1>13. CASE UNCHANGED vars
  <2>1. InHand' = InHand
    BY <1>13 DEF vars, reporter, InHand
  <2>. QED
    BY <1>13, <2>1 DEF vars, reporter, backend, history
<1>. QED
  BY <1>1, <1>2, <1>3, <1>4, <1>5, <1>6, <1>7, <1>8, <1>9, <1>10, <1>11,
     <1>12, <1>13 DEF Next, Work, Stop

\* No trade given to report_trade() gets lost, except in the ways the
\* invariant names.
THEOREM NoTradeVanishes == Spec => []EveryTradeAccounted
<1>1. WorkInv /\ AccountInv => EveryTradeAccounted
  BY DEF AccountInv
<1>. QED
  BY <1>1, WorkInit, WorkStep, AccountInit, AccountStep, PTL DEF Spec

(***************************************************************************)
(* A trade is in one place only                                            *)
(***************************************************************************)

Once ==
  /\ Range(queue) \cup Range(batch) \subseteq reported
  /\ Range(queue) \cap Range(batch) = {}
  /\ \A i, j \in 1..Len(queue) : queue[i] = queue[j] => i = j
  /\ \A i, j \in 1..Len(batch) : batch[i] = batch[j] => i = j

\* Appending a new element to a sequence without repetitions.
LEMMA AppendOnce ==
  ASSUME NEW S, NEW s \in Seq(S), NEW e \in S, e \notin Range(s),
         \A i, j \in 1..Len(s) : s[i] = s[j] => i = j
  PROVE  \A i, j \in 1..Len(Append(s, e)) :
           Append(s, e)[i] = Append(s, e)[j] => i = j
<1>1. Len(Append(s, e)) = Len(s) + 1 /\ Len(s) \in Nat
  OBVIOUS
<1>2. \A i \in 1..Len(s) : Append(s, e)[i] = s[i] /\ s[i] # e
  BY RangeInSet
<1>3. Append(s, e)[Len(s) + 1] = e
  OBVIOUS
<1>4. \A i \in 1..(Len(s) + 1) : i \in 1..Len(s) \/ i = Len(s) + 1
  BY <1>1
<1>. QED
  BY <1>1, <1>2, <1>3, <1>4

\* Neither head nor tail of a sequence without repetitions has any.
LEMMA TailOnce ==
  ASSUME NEW S, NEW s \in Seq(S), s # <<>>,
         \A i, j \in 1..Len(s) : s[i] = s[j] => i = j
  PROVE  /\ Head(s) \notin Range(Tail(s))
         /\ \A i, j \in 1..Len(Tail(s)) : Tail(s)[i] = Tail(s)[j] => i = j
<1>1. /\ Tail(s) \in Seq(S) /\ Len(Tail(s)) = Len(s) - 1
      /\ Len(s) \in Nat /\ Len(s) >= 1 /\ Head(s) = s[1]
      /\ \A i \in 1..(Len(s) - 1) : Tail(s)[i] = s[i + 1]
  OBVIOUS
<1>2. \A i \in 1..(Len(s) - 1) : i + 1 \in 1..Len(s) /\ i + 1 # 1
  BY <1>1
<1>3. 1 \in 1..Len(s)
  BY <1>1
<1>4. \A i \in 1..(Len(s) - 1) : Tail(s)[i] # Head(s)
  BY <1>1, <1>2, <1>3
<1>5. DOMAIN Tail(s) = 1..(Len(s) - 1)
  BY <1>1
<1>6. Head(s) \notin Range(Tail(s))
  BY <1>4, <1>5 DEF Range
<1>7. ASSUME NEW i \in 1..Len(Tail(s)), NEW j \in 1..Len(Tail(s)),
             Tail(s)[i] = Tail(s)[j]
      PROVE  i = j
  <2>1. s[i + 1] = s[j + 1] /\ i + 1 \in 1..Len(s) /\ j + 1 \in 1..Len(s)
    BY <1>1, <1>2, <1>7
  <2>2. i + 1 = j + 1
    BY <2>1
  <2>. QED
    BY <1>1, <2>2
<1>. QED
  BY <1>6, <1>7

LEMMA OnceInit == Init => Once
<1>. SUFFICES ASSUME Init PROVE Once
  OBVIOUS
<1>1. Len(<<>>) = 0
  OBVIOUS
<1>. QED
  BY <1>1, RangeOfEmpty DEF Init, Once

LEMMA OnceStep == WorkInv /\ Once /\ [Next]_vars => Once'
<1>. SUFFICES ASSUME WorkInv, Once, [Next]_vars
              PROVE  Once'
  OBVIOUS
<1>a. queue \in Seq(Trades) /\ batch \in Seq(Trades)
  BY DEF WorkInv, TypeOK
<1>b. reported \subseteq reported'
  BY DEF Next, ReportTrade, LateCommit, Work, TakeTrade, Resume, IdleTimeout,
         PostAnswered, PostFailed, Stop, StopWhilePolling, StopSwallowed,
         StopWhileFlushing, StopInHandler, Crash, vars, history
<1>1. ASSUME NEW t \in Trades, ReportTrade(t)
      PROVE  Once'
  <2>1. batch' = batch /\ t \notin reported /\ reported' = reported \cup {t}
    BY <1>1 DEF ReportTrade
  <2>2. CASE queue' = queue
    BY <1>b, <2>1, <2>2 DEF Once
  <2>3. CASE queue' = Append(queue, t)
    <3>1. t \notin Range(queue) \cup Range(batch)
      BY <2>1 DEF Once
    <3>2. Range(queue') = Range(queue) \cup {t}
      BY <1>a, <2>3, RangeOfAppend
    <3>3. \A i, j \in 1..Len(queue') : queue'[i] = queue'[j] => i = j
      BY <1>a, <2>3, <3>1, AppendOnce DEF Once
    <3>. QED
      BY <2>1, <3>1, <3>2, <3>3 DEF Once
  <2>. QED
    BY <1>1, <2>2, <2>3 DEF ReportTrade
<1>2. CASE TakeTrade
  <2>1. queue' = Tail(queue) /\ batch' = Append(batch, Head(queue))
        /\ reported' = reported /\ queue # <<>>
    BY <1>2 DEF TakeTrade, history
  <2>2. Range(queue) = {Head(queue)} \cup Range(queue') /\ Head(queue) \in Trades
    BY <1>a, <2>1, RangeOfTail
  <2>3. Head(queue) \notin Range(batch)
    BY <2>2 DEF Once
  <2>4. Range(batch') = Range(batch) \cup {Head(queue)}
    BY <1>a, <2>1, <2>2, RangeOfAppend
  <2>5. \A i, j \in 1..Len(batch') : batch'[i] = batch'[j] => i = j
    BY <1>a, <2>1, <2>2, <2>3, AppendOnce DEF Once
  <2>6. Head(queue) \notin Range(queue')
        /\ \A i, j \in 1..Len(queue') : queue'[i] = queue'[j] => i = j
    BY <1>a, <2>1, TailOnce DEF Once
  <2>. QED
    BY <2>1, <2>2, <2>3, <2>4, <2>5, <2>6 DEF Once
<1>3. CASE queue' = queue /\ batch' = batch
  BY <1>b, <1>3 DEF Once
<1>4. CASE queue' = queue /\ batch' = <<>>
  <2>1. Len(batch') = 0 /\ Range(batch') = {}
    BY <1>4, RangeOfEmpty
  <2>. QED
    BY <1>b, <1>4, <2>1 DEF Once
<1>5. CASE PostAnswered \/ PostFailed
  BY <1>3, <1>4, <1>5 DEF PostAnswered, PostFailed, Advance
<1>6. CASE (\E t \in Trades : LateCommit(t)) \/ Resume \/ IdleTimeout \/ Stop
           \/ Crash \/ UNCHANGED vars
  <2>1. queue' = queue /\ batch' = batch
    BY <1>6 DEF LateCommit, Resume, Begin, IdleTimeout, Stop, StopWhilePolling,
                StopSwallowed, StopWhileFlushing, StopInHandler, Crash, vars,
                reporter
  <2>. QED
    BY <1>3, <2>1
<1>. QED
  BY <1>1, <1>2, <1>5, <1>6 DEF Next, Work

(***************************************************************************)
(* How often a trade is recorded                                           *)
(***************************************************************************)

\* Records of a trade, and requests that may still become one.
Sent(t) == records[t] + late[t]

Again(t) == IF t \in reposted THEN MaxRetries + 1 ELSE 0

\* What the trades of the batch, from the one that is being posted on, may
\* have been sent.
BatchBudget ==
  \A i \in next..Len(batch) :
    Sent(batch[i]) <= (IF i = next THEN attempt ELSE 0) + Again(batch[i])

CountInv ==
  /\ \A t \in Trades : t \notin reported \/ t \in Range(queue) => Sent(t) = 0
  /\ worker \in {"polling", "took"} => \A t \in Range(batch) : Sent(t) = 0
  /\ worker \notin {"lastFlushing", "gone", "dead"} => reposted = {}
  /\ worker \in Flushes => BatchBudget
  /\ \A t \in Trades : Sent(t) <= MaxRetries + 1 + Again(t)

\* A trade with no request unanswered and no flush begun anew is sent once,
\* and not before the worker lets go of it.
CauseInv ==
  \A t \in Trades \ (unanswered \cup reposted) :
    Sent(t) <= 1 /\ (t \in InHand => Sent(t) = 0)

SentInv == CountInv /\ CauseInv

LEMMA SentInit == Init => SentInv
<1>. SUFFICES ASSUME Init PROVE SentInv
  OBVIOUS
<1>1. \A t \in Trades : Sent(t) = 0
  BY DEF Init, Sent
<1>2. InHand = {} /\ Range(batch) = {} /\ Range(queue) = {}
  BY RangeOfEmpty DEF Init, InHand, Flushes
<1>3. \A t \in Trades : Again(t) = 0
  BY DEF Init, Again
<1>. QED
  BY <1>1, <1>2, <1>3, SizesAssumption
     DEF Init, SentInv, CountInv, CauseInv, Flushes

LEMMA SentTypes ==
  ASSUME WorkInv
  PROVE  /\ \A t \in Trades : Sent(t) \in Nat /\ Again(t) \in Nat
         /\ MaxRetries \in Nat /\ attempt \in Nat /\ attempt <= MaxRetries
  BY SizesAssumption DEF WorkInv, TypeOK, Sent, Again

\* Dropping a request adds at most one to what its trade was sent.
LEMMA DropRequestSent ==
  ASSUME WorkInv, worker \in Flushes, DropRequest, UNCHANGED records
  PROVE  /\ \A t \in Trades : \/ Sent(t)' = Sent(t)
                              \/ t = Posting /\ Sent(t)' = Sent(t) + 1
         /\ \A t \in Trades : t # Posting => Sent(t)' = Sent(t)
         /\ unanswered \subseteq unanswered'
         /\ \A t \in Trades : t \notin unanswered' => Sent(t)' = Sent(t)
<1>1. Posting \in Trades
  BY PostingIsTrade
<1>2. records \in [Trades -> Nat] /\ late \in [Trades -> Nat]
  BY DEF WorkInv, TypeOK
<1>3. CASE UNCHANGED <<late, unanswered>>
  BY <1>1, <1>3 DEF Sent
<1>4. CASE /\ late' = [late EXCEPT ![Posting] = @ + 1]
           /\ unanswered' = unanswered \cup {Posting}
  <2>1. late'[Posting] = late[Posting] + 1
        /\ \A t \in Trades : t # Posting => late'[t] = late[t]
    BY <1>1, <1>2, <1>4
  <2>2. records[Posting] + late'[Posting] = (records[Posting] + late[Posting]) + 1
    BY <1>1, <1>2, <2>1
  <2>3. records' = records
    OBVIOUS
  <2>. QED
    BY <1>4, <2>1, <2>2, <2>3 DEF Sent
<1>. QED
  BY <1>3, <1>4 DEF DropRequest

\* The next trade of the batch, and those after it, have not been sent in this
\* flush, so leaving a trade keeps the budget.
LEMMA AdvanceBudget ==
  ASSUME WorkInv, Once, CountInv, worker \in Flushes, Advance,
         reposted' = reposted,
         \A t \in Trades : t # Posting => Sent(t)' = Sent(t)
  PROVE  worker' \in Flushes => BatchBudget'
<1>. SUFFICES ASSUME worker' \in Flushes
              PROVE  BatchBudget'
  OBVIOUS
<1>1. batch' = batch /\ next' = next + 1 /\ attempt' = 0
  BY AdvanceInHand DEF Advance, Flushes
<1>2. SUFFICES ASSUME NEW i \in (next + 1)..Len(batch)
               PROVE  Sent(batch[i])' <= 0 + Again(batch[i])'
  BY <1>1 DEF BatchBudget
<1>3. i \in next..Len(batch) /\ i # next /\ i \in 1..Len(batch)
      /\ next \in 1..Len(batch) /\ batch[i] \in Trades
  BY PostingIsTrade
<1>4. batch[i] # Posting
  BY <1>3 DEF Once, Posting
<1>5. Sent(batch[i])' = Sent(batch[i])
  BY <1>1, <1>3, <1>4
<1>6. Sent(batch[i]) <= 0 + Again(batch[i])
  BY <1>3 DEF CountInv, BatchBudget
<1>7. Again(batch[i])' = Again(batch[i])
  BY <1>1 DEF Again
<1>. QED
  BY <1>5, <1>6, <1>7

\* A flush that begins with a batch nothing was sent of.
LEMMA BeginBudget ==
  ASSUME WorkInv, next' = 1, attempt' = 0, batch' = batch, reposted' = reposted,
         UNCHANGED <<records, late>>, \A t \in Range(batch) : Sent(t) = 0
  PROVE  BatchBudget'
<1>1. SUFFICES ASSUME NEW i \in 1..Len(batch)
               PROVE  Sent(batch[i]) <= 0 + Again(batch[i])
  BY DEF BatchBudget, Sent, Again
<1>2. Sent(batch[i]) = 0 /\ batch[i] \in Trades
  BY RangeInSet DEF WorkInv, TypeOK
<1>. QED
  BY <1>2, SentTypes

\* The trade that is being posted was reported, is not in the queue any more,
\* and has an attempt left in its budget.
LEMMA PostingBudget ==
  ASSUME WorkInv, Once, CountInv, worker \in Flushes
  PROVE  /\ Posting \in reported /\ Posting \notin Range(queue)
         /\ Sent(Posting) <= attempt + Again(Posting)
         /\ Sent(Posting) + 1 <= MaxRetries + 1 + Again(Posting)
<1>1. Posting \in Range(batch) /\ Posting \in Trades
  BY FlushInHand, PostingIsTrade
<1>2. next \in next..Len(batch)
  BY PostingIsTrade
<1>3. Sent(Posting) <= attempt + Again(Posting)
  BY <1>2 DEF CountInv, BatchBudget, Posting
<1>. QED
  BY <1>1, <1>3, SentTypes DEF Once

LEMMA SentStep == WorkInv /\ Once /\ SentInv /\ [Next]_vars => SentInv'
<1>. SUFFICES ASSUME WorkInv, Once, CountInv, CauseInv, [Next]_vars
              PROVE  CountInv' /\ CauseInv'
  BY DEF SentInv
<1>a. queue \in Seq(Trades) /\ batch \in Seq(Trades)
      /\ Range(queue) \subseteq Trades /\ Range(batch) \subseteq Trades
  BY RangeInSet DEF WorkInv, TypeOK
<1>b. \A t \in Trades : Sent(t)' \in Nat
  <2>1. WorkInv'
    BY WorkStep
  <2>. QED
    BY <2>1 DEF WorkInv, TypeOK, Sent
<1>1. ASSUME NEW t \in Trades, ReportTrade(t)
      PROVE  CountInv' /\ CauseInv'
  <2>1. /\ InHand' = InHand
        /\ \A u : Sent(u)' = Sent(u) /\ Again(u)' = Again(u)
        /\ BatchBudget' = BatchBudget
    BY <1>1 DEF ReportTrade, backend, InHand, Sent, Again, BatchBudget
  <2>2. /\ UNCHANGED <<worker, batch, reposted, unanswered>>
        /\ t \notin reported /\ reported' = reported \cup {t}
    BY <1>1 DEF ReportTrade
  <2>3. Range(queue') \subseteq Range(queue) \cup {t}
    <3>1. queue' = queue \/ queue' = Append(queue, t)
      BY <1>1 DEF ReportTrade
    <3>. QED
      BY <1>a, <3>1, RangeOfAppend
  <2>. QED
    BY <2>1, <2>2, <2>3 DEF CountInv, CauseInv
<1>2. ASSUME NEW t \in Trades, LateCommit(t)
      PROVE  CountInv' /\ CauseInv'
  <2>1. \A u \in Trades : Sent(u)' = Sent(u)
    <3>1. /\ records'[t] = records[t] + 1 /\ late'[t] = late[t] - 1
          /\ records[t] \in Nat /\ late[t] \in Nat
          /\ \A u \in Trades : u # t => /\ records'[u] = records[u]
                                        /\ late'[u] = late[u]
      BY <1>2 DEF LateCommit, WorkInv, TypeOK
    <3>. QED
      BY <3>1 DEF Sent
  <2>2. UNCHANGED <<queue, worker, batch, next, attempt, reported, unanswered,
                    reposted>>
    BY <1>2 DEF LateCommit, reporter, history
  <2>3. InHand' = InHand /\ \A u : Again(u)' = Again(u)
    BY <2>2 DEF InHand, Again
  <2>4. worker \in Flushes => \A i \in next..Len(batch) : batch[i] \in Trades
    BY PostingIsTrade
  <2>5. worker \in Flushes => BatchBudget'
    BY <2>1, <2>2, <2>3, <2>4 DEF CountInv, BatchBudget
  <2>. QED
    BY <1>a, <2>1, <2>2, <2>3, <2>5 DEF CountInv, CauseInv
<1>3. CASE TakeTrade
  <2>1. /\ \A u : Sent(u)' = Sent(u) /\ Again(u)' = Again(u)
        /\ UNCHANGED <<reported, unanswered, reposted>>
        /\ worker = "polling" /\ worker' = "took"
    BY <1>3 DEF TakeTrade, backend, history, Sent, Again
  <2>2. Range(queue) = {Head(queue)} \cup Range(queue') /\ Head(queue) \in Trades
    BY <1>3, <1>a, RangeOfTail DEF TakeTrade
  <2>3. Range(batch') = Range(batch) \cup {Head(queue)}
    BY <1>3, <1>a, <2>2, RangeOfAppend DEF TakeTrade
  <2>4. InHand' = Range(batch') /\ InHand = Range(batch)
    BY <1>3 DEF TakeTrade, InHand, Flushes
  <2>. QED
    BY <2>1, <2>2, <2>3, <2>4 DEF CountInv, CauseInv, Flushes
<1>4. CASE Resume \/ IdleTimeout \/ StopWhilePolling
  <2>1. /\ \A u : Sent(u)' = Sent(u) /\ Again(u)' = Again(u)
        /\ UNCHANGED <<queue, batch, records, late, reported, unanswered,
                       reposted>>
        /\ worker \in {"polling", "took"}
    BY <1>4 DEF Resume, Begin, Loop, IdleTimeout, StopWhilePolling, backend,
                history, Sent, Again
  <2>2. \/ worker' \in Flushes /\ next' = 1 /\ attempt' = 0
        \/ worker' \in {"polling", "gone"}
    BY <1>4 DEF Resume, Begin, Loop, IdleTimeout, StopWhilePolling, Flushes
  <2>3. \A t \in Range(batch) : Sent(t) = 0
    BY <2>1 DEF CountInv
  <2>4. worker' \in Flushes => BatchBudget'
    BY <2>1, <2>2, <2>3, BeginBudget DEF Flushes
  <2>5. InHand' \subseteq Range(batch)
    BY <2>1, <2>2, BeginInHand DEF InHand, Flushes
  <2>6. CountInv'
    BY <2>1, <2>2, <2>3, <2>4 DEF CountInv, Flushes
  <2>7. CauseInv'
    BY <2>1, <2>3, <2>5 DEF CauseInv
  <2>. QED
    BY <2>6, <2>7
<1>5. CASE PostAnswered
  <2>1. worker \in Flushes /\ Advance /\ UNCHANGED <<late, queue>>
        /\ UNCHANGED history
    BY <1>5 DEF PostAnswered
  <2>2. UNCHANGED <<reported, unanswered, reposted>>
        /\ \A u : Again(u)' = Again(u)
    BY <2>1 DEF history, Again
  <2>3. Posting \in Trades /\ Posting \in reported /\ Posting \notin Range(queue)
    BY <2>1, PostingIsTrade, PostingBudget
  <2>4. \A u \in Trades : Sent(u)' = IF u = Posting THEN Sent(u) + 1 ELSE Sent(u)
    <3>1. \A u \in Trades :
            records'[u] = IF u = Posting THEN records[u] + 1 ELSE records[u]
      BY <1>5, <2>3 DEF PostAnswered, WorkInv, TypeOK
    <3>. QED
      BY <2>1, <3>1 DEF Sent, WorkInv, TypeOK
  <2>5. worker' \in Flushes => BatchBudget'
    BY <2>1, <2>2, <2>4, AdvanceBudget
  <2>6. \/ worker' = worker
        \/ worker' \in {"polling", "gone"} /\ Range(batch') = {}
           /\ (worker' = "polling" => worker # "lastFlushing")
    BY <2>1, AdvanceInHand, RangeOfEmpty
  <2>7. \A u \in Trades : Sent(u)' <= MaxRetries + 1 + Again(u)'
    BY <2>1, <2>2, <2>4, PostingBudget DEF CountInv
  <2>8. CountInv'
    BY <2>1, <2>2, <2>3, <2>4, <2>5, <2>6, <2>7 DEF CountInv, Flushes
  <2>9. InHand' \subseteq InHand /\ Posting \notin InHand' /\ Posting \in InHand
    <3>1. Posting \in InHand
      BY <2>1, FlushInHand
    <3>2. CASE InHand' = {batch[i] : i \in (next + 1)..Len(batch)}
      <4>1. \A i \in (next + 1)..Len(batch) :
              i \in next..Len(batch) /\ batch[i] # batch[next]
        BY <2>1, PostingIsTrade DEF Once
      <4>. QED
        BY <2>1, <3>1, <3>2, <4>1, FlushInHand DEF Posting
    <3>. QED
      BY <2>1, <3>1, <3>2, AdvanceInHand
  <2>10. CauseInv'
    BY <2>2, <2>4, <2>9, SentTypes DEF CauseInv
  <2>. QED
    BY <2>8, <2>10
<1>6. CASE PostFailed
  <2>1. /\ worker \in Flushes /\ DropRequest
        /\ UNCHANGED <<records, queue, reported, reposted>>
        /\ \A u : Again(u)' = Again(u)
    BY <1>6 DEF PostFailed, Again
  <2>2. Posting \in Trades /\ Posting \in reported /\ Posting \notin Range(queue)
    BY <2>1, PostingIsTrade, PostingBudget
  <2>3. \A u \in Trades : u # Posting => Sent(u)' = Sent(u)
    BY <2>1, DropRequestSent
  <2>4. \A u \in Trades : Sent(u)' <= MaxRetries + 1 + Again(u)'
    BY <2>1, DropRequestSent, PostingBudget DEF CountInv
  <2>5. CASE MoreAttempts
    <3>1. UNCHANGED <<worker, batch, next>> /\ attempt' = attempt + 1
      BY <1>6, <2>5 DEF PostFailed
    <3>2. BatchBudget'
      <4>1. SUFFICES ASSUME NEW i \in next..Len(batch)
                     PROVE  Sent(batch[i])' <= (IF i = next THEN attempt + 1 ELSE 0)
                                                 + Again(batch[i])
        BY <2>1, <3>1 DEF BatchBudget, Again
      <4>2. i \in 1..Len(batch) /\ next \in 1..Len(batch) /\ batch[i] \in Trades
        BY <2>1, PostingIsTrade
      <4>3. Sent(batch[i]) <= (IF i = next THEN attempt ELSE 0) + Again(batch[i])
        BY <2>1 DEF CountInv, BatchBudget
      <4>4. CASE i = next
        <5>1. Sent(batch[i])' <= Sent(batch[i]) + 1
          BY <2>1, <3>1, <4>2, <4>4, DropRequestSent, SentTypes
        <5>2. Sent(batch[i])' \in Nat
          BY <1>b, <3>1, <4>2
        <5>. QED
          BY <4>2, <4>3, <4>4, <5>1, <5>2, SentTypes
      <4>5. CASE i # next
        <5>1. batch[i] # Posting
          BY <4>2, <4>5 DEF Once, Posting
        <5>2. Sent(batch[i])' = Sent(batch[i])
          BY <2>3, <3>1, <4>2, <5>1
        <5>. QED
          BY <4>3, <4>5, <5>2
      <4>. QED
        BY <4>4, <4>5
    <3>3. InHand' = InHand
      BY <3>1 DEF InHand
    <3>4. CountInv'
      BY <2>1, <2>2, <2>3, <2>4, <3>1, <3>2 DEF CountInv, Flushes
    <3>5. CauseInv'
      BY <2>1, <3>3, DropRequestSent DEF CauseInv
    <3>. QED
      BY <3>4, <3>5
  <2>6. CASE ~MoreAttempts
    <3>1. Advance
      BY <1>6, <2>6 DEF PostFailed
    <3>2. worker' \in Flushes => BatchBudget'
      BY <2>1, <2>3, <3>1, AdvanceBudget
    <3>3. \/ worker' = worker
          \/ worker' \in {"polling", "gone"} /\ Range(batch') = {}
             /\ (worker' = "polling" => worker # "lastFlushing")
      BY <2>1, <3>1, AdvanceInHand, RangeOfEmpty
    <3>4. InHand' \subseteq InHand
      <4>1. \A i \in (next + 1)..Len(batch) : i \in next..Len(batch)
        BY <2>1, PostingIsTrade
      <4>. QED
        BY <2>1, <3>1, <4>1, AdvanceInHand, FlushInHand
    <3>5. CountInv'
      BY <2>1, <2>2, <2>3, <2>4, <3>2, <3>3 DEF CountInv, Flushes
    <3>6. CauseInv'
      BY <2>1, <3>4, DropRequestSent DEF CauseInv
    <3>. QED
      BY <3>5, <3>6
  <2>. QED
    BY <2>5, <2>6
<1>7. CASE StopSwallowed \/ UNCHANGED vars
  <2>1. UNCHANGED <<queue, worker, batch, next, attempt, records, late,
                    reported, unanswered, reposted>>
    BY <1>7 DEF StopSwallowed, backend, vars, reporter, history
  <2>. QED
    BY <2>1 DEF CountInv, CauseInv, BatchBudget, InHand, Sent, Again
<1>8. CASE StopWhileFlushing
  <2>1. /\ worker = "flushing" /\ worker \in Flushes /\ DropRequest
        /\ worker' = "lastFlushing" /\ next' = 1 /\ attempt' = 0
        /\ UNCHANGED <<queue, batch, records, reported>>
        /\ reposted' = reposted \cup {batch[i] : i \in 1..next}
    BY <1>8 DEF StopWhileFlushing, Begin, Flushes
  <2>2. reposted = {} /\ \A t \in Trades : Again(t) = 0
    BY <2>1 DEF CountInv, Again
  <2>3. \A i \in 1..next : i \in 1..Len(batch) /\ batch[i] \in reposted'
    BY <2>1, PostingIsTrade
  <2>4. \A t \in Trades : t \in reposted' => Again(t)' = MaxRetries + 1
    BY DEF Again
  <2>5. \A t \in Trades : Again(t)' \in Nat
    BY SizesAssumption DEF Again
  <2>6. \A t \in Trades : Sent(t)' <= MaxRetries + 1
    BY <2>1, <2>2, DropRequestSent, PostingBudget, SentTypes DEF CountInv
  <2>7. Posting \in Trades /\ Posting \in reported /\ Posting \notin Range(queue)
    BY <2>1, PostingIsTrade, PostingBudget
  <2>8. \A u \in Trades : u # Posting => Sent(u)' = Sent(u)
    BY <2>1, DropRequestSent
  <2>9. ASSUME NEW i \in 1..Len(batch)
        PROVE  Sent(batch[i])' <= Again(batch[i])'
    <3>1. batch[i] \in Trades /\ batch' = batch
      BY <2>1, PostingIsTrade
    <3>2. CASE i \in 1..next
      BY <2>3, <2>4, <2>6, <3>1, <3>2
    <3>3. CASE i \notin 1..next
      <4>1. i \in next..Len(batch) /\ i # next /\ next \in 1..Len(batch)
        BY <2>1, <3>3, PostingIsTrade
      <4>2. Sent(batch[i]) <= 0 + Again(batch[i])
        BY <2>1, <4>1 DEF CountInv, BatchBudget
      <4>3. batch[i] # Posting
        BY <4>1 DEF Once, Posting
      <4>4. Sent(batch[i])' = Sent(batch[i])
        BY <2>8, <3>1, <4>3
      <4>5. Again(batch[i]) = 0 /\ Again(batch[i])' \in Nat
        BY <2>2, <2>5, <3>1
      <4>. QED
        BY <3>1, <4>2, <4>4, <4>5, SentTypes
    <3>. QED
      BY <3>2, <3>3
  <2>10. BatchBudget'
    <3>1. SUFFICES ASSUME NEW i \in 1..Len(batch)
                   PROVE  Sent(batch[i])' <= 0 + Again(batch[i])'
      BY <2>1 DEF BatchBudget
    <3>2. Again(batch[i])' \in Nat
      BY <2>1, <2>5, PostingIsTrade
    <3>. QED
      BY <2>9, <3>2
  <2>11. CountInv'
    <3>1. \A t \in Trades : Sent(t)' <= MaxRetries + 1 + Again(t)'
      <4>1. ASSUME NEW t \in Trades
            PROVE  Sent(t)' <= MaxRetries + 1 + Again(t)'
        <5>1. Sent(t)' <= MaxRetries + 1 /\ Again(t)' \in Nat /\ Sent(t)' \in Nat
          BY <1>b, <2>5, <2>6
        <5>. QED
          BY <5>1, SentTypes
      <4>. QED
        BY <4>1
    <3>. QED
      BY <2>1, <2>7, <2>8, <2>10, <3>1 DEF CountInv, Flushes
  <2>12. CauseInv'
    <3>1. SUFFICES ASSUME NEW t \in Trades, t \notin unanswered',
                          t \notin reposted'
                   PROVE  Sent(t)' <= 1 /\ (t \in InHand' => Sent(t)' = 0)
      BY DEF CauseInv
    <3>0. /\ unanswered \subseteq unanswered'
          /\ \A u \in Trades : u \notin unanswered' => Sent(u)' = Sent(u)
      BY <2>1, DropRequestSent
    <3>2. Sent(t)' = Sent(t) /\ t \notin unanswered /\ t \notin reposted
      BY <2>2, <3>0, <3>1
    <3>3. ASSUME t \in InHand'
          PROVE  t \in InHand
      <4>1. InHand' = {batch[i] : i \in 1..Len(batch)}
        BY <2>1 DEF InHand, Flushes
      <4>2. PICK i \in 1..Len(batch) : t = batch[i]
        BY <3>3, <4>1
      <4>3. i \notin 1..next
        BY <2>3, <3>1, <4>2
      <4>4. i \in next..Len(batch)
        BY <2>1, <4>2, <4>3, PostingIsTrade
      <4>. QED
        BY <2>1, <4>2, <4>4, FlushInHand
    <3>. QED
      BY <3>2, <3>3 DEF CauseInv
  <2>. QED
    BY <2>11, <2>12
<1>9. CASE StopInHandler \/ Crash
  <2>1. /\ worker' \in {"gone", "dead"}
        /\ UNCHANGED <<queue, batch, records, reported, reposted>>
        /\ \/ worker \in Flushes /\ DropRequest
           \/ UNCHANGED <<late, unanswered>>
    BY <1>9 DEF StopInHandler, Crash, Flushes
  <2>2. \A u : Again(u)' = Again(u)
    BY <2>1 DEF Again
  <2>3. InHand' = {}
    BY <2>1 DEF InHand, Flushes
  <2>4. CASE worker \in Flushes /\ DropRequest
    <3>1. Posting \in reported /\ Posting \notin Range(queue)
      BY <2>4, PostingBudget
    <3>2. CountInv'
      BY <2>1, <2>2, <2>4, <3>1, DropRequestSent, PostingBudget
         DEF CountInv, Flushes
    <3>3. CauseInv'
      BY <2>1, <2>3, <2>4, DropRequestSent DEF CauseInv
    <3>. QED
      BY <3>2, <3>3
  <2>5. CASE UNCHANGED <<late, unanswered>>
    <3>1. \A u : Sent(u)' = Sent(u)
      BY <2>1, <2>5 DEF Sent
    <3>. QED
      BY <2>1, <2>2, <2>3, <2>5, <3>1 DEF CountInv, CauseInv, Flushes
  <2>. QED
    BY <2>1, <2>4, <2>5
<1>. QED
  BY <1>1, <1>2, <1>3, <1>4, <1>5, <1>6, <1>7, <1>8, <1>9
     DEF Next, Work, Stop

ReportInv == WorkInv /\ AccountInv /\ Once /\ SentInv

\* The inductive invariant of the reporter and the endpoint: what each trade
\* has been sent follows from where it is.
THEOREM ReportingInvariant == Spec => []ReportInv
<1>1. Init => ReportInv
  BY WorkInit, AccountInit, OnceInit, SentInit DEF ReportInv
<1>2. ReportInv /\ [Next]_vars => ReportInv'
  BY WorkStep, AccountStep, OnceStep, SentStep DEF ReportInv
<1>. QED
  BY <1>1, <1>2, PTL DEF Spec

\* A trade is recorded twice only after a request of its own went unanswered
\* or its flush was begun anew.
THEOREM DuplicatesAreExplained == Spec => []DuplicatesHaveCause
<1>1. ReportInv => DuplicatesHaveCause
  <2>. SUFFICES ASSUME ReportInv, NEW t \in Trades, Sent(t) > 1
                PROVE  t \in unanswered \cup reposted
    BY DEF DuplicatesHaveCause, Sent
  <2>1. Sent(t) \in Nat
    BY SentTypes DEF ReportInv
  <2>. QED
    BY <2>1 DEF ReportInv, SentInv, CauseInv
<1>. QED
  BY <1>1, ReportingInvariant, PTL

\* However answers, timeouts and signals fall, the records of a trade are
\* bounded by its attempts.
THEOREM RecordsAreBounded == Spec => []RecordsBounded
<1>1. ReportInv => RecordsBounded
  <2>. SUFFICES ASSUME ReportInv, NEW t \in Trades
                PROVE  Sent(t) <= (MaxRetries + 1)
                                    * (IF t \in reposted THEN 2 ELSE 1)
    BY DEF RecordsBounded, Sent
  <2>1. Sent(t) <= MaxRetries + 1 + Again(t) /\ MaxRetries \in Nat
    BY SizesAssumption DEF ReportInv, SentInv, CountInv
  <2>2. CASE t \in reposted
    BY <2>1, <2>2 DEF Again
  <2>3. CASE t \notin reposted
    BY <2>1, <2>3 DEF Again
  <2>. QED
    BY <2>2, <2>3
<1>. QED
  BY <1>1, ReportingInvariant, PTL
=============================================================================
