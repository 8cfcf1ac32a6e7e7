------------------------- MODULE LiquidationScanner -------------------------
(***************************************************************************)
(* LiquidationScanner, src/src/scanning/liquidation_scanner.py.            *)
(*                                                                         *)
(* Three loops run concurrently on one event loop: one fetches borrowers   *)
(* from The Graph, one listens for Borrow events (by subscription, or by   *)
(* polling), one asks Aave for the accounts of the tracked borrowers, a    *)
(* batch at a time, most urgent first.  A loop gives way only at an await: *)
(* every action is the code between two of them.                           *)
(*                                                                         *)
(* Health factors are in hundredths and debts in units of 10 000 dollars.  *)
(* The score of a heap entry is worked out when the entry is pushed, which *)
(* is always just after last_checked was set: its freshness term is zero.  *)
(* A definition marked `Slip:' is a plausible mistake, kept to test the    *)
(* properties with; nothing uses it.                                       *)
(***************************************************************************)
EXTENDS Integers, FiniteSets, FiniteSetsExt

CONSTANTS
  Borrowers,             \* addresses in debt at Aave, as numbers
  Accounts,              \* what getUserAccountData() may answer
  BATCH_SIZE,
  MAX_TRACKED_BORROWERS,
  TTL                    \* STALE_BORROWER_TTL_S, in ticks of at least 30 s

VARIABLES
  borrowers,   \* _borrowers: tracked address -> account last seen, and its age
  risky,       \* _risky
  pre_staged,  \* _pre_staged: address -> whether its transaction is "fresh"
  heap,        \* _borrower_heap: <<address, score>>; equal entries are one
  checking,    \* the addresses of the batch not yet answered
  scanning,    \* where _scan_loop() waits
  listening,   \* where _event_listener() waits
  fetching,    \* where _graph_fetch_loop() waits
  running,     \* _running
  failed       \* history: tracked addresses whose last check raised

vars == <<borrowers, risky, pre_staged, heap, checking, scanning, listening,
          fetching, running, failed>>

HF_RISKY == 105
Unknown == [hf |-> 9900, debt |-> 0]   \* a borrower not checked yet

ASSUME ScannerAssumption ==
  /\ Borrowers \subseteq Nat /\ IsFiniteSet(Borrowers)
  /\ \A a \in Accounts : a.hf \in Nat /\ a.debt \in Nat
  /\ BATCH_SIZE \in Nat \ {0} /\ MAX_TRACKED_BORROWERS \in Nat /\ TTL \in Nat \ {0}

\* _borrower_priority_score()
Score(a) == (IF a.hf < HF_RISKY THEN HF_RISKY - a.hf ELSE 0)
            + (IF a.debt < 10 THEN a.debt ELSE 10)

Entries == Borrowers \X {Score(a) : a \in Accounts \cup {Unknown}}
Tracked == DOMAIN borrowers
Queued(b) == \E e \in heap : e[1] = b
States == {[acct |-> a, age |-> n] : a \in Accounts \cup {Unknown}, n \in 0..TTL}

TypeOK ==
  /\ Tracked \subseteq Borrowers /\ \A b \in Tracked : borrowers[b] \in States
  /\ risky \subseteq Borrowers
  /\ DOMAIN pre_staged \subseteq Borrowers
  /\ \A b \in DOMAIN pre_staged : pre_staged[b] \in {"fresh", "expired"}
  /\ heap \subseteq Entries
  /\ checking \subseteq Borrowers
  /\ scanning \in {"asleep", "asking", "done"}
  /\ listening \in {"subscribing", "subscribed", "polling", "done"}
  /\ fetching \in {"looping", "done"}
  /\ running \in BOOLEAN /\ failed \subseteq Borrowers

Init ==
  /\ borrowers = << >> /\ risky = {} /\ pre_staged = << >>
  /\ heap = {} /\ checking = {}
  /\ scanning = "asleep" /\ listening = "subscribing" /\ fetching = "looping"
  /\ running = TRUE /\ failed = {}

-----------------------------------------------------------------------------
\* Operators on the maps and the heap.

Without(f, S) == [x \in DOMAIN f \ S |-> f[x]]
With(f, x, v) == [y \in DOMAIN f \cup {x} |-> IF y = x THEN v ELSE f[y]]

\* The stale borrowers, and then the coldest of the others above the bound.
\* Two borrowers of one age were not checked at the same instant: either may be
\* the colder one.
Stale(bs) == {b \in DOMAIN bs : bs[b].age = TTL}
Evictions(bs) ==
  LET live == DOMAIN bs \ Stale(bs)
      n == Cardinality(live) - MAX_TRACKED_BORROWERS
  IN IF n <= 0 THEN {Stale(bs)}
     ELSE {Stale(bs) \cup S : S \in
             {T \in kSubset(n, live) : \A x \in T, y \in live \ T : bs[x].age >= bs[y].age}}

\* Slip: eviction forgets the transaction staged for the borrower.
EvictKeepsStaged(bs) ==
  \E S \in Evictions(bs) :
    /\ borrowers' = Without(bs, S)
    /\ risky' = risky \ S
    /\ pre_staged' = pre_staged
    /\ failed' = failed \ S

\* Slip: eviction removes the stale borrowers only.
EvictStaleOnly(bs) ==
  /\ borrowers' = Without(bs, Stale(bs))
  /\ risky' = risky \ Stale(bs)
  /\ pre_staged' = Without(pre_staged, Stale(bs))
  /\ failed' = failed \ Stale(bs)

\* Slip: stale borrowers go only when the map is over its bound.
EvictWhenFull(bs) ==
  \E S \in Evictions(bs) :
    LET gone == IF Cardinality(DOMAIN bs) > MAX_TRACKED_BORROWERS THEN S ELSE {} IN
    /\ borrowers' = Without(bs, gone)
    /\ risky' = risky \ gone
    /\ pre_staged' = Without(pre_staged, gone)
    /\ failed' = failed \ gone

\* _evict_stale_borrowers(force_size_bound=True), on the map bs.  Heap entries
\* of an evicted borrower stay.
Evict(bs) ==
  \E S \in Evictions(bs) :
    /\ borrowers' = Without(bs, S)
    /\ risky' = risky \ S
    /\ pre_staged' = Without(pre_staged, S)
    /\ failed' = failed \ S

\* Slip: the entry is pushed before the borrower is known, which does nothing.
PushNothing(S) == UNCHANGED heap

\* _push_borrower_priority() for the new borrowers S.
Push(S) == heap' = heap \cup {<<b, Score(Unknown)>> : b \in S}

\* A source has reported the borrowers S; the new ones are tracked.
Discover(S) ==
  LET new == S \ Tracked IN
  /\ Push(new)
  /\ Evict([b \in Tracked \cup new |->
       IF b \in new THEN [acct |-> Unknown, age |-> 0] ELSE borrowers[b]])

\* heapq order of <<-score, address>>.
Before(e, f) == e[2] > f[2] \/ (e[2] = f[2] /\ e[1] < f[1])
UpTo(e) == {f \in heap : f = e \/ Before(f, e)}
Addresses(E, bs) == {e[1] : e \in E} \cap DOMAIN bs

\* The pop of e completes a batch.
Completes(e, bs) ==
  /\ Cardinality(Addresses(UpTo(e), bs)) = BATCH_SIZE
  /\ Cardinality(Addresses(UpTo(e) \ {e}, bs)) < BATCH_SIZE

\* _next_batch(): entries leave the heap in order until the batch is full or
\* the heap empty; those of untracked borrowers and second ones are dropped.
Draw(bs) ==
  \/ \E e \in heap :
       /\ Completes(e, bs)
       /\ checking' = Addresses(UpTo(e), bs)
       /\ heap' = heap \ UpTo(e)
       /\ scanning' = "asking"
  \/ /\ ~ \E e \in heap : Completes(e, bs)
     /\ checking' = Addresses(heap, bs)
     /\ heap' = {}
     /\ scanning' = IF checking' = {} THEN "asleep" ELSE "asking"

-----------------------------------------------------------------------------
\* _graph_fetch_loop(): a query that breaks off keeps the pages it has read.
Fetch(S) ==
  /\ running /\ fetching = "looping"
  /\ Discover(S)
  /\ UNCHANGED <<checking, scanning, listening, fetching, running>>

FetchLoopEnds ==
  /\ ~running /\ fetching = "looping"
  /\ fetching' = "done"
  /\ UNCHANGED <<borrowers, risky, pre_staged, heap, checking, scanning, listening, running, failed>>

\* _event_listener(): polling starts only when the subscription is not to be
\* had or has failed, and the subscription is never tried again.
Subscribe ==
  /\ listening = "subscribing"
  /\ listening' \in {"subscribed", "polling"}
  /\ UNCHANGED <<borrowers, risky, pre_staged, heap, checking, scanning, fetching, running, failed>>

SubscriptionFails ==
  /\ listening = "subscribed"
  /\ listening' = "polling"
  /\ UNCHANGED <<borrowers, risky, pre_staged, heap, checking, scanning, fetching, running, failed>>

BorrowEvents(S) ==
  /\ running /\ listening \in {"subscribed", "polling"}
  /\ Discover(S)
  /\ UNCHANGED <<checking, scanning, listening, fetching, running>>

ListenerEnds ==
  /\ ~running /\ listening \in {"subscribed", "polling"}
  /\ listening' = "done"
  /\ UNCHANGED <<borrowers, risky, pre_staged, heap, checking, scanning, fetching, running, failed>>

\* _scan_loop(): when it starts and after each sleep the stale borrowers go; the
\* inner loop draws batches until the heap gives none.
ScanRound ==
  /\ running /\ scanning = "asleep"
  /\ Evict(borrowers)
  /\ Draw(borrowers')
  /\ UNCHANGED <<listening, fetching, running>>

NextBatch ==
  /\ scanning = "asking" /\ checking = {}
  /\ IF running THEN Draw(borrowers)
     ELSE scanning' = "asleep" /\ UNCHANGED <<heap, checking>>
  /\ UNCHANGED <<borrowers, risky, pre_staged, listening, fetching, running, failed>>

ScanLoopEnds ==
  /\ ~running /\ scanning = "asleep" /\ scanning' = "done"
  /\ UNCHANGED <<borrowers, risky, pre_staged, heap, checking, listening, fetching, running, failed>>

\* Slip: the health factor is stored as it comes, not divided by 1e18.
CheckUnscaled(b, a) ==
  /\ b \in checking /\ checking' = checking \ {b}
  /\ borrowers' = With(borrowers, b, [acct |-> [a EXCEPT !.hf = 100 * @], age |-> 0])
  /\ heap' = heap \cup {<<b, Score(a)>>}
  /\ UNCHANGED <<risky, pre_staged, failed, scanning, listening, fetching, running>>

\* _check_borrower(): the answer is stored even if the borrower was evicted
\* while it was on its way.
CheckBorrower(b, a) ==
  LET atRisk == a.hf < HF_RISKY /\ a.debt > 0 IN
  /\ b \in checking /\ checking' = checking \ {b}
  /\ borrowers' = With(borrowers, b, [acct |-> a, age |-> 0])
  /\ heap' = heap \cup {<<b, Score(a)>>}
  /\ risky' = IF atRisk THEN risky \cup {b} ELSE risky \ {b}
  /\ pre_staged' = IF atRisk THEN With(pre_staged, b, "fresh") ELSE Without(pre_staged, {b})
  /\ failed' = failed \ {b}
  /\ UNCHANGED <<scanning, listening, fetching, running>>

\* A call that raises is passed over: nothing is pushed.
CheckFails(b) ==
  /\ b \in checking /\ checking' = checking \ {b}
  /\ failed' = failed \cup ({b} \cap Tracked)
  /\ UNCHANGED <<borrowers, risky, pre_staged, heap, scanning, listening, fetching, running>>

Stop ==
  /\ running /\ running' = FALSE
  /\ UNCHANGED <<borrowers, risky, pre_staged, heap, checking, scanning, listening, fetching, failed>>

TimePasses ==
  /\ borrowers' = [b \in Tracked |-> [borrowers[b] EXCEPT !.age = IF @ < TTL THEN @ + 1 ELSE @]]
  /\ pre_staged' = [b \in DOMAIN pre_staged |-> "expired"]
  /\ UNCHANGED <<risky, heap, checking, scanning, listening, fetching, running, failed>>

Done ==
  /\ scanning = "done" /\ listening = "done" /\ fetching = "done"
  /\ UNCHANGED vars

Listener == Subscribe \/ SubscriptionFails \/ ListenerEnds \/ \E S \in SUBSET Borrowers : BorrowEvents(S)
ScanLoop == ScanRound \/ NextBatch \/ ScanLoopEnds
FetchLoop == FetchLoopEnds \/ \E S \in SUBSET Borrowers : Fetch(S)
Answer(b) == CheckFails(b) \/ \E a \in Accounts : CheckBorrower(b, a)

Next == Listener \/ ScanLoop \/ FetchLoop \/ (\E b \in Borrowers : Answer(b)) \/ Stop \/ TimePasses \/ Done

Spec == Init /\ [][Next]_vars

\* Every loop is scheduled again, every call is answered or fails, time goes on.
\* What a fetch brings is not assumed, only that it evicts what is stale.
Fairness ==
  /\ WF_vars(Subscribe) /\ WF_vars(ListenerEnds)
  /\ WF_vars(ScanLoop) /\ WF_vars(Fetch({})) /\ WF_vars(FetchLoopEnds) /\ WF_vars(TimePasses)
  /\ \A b \in Borrowers : WF_vars(Answer(b))

FairSpec == Spec /\ Fairness

-----------------------------------------------------------------------------
(***************************************************************************)
(* Properties.                                                             *)
(***************************************************************************)

\* A transaction is staged for exactly the borrowers known to be at risk, and
\* these are tracked: eviction, late answers and checks keep the three maps of
\* the scanner in step, whatever order they come in.
StagedIffRisky ==
  /\ DOMAIN pre_staged = risky
  /\ \A b \in risky : b \in Tracked /\ borrowers[b].acct.hf < HF_RISKY

\* The map of borrowers outgrows its bound by one batch at most: by the checks
\* under way when their borrowers were evicted, which bring them back.
TrackedBounded == Cardinality(Tracked) <= MAX_TRACKED_BORROWERS + BATCH_SIZE

\* Borrowers, staged transactions and risk list stay in step and in bounds.
MapsAgree == TypeOK /\ StagedIffRisky /\ TrackedBounded

\* A tracked borrower is queued for a check or being checked, unless its last
\* check raised: no other way leads out of the heap.
OnlyFailedChecksForget ==
  \A b \in Tracked : Queued(b) \/ b \in checking \/ b \in failed

\* A borrower that a failed check has taken out of the heap does not stay
\* tracked for ever without being asked about: the eviction of stale borrowers
\* in the fetch loop drops it, so that the next fetch can find it again.
ForgottenOnesExpire ==
  \A b \in Borrowers :
    (b \in Tracked /\ ~Queued(b) /\ b \notin checking)
      ~> (b \notin Tracked \/ Queued(b) \/ ~running)

=============================================================================
