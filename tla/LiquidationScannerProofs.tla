---------------------- MODULE LiquidationScannerProofs ----------------------
(***************************************************************************)
(* Proofs about LiquidationScanner, for any borrowers, accounts, batch     *)
(* size, bound of the map and lifetime.                                    *)
(***************************************************************************)
EXTENDS LiquidationScanner, FiniteSetTheorems, WellFoundedInduction, TLAPS

(***************************************************************************)
(* Among subsets of a finite set there is a smallest one.                  *)
(***************************************************************************)
LEMMA SmallestSet ==
  ASSUME NEW S, IsFiniteSet(S), NEW F \in SUBSET SUBSET S, F # {}
  PROVE  \E T \in F : \A U \in F : U \subseteq T => U = T
<1>1. F \subseteq FiniteSubsetsOf(S)
  BY FS_Subset DEF FiniteSubsetsOf
<1>2. IsWellFoundedOn(StrictSubsetOrdering(S), FiniteSubsetsOf(S))
  BY FS_StrictSubsetOrderingWellFounded
<1>3. PICK T \in F : \A U \in F : ~(<<U, T>> \in StrictSubsetOrdering(S))
  BY <1>1, <1>2, WFMin
<1>4. \A U \in F : U \subseteq T => U = T
  BY <1>3 DEF StrictSubsetOrdering
<1>5. QED BY <1>4

(***************************************************************************)
(* The heap.  Its entries are finitely many and lie in a linear order, so  *)
(* that a batch is full after the pop of one entry, or the heap runs empty *)
(* before.                                                                 *)
(***************************************************************************)
LEMMA EntriesFinite == IsFiniteSet(Entries) /\ Entries \subseteq Nat \X Nat
<1> DEFINE Scores == {Score(a) : a \in Accounts \cup {Unknown}}
<1>1. \A a \in Accounts \cup {Unknown} : a.hf \in Nat /\ a.debt \in Nat
  BY ScannerAssumption DEF Unknown
<1>2. \A a \in Accounts \cup {Unknown} : Score(a) \in 0..115
  BY <1>1 DEF Score, HF_RISKY
<1>3. Scores \subseteq 0..115
  BY <1>2
<1>4. IsFiniteSet(Scores)
  <2>1. IsFiniteSet(0..115)
    <3>1. 0 \in Int /\ 115 \in Int
      OBVIOUS
    <3>2. QED BY ONLY <3>1, FS_Interval, Zenon
  <2> HIDE DEF Scores
  <2>2. QED BY <1>3, <2>1, FS_Subset
<1>5. Entries = Borrowers \X Scores
  BY DEF Entries
<1> HIDE DEF Scores
<1>6. QED BY <1>3, <1>4, <1>5, FS_Product, ScannerAssumption

LEMMA LastEntry ==
  ASSUME NEW D, IsFiniteSet(D), D \subseteq Nat \X Nat, D # {}
  PROVE  \E e \in D : \A f \in D : f = e \/ Before(f, e)
<1> DEFINE After(e) == {f \in D : Before(e, f)}
           F == {After(e) : e \in D}
<1>1. F \in SUBSET SUBSET D /\ F # {}
  OBVIOUS
<1>2. PICK T \in F : \A U \in F : U \subseteq T => U = T
  <2> HIDE DEF F
  <2>1. QED BY <1>1, SmallestSet
<1>3. PICK e \in D : T = After(e)
  BY <1>2
<1>4. \A f \in D : ~Before(e, f)
  <2> SUFFICES ASSUME NEW f \in D, Before(e, f) PROVE FALSE
    OBVIOUS
  <2>1. \A g \in D : Before(f, g) => Before(e, g)
    BY DEF Before
  <2>2. After(f) \subseteq T /\ After(f) \in F
    BY <1>3, <2>1
  <2>3. f \in T /\ f \notin After(f)
    BY <1>3 DEF Before
  <2>4. QED BY <1>2, <2>2, <2>3
<1>5. \A f \in D : f = e \/ Before(f, e)
  BY <1>4 DEF Before
<1>6. QED BY <1>5

LEMMA BatchFits ==
  ASSUME heap \subseteq Entries, NEW bs, ~\E e \in heap : Completes(e, bs)
  PROVE  Cardinality(Addresses(heap, bs)) < BATCH_SIZE
<1> DEFINE count(D) == Cardinality(Addresses(D, bs))
           F == {D \in SUBSET heap :
                   /\ \A e \in D, f \in heap : Before(f, e) => f \in D
                   /\ count(D) >= BATCH_SIZE}
<1>1. heap \subseteq Nat \X Nat /\ \A D \in SUBSET heap : IsFiniteSet(D)
  BY EntriesFinite, FS_Subset
<1>2. ASSUME NEW D \in SUBSET heap
      PROVE  IsFiniteSet(Addresses(D, bs)) /\ count(D) \in Nat
  <2>1. Addresses(D, bs) \subseteq Borrowers
    BY DEF Addresses, Entries
  <2>2. QED BY <2>1, ScannerAssumption, FS_Subset, FS_CardinalityType
<1>3. SUFFICES ASSUME count(heap) >= BATCH_SIZE
               PROVE  FALSE
  BY <1>2, ScannerAssumption
<1>4. heap \in F
  BY <1>3
<1>5. PICK D \in F : \A U \in F : U \subseteq D => U = D
  <2>1. F \in SUBSET SUBSET heap /\ F # {} /\ IsFiniteSet(heap)
    BY <1>1, <1>4
  <2> HIDE DEF F
  <2>2. QED BY <1>1, <2>1, SmallestSet
<1>6. D # {}
  <2> SUFFICES ASSUME D = {} PROVE FALSE
    OBVIOUS
  <2>1. Addresses(D, bs) = {}
    BY DEF Addresses
  <2>2. count(D) = 0
    BY <2>1, FS_EmptySet
  <2>3. count(D) >= BATCH_SIZE
    BY <1>5
  <2>4. QED BY <2>2, <2>3, ScannerAssumption
<1>7. PICK e \in D : \A f \in D : f = e \/ Before(f, e)
  BY <1>1, <1>5, <1>6, LastEntry
<1>8. D = UpTo(e)
  BY <1>5, <1>7 DEF UpTo
<1>9. count(D \ {e}) < BATCH_SIZE
  <2>1. \A d \in D \ {e}, f \in heap : Before(f, d) => f \in D \ {e}
    BY <1>1, <1>5, <1>7 DEF Before
  <2>2. D \ {e} \notin F
    BY <1>5, <1>7
  <2>3. QED BY <1>2, <1>5, <2>1, <2>2, ScannerAssumption
<1>10. count(D) <= count(D \ {e}) + 1
  <2> DEFINE A == Addresses(D \ {e}, bs)
  <2>1. IsFiniteSet(A) /\ count(D \ {e}) \in Nat
    BY <1>2, <1>5
  <2>2. IsFiniteSet(A \cup {e[1]}) /\ Cardinality(A \cup {e[1]}) <= Cardinality(A) + 1
    <3> HIDE DEF A
    <3>1. /\ IsFiniteSet(A \cup {e[1]})
          /\ Cardinality(A \cup {e[1]}) =
               IF e[1] \in A THEN Cardinality(A) ELSE Cardinality(A) + 1
      BY <2>1, FS_AddElement
    <3>2. QED BY <2>1, <3>1, FS_CardinalityType
  <2>3. Addresses(D, bs) \subseteq A \cup {e[1]}
    BY DEF Addresses
  <2>4. count(D) <= Cardinality(A \cup {e[1]})
    BY <2>2, <2>3, FS_Subset
  <2>5. count(D) \in Nat /\ Cardinality(A \cup {e[1]}) \in Nat
    BY <1>2, <1>5, <2>2, FS_CardinalityType
  <2>6. QED BY <2>1, <2>2, <2>4, <2>5
<1>11. count(D) = BATCH_SIZE
  BY <1>2, <1>5, <1>9, <1>10, ScannerAssumption
<1>12. Completes(e, bs)
  BY <1>8, <1>9, <1>11 DEF Completes
<1>13. QED BY <1>5, <1>12

(***************************************************************************)
(* A batch: the borrowers of the entries that leave the heap are the ones  *)
(* being checked, and these fit in a batch.                                *)
(***************************************************************************)
LEMMA DrawKeeps ==
  ASSUME heap \subseteq Entries, NEW bs, Draw(bs)
  PROVE  /\ heap' \subseteq heap
         /\ checking' \subseteq DOMAIN bs \cap Borrowers
         /\ \A b \in DOMAIN bs : Queued(b) => Queued(b)' \/ b \in checking'
         /\ scanning' \in {"asleep", "asking"}
         /\ scanning' = "asleep" => checking' = {}
         /\ Cardinality(checking') <= BATCH_SIZE
<1>1. ASSUME NEW e \in heap, Completes(e, bs), checking' = Addresses(UpTo(e), bs),
             heap' = heap \ UpTo(e), scanning' = "asking"
      PROVE  /\ heap' \subseteq heap
             /\ checking' \subseteq DOMAIN bs \cap Borrowers
             /\ \A b \in DOMAIN bs : Queued(b) => Queued(b)' \/ b \in checking'
             /\ Cardinality(checking') <= BATCH_SIZE
  <2>1. Cardinality(checking') = BATCH_SIZE
    BY <1>1 DEF Completes
  <2>2. QED BY <1>1, <2>1, ScannerAssumption DEF Addresses, UpTo, Queued, Entries
<1>2. ASSUME ~\E e \in heap : Completes(e, bs), checking' = Addresses(heap, bs), heap' = {},
             scanning' = IF checking' = {} THEN "asleep" ELSE "asking"
      PROVE  /\ heap' \subseteq heap
             /\ checking' \subseteq DOMAIN bs \cap Borrowers
             /\ \A b \in DOMAIN bs : Queued(b) => Queued(b)' \/ b \in checking'
             /\ Cardinality(checking') <= BATCH_SIZE
  <2>1. checking' \subseteq Borrowers
    BY <1>2 DEF Addresses, Entries
  <2>2. Cardinality(checking') < BATCH_SIZE /\ Cardinality(checking') \in Nat
    BY <1>2, <2>1, BatchFits, FS_Subset, FS_CardinalityType, ScannerAssumption
  <2>3. QED BY <1>2, <2>1, <2>2, ScannerAssumption DEF Addresses, Queued, Entries
<1>3. QED BY <1>1, <1>2 DEF Draw

(***************************************************************************)
(* An eviction: the map shrinks to its bound, and what is known besides    *)
(* about the borrowers that go, goes with them.                            *)
(***************************************************************************)
LEMMA EvictKeeps ==
  ASSUME NEW bs, DOMAIN bs \subseteq Borrowers, \A b \in DOMAIN bs : bs[b] \in States,
         Evict(bs)
  PROVE  /\ Tracked' \subseteq DOMAIN bs /\ \A b \in Tracked' : borrowers'[b] = bs[b]
         /\ risky' = risky \ (DOMAIN bs \ Tracked')
         /\ DOMAIN pre_staged' = DOMAIN pre_staged \ (DOMAIN bs \ Tracked')
         /\ \A b \in DOMAIN pre_staged' : pre_staged'[b] = pre_staged[b]
         /\ failed' = failed \ (DOMAIN bs \ Tracked')
         /\ Cardinality(Tracked') <= MAX_TRACKED_BORROWERS
<1> DEFINE live == DOMAIN bs \ Stale(bs)
           n == Cardinality(live) - MAX_TRACKED_BORROWERS
<1>1. PICK S \in Evictions(bs) :
        /\ borrowers' = Without(bs, S)
        /\ risky' = risky \ S
        /\ pre_staged' = Without(pre_staged, S)
        /\ failed' = failed \ S
  BY DEF Evict
<1>2. live \subseteq Borrowers /\ IsFiniteSet(live) /\ Cardinality(live) \in Nat /\ n \in Int
  <2>1. live \subseteq Borrowers
    OBVIOUS
  <2> HIDE DEF live
  <2>2. IsFiniteSet(live) /\ Cardinality(live) \in Nat
    BY <2>1, FS_Subset, FS_CardinalityType, ScannerAssumption
  <2>3. QED BY <2>1, <2>2, ScannerAssumption
<1>3. \/ n <= 0 /\ S = Stale(bs)
      \/ \E T \in SUBSET live : n > 0 /\ Cardinality(T) = n /\ S = Stale(bs) \cup T
  <2>1. n <= 0 \/ n > 0
    BY <1>2
  <2>2. QED BY <1>1, <2>1 DEF Evictions, kSubset
<1>4. S \subseteq DOMAIN bs /\ Cardinality(DOMAIN bs \ S) <= MAX_TRACKED_BORROWERS
  <2>1. CASE n <= 0 /\ S = Stale(bs)
    BY <1>2, <2>1, ScannerAssumption DEF Stale
  <2>2. ASSUME NEW T \in SUBSET live, n > 0, Cardinality(T) = n, S = Stale(bs) \cup T
        PROVE  S \subseteq DOMAIN bs /\ Cardinality(DOMAIN bs \ S) <= MAX_TRACKED_BORROWERS
    <3>1. DOMAIN bs \ S = live \ T /\ live \cap T = T /\ S \subseteq DOMAIN bs
      BY <2>2 DEF Stale
    <3> HIDE DEF live
    <3>2. Cardinality(live \ T) = Cardinality(live) - Cardinality(live \cap T)
      BY <1>2, FS_Difference
    <3>3. Cardinality(DOMAIN bs \ S) = Cardinality(live) - n
      BY <2>2, <3>1, <3>2
    <3>4. Cardinality(live) - n = MAX_TRACKED_BORROWERS
      BY <1>2, ScannerAssumption
    <3>5. QED BY <3>1, <3>3, <3>4, ScannerAssumption
  <2>3. QED BY <1>3, <2>1, <2>2
<1>5. Tracked' = DOMAIN bs \ S
  BY <1>1 DEF Tracked, Without
<1>6. QED BY <1>1, <1>4, <1>5 DEF Without

(***************************************************************************)
(* The inductive invariant.  Between two rounds no answer is awaited; a    *)
(* batch is bounded, and an answer can only bring back a borrower of the   *)
(* batch: the tracked and the checked borrowers together are bounded.      *)
(***************************************************************************)
BatchesBounded ==
  /\ scanning # "asking" => checking = {}
  /\ Cardinality(checking) <= BATCH_SIZE
  /\ Cardinality(Tracked \cup checking) <= MAX_TRACKED_BORROWERS + BATCH_SIZE

ScanInv == TypeOK /\ StagedIffRisky /\ OnlyFailedChecksForget /\ BatchesBounded

LEMMA ScanStart == Init => ScanInv
<1> SUFFICES ASSUME Init PROVE ScanInv
  OBVIOUS
<1>1. TypeOK /\ StagedIffRisky /\ OnlyFailedChecksForget
  BY DEF Init, TypeOK, StagedIffRisky, OnlyFailedChecksForget, Tracked
<1>2. Tracked = {} /\ checking = {}
  BY DEF Init, Tracked
<1>3. Cardinality({}) = 0
  BY FS_EmptySet
<1>4. Cardinality(checking) <= BATCH_SIZE
  BY <1>2, <1>3, ScannerAssumption
<1>5. Cardinality(Tracked \cup checking) <= MAX_TRACKED_BORROWERS + BATCH_SIZE
  <2>1. Tracked \cup checking = {}
    BY <1>2
  <2>2. QED BY <1>3, <2>1, ScannerAssumption
<1>6. QED BY <1>1, <1>2, <1>4, <1>5 DEF ScanInv, BatchesBounded

\* The bound on tracked and checked borrowers, from its two parts.
LEMMA BoundAdds ==
  ASSUME NEW T \in SUBSET Borrowers, NEW C \in SUBSET Borrowers,
         Cardinality(T) <= MAX_TRACKED_BORROWERS, Cardinality(C) <= BATCH_SIZE
  PROVE  Cardinality(T \cup C) <= MAX_TRACKED_BORROWERS + BATCH_SIZE
<1>1. IsFiniteSet(T) /\ IsFiniteSet(C) /\ IsFiniteSet(T \cap C)
  BY FS_Subset, FS_Intersection, ScannerAssumption
<1>2. /\ Cardinality(T) \in Nat /\ Cardinality(C) \in Nat /\ Cardinality(T \cap C) \in Nat
      /\ Cardinality(T \cup C) = Cardinality(T) + Cardinality(C) - Cardinality(T \cap C)
  BY <1>1, FS_CardinalityType, FS_Union
<1>3. QED BY <1>2, ScannerAssumption

\* Fewer checks, no more borrowers: the bounds stay.
LEMMA BoundShrinks ==
  ASSUME TypeOK, BatchesBounded, checking' \subseteq checking,
         Tracked' \cup checking' \subseteq Tracked \cup checking,
         scanning' # "asking" => checking' = {}
  PROVE  BatchesBounded'
<1>1. /\ IsFiniteSet(checking) /\ IsFiniteSet(Tracked \cup checking)
      /\ IsFiniteSet(checking') /\ IsFiniteSet((Tracked \cup checking)')
  <2>1. checking \subseteq Borrowers /\ Tracked \cup checking \subseteq Borrowers
    BY DEF TypeOK
  <2>2. QED BY <2>1, FS_Subset, ScannerAssumption
<1>2. /\ Cardinality(checking') <= Cardinality(checking)
      /\ Cardinality((Tracked \cup checking)') <= Cardinality(Tracked \cup checking)
  BY <1>1, FS_Subset
<1>3. /\ Cardinality(checking) \in Nat /\ Cardinality(Tracked \cup checking) \in Nat
      /\ Cardinality(checking') \in Nat /\ Cardinality((Tracked \cup checking)') \in Nat
  BY <1>1, FS_CardinalityType
<1>4. QED BY <1>2, <1>3, ScannerAssumption DEF BatchesBounded

(***************************************************************************)
(* The steps.                                                              *)
(***************************************************************************)

\* What a source reports: the new borrowers are queued before the eviction.
LEMMA DiscoverKeeps ==
  ASSUME ScanInv, NEW S \in SUBSET Borrowers, Discover(S),
         UNCHANGED <<checking, scanning, running>>,
         listening' = listening, fetching' = fetching
  PROVE  ScanInv'
<1> DEFINE new == S \ Tracked
           bs == [b \in Tracked \cup new |->
                    IF b \in new THEN [acct |-> Unknown, age |-> 0] ELSE borrowers[b]]
<1> USE DEF ScanInv, TypeOK
<1>1. DOMAIN bs = Tracked \cup new /\ DOMAIN bs \subseteq Borrowers
  OBVIOUS
<1>2. \A b \in DOMAIN bs : bs[b] \in States
  <2>1. [acct |-> Unknown, age |-> 0] \in States
    BY ScannerAssumption DEF States
  <2>2. QED BY <2>1
<1>3. \A b \in Tracked : bs[b] = borrowers[b]
  OBVIOUS
<1>4. Evict(bs) /\ Push(new)
  BY DEF Discover
<1>5. heap' = heap \cup {<<b, Score(Unknown)>> : b \in new}
  BY <1>4 DEF Push
<1> HIDE DEF bs
<1>6. /\ Tracked' \subseteq DOMAIN bs /\ \A b \in Tracked' : borrowers'[b] = bs[b]
      /\ risky' = risky \ (DOMAIN bs \ Tracked')
      /\ DOMAIN pre_staged' = DOMAIN pre_staged \ (DOMAIN bs \ Tracked')
      /\ \A b \in DOMAIN pre_staged' : pre_staged'[b] = pre_staged[b]
      /\ failed' = failed \ (DOMAIN bs \ Tracked')
      /\ Cardinality(Tracked') <= MAX_TRACKED_BORROWERS
  BY <1>1, <1>2, <1>4, EvictKeeps
<1>7. TypeOK'
  <2>1. heap' \subseteq Entries
    BY <1>5 DEF Entries
  <2>2. Tracked' \subseteq Borrowers /\ \A b \in Tracked' : borrowers'[b] \in States
    BY <1>1, <1>2, <1>6
  <2>3. /\ DOMAIN pre_staged' \subseteq Borrowers
        /\ \A b \in DOMAIN pre_staged' : pre_staged'[b] \in {"fresh", "expired"}
    BY <1>6
  <2>4. QED BY <1>6, <2>1, <2>2, <2>3
<1>8. StagedIffRisky'
  BY <1>1, <1>3, <1>6 DEF StagedIffRisky
<1>9. OnlyFailedChecksForget'
  <2>1. \A b \in Tracked' : b \in Tracked \/ b \in new
    BY <1>1, <1>6
  <2>2. \A b \in Tracked : Queued(b) => Queued(b)'
    BY <1>5 DEF Queued
  <2>3. \A b \in new : Queued(b)'
    <3> SUFFICES ASSUME NEW b \in new PROVE Queued(b)'
      OBVIOUS
    <3>1. <<b, Score(Unknown)>> \in heap'
      BY <1>5
    <3>2. QED BY <3>1 DEF Queued
  <2>4. QED BY <1>6, <2>1, <2>2, <2>3 DEF OnlyFailedChecksForget
<1>10. BatchesBounded'
  BY <1>6, <1>7, BoundAdds DEF BatchesBounded
<1>11. QED BY <1>7, <1>8, <1>9, <1>10

\* A round of the scan: the stale ones go, then the first batch is drawn.
LEMMA RoundKeeps ==
  ASSUME ScanInv, ScanRound
  PROVE  ScanInv'
<1> USE DEF ScanInv, TypeOK
<1>1. /\ Evict(borrowers) /\ Draw(borrowers') /\ checking = {}
      /\ listening' = listening /\ fetching' = fetching /\ running' = running
  BY DEF ScanRound, BatchesBounded
<1>2. /\ Tracked' \subseteq Tracked /\ \A b \in Tracked' : borrowers'[b] = borrowers[b]
      /\ risky' = risky \ (Tracked \ Tracked')
      /\ DOMAIN pre_staged' = DOMAIN pre_staged \ (Tracked \ Tracked')
      /\ \A b \in DOMAIN pre_staged' : pre_staged'[b] = pre_staged[b]
      /\ failed' = failed \ (Tracked \ Tracked')
      /\ Cardinality(Tracked') <= MAX_TRACKED_BORROWERS
  BY <1>1, EvictKeeps DEF Tracked
<1>3. /\ heap' \subseteq heap
      /\ checking' \subseteq Tracked' \cap Borrowers
      /\ \A b \in Tracked' : Queued(b) => Queued(b)' \/ b \in checking'
      /\ scanning' \in {"asleep", "asking"}
      /\ scanning' = "asleep" => checking' = {}
      /\ Cardinality(checking') <= BATCH_SIZE
  BY <1>1, DrawKeeps DEF Tracked
<1>4. TypeOK'
  <2>1. Tracked' \subseteq Borrowers /\ \A b \in Tracked' : borrowers'[b] \in States
    BY <1>2
  <2>2. /\ DOMAIN pre_staged' \subseteq Borrowers
        /\ \A b \in DOMAIN pre_staged' : pre_staged'[b] \in {"fresh", "expired"}
    BY <1>2
  <2>3. QED BY <1>1, <1>2, <1>3, <2>1, <2>2
<1>5. StagedIffRisky'
  BY <1>2 DEF StagedIffRisky
<1>6. OnlyFailedChecksForget'
  BY <1>1, <1>2, <1>3 DEF OnlyFailedChecksForget
<1>7. BatchesBounded'
  <2>1. Cardinality((Tracked \cup checking)') <= MAX_TRACKED_BORROWERS + BATCH_SIZE
    BY <1>2, <1>3, <1>4, BoundAdds
  <2>2. QED BY <1>3, <2>1 DEF BatchesBounded
<1>8. QED BY <1>4, <1>5, <1>6, <1>7

LEMMA NextBatchKeeps ==
  ASSUME ScanInv, NextBatch
  PROVE  ScanInv'
<1> USE DEF ScanInv, TypeOK
<1>1. /\ UNCHANGED <<borrowers, risky, pre_staged, listening, fetching, running, failed>>
      /\ Tracked' = Tracked /\ checking = {}
  BY DEF NextBatch, Tracked
<1>2. /\ heap' \subseteq heap
      /\ checking' \subseteq Tracked \cap Borrowers
      /\ \A b \in Tracked : Queued(b) => Queued(b)' \/ b \in checking'
      /\ scanning' \in {"asleep", "asking"}
      /\ scanning' = "asleep" => checking' = {}
      /\ Cardinality(checking') <= BATCH_SIZE
  <2>1. CASE running
    <3>1. Draw(borrowers)
      BY <2>1 DEF NextBatch
    <3>2. QED BY <3>1, DrawKeeps DEF Tracked
  <2>2. CASE ~running
    BY <1>1, <2>2 DEF NextBatch, Queued, BatchesBounded
  <2>3. QED BY <2>1, <2>2
<1>3. TypeOK'
  BY <1>1, <1>2
<1>4. StagedIffRisky' /\ OnlyFailedChecksForget'
  BY <1>1, <1>2 DEF StagedIffRisky, OnlyFailedChecksForget
<1>5. BatchesBounded'
  <2>1. (Tracked \cup checking)' = Tracked \cup checking
    BY <1>1, <1>2
  <2>2. QED BY <1>2, <2>1 DEF BatchesBounded
<1>6. QED BY <1>3, <1>4, <1>5

\* An answer, also one about a borrower that was evicted meanwhile.
LEMMA CheckKeeps ==
  ASSUME ScanInv, NEW b \in Borrowers, NEW a \in Accounts, CheckBorrower(b, a)
  PROVE  ScanInv'
<1> DEFINE atRisk == a.hf < HF_RISKY /\ a.debt > 0
           seen == [acct |-> a, age |-> 0]
<1> USE DEF ScanInv, TypeOK
<1>1. /\ b \in checking /\ checking' = checking \ {b}
      /\ borrowers' = With(borrowers, b, seen)
      /\ heap' = heap \cup {<<b, Score(a)>>}
      /\ risky' = IF atRisk THEN risky \cup {b} ELSE risky \ {b}
      /\ pre_staged' = IF atRisk THEN With(pre_staged, b, "fresh") ELSE Without(pre_staged, {b})
      /\ failed' = failed \ {b}
      /\ UNCHANGED <<scanning, listening, fetching, running>>
  BY DEF CheckBorrower
<1>2. seen \in States /\ <<b, Score(a)>> \in Entries
  BY ScannerAssumption DEF States, Entries
<1>3. /\ Tracked' = Tracked \cup {b} /\ borrowers'[b] = seen
      /\ \A c \in Tracked \ {b} : borrowers'[c] = borrowers[c]
  BY <1>1 DEF Tracked, With
<1>4. /\ DOMAIN pre_staged' = IF atRisk THEN DOMAIN pre_staged \cup {b} ELSE DOMAIN pre_staged \ {b}
      /\ \A c \in DOMAIN pre_staged' :
           pre_staged'[c] = "fresh" \/ (c \in DOMAIN pre_staged /\ pre_staged'[c] = pre_staged[c])
  BY <1>1 DEF With, Without
<1>5. TypeOK'
  <2>1. Tracked' \subseteq Borrowers /\ \A c \in Tracked' : borrowers'[c] \in States
    BY <1>2, <1>3
  <2>2. /\ DOMAIN pre_staged' \subseteq Borrowers
        /\ \A c \in DOMAIN pre_staged' : pre_staged'[c] \in {"fresh", "expired"}
    BY <1>4
  <2>3. QED BY <1>1, <1>2, <2>1, <2>2
<1>6. StagedIffRisky'
  <2>1. atRisk => seen.acct.hf < HF_RISKY
    OBVIOUS
  <2>2. DOMAIN pre_staged' = risky'
    BY <1>1, <1>4 DEF StagedIffRisky
  <2>3. \A c \in risky' : c \in Tracked' /\ borrowers'[c].acct.hf < HF_RISKY
    BY <1>1, <1>3, <2>1 DEF StagedIffRisky
  <2>4. QED BY <2>2, <2>3 DEF StagedIffRisky
<1>7. OnlyFailedChecksForget'
  <2>1. Queued(b)'
    <3>1. <<b, Score(a)>> \in heap'
      BY <1>1
    <3>2. QED BY <3>1 DEF Queued
  <2>2. \A c \in Tracked : Queued(c) => Queued(c)'
    BY <1>1 DEF Queued
  <2>3. QED BY <1>1, <1>3, <2>1, <2>2 DEF OnlyFailedChecksForget
<1>8. BatchesBounded'
  BY <1>1, <1>3, BoundShrinks DEF BatchesBounded
<1>9. QED BY <1>5, <1>6, <1>7, <1>8

LEMMA FailedCheckKeeps ==
  ASSUME ScanInv, NEW b \in Borrowers, CheckFails(b)
  PROVE  ScanInv'
<1> USE DEF ScanInv, TypeOK, Tracked
<1>1. TypeOK' /\ StagedIffRisky' /\ OnlyFailedChecksForget'
  BY DEF CheckFails, StagedIffRisky, OnlyFailedChecksForget, Queued
<1>2. BatchesBounded'
  BY BoundShrinks DEF CheckFails, BatchesBounded
<1>3. QED BY <1>1, <1>2

LEMMA TimeKeeps ==
  ASSUME ScanInv, TimePasses
  PROVE  ScanInv'
<1> USE DEF ScanInv, TypeOK
<1>1. /\ Tracked' = Tracked /\ DOMAIN pre_staged' = DOMAIN pre_staged
      /\ UNCHANGED <<risky, heap, checking, scanning, listening, fetching, running, failed>>
  BY DEF TimePasses, Tracked
<1>2. \A b \in Tracked : borrowers'[b] \in States /\ borrowers'[b].acct = borrowers[b].acct
  <2> SUFFICES ASSUME NEW b \in Tracked
               PROVE  borrowers'[b] \in States /\ borrowers'[b].acct = borrowers[b].acct
    OBVIOUS
  <2>1. PICK a \in Accounts \cup {Unknown}, n \in 0..TTL : borrowers[b] = [acct |-> a, age |-> n]
    BY DEF States
  <2>2. borrowers'[b] = [acct |-> a, age |-> IF n < TTL THEN n + 1 ELSE n]
    BY <2>1 DEF TimePasses
  <2>3. (IF n < TTL THEN n + 1 ELSE n) \in 0..TTL
    BY ScannerAssumption
  <2>4. QED BY <2>1, <2>2, <2>3 DEF States
<1>3. TypeOK'
  BY <1>1, <1>2 DEF TimePasses
<1>4. StagedIffRisky' /\ OnlyFailedChecksForget' /\ BatchesBounded'
  BY <1>1, <1>2 DEF StagedIffRisky, OnlyFailedChecksForget, BatchesBounded, Queued
<1>5. QED BY <1>3, <1>4

(***************************************************************************)
(* ScanInv holds in every state.                                           *)
(***************************************************************************)
THEOREM ScannerInvariant == Spec => []ScanInv
<1>1. ScanInv /\ [Next]_vars => ScanInv'
  <2> SUFFICES ASSUME ScanInv, [Next]_vars PROVE ScanInv'
    OBVIOUS
  <2>1. ASSUME NEW S \in SUBSET Borrowers, Fetch(S) \/ BorrowEvents(S)
        PROVE  ScanInv'
    BY <2>1, DiscoverKeeps DEF Fetch, BorrowEvents
  <2>2. ASSUME UNCHANGED <<borrowers, risky, pre_staged, heap, checking, failed>>,
               UNCHANGED vars \/ Subscribe \/ SubscriptionFails \/ ListenerEnds
                 \/ FetchLoopEnds \/ ScanLoopEnds \/ Stop
        PROVE  ScanInv'
    BY <2>2
       DEF vars, Subscribe, SubscriptionFails, ListenerEnds, FetchLoopEnds, ScanLoopEnds,
           Stop, ScanInv, TypeOK, StagedIffRisky, OnlyFailedChecksForget, BatchesBounded,
           Queued, Tracked
  <2>3. Subscribe \/ SubscriptionFails \/ ListenerEnds \/ FetchLoopEnds \/ ScanLoopEnds
          \/ Stop \/ Done \/ UNCHANGED vars
            => ScanInv'
    BY <2>2
       DEF vars, Subscribe, SubscriptionFails, ListenerEnds, FetchLoopEnds, ScanLoopEnds,
           Stop, Done
  <2>4. QED
    BY <2>1, <2>3, RoundKeeps, NextBatchKeeps, CheckKeeps, FailedCheckKeeps, TimeKeeps
       DEF Next, Listener, ScanLoop, FetchLoop, Answer
<1>2. QED BY ScanStart, <1>1, PTL DEF Spec

(***************************************************************************)
(* For any borrowers and bounds: a transaction is staged for exactly the   *)
(* tracked borrowers at risk, and the map outgrows its bound by one batch  *)
(* at most.                                                                *)
(***************************************************************************)
THEOREM MapsAgreeTheorem == Spec => []MapsAgree
<1>1. ScanInv => MapsAgree
  <2> SUFFICES ASSUME ScanInv PROVE TrackedBounded
    BY DEF ScanInv, MapsAgree
  <2>1. Tracked \cup checking \subseteq Borrowers
    BY DEF ScanInv, TypeOK
  <2>2. IsFiniteSet(Tracked \cup checking)
    BY <2>1, FS_Subset, ScannerAssumption
  <2>3. /\ Cardinality(Tracked) <= Cardinality(Tracked \cup checking)
        /\ IsFiniteSet(Tracked)
    BY <2>2, FS_Subset
  <2>4. Cardinality(Tracked) \in Nat /\ Cardinality(Tracked \cup checking) \in Nat
    BY <2>2, <2>3, FS_CardinalityType
  <2>5. QED BY <2>3, <2>4, ScannerAssumption DEF ScanInv, BatchesBounded, TrackedBounded
<1>2. QED BY <1>1, ScannerInvariant, PTL

(***************************************************************************)
(* Only a check that raised takes a tracked borrower out of the heap.      *)
(***************************************************************************)
THEOREM OnlyFailedChecksForgetTheorem == Spec => []OnlyFailedChecksForget
<1>1. ScanInv => OnlyFailedChecksForget
  BY DEF ScanInv
<1>2. QED BY <1>1, ScannerInvariant, PTL
=============================================================================
