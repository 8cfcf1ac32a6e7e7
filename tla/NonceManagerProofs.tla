------------------------- MODULE NonceManagerProofs -------------------------
(***************************************************************************)
(* Proofs about the nonce manager, for any set of tasks and any bound on   *)
(* the nonces and the restarts.  The manager's own state only ever moves   *)
(* forward within a run; what makes the resync harmless is ReadingOnChain: *)
(* the count it read before the lock may be stale, but everything below it *)
(* stays on the chain.                                                     *)
(***************************************************************************)
EXTENDS NonceManager, TLAPS

\* Whatever a task holds and whatever was wasted was given out in this run.
GivenOut ==
  /\ \A t \in Tasks : at[t] # "idle" => ticket[t] < nonce
  /\ \A n \in wasted : n < nonce

\* Whoever does not run holds nothing.
QuietWhenDown ==
  ~synced => /\ \A t \in Tasks : at[t] = "idle"
             /\ ~reading /\ wasted = {}

\* What lies below a reading of the chain is on the chain for good.
ReadingOnChain == reading => \A n \in 0..(chainNonce - 1) : OnChain(n)

NonceInv ==
  /\ TypeOK
  /\ GivenOut
  /\ QuietWhenDown
  /\ ReadingOnChain
  /\ HeldNoncesDistinct
  /\ EveryNonceAccounted
  /\ WaitsForRealTransaction

(***************************************************************************)
(* Lemmas                                                                  *)
(***************************************************************************)

LEMMA RangesGrow ==
  ASSUME NEW m \in Nat, NEW b \in 0..m, NEW a \in 0..m, b >= a
  PROVE  0..(a - 1) \subseteq 0..(b - 1) /\ 0..(b - 1) \subseteq 0..m
OBVIOUS

\* Below a pending count there are only nonces mined or in the pool.
LEMMA PendingCountFacts ==
  ASSUME TypeOK, NEW n \in 0..MaxNonce, IsPendingCount(n)
  PROVE  \A m \in 0..(n - 1) : OnChain(m)
<1> SUFFICES ASSUME NEW m \in 0..(n - 1), ~(m < mined) PROVE m \in pool
  BY DEF OnChain
<1>1. m \in mined..(n - 1)
  BY BoundsAssumption DEF TypeOK
<1>2. QED BY <1>1 DEF IsPendingCount

\* What is on the chain stays there.
LEMMA OnChainIsStable ==
  ASSUME TypeOK, [Next]_vars, NEW n \in Nat, OnChain(n)
  PROVE  OnChain(n)'
<1> USE DEF OnChain, TypeOK
<1>1. CASE Mine
  BY <1>1 DEF Mine
<1>2. CASE OwnerSends
  BY <1>2 DEF OwnerSends
<1>3. ASSUME NEW t \in Tasks, Send(t) PROVE OnChain(n)'
  BY <1>3 DEF Send
<1>4. CASE UNCHANGED chain
  BY <1>4 DEF chain
<1>5. QED
  BY <1>1, <1>2, <1>3, <1>4
     DEF Next, vars, SyncFromChain, ResyncLoop, ResyncRead, ResyncApply, GetNonce, Deliver,
         Abandon, Refused, Await, Receipt, ReceiptTimeout, Stop

(***************************************************************************)
(* Type correctness                                                        *)
(***************************************************************************)

LEMMA NonceTypeStep == TypeOK /\ [Next]_vars => TypeOK'
<1> SUFFICES ASSUME TypeOK, [Next]_vars PROVE TypeOK'
  OBVIOUS
<1> USE DEF TypeOK, Nonces, manager, senders, resync, chain, history
<1>a. /\ MaxNonce \in Nat /\ MaxRestarts \in Nat
      /\ 0 \in Nonces /\ 0 \in 0..MaxNonce /\ 0 \in 0..MaxRestarts
  BY BoundsAssumption
<1> USE <1>a
<1>1. CASE SyncFromChain
  BY <1>1 DEF SyncFromChain
<1>2. CASE ResyncRead
  BY <1>2 DEF ResyncRead
<1>3. CASE ResyncApply
  BY <1>3 DEF ResyncApply
<1>4. ASSUME NEW t \in Tasks, GetNonce(t) PROVE TypeOK'
  BY <1>4 DEF GetNonce
<1>5. ASSUME NEW t \in Tasks, Abandon(t) PROVE TypeOK'
  BY <1>5 DEF Abandon, Leave
<1>6. ASSUME NEW t \in Tasks, Send(t) PROVE TypeOK'
  BY <1>6 DEF Send, Leave
<1>7. ASSUME NEW t \in Tasks, Refused(t) \/ Await(t) PROVE TypeOK'
  BY <1>7 DEF Refused, Await, Receipt, ReceiptTimeout, Leave
<1>8. CASE Mine
  BY <1>8 DEF Mine
<1>9. CASE OwnerSends
  BY <1>9 DEF OwnerSends
<1>10. CASE Stop
  <2>1. /\ synced' \in BOOLEAN /\ reading' \in BOOLEAN
        /\ at' \in [Tasks -> {"idle", "building", "sent"}]
        /\ ticket' \in [Tasks -> Nonces]
        /\ nonce' = 0 /\ chainNonce' = 0 /\ base' = 0 /\ wasted' = {}
    BY <1>10 DEF Stop
  <2>2. restarts' \in 0..MaxRestarts
    BY <1>10 DEF Stop
  <2>3. warns' = warns /\ mined' = mined /\ pool' = pool
    BY <1>10 DEF Stop
  <2>4. QED BY <2>1, <2>2, <2>3
<1>11. CASE UNCHANGED vars
  BY <1>11 DEF vars
<1>12. QED
  BY <1>1, <1>2, <1>3, <1>4, <1>5, <1>6, <1>7, <1>8, <1>9, <1>10, <1>11
     DEF Next, ResyncLoop, Deliver

(***************************************************************************)
(* The inductive invariant                                                 *)
(***************************************************************************)

LEMMA GivenOutStep ==
  TypeOK /\ GivenOut /\ QuietWhenDown /\ [Next]_vars
    => GivenOut' /\ QuietWhenDown'
<1> SUFFICES ASSUME TypeOK, GivenOut, QuietWhenDown, [Next]_vars
             PROVE  GivenOut' /\ QuietWhenDown'
  OBVIOUS
<1> USE DEF TypeOK, GivenOut, QuietWhenDown, Nonces, Leave,
            manager, senders, resync, chain, history
<1>1. CASE SyncFromChain
  BY <1>1 DEF SyncFromChain
<1>2. CASE ResyncRead
  BY <1>2 DEF ResyncRead
<1>3. CASE ResyncApply
  <2>1. nonce' >= nonce
    BY <1>3 DEF ResyncApply
  <2>2. QED BY <1>3, <2>1 DEF ResyncApply
<1>4. ASSUME NEW t \in Tasks, GetNonce(t) PROVE GivenOut' /\ QuietWhenDown'
  BY <1>4 DEF GetNonce
<1>5. ASSUME NEW t \in Tasks, Abandon(t) PROVE GivenOut' /\ QuietWhenDown'
  BY <1>5 DEF Abandon
<1>6. ASSUME NEW t \in Tasks, Send(t) PROVE GivenOut' /\ QuietWhenDown'
  BY <1>6 DEF Send
<1>7. ASSUME NEW t \in Tasks, Refused(t) \/ Await(t)
      PROVE  GivenOut' /\ QuietWhenDown'
  BY <1>7 DEF Refused, Await, Receipt, ReceiptTimeout
<1>8. CASE Mine \/ OwnerSends
  <2>1. UNCHANGED <<synced, nonce, at, ticket, reading, wasted>>
    BY <1>8 DEF Mine, OwnerSends
  <2>2. QED BY <2>1
<1>9. CASE Stop
  <2>1. (\A t \in Tasks : at'[t] = "idle") /\ ~reading' /\ wasted' = {}
    BY <1>9 DEF Stop
  <2>2. QED BY <2>1
<1>10. CASE UNCHANGED vars
  BY <1>10 DEF vars
<1>11. QED
  BY <1>1, <1>2, <1>3, <1>4, <1>5, <1>6, <1>7, <1>8, <1>9, <1>10
     DEF Next, ResyncLoop, Deliver

LEMMA ReadingStep ==
  TypeOK /\ ReadingOnChain /\ [Next]_vars => ReadingOnChain'
<1> SUFFICES ASSUME TypeOK, ReadingOnChain, [Next]_vars, reading',
                    NEW n \in 0..(chainNonce' - 1)
             PROVE  OnChain(n)'
  BY DEF ReadingOnChain
<1>1. CASE ResyncRead
  <2>1. PICK k \in 0..MaxNonce : IsPendingCount(k) /\ chainNonce' = k
    BY <1>1 DEF ResyncRead
  <2>2. OnChain(n)
    BY <2>1, PendingCountFacts
  <2>3. QED BY <2>1, <2>2, OnChainIsStable
<1>2. CASE ~ResyncRead
  <2>1. reading /\ chainNonce' = chainNonce
    BY <1>2
       DEF Next, vars, resync, SyncFromChain, ResyncLoop, ResyncApply, GetNonce, Deliver,
           Abandon, Send, Refused, Await, Receipt, ReceiptTimeout, Mine,
           OwnerSends, Stop
  <2>2. OnChain(n)
    BY <2>1 DEF ReadingOnChain
  <2>3. QED BY <2>1, <2>2, OnChainIsStable DEF TypeOK
<1>3. QED BY <1>1, <1>2

LEMMA DistinctStep ==
  TypeOK /\ GivenOut /\ HeldNoncesDistinct /\ [Next]_vars
    => HeldNoncesDistinct'
<1> SUFFICES ASSUME TypeOK, GivenOut, HeldNoncesDistinct, [Next]_vars,
                    NEW t \in Tasks, NEW u \in Tasks, t # u,
                    at'[t] # "idle", at'[u] # "idle"
             PROVE  ticket'[t] # ticket'[u]
  BY DEF HeldNoncesDistinct, Holding
<1>1. \A x, y \in Tasks :
        x # y /\ at[x] # "idle" /\ at[y] # "idle" => ticket[x] # ticket[y]
  BY DEF HeldNoncesDistinct, Holding
<1>2. ASSUME NEW x \in Tasks, GetNonce(x) PROVE ticket'[t] # ticket'[u]
  BY <1>1, <1>2 DEF GetNonce, TypeOK, GivenOut, Nonces
<1>3. ASSUME NEW x \in Tasks, Deliver(x) \/ Await(x)
      PROVE  ticket'[t] # ticket'[u]
  BY <1>1, <1>3 DEF Deliver, Abandon, Send, Refused, Await, Receipt,
                    ReceiptTimeout, Leave, TypeOK
<1>4. CASE Stop
  BY <1>4 DEF Stop
<1>5. CASE UNCHANGED senders
  BY <1>1, <1>5 DEF senders
<1>6. QED
  BY <1>2, <1>3, <1>4, <1>5
     DEF Next, vars, SyncFromChain, ResyncLoop, ResyncRead, ResyncApply, Mine, OwnerSends

LEMMA WaitsStep ==
  TypeOK /\ WaitsForRealTransaction /\ [Next]_vars
    => WaitsForRealTransaction'
<1> SUFFICES ASSUME TypeOK, WaitsForRealTransaction, [Next]_vars,
                    NEW t \in Tasks, at'[t] = "sent"
             PROVE  OnChain(ticket[t])'
  BY DEF WaitsForRealTransaction, OnChain
<1>1. ASSUME NEW x \in Tasks, Send(x), x = t PROVE OnChain(ticket[t])'
  BY <1>1 DEF Send, Leave, OnChain, TypeOK
<1>2. CASE ~ \E x \in Tasks : Send(x) /\ x = t
  <2>1. at[t] = "sent" /\ ticket'[t] = ticket[t]
    BY <1>2
       DEF Next, vars, senders, SyncFromChain, ResyncLoop, ResyncRead, ResyncApply,
           GetNonce, Deliver, Abandon, Send, Refused, Await, Receipt,
           ReceiptTimeout, Leave, Mine, OwnerSends, Stop, TypeOK
  <2>2. ticket[t] \in Nat /\ OnChain(ticket[t])
    BY <2>1 DEF WaitsForRealTransaction, TypeOK, Nonces
  <2>3. QED BY <2>1, <2>2, OnChainIsStable DEF OnChain
<1>3. QED BY <1>1, <1>2

\* A step that neither starts nor moves the bot forward keeps the account.
LEMMA AccountedStep ==
  ASSUME TypeOK, ReadingOnChain, WaitsForRealTransaction,
         EveryNonceAccounted, [Next]_vars
  PROVE  EveryNonceAccounted'
<1> SUFFICES ASSUME synced', NEW n \in base'..(nonce' - 1)
             PROVE  \/ OnChain(n)' \/ n \in wasted'
                    \/ \E t \in Tasks : n \in Holding(t)'
  BY DEF EveryNonceAccounted
<1> DEFINE Accounted == \/ OnChain(n) \/ n \in wasted
                        \/ \E t \in Tasks : n \in Holding(t)
<1>1. n \in Nat
  <2>1. TypeOK'
    BY NonceTypeStep
  <2>2. QED BY <2>1 DEF TypeOK
<1>2. CASE SyncFromChain
  BY <1>2 DEF SyncFromChain
<1>3. CASE Stop
  BY <1>3 DEF Stop
<1>4. ASSUME NEW x \in Tasks, GetNonce(x)
      PROVE  \/ OnChain(n)' \/ n \in wasted'
             \/ \E t \in Tasks : n \in Holding(t)'
  <2>1. CASE n = nonce
    BY <1>4, <2>1 DEF GetNonce, Holding, TypeOK
  <2>2. CASE n # nonce
    <3>1. Accounted
      BY <1>1, <1>4, <2>2 DEF GetNonce, EveryNonceAccounted, TypeOK, history
    <3>2. ASSUME NEW t \in Tasks, n \in Holding(t) PROVE n \in Holding(t)'
      BY <1>4, <3>2 DEF GetNonce, Holding, TypeOK
    <3>3. QED
      BY <1>1, <1>4, <3>1, <3>2, OnChainIsStable DEF GetNonce, history
  <2>3. QED BY <2>1, <2>2
<1>5. CASE ResyncApply
  <2>1. Accounted
    <3>1. CASE n < nonce
      BY <1>1, <1>5, <3>1
         DEF ResyncApply, EveryNonceAccounted, TypeOK, history
    <3>2. CASE ~(n < nonce)
      BY <1>1, <1>5, <3>2 DEF ResyncApply, ReadingOnChain, TypeOK
    <3>3. QED BY <3>1, <3>2
  <2>2. QED
    BY <1>1, <1>5, <2>1, OnChainIsStable
       DEF ResyncApply, Holding, senders, history
<1>6. ASSUME NEW x \in Tasks, Deliver(x) \/ Await(x)
      PROVE  \/ OnChain(n)' \/ n \in wasted'
             \/ \E t \in Tasks : n \in Holding(t)'
  <2>1. Accounted
    BY <1>6
       DEF EveryNonceAccounted, Deliver, Abandon, Send, Refused, Await,
           Receipt, ReceiptTimeout, manager, history
  <2>2. wasted \subseteq wasted'
    BY <1>6 DEF Deliver, Abandon, Send, Refused, Await, Receipt,
                ReceiptTimeout, history
  <2>3. ASSUME NEW t \in Tasks, n \in Holding(t), t # x
        PROVE  n \in Holding(t)'
    BY <1>6, <2>3 DEF Deliver, Abandon, Send, Refused, Await, Receipt,
                      ReceiptTimeout, Leave, Holding, TypeOK
  <2>4. ASSUME n \in Holding(x) PROVE OnChain(n)' \/ n \in wasted'
    <3>1. at[x] # "idle" /\ n = ticket[x]
      BY <2>4 DEF Holding
    <3>2. CASE Abandon(x)
      BY <3>1, <3>2 DEF Abandon
    <3>3. CASE Send(x)
      BY <3>1, <3>3 DEF Send, OnChain
    <3>4. CASE Refused(x) \/ Await(x)
      <4>1. OnChain(n)
        BY <3>1, <3>4 DEF Refused, Await, Receipt, ReceiptTimeout, OnChain,
                          WaitsForRealTransaction
      <4>2. QED BY <1>1, <4>1, OnChainIsStable
    <3>5. QED BY <1>6, <3>2, <3>3, <3>4 DEF Deliver
  <2>5. QED BY <1>1, <2>1, <2>2, <2>3, <2>4, OnChainIsStable
<1>7. CASE ResyncRead \/ Mine \/ OwnerSends \/ UNCHANGED vars
  <2>1. Accounted /\ wasted' = wasted
    BY <1>7 DEF EveryNonceAccounted, ResyncRead, Mine, OwnerSends, vars,
                manager, history
  <2>2. ASSUME NEW t \in Tasks PROVE Holding(t)' = Holding(t)
    BY <1>7 DEF ResyncRead, Mine, OwnerSends, vars, senders, Holding
  <2>3. QED BY <1>1, <2>1, <2>2, OnChainIsStable
<1>8. QED BY <1>2, <1>3, <1>4, <1>5, <1>6, <1>7 DEF Next, ResyncLoop

LEMMA NonceInvInit == Init => NonceInv
<1> SUFFICES ASSUME Init PROVE NonceInv
  OBVIOUS
<1>1. TypeOK
  <2>1. /\ MaxNonce \in Nat /\ MaxRestarts \in Nat
        /\ 0 \in Nonces /\ 0 \in 0..MaxNonce /\ 0 \in 0..MaxRestarts
    BY BoundsAssumption DEF Nonces
  <2>2. QED BY <2>1 DEF Init, TypeOK
<1>2. EveryNonceAccounted /\ ReadingOnChain
  BY DEF Init, EveryNonceAccounted, ReadingOnChain
<1>3. QED
  BY <1>1, <1>2 DEF Init, NonceInv, GivenOut, QuietWhenDown,
     HeldNoncesDistinct, Holding, WaitsForRealTransaction

LEMMA NonceInvStep == NonceInv /\ [Next]_vars => NonceInv'
BY NonceTypeStep, GivenOutStep, ReadingStep, DistinctStep, WaitsStep,
   AccountedStep
   DEF NonceInv

(***************************************************************************)
(* Theorems                                                                *)
(***************************************************************************)

\* The inductive invariant holds in every reachable state.
THEOREM NonceInvariant == Spec => []NonceInv
BY NonceInvInit, NonceInvStep, PTL DEF Spec

\* The nonce manager and its senders are type correct.
THEOREM NonceManagerTypeCorrect == Spec => []TypeOK
BY NonceInvariant, PTL DEF NonceInv

\* Two tasks never work on the same nonce (nonce_manager.py lines 51-79).
THEOREM NoncesNeverCollide == Spec => []HeldNoncesDistinct
BY NonceInvariant, PTL DEF NonceInv

\* Every nonce of the run is on the chain, held or wasted by a failure, and a
\* task waits only for a transaction the node has taken.
THEOREM GapsComeFromFailures ==
  Spec => [](EveryNonceAccounted /\ WaitsForRealTransaction)
BY NonceInvariant, PTL DEF NonceInv

\* A wasted nonce is not given out again in the same run.
THEOREM WastedStaysWasted == Spec => WastedNeverReused
<1>1. NonceInv /\ [Next]_vars =>
        [\A t \in Tasks : GetNonce(t) => ticket'[t] \notin wasted]_vars
  <2> SUFFICES ASSUME NonceInv, NEW t \in Tasks, GetNonce(t)
               PROVE  ticket'[t] \notin wasted
    OBVIOUS
  <2>1. ticket'[t] = nonce /\ nonce \in Nat
    BY DEF NonceInv, TypeOK, GetNonce
  <2>2. QED BY <2>1 DEF NonceInv, GivenOut
<1>2. QED
  BY <1>1, NonceInvariant, PTL DEF Spec, WastedNeverReused

\* The nonce manager implements the ticket dispenser.
THEOREM NonceManagerRefinesDispenser == Spec => ImplementsDispenser
<1> DEFINE used == IF synced THEN 0..(nonce - 1) ELSE {}
           held == [t \in Tasks |-> Holding(t)]
<1>1. Init => Dispenser!Init
  BY DEF Init, Dispenser!Init, Holding
<1>2. NonceInv /\ [Next]_vars => [Dispenser!Next]_Dispenser!vars
  <2> SUFFICES ASSUME NonceInv, [Next]_vars
               PROVE  [Dispenser!Next]_Dispenser!vars
    OBVIOUS
  <2>a. nonce' \in 0..MaxNonce
    BY NonceTypeStep DEF NonceInv, TypeOK
  <2>b. nonce \in 0..MaxNonce /\ MaxNonce \in Nat
    BY BoundsAssumption DEF NonceInv, TypeOK
  <2> USE DEF NonceInv, TypeOK
  <2>1. CASE SyncFromChain
    <3>1. held' = held
      BY <2>1 DEF SyncFromChain, senders, Holding
    <3>2. ~synced /\ synced' /\ used' \subseteq 0..MaxNonce
      BY <2>1, <2>a, <2>b DEF SyncFromChain
    <3>3. Dispenser!Open
      BY <2>1, <3>1, <3>2 DEF SyncFromChain, Dispenser!Open
    <3>4. QED BY <3>3 DEF Dispenser!Next
  <2>2. ASSUME NEW t \in Tasks, GetNonce(t) PROVE Dispenser!Next
    <3>1. held[t] = {} /\ held' = [held EXCEPT ![t] = {nonce}]
      BY <2>2 DEF GetNonce, Holding
    <3>2. nonce \in 0..MaxNonce \ used
      BY <2>2 DEF GetNonce
    <3>3. used' = used \cup {nonce}
      BY <2>2 DEF GetNonce
    <3>4. Dispenser!Give(t)
      BY <2>2, <3>1, <3>2, <3>3 DEF GetNonce, Dispenser!Give
    <3>5. QED BY <3>4 DEF Dispenser!Next
  <2>3. ASSUME NEW t \in Tasks, Deliver(t) \/ Await(t)
        PROVE  [Dispenser!Next]_Dispenser!vars
    <3>1. at[t] # "idle" /\ UNCHANGED manager
      BY <2>3 DEF Deliver, Abandon, Send, Refused, Await, Receipt,
                  ReceiptTimeout
    <3>2. synced' = synced /\ used' = used
      BY <3>1 DEF manager
    <3>3. CASE Leave(t)
      <4>1. held[t] # {} /\ held' = [held EXCEPT ![t] = {}]
        BY <3>1, <3>3 DEF Leave, Holding
      <4>2. Dispenser!LetGo(t)
        BY <3>2, <4>1 DEF Dispenser!LetGo
      <4>3. QED BY <4>2 DEF Dispenser!Next
    <3>4. CASE at' = [at EXCEPT ![t] = "sent"] /\ UNCHANGED ticket
      <4>1. held' = held
        BY <3>1, <3>4 DEF Holding
      <4>2. QED BY <3>2, <4>1 DEF Dispenser!vars
    <3>5. QED
      BY <2>3, <3>3, <3>4 DEF Deliver, Abandon, Send, Refused, Await, Receipt,
                              ReceiptTimeout
  <2>4. CASE ResyncApply
    <3>1. held' = held /\ synced /\ synced'
      BY <2>4 DEF ResyncApply, senders, Holding
    <3>2. nonce' >= nonce
      BY <2>4 DEF ResyncApply
    <3>3. /\ 0..(nonce' - 1) \subseteq 0..MaxNonce
          /\ 0..(nonce - 1) \subseteq 0..(nonce' - 1)
      BY <2>a, <2>b, <3>2, RangesGrow
    <3>4. used' \subseteq 0..MaxNonce /\ used \subseteq used'
      BY <3>1, <3>3
    <3>5. Dispenser!Skip
      BY <3>1, <3>4 DEF Dispenser!Skip
    <3>6. QED BY <3>5 DEF Dispenser!Next
  <2>5. CASE ResyncRead \/ Mine \/ OwnerSends \/ UNCHANGED vars
    <3>1. UNCHANGED <<manager, senders>>
      BY <2>5 DEF ResyncRead, Mine, OwnerSends, vars
    <3>2. held' = held /\ used' = used /\ synced' = synced
      BY <3>1 DEF manager, senders, Holding
    <3>3. QED BY <3>2 DEF Dispenser!vars
  <2>6. CASE Stop
    <3>1. synced /\ ~synced' /\ used' = {}
      BY <2>6 DEF Stop
    <3>2. held' = [t \in Tasks |-> {}]
      BY <2>6 DEF Stop, Holding
    <3>3. Dispenser!Close
      BY <3>1, <3>2, <2>6 DEF Stop, Dispenser!Close
    <3>4. QED BY <3>3 DEF Dispenser!Next
  <2>7. QED
    BY <2>1, <2>2, <2>3, <2>4, <2>5, <2>6 DEF Next, ResyncLoop
<1>3. QED
  BY <1>1, <1>2, NonceInvariant, PTL
     DEF Spec, ImplementsDispenser, Dispenser!Spec
=============================================================================
