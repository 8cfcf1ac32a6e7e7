---------------------------- MODULE NonceManager ----------------------------
(***************************************************************************)
(* The nonce manager of src/src/vault/nonce_manager.py with the tasks that *)
(* send transactions through it and the account's transactions on the      *)
(* chain.                                                                  *)
(*                                                                         *)
(* Every sender has the same course: nonce = await get_nonce(), build      *)
(* (gas price, calldata, for liquidations a simulation), send, wait for    *)
(* the receipt.  An exception on the way abandons the transaction; the     *)
(* nonce it was given is not returned.  get_nonce() has no await under     *)
(* its lock, so it is one step.  resync_if_needed() reads the chain before *)
(* it takes the lock.                                                      *)
(*                                                                         *)
(* The chain is external: per account it mines nonces in order, keeps      *)
(* transactions with later nonces in a pool, and refuses a transaction     *)
(* whose nonce is mined or in the pool.  A reading of the "pending" count  *)
(* is the first nonce neither mined nor in the pool.                       *)
(*                                                                         *)
(* A definition marked `Slip:' is a mistake the code could have made where *)
(* the next definition is right; nothing uses it.                          *)
(***************************************************************************)
EXTENDS Naturals

CONSTANTS
  Tasks,        \* the tasks that send transactions
  MaxNonce,     \* bound of the model: nonces 0 .. MaxNonce - 1 are used
  MaxRestarts   \* bound of the model: how often the bot is restarted

ASSUME BoundsAssumption == MaxNonce \in Nat \ {0} /\ MaxRestarts \in Nat

VARIABLES
  synced,      \* self._synced: the bot is up
  nonce,       \* self._nonce
  warns,       \* whether the logger lets warnings through (the default)
  at,          \* where each task stands
  ticket,      \* the nonce of the transaction each task is sending
  reading,     \* whether resync_if_needed() is between its await and the lock
  chainNonce,  \* the count it has read
  mined,       \* external: number of the account's mined transactions
  pool,        \* external: nonces of its transactions waiting to be mined
  base,        \* history: the nonce the bot started from
  wasted,      \* history: nonces of this run whose transaction was abandoned
  restarts     \* history: number of restarts

manager == <<synced, nonce, warns>>
senders == <<at, ticket>>
resync == <<reading, chainNonce>>
chain == <<mined, pool>>
history == <<base, wasted, restarts>>
vars == <<manager, senders, resync, chain, history>>

Nonces == 0..(MaxNonce - 1)

TypeOK ==
  /\ synced \in BOOLEAN /\ warns \in BOOLEAN /\ reading \in BOOLEAN
  /\ nonce \in 0..MaxNonce /\ chainNonce \in 0..MaxNonce
  /\ at \in [Tasks -> {"idle", "building", "sent"}]
  /\ ticket \in [Tasks -> Nonces]
  /\ mined \in 0..MaxNonce /\ pool \subseteq Nonces
  /\ base \in 0..MaxNonce /\ wasted \subseteq Nonces
  /\ restarts \in 0..MaxRestarts

Init ==
  /\ synced = FALSE /\ nonce = 0 /\ warns \in BOOLEAN
  /\ at = [t \in Tasks |-> "idle"] /\ ticket = [t \in Tasks |-> 0]
  /\ reading = FALSE /\ chainNonce = 0
  /\ mined = 0 /\ pool = {}
  /\ base = 0 /\ wasted = {} /\ restarts = 0

\* n is what get_transaction_count(address, "pending") answers.
IsPendingCount(n) ==
  /\ mined <= n /\ n \notin pool
  /\ mined..(n - 1) \subseteq pool

(***************************************************************************)
(* The nonce manager                                                       *)
(***************************************************************************)

\* Slip: the bot starts above everything that waits in the pool.
SyncAbovePool ==
  /\ ~synced
  /\ \E n \in mined..MaxNonce :
       /\ \A m \in pool : m < n
       /\ nonce' = n
       /\ base' = n
  /\ synced' = TRUE
  /\ UNCHANGED <<warns, senders, resync, chain, wasted, restarts>>

\* The engine awaits sync_from_chain() before it creates any task; when the
\* reading fails the bot does not start.
SyncFromChain ==
  /\ ~synced
  /\ \E n \in 0..MaxNonce :
       /\ IsPendingCount(n)
       /\ nonce' = n
       /\ base' = n
  /\ synced' = TRUE
  /\ UNCHANGED <<warns, senders, resync, chain, wasted, restarts>>

\* Slip: the nonce is read but not counted up.
GetNonceKept(t) ==
  /\ synced /\ at[t] = "idle" /\ nonce < MaxNonce
  /\ at' = [at EXCEPT ![t] = "building"]
  /\ ticket' = [ticket EXCEPT ![t] = nonce]
  /\ UNCHANGED <<manager, resync, chain, history>>

GetNonce(t) ==
  /\ synced /\ at[t] = "idle" /\ nonce < MaxNonce
  /\ at' = [at EXCEPT ![t] = "building"]
  /\ ticket' = [ticket EXCEPT ![t] = nonce]
  /\ nonce' = nonce + 1
  /\ UNCHANGED <<synced, warns, resync, chain, history>>

ResyncRead ==
  /\ synced /\ ~reading
  /\ reading' = TRUE
  /\ \E n \in 0..MaxNonce : IsPendingCount(n) /\ chainNonce' = n
  /\ UNCHANGED <<manager, senders, chain, history>>

\* Slip: the count read before the lock is adopted without comparing it.
ResyncRewinds ==
  /\ synced /\ reading
  /\ nonce' = chainNonce
  /\ reading' = FALSE /\ chainNonce' = 0
  /\ UNCHANGED <<synced, warns, senders, chain, history>>

\* Slip: the count is taken for the last nonce used, not for the next one.
ResyncOvershoots ==
  /\ synced /\ reading
  /\ nonce' = IF chainNonce > nonce /\ chainNonce < MaxNonce
              THEN chainNonce + 1 ELSE nonce
  /\ reading' = FALSE /\ chainNonce' = 0
  /\ UNCHANGED <<synced, warns, senders, chain, history>>

\* Slip: a count read behind the manager is met by going on from the sum.
ResyncUnbounded ==
  /\ synced /\ reading
  /\ nonce' = IF chainNonce > nonce THEN nonce + chainNonce ELSE nonce
  /\ reading' = FALSE /\ chainNonce' = 0
  /\ UNCHANGED <<synced, warns, senders, chain, history>>

\* The warning that announces the gap passes keyword arguments to a standard
\* library logger: unless warnings are disabled it raises TypeError, which the
\* handler around it swallows, before the count is adopted.
ResyncApply ==
  /\ synced /\ reading
  /\ nonce' = IF chainNonce > nonce /\ ~warns THEN chainNonce ELSE nonce
  /\ reading' = FALSE /\ chainNonce' = 0
  /\ UNCHANGED <<synced, warns, senders, chain, history>>

\* _nonce_resync_loop(): a round every minute.
ResyncLoop == ResyncRead \/ ResyncApply

(***************************************************************************)
(* The senders                                                             *)
(***************************************************************************)

Leave(t) ==
  /\ at' = [at EXCEPT ![t] = "idle"]
  /\ ticket' = [ticket EXCEPT ![t] = 0]

\* Building, simulating or sending fails before the transaction is out.
Abandon(t) ==
  /\ at[t] = "building"
  /\ Leave(t)
  /\ wasted' = wasted \cup {ticket[t]}
  /\ UNCHANGED <<manager, resync, chain, base, restarts>>

\* The node takes the transaction; its answer may still get lost, which the
\* sender sees as a failure.
Send(t) ==
  /\ at[t] = "building"
  /\ ticket[t] >= mined /\ ticket[t] \notin pool
  /\ pool' = pool \cup {ticket[t]}
  /\ \/ at' = [at EXCEPT ![t] = "sent"] /\ UNCHANGED ticket
     \/ Leave(t)
  /\ UNCHANGED <<manager, resync, mined, history>>

\* The node refuses it: somebody else's transaction has this nonce.
Refused(t) ==
  /\ at[t] = "building"
  /\ ticket[t] < mined \/ ticket[t] \in pool
  /\ Leave(t)
  /\ UNCHANGED <<manager, resync, chain, history>>

Receipt(t) ==
  /\ at[t] = "sent"
  /\ ticket[t] < mined
  /\ Leave(t)
  /\ UNCHANGED <<manager, resync, chain, history>>

\* wait_for_transaction_receipt() gives up; the transaction stays in the pool.
ReceiptTimeout(t) ==
  /\ at[t] = "sent"
  /\ Leave(t)
  /\ UNCHANGED <<manager, resync, chain, history>>

(***************************************************************************)
(* What the bot does not control                                           *)
(***************************************************************************)

Mine ==
  /\ mined \in pool
  /\ mined' = mined + 1
  /\ pool' = pool \ {mined}
  /\ UNCHANGED <<manager, senders, resync, history>>

\* The owner sends a transaction of the same account from another program.
OwnerSends ==
  /\ \E n \in Nonces : IsPendingCount(n) /\ pool' = pool \cup {n}
  /\ UNCHANGED <<manager, senders, resync, mined, history>>

\* The process stops, by a crash or a shutdown; its memory is lost.
Stop ==
  /\ synced /\ restarts < MaxRestarts
  /\ synced' = FALSE /\ nonce' = 0
  /\ at' = [t \in Tasks |-> "idle"] /\ ticket' = [t \in Tasks |-> 0]
  /\ reading' = FALSE /\ chainNonce' = 0
  /\ base' = 0 /\ wasted' = {} /\ restarts' = restarts + 1
  /\ UNCHANGED <<warns, chain>>

(***************************************************************************)
(* Specification                                                           *)
(***************************************************************************)

Deliver(t) == Abandon(t) \/ Send(t) \/ Refused(t)

Await(t) == Receipt(t) \/ ReceiptTimeout(t)

Next ==
  \/ SyncFromChain \/ ResyncLoop
  \/ \E t \in Tasks : GetNonce(t) \/ Deliver(t) \/ Await(t)
  \/ Mine \/ OwnerSends \/ Stop

Spec == Init /\ [][Next]_vars

\* The operator restarts the bot, every RPC call answers or raises, a wait for
\* a receipt ends after 30 or 60 seconds, the resync loop runs every minute,
\* the strategies keep finding something to send, and the chain mines.
FairSpec ==
  /\ Spec
  /\ WF_vars(SyncFromChain) /\ WF_vars(ResyncRead) /\ WF_vars(ResyncApply)
  /\ WF_vars(Mine)
  /\ \A t \in Tasks : WF_vars(GetNonce(t)) /\ WF_vars(Deliver(t))
                      /\ WF_vars(Await(t))

(***************************************************************************)
(* Properties                                                              *)
(***************************************************************************)

Holding(t) == IF at[t] = "idle" THEN {} ELSE {ticket[t]}

OnChain(n) == n < mined \/ n \in pool

\* No two tasks ever work on transactions with the same nonce, although the
\* resync applies a count it read before other tasks took theirs
\* (nonce_manager.py lines 56-59 and 67-77).
HeldNoncesDistinct ==
  \A t, u \in Tasks : t # u => Holding(t) \cap Holding(u) = {}

\* No nonce is skipped for nothing: each one the manager has passed since the
\* start is on the chain, in the hands of a task, or was wasted by a failure
\* between get_nonce() and the send.  So only such a failure can leave a gap.
EveryNonceAccounted ==
  synced => \A n \in base..(nonce - 1) :
              OnChain(n) \/ n \in wasted \/ \E t \in Tasks : n \in Holding(t)

\* A task waits only for the receipt of a transaction the node has taken.
WaitsForRealTransaction ==
  \A t \in Tasks : at[t] = "sent" => OnChain(ticket[t])

\* A nonce whose transaction was abandoned is never given out again, so that
\* nothing but a restart or the owner can fill its place.
WastedNeverReused ==
  [][\A t \in Tasks : GetNonce(t) => ticket'[t] \notin wasted]_vars

\* The manager implements TicketDispenser: between two starts no nonce is
\* given out twice.
Dispenser ==
  INSTANCE TicketDispenser WITH
    Numbers <- 0..MaxNonce,
    open <- synced,
    retired <- IF synced THEN 0..(nonce - 1) ELSE {},
    holding <- [t \in Tasks |-> Holding(t)]

ImplementsDispenser == Dispenser!Spec

\* A transaction the node has taken is mined, unless a failed sender wasted a
\* nonce below it: there is no other way to get stuck, and a gap left by a run
\* that stopped is filled by the next one.
SentIsMinedOrStalled ==
  \A n \in Nonces :
    n \in pool ~> \/ n < mined
                  \/ \E m \in wasted : mined <= m /\ m < n
=============================================================================
