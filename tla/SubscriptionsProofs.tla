------------------------- MODULE SubscriptionsProofs -------------------------
(***************************************************************************)
(* Proofs about Subscriptions and Sessions, for any users, subscriptions,  *)
(* requests and lifetimes of tokens.                                       *)
(***************************************************************************)
EXTENDS Subscriptions, TLAPS

(***************************************************************************)
(* The end of sessions.  A refresh token has been running down ever since  *)
(* the password was shown, so it bounds the age; the access tokens it      *)
(* bought bound it once it is gone.                                        *)
(***************************************************************************)
TokensRunOut ==
  \A u \in Users :
    /\ refresh[u] > 0 => age[u] + refresh[u] <= RefreshLife
    /\ access[u] > 0 => age[u] + access[u] <= SessionLimit

SessionInv ==
  /\ SessionTypeOK
  /\ TokensRunOut
  /\ \A u \in Users : access[u] > 0 \/ refresh[u] > 0 => u \in registered

\* What a step may do to the accounts and tokens.
SessionStep ==
  \/ \E u \in Users : RegisterSession(u) \/ Login(u) \/ Refresh(u)
  \/ TimePasses

LEMMA SessionKeeps ==
  ASSUME SessionInv, SessionStep \/ UNCHANGED sessionVars
  PROVE  SessionInv'
<1> USE LivesAssumption DEF SessionInv, SessionTypeOK, TokensRunOut, SessionLimit
<1>1. CASE UNCHANGED sessionVars
  BY <1>1 DEF sessionVars
<1>2. ASSUME NEW u \in Users, RegisterSession(u) \/ Login(u)
      PROVE  SessionInv'
  BY <1>2 DEF RegisterSession, Login, GivePair
<1>3. ASSUME NEW u \in Users, Refresh(u)
      PROVE  SessionInv'
  BY <1>3 DEF Refresh, TakesRefreshToken
<1>4. CASE TimePasses
  <2>1. \A u \in Users : /\ access'[u] = Less(access[u]) /\ refresh'[u] = Less(refresh[u])
                         /\ age'[u] = IF age[u] < SessionLimit THEN age[u] + 1 ELSE age[u]
    BY <1>4 DEF TimePasses
  <2>2. /\ access' \in [Users -> 0..AccessLife]
        /\ refresh' \in [Users -> 0..RefreshLife]
        /\ age' \in [Users -> 0..SessionLimit]
    BY <1>4 DEF TimePasses, Less
  <2>3. QED
    BY <1>4, <2>1, <2>2 DEF TimePasses, Less
<1>5. QED
  BY <1>1, <1>2, <1>3, <1>4 DEF SessionStep

LEMMA SessionsStart == SessionInit => SessionInv
BY LivesAssumption
   DEF SessionInit, SessionInv, SessionTypeOK, TokensRunOut, SessionLimit

(***************************************************************************)
(* The plans.                                                              *)
(***************************************************************************)
LEMMA PlanStrategies ==
  /\ \A p \in DOMAIN PLAN_STRATEGIES : PLAN_STRATEGIES[p] \subseteq AllStrategies
  /\ Plans \subseteq DOMAIN PLAN_STRATEGIES
  /\ \A p \in Plans \cup {"gratis"} : ValidPlan(p) \in Plans
<1>1. DOMAIN PLAN_STRATEGIES = {"starter", "pro", "business", "enterprise"}
  BY DEF PLAN_STRATEGIES
<1>2. \A p \in DOMAIN PLAN_STRATEGIES : PLAN_STRATEGIES[p] \subseteq AllStrategies
  BY <1>1 DEF PLAN_STRATEGIES, AllStrategies
<1>3. \A p \in Plans \cup {"gratis"} : ValidPlan(p) \in Plans
  BY <1>1, PlansAssumption DEF ValidPlan
<1>4. QED BY <1>2, <1>3, PlansAssumption

(***************************************************************************)
(* The inductive invariant of the subscriptions: only registered users     *)
(* hold tokens, buy or fail to pay, so every event finds a row; and a      *)
(* deletion that was delivered came after its checkout or is counted among *)
(* the overtaken.                                                          *)
(***************************************************************************)
BuyersRegistered == \A s \in DOMAIN bought : bought[s].user \in registered

SubsTyped ==
  /\ TypeOK /\ SessionInv /\ BuyersRegistered
  /\ DOMAIN request = Requests

DeletionsKnown == cancelSeen \ handled \subseteq overtaken

SubsInv == SubsTyped /\ DeletionsKnown /\ TogglesKept /\ CancellationsTakeEffect

\* Every step is one of the sessions too.
LEMMA StepsSessions == Next => SessionStep \/ UNCHANGED sessionVars
BY DEF Next, SessionStep, Register, Checkout, EndSubscription, FailPayment,
       CheckoutCompleted, SubscriptionDeleted, PaymentFailed, ReadRow, Toggle, RefuseToggle

LEMMA SubsStart == Init => SubsInv
<1> SUFFICES ASSUME Init PROVE SubsInv
  OBVIOUS
<1>1. SessionInv /\ SessionTypeOK
  BY SessionsStart DEF Init, SessionInv
<1>2. registered = {} /\ row = << >> /\ bought = << >>
  BY DEF Init, SessionInit
<1>3. TypeOK
  BY <1>1, <1>2 DEF Init, TypeOK
<1>4. SubsTyped
  BY <1>1, <1>2, <1>3 DEF Init, SubsTyped, BuyersRegistered
<1>5. DeletionsKnown /\ TogglesKept /\ CancellationsTakeEffect
  BY <1>2, <1>3 DEF Init, DeletionsKnown, TogglesKept, CancellationsTakeEffect
<1>6. QED BY <1>4, <1>5 DEF SubsInv

(***************************************************************************)
(* Rows stay rows, and what refers to them finds them.                     *)
(***************************************************************************)
LEMMA TypeKeeps == SubsTyped /\ Next => SubsTyped'
<1> SUFFICES ASSUME SubsTyped, Next PROVE SubsTyped'
  OBVIOUS
<1>0. SessionInv' /\ SessionTypeOK'
  BY StepsSessions, SessionKeeps DEF SubsTyped, SessionInv
<1> USE DEF SubsTyped, TypeOK, BuyersRegistered
<1>1. ASSUME NEW u \in Users, NEW p \in Plans \cup {"gratis"}, NEW c \in BOOLEAN,
             Register(u, p, c)
      PROVE  SubsTyped'
  <2> DEFINE q == ValidPlan(p)
             new == [plan |-> q, status |-> "inactive", sub |-> None,
                     customer |-> c, enabled |-> PLAN_STRATEGIES[q]]
  <2>1. q \in Plans /\ PLAN_STRATEGIES[q] \subseteq AllStrategies
    BY PlanStrategies
  <2>2. new \in Row
    BY <2>1 DEF Row
  <2> HIDE DEF q, new
  <2>3. registered' = registered \cup {u} /\ row' = Extended(row, u, new)
    BY <1>1 DEF Register, RegisterSession, new, q
  <2>4. DOMAIN row' = registered' /\ \A v \in registered' : row'[v] \in Row
    BY <2>2, <2>3 DEF Extended
  <2>5. wanted' \in [Users -> SUBSET AllStrategies]
    BY <1>1, <2>1 DEF Register, q
  <2>6. QED BY <1>0, <1>1, <2>3, <2>4, <2>5 DEF Register, stripe
<1>2. ASSUME NEW u \in Users, NEW p \in Plans, NEW s \in Subs, Checkout(u, p, s)
      PROVE  SubsTyped'
  <2>1. u \in registered
    BY <1>2 DEF Checkout, Authorised, SessionInv
  <2>2. [user |-> u, plan |-> p, state |-> "live"] \in Purchase
    BY DEF Purchase
  <2>3. QED BY <1>0, <1>2, <2>1, <2>2 DEF Checkout, sessionVars, history, Extended
<1>3. ASSUME NEW s \in Subs, EndSubscription(s)
      PROVE  SubsTyped'
  BY <1>0, <1>3 DEF EndSubscription, Purchase, sessionVars, history
<1>4. ASSUME NEW s \in Subs, FailPayment(s)
      PROVE  SubsTyped'
  BY <1>0, <1>4 DEF FailPayment, sessionVars, history
<1>5. ASSUME NEW s \in Subs, CheckoutCompleted(s)
      PROVE  SubsTyped'
  <2>1. /\ bought[s] \in Purchase /\ bought[s].user \in registered
        /\ PLAN_STRATEGIES[bought[s].plan] \subseteq AllStrategies
    BY <1>5, PlanStrategies DEF CheckoutCompleted, Purchase
  <2>2. Buyer(s) \in Row
    <3> DEFINE old == row[bought[s].user]
               strategies == PLAN_STRATEGIES[bought[s].plan]
    <3>1. old \in Row /\ s \in Subs \cup {None} /\ bought[s].plan \in Plans
      BY <2>1 DEF Purchase
    <3>2. strategies \in SUBSET AllStrategies
      BY <2>1
    <3>3. Buyer(s) = [old EXCEPT !.plan = bought[s].plan, !.status = "active",
                                 !.sub = s, !.enabled = strategies]
      BY DEF Buyer
    <3> HIDE DEF old, strategies
    <3>4. QED BY ONLY <3>1, <3>2, <3>3 DEF Row
  <2>3. QED BY <1>0, <1>5, <2>1, <2>2 DEF CheckoutCompleted, sessionVars, stripe
<1>6. ASSUME NEW s \in Subs, SubscriptionDeleted(s)
      PROVE  SubsTyped'
  <2>1. DOMAIN row' = registered /\ \A u \in registered : row'[u] \in Row
    BY <1>6 DEF SubscriptionDeleted, Row
  <2>2. QED BY <1>0, <1>6, <2>1 DEF SubscriptionDeleted, sessionVars, stripe
<1>7. ASSUME NEW u \in Users, PaymentFailed(u)
      PROVE  SubsTyped'
  <2>1. DOMAIN row' = registered /\ \A v \in registered : row'[v] \in Row
    BY <1>7 DEF PaymentFailed, Row
  <2>2. QED BY <1>0, <1>7, <2>1 DEF PaymentFailed, sessionVars, stripe, history
<1>8. ASSUME NEW r \in Requests, NEW u \in Users, ReadRow(r, u)
      PROVE  SubsTyped'
  <2>1. u \in registered
    BY <1>8 DEF ReadRow, Authorised, SessionInv
  <2>2. QED BY <1>0, <1>8, <2>1 DEF ReadRow, sessionVars, stripe, history
<1>9. ASSUME NEW r \in Requests, NEW s \in Toggled, NEW on \in BOOLEAN, Toggle(r, s, on)
      PROVE  SubsTyped'
  <2> DEFINE u == request[r].user
             new == Switched(request[r].row.enabled, s, on)
  <2>1. u \in registered /\ request[r].row \in Row /\ row[u] \in Row /\ s \in AllStrategies
    BY <1>9, PlansAssumption DEF Toggle
  <2>2. new \subseteq AllStrategies
    BY <2>1 DEF Row, Switched
  <2> HIDE DEF u, new
  <2>3. row' = [row EXCEPT ![u].enabled = new] \/ UNCHANGED row
    BY <1>9 DEF Toggle, u, new
  <2>4. DOMAIN row' = registered /\ \A v \in registered : row'[v] \in Row
    BY <2>1, <2>2, <2>3 DEF Row
  <2>5. stale' \subseteq registered /\ wanted' \in [Users -> SUBSET AllStrategies]
    BY <1>9, <2>1 DEF Toggle, u, SessionTypeOK
  <2>6. DOMAIN request' = Requests
        /\ \A q \in Requests : request'[q] # None => q # r /\ request'[q] = request[q]
    BY <1>9 DEF Toggle
  <2>7. QED BY <1>0, <1>9, <2>4, <2>5, <2>6 DEF Toggle, sessionVars, stripe
<1>10. ASSUME NEW r \in Requests, NEW s \in Toggled, RefuseToggle(r, s)
       PROVE  SubsTyped'
  BY <1>0, <1>10 DEF RefuseToggle, sessionVars, stripe, history
<1>11. ASSUME UNCHANGED subVars,
              TimePasses \/ \E u \in Users : Login(u) \/ Refresh(u)
       PROVE  SubsTyped'
  BY <1>0, <1>11 DEF subVars, stripe, history, TimePasses, Login, Refresh
<1>12. QED
  BY <1>1, <1>2, <1>3, <1>4, <1>5, <1>6, <1>7, <1>8, <1>9, <1>10, <1>11 DEF Next

(***************************************************************************)
(* What each step does to the rows, the wanted strategies and the history: *)
(* only the five steps of the webhook and the toggle touch them.           *)
(***************************************************************************)
LEMMA RowsUntouched ==
  ASSUME Next,
         ~\E u \in Users, p \in Plans \cup {"gratis"}, c \in BOOLEAN : Register(u, p, c),
         ~\E s \in Subs : CheckoutCompleted(s) \/ SubscriptionDeleted(s),
         ~\E u \in Users : PaymentFailed(u),
         ~\E r \in Requests, s \in Toggled, on \in BOOLEAN : Toggle(r, s, on)
  PROVE  UNCHANGED <<registered, row, handled, history>>
BY DEF Next, Login, Refresh, TimePasses, Checkout, EndSubscription, FailPayment,
       ReadRow, RefuseToggle, subVars, sessionVars, history

(***************************************************************************)
(* Only the deliveries change what is known of deletions; and an active    *)
(* row was made active by a checkout, after any deletion in the right      *)
(* order.                                                                  *)
(***************************************************************************)
LEMMA DeletionsKeep ==
  SubsTyped /\ DeletionsKnown /\ CancellationsTakeEffect /\ Next
    => DeletionsKnown' /\ CancellationsTakeEffect'
<1> SUFFICES ASSUME SubsTyped, DeletionsKnown, CancellationsTakeEffect, Next
             PROVE  DeletionsKnown' /\ CancellationsTakeEffect'
  OBVIOUS
<1> USE DEF SubsTyped, TypeOK, BuyersRegistered, DeletionsKnown, CancellationsTakeEffect
<1>1. ASSUME NEW u \in Users, NEW p \in Plans \cup {"gratis"}, NEW c \in BOOLEAN,
             Register(u, p, c)
      PROVE  DeletionsKnown' /\ CancellationsTakeEffect'
  BY <1>1 DEF Register, RegisterSession, Extended
<1>2. ASSUME NEW s \in Subs, CheckoutCompleted(s)
      PROVE  DeletionsKnown' /\ CancellationsTakeEffect'
  <2>1. s \notin cancelSeen' \ overtaken'
    BY <1>2 DEF CheckoutCompleted, NotRecorded
  <2>2. \A u \in registered :
          \/ row'[u] = row[u]
          \/ row'[u].sub = s
    BY <1>2 DEF CheckoutCompleted, Buyer, Row
  <2>3. QED BY <1>2, <2>1, <2>2 DEF CheckoutCompleted, sessionVars
<1>3. ASSUME NEW s \in Subs, SubscriptionDeleted(s)
      PROVE  DeletionsKnown' /\ CancellationsTakeEffect'
  <2>1. \A u \in registered :
          \/ row'[u].status = "canceled"
          \/ row'[u] = row[u] /\ row[u].sub # s
    BY <1>3 DEF SubscriptionDeleted, Row
  <2>2. QED BY <1>3, <2>1 DEF SubscriptionDeleted, sessionVars
<1>4. ASSUME NEW v \in Users, PaymentFailed(v)
      PROVE  DeletionsKnown' /\ CancellationsTakeEffect'
  <2>1. \A u \in registered : row'[u] = row[u] \/ row'[u].status = "past_due"
    BY <1>4 DEF PaymentFailed, Row
  <2>2. QED BY <1>4, <2>1 DEF PaymentFailed, sessionVars, history
<1>5. ASSUME NEW r \in Requests, NEW s \in Toggled, NEW on \in BOOLEAN, Toggle(r, s, on)
      PROVE  DeletionsKnown' /\ CancellationsTakeEffect'
  <2>1. \A u \in registered : row'[u].status = row[u].status /\ row'[u].sub = row[u].sub
    BY <1>5 DEF Toggle, Row
  <2>2. QED BY <1>5, <2>1 DEF Toggle, sessionVars
<1>6. CASE UNCHANGED <<registered, row, handled, history>>
  BY <1>6 DEF history
<1>7. QED BY <1>1, <1>2, <1>3, <1>4, <1>5, <1>6, RowsUntouched

(***************************************************************************)
(* The strategies: a toggle that read the row as it still is adds what was *)
(* asked for; any other marks its user as stale until the next checkout.   *)
(***************************************************************************)
LEMMA TogglesKeep == SubsTyped /\ TogglesKept /\ Next => TogglesKept'
<1> SUFFICES ASSUME SubsTyped, TogglesKept, Next PROVE TogglesKept'
  OBVIOUS
<1>0. TypeOK'
  BY TypeKeeps DEF SubsTyped
<1> DEFINE Kept(u) == /\ row[u].enabled = wanted[u]
                      /\ row[u].enabled \subseteq PLAN_STRATEGIES[row[u].plan]
<1> SUFFICES ASSUME NEW u \in registered', u \notin stale'
               PROVE  Kept(u)'
  BY <1>0 DEF TogglesKept
<1>2. u \in registered /\ u \notin stale => Kept(u)
  BY DEF TogglesKept
<1> USE DEF SubsTyped, TypeOK, SessionTypeOK, BuyersRegistered
<1>3. ASSUME NEW v \in Users, NEW p \in Plans \cup {"gratis"}, NEW c \in BOOLEAN,
             Register(v, p, c)
      PROVE  Kept(u)'
  <2>1. CASE u = v
    BY <1>3, <2>1 DEF Register, RegisterSession, Extended
  <2>2. CASE u # v
    BY <1>2, <1>3, <2>2 DEF Register, RegisterSession, Extended
  <2>3. QED BY <2>1, <2>2
<1>4. ASSUME NEW s \in Subs, CheckoutCompleted(s)
      PROVE  Kept(u)'
  <2>1. u \in registered
    BY <1>4 DEF CheckoutCompleted, sessionVars
  <2>2. CASE u = bought[s].user
    BY <1>4, <2>1, <2>2 DEF CheckoutCompleted, Buyer, Row
  <2>3. CASE u # bought[s].user
    BY <1>2, <1>4, <2>1, <2>3 DEF CheckoutCompleted
  <2>4. QED BY <2>2, <2>3
<1>5. ASSUME NEW s \in Subs, SubscriptionDeleted(s)
      PROVE  Kept(u)'
  <2>1. /\ u \in registered /\ UNCHANGED <<wanted, stale>>
        /\ row'[u].enabled = row[u].enabled /\ row'[u].plan = row[u].plan
    BY <1>5 DEF SubscriptionDeleted, sessionVars, Row
  <2>2. QED BY <1>2, <2>1
<1>6. ASSUME NEW v \in Users, PaymentFailed(v)
      PROVE  Kept(u)'
  <2>1. /\ u \in registered /\ UNCHANGED <<wanted, stale>>
        /\ row'[u].enabled = row[u].enabled /\ row'[u].plan = row[u].plan
    BY <1>6 DEF PaymentFailed, sessionVars, history, Row
  <2>2. QED BY <1>2, <2>1
<1>7. ASSUME NEW r \in Requests, NEW s \in Toggled, NEW on \in BOOLEAN, Toggle(r, s, on)
      PROVE  Kept(u)'
  <2> DEFINE v == request[r].user
             read == request[r].row
             new == Switched(read.enabled, s, on)
  <2>1. u \in registered /\ u \notin stale /\ v \in registered
    BY <1>7 DEF Toggle, sessionVars
  <2>2. CASE u # v
    <3>1. row'[u] = row[u] /\ wanted'[u] = wanted[u]
      BY <1>7, <2>1, <2>2 DEF Toggle
    <3>2. QED BY <1>2, <2>1, <3>1
  <2>3. CASE u = v
    <3>1. read.plan = row[u].plan /\ read.enabled = row[u].enabled
      BY <1>7, <2>3 DEF Toggle
    <3>2. row'[u].plan = row[u].plan /\ row'[u].enabled = new
      BY <1>7, <2>1, <2>3, <3>1 DEF Toggle, Row
    <3>3. wanted'[u] = Switched(wanted[u], s, on)
      BY <1>7, <2>1, <2>3 DEF Toggle, Switched
    <3>4. s \in PLAN_STRATEGIES[row[u].plan]
      BY <1>7, <3>1 DEF Toggle
    <3>5. QED BY <1>2, <2>1, <3>1, <3>2, <3>3, <3>4 DEF Switched
  <2>4. QED BY <2>2, <2>3
<1>8. CASE UNCHANGED <<registered, row, handled, history>>
  BY <1>2, <1>8 DEF history
<1>9. QED BY <1>3, <1>4, <1>5, <1>6, <1>7, <1>8, RowsUntouched

(***************************************************************************)
(* The inductive invariant holds in every state.                           *)
(***************************************************************************)
THEOREM SubscriptionsInvariant == Spec => []SubsInv
<1>1. SubsInv /\ [Next]_vars => SubsInv'
  <2> SUFFICES ASSUME SubsInv, [Next]_vars PROVE SubsInv'
    OBVIOUS
  <2>1. CASE Next
    BY <2>1, TypeKeeps, DeletionsKeep, TogglesKeep DEF SubsInv
  <2>2. CASE UNCHANGED vars
    BY <2>2
       DEF vars, subVars, sessionVars, stripe, history, SubsInv, SubsTyped, TypeOK,
           SessionTypeOK, SessionInv, TokensRunOut, BuyersRegistered, DeletionsKnown,
           TogglesKept, CancellationsTakeEffect
  <2>3. QED BY <2>1, <2>2
<1>2. QED BY SubsStart, <1>1, PTL DEF Spec

(***************************************************************************)
(* A session ends: for any users and lifetimes, nobody is let in longer    *)
(* than a refresh token and an access token last after the password.       *)
(***************************************************************************)
THEOREM SessionsEndTheorem == Spec => []SessionsEnd
<1>1. SubsInv => SessionsEnd
  <2> SUFFICES ASSUME SubsInv, NEW u \in Users, access[u] > 0
               PROVE  age[u] < SessionLimit
    BY DEF SessionsEnd, Authorised
  <2>1. /\ access[u] \in Nat /\ age[u] \in Nat /\ SessionLimit \in Nat
        /\ age[u] + access[u] <= SessionLimit
    BY LivesAssumption
       DEF SubsInv, SubsTyped, SessionInv, SessionTypeOK, TokensRunOut, SessionLimit
  <2>2. QED BY <2>1
<1>2. QED BY <1>1, SubscriptionsInvariant, PTL

(***************************************************************************)
(* The column of strategies is what the accepted changes add up to, within *)
(* the plan, unless a toggle worked on an old row.                         *)
(***************************************************************************)
THEOREM TogglesKeptTheorem == Spec => []TogglesKept
<1>1. SubsInv => TogglesKept
  BY DEF SubsInv
<1>2. QED BY <1>1, SubscriptionsInvariant, PTL

(***************************************************************************)
(* Nobody stays active on a subscription whose deletion was delivered,     *)
(* unless the deletion overtook its checkout.                              *)
(***************************************************************************)
THEOREM CancellationsTheorem == Spec => []CancellationsTakeEffect
<1>1. SubsInv => CancellationsTakeEffect
  BY DEF SubsInv
<1>2. QED BY <1>1, SubscriptionsInvariant, PTL

(***************************************************************************)
(* Only a checkout not recorded before makes a user active.                *)
(***************************************************************************)
THEOREM OnlyNewCheckoutTheorem == Spec => OnlyNewCheckoutActivates
<1> DEFINE Activation == \A u \in registered :
             row'[u].status = "active" /\ row[u].status # "active"
               => \E s \in handled' \ handled : bought[s].user = u
<1>1. SubsInv /\ [Next]_vars => [Activation]_vars
  <2> SUFFICES ASSUME SubsInv, Next, NEW u \in registered,
                      row'[u].status = "active", row[u].status # "active"
               PROVE  \E s \in handled' \ handled : bought[s].user = u
    OBVIOUS
  <2> USE DEF SubsInv, SubsTyped, TypeOK, BuyersRegistered
  <2>1. ASSUME NEW s \in Subs, CheckoutCompleted(s)
        PROVE  \E t \in handled' \ handled : bought[t].user = u
    <3>1. u = bought[s].user
      BY <2>1 DEF CheckoutCompleted
    <3>2. QED BY <2>1, <3>1 DEF CheckoutCompleted, NotRecorded
  <2>2. ASSUME NEW v \in Users, NEW p \in Plans \cup {"gratis"}, NEW c \in BOOLEAN,
               Register(v, p, c)
        PROVE  FALSE
    BY <2>2 DEF Register, RegisterSession, Extended
  <2>3. ASSUME NEW s \in Subs, SubscriptionDeleted(s)
        PROVE  FALSE
    BY <2>3 DEF SubscriptionDeleted, Row
  <2>4. ASSUME NEW v \in Users, PaymentFailed(v)
        PROVE  FALSE
    BY <2>4 DEF PaymentFailed, Row
  <2>5. ASSUME NEW r \in Requests, NEW s \in Toggled, NEW on \in BOOLEAN, Toggle(r, s, on)
        PROVE  FALSE
    BY <2>5 DEF Toggle, Row
  <2>6. ~UNCHANGED <<registered, row, handled, history>>
    OBVIOUS
  <2>7. QED BY <2>1, <2>2, <2>3, <2>4, <2>5, <2>6, RowsUntouched
<1>2. QED BY <1>1, SubscriptionsInvariant, PTL DEF Spec, OnlyNewCheckoutActivates
=============================================================================
