--------------------------- MODULE Subscriptions ---------------------------
(***************************************************************************)
(* The subscription of a user in src/backend/auth.py: registration,        *)
(* checkout, the Stripe webhook and the strategies a user switches on.     *)
(*                                                                         *)
(* FastAPI runs get_current_user() and require_active_subscription() in    *)
(* its thread pool before the handler, so a request works on the row as    *)
(* it was when these read it; the handlers themselves have no await and    *)
(* run in one piece.  The webhook handler reads its row itself.            *)
(*                                                                         *)
(* Stripe delivers an event at least once, some time after it happened     *)
(* and in any order: an event that has happened may be delivered at any    *)
(* time, any number of times.                                              *)
(* A definition marked `Slip:' is a plausible mistake, kept to test the    *)
(* properties with; nothing uses it.                                       *)
(***************************************************************************)
EXTENDS Sessions

CONSTANTS
  Plans,      \* the plans offered
  Toggled,    \* the strategies users switch on and off
  Subs,       \* Stripe's subscriptions
  Requests,   \* requests to /strategies/toggle under way
  None        \* no subscription, no request

VARIABLES
  row,        \* the row of each user in the table users
  handled,    \* subscription_events: subscriptions whose checkout is recorded
  bought,     \* Stripe: subscription -> user and plan, and its state
  failures,   \* Stripe: customers with a failed payment
  request,    \* what each request has read
  wanted,     \* history: the strategies as each accepted change left them
  stale,      \* history: users with a toggle based on a row changed since
  cancelSeen, \* history: subscriptions whose deletion was delivered
  overtaken   \* history: of these, the ones delivered before their checkout

stripe == <<bought, failures>>
history == <<wanted, stale, cancelSeen, overtaken>>
subVars == <<row, handled, request, stripe, history>>
vars == <<sessionVars, subVars>>

PLAN_STRATEGIES ==
  LET starter == {"liquidation"}
      pro == starter \cup {"arb", "triangular"}
      business == pro \cup {"mev_backrun", "yield"}
      enterprise == business \cup {"cross_chain", "gmx_funding",
                                   "copy_trading", "social_signals"}
  IN [starter |-> starter, pro |-> pro, business |-> business, enterprise |-> enterprise]

AllStrategies == PLAN_STRATEGIES["enterprise"]

Row == [plan : Plans, status : {"inactive", "active", "past_due", "canceled"},
        sub : Subs \cup {None}, customer : BOOLEAN, enabled : SUBSET AllStrategies]
Purchase == [user : Users, plan : Plans, state : {"live", "deleted"}]

ASSUME PlansAssumption ==
  /\ Plans \subseteq DOMAIN PLAN_STRATEGIES /\ "pro" \in Plans
  /\ Toggled \subseteq AllStrategies
  /\ None \notin Subs

TypeOK ==
  /\ SessionTypeOK
  /\ DOMAIN row = registered /\ \A u \in registered : row[u] \in Row
  /\ DOMAIN bought \subseteq Subs /\ \A s \in DOMAIN bought : bought[s] \in Purchase
  /\ handled \subseteq DOMAIN bought /\ failures \subseteq registered
  /\ \A r \in Requests : request[r] # None =>
       /\ request[r].user \in registered /\ request[r].row \in Row
  /\ wanted \in [Users -> SUBSET AllStrategies]
  /\ stale \subseteq registered
  /\ overtaken \subseteq cancelSeen /\ cancelSeen \subseteq DOMAIN bought

Init ==
  /\ SessionInit
  /\ row = << >> /\ handled = {} /\ bought = << >> /\ failures = {}
  /\ request = [r \in Requests |-> None]
  /\ wanted = [u \in Users |-> {}] /\ stale = {} /\ cancelSeen = {} /\ overtaken = {}

Extended(f, x, v) == [y \in DOMAIN f \cup {x} |-> IF y = x THEN v ELSE f[y]]

\* RegisterRequest's validator: a plan that is not offered becomes "pro".
ValidPlan(asked) == IF asked \in DOMAIN PLAN_STRATEGIES THEN asked ELSE "pro"

\* Stripe may fail to create the customer; the user is created all the same.
Register(u, asked, customer) ==
  LET p == ValidPlan(asked) IN
  /\ RegisterSession(u)
  /\ row' = Extended(row, u, [plan |-> p, status |-> "inactive", sub |-> None,
                              customer |-> customer, enabled |-> PLAN_STRATEGIES[p]])
  /\ wanted' = [wanted EXCEPT ![u] = PLAN_STRATEGIES[p]]
  /\ UNCHANGED <<handled, request, stripe, stale, cancelSeen, overtaken>>

-----------------------------------------------------------------------------
(***************************************************************************)
(* Stripe.                                                                 *)
(***************************************************************************)

\* /stripe/checkout and the payment that follows it.
Checkout(u, p, s) ==
  /\ Authorised(u)
  /\ s \notin DOMAIN bought
  /\ bought' = Extended(bought, s, [user |-> u, plan |-> p, state |-> "live"])
  /\ UNCHANGED <<sessionVars, row, handled, failures, request, history>>

EndSubscription(s) ==
  /\ s \in DOMAIN bought /\ bought[s].state = "live"
  /\ bought' = [bought EXCEPT ![s].state = "deleted"]
  /\ UNCHANGED <<sessionVars, row, handled, failures, request, history>>

FailPayment(s) ==
  /\ s \in DOMAIN bought /\ bought[s].state = "live"
  /\ failures' = failures \cup {bought[s].user}
  /\ UNCHANGED <<sessionVars, row, handled, bought, request, history>>

-----------------------------------------------------------------------------
(***************************************************************************)
(* The webhook, one action per event type.                                 *)
(***************************************************************************)

\* Slip: a checkout that is recorded already is handled again.
NotRecordedSkipped(s) == TRUE
\* stripe_event_id is unique: the commit of a second record fails as a whole.
NotRecorded(s) == s \notin handled

\* Slip: the status an event leaves is Stripe's, not the column's.
BuyerAsStripeSays(s) ==
  [row[bought[s].user] EXCEPT !.plan = bought[s].plan, !.status = "complete", !.sub = s]
\* Slip: a user keeps the first subscription.
BuyerKeepsSub(s) ==
  LET b == bought[s]
      old == row[b.user]
  IN [old EXCEPT !.plan = b.plan, !.status = "active",
                 !.sub = IF old.sub = None THEN s ELSE old.sub,
                 !.enabled = PLAN_STRATEGIES[b.plan]]
Buyer(s) ==
  LET b == bought[s]
  IN [row[b.user] EXCEPT !.plan = b.plan, !.status = "active", !.sub = s,
                         !.enabled = PLAN_STRATEGIES[b.plan]]

CheckoutCompleted(s) ==
  /\ s \in DOMAIN bought /\ NotRecorded(s)
  /\ LET u == bought[s].user
     IN /\ row' = [row EXCEPT ![u] = Buyer(s)]
        /\ wanted' = [wanted EXCEPT ![u] = PLAN_STRATEGIES[bought[s].plan]]
        /\ stale' = stale \ {u}
  /\ handled' = handled \cup {s}
  /\ UNCHANGED <<sessionVars, request, stripe, cancelSeen, overtaken>>

SubscriptionDeleted(s) ==
  /\ s \in DOMAIN bought /\ bought[s].state = "deleted"
  /\ row' = [u \in DOMAIN row |->
               IF row[u].sub = s THEN [row[u] EXCEPT !.status = "canceled"] ELSE row[u]]
  /\ cancelSeen' = cancelSeen \cup {s}
  /\ overtaken' = IF s \in handled THEN overtaken ELSE overtaken \cup {s}
  /\ UNCHANGED <<sessionVars, handled, request, stripe, wanted, stale>>

\* A user whose customer could not be created is not found.
PaymentFailed(u) ==
  /\ u \in failures
  /\ row' = IF row[u].customer THEN [row EXCEPT ![u].status = "past_due"] ELSE row
  /\ UNCHANGED <<sessionVars, handled, request, stripe, history>>

-----------------------------------------------------------------------------
(***************************************************************************)
(* PUT /strategies/toggle.                                                 *)
(***************************************************************************)

\* get_current_user() and require_active_subscription().
ReadRow(r, u) ==
  /\ request[r] = None
  /\ Authorised(u) /\ row[u].status = "active"
  /\ request' = [request EXCEPT ![r] = [user |-> u, row |-> row[u]]]
  /\ UNCHANGED <<sessionVars, row, handled, stripe, history>>

\* Slip: disabling replaces the column by the one strategy.
SwitchedWrongly(enabled, s, on) == IF on THEN enabled \cup {s} ELSE {s}
Switched(enabled, s, on) == IF on THEN enabled \cup {s} ELSE enabled \ {s}

\* The column is written only if its text changes; the text of an equal set
\* may differ, since its order is the hash order of strings.
Toggle(r, s, on) ==
  /\ request[r] # None
  /\ LET u == request[r].user
         read == request[r].row
         new == Switched(read.enabled, s, on)
     IN /\ s \in PLAN_STRATEGIES[read.plan]
        /\ \/ row' = [row EXCEPT ![u].enabled = new]
           \/ new = read.enabled /\ UNCHANGED row
        /\ stale' = IF <<read.plan, read.enabled>> = <<row[u].plan, row[u].enabled>>
                      THEN stale ELSE stale \cup {u}
        /\ wanted' = [wanted EXCEPT ![u] = IF on THEN @ \cup {s} ELSE @ \ {s}]
  /\ request' = [request EXCEPT ![r] = None]
  /\ UNCHANGED <<sessionVars, handled, stripe, cancelSeen, overtaken>>

\* The strategy is not in the plan: 403.
RefuseToggle(r, s) ==
  /\ request[r] # None
  /\ s \notin PLAN_STRATEGIES[request[r].row.plan]
  /\ request' = [request EXCEPT ![r] = None]
  /\ UNCHANGED <<sessionVars, row, handled, stripe, history>>

-----------------------------------------------------------------------------
Next ==
  \/ \E u \in Users, p \in Plans \cup {"gratis"}, c \in BOOLEAN : Register(u, p, c)
  \/ \E u \in Users : Login(u) /\ UNCHANGED subVars
  \/ \E u \in Users : Refresh(u) /\ UNCHANGED subVars
  \/ TimePasses /\ UNCHANGED subVars
  \/ \E u \in Users, p \in Plans, s \in Subs : Checkout(u, p, s)
  \/ \E s \in Subs : \/ EndSubscription(s) \/ FailPayment(s)
                     \/ CheckoutCompleted(s) \/ SubscriptionDeleted(s)
  \/ \E u \in Users : PaymentFailed(u)
  \/ \E r \in Requests :
       \/ \E u \in Users : ReadRow(r, u)
       \/ \E s \in Toggled, on \in BOOLEAN : Toggle(r, s, on)
       \/ \E s \in Toggled : RefuseToggle(r, s)

Spec == Init /\ [][Next]_vars

-----------------------------------------------------------------------------
(***************************************************************************)
(* Two endpoints write a user's strategies, and one of them on the basis   *)
(* of a row it read earlier.  As long as no toggle since the last checkout *)
(* was based on a row that had changed meanwhile, the column is what the   *)
(* accepted changes add up to, and nothing outside the user's plan is      *)
(* enabled.                                                                *)
(***************************************************************************)
TogglesKept ==
  /\ TypeOK
  /\ \A u \in registered \ stale :
       /\ row[u].enabled = wanted[u]
       /\ row[u].enabled \subseteq PLAN_STRATEGIES[row[u].plan]

(***************************************************************************)
(* A user becomes active by a checkout that was not counted before:        *)
(* delivered again after a cancellation or a failed payment, an event      *)
(* changes nothing.                                                        *)
(***************************************************************************)
OnlyNewCheckoutActivates ==
  [][\A u \in registered :
       row'[u].status = "active" /\ row[u].status # "active"
         => \E s \in handled' \ handled : bought[s].user = u]_vars

(***************************************************************************)
(* An active user's subscription has no delivered deletion, except one     *)
(* that overtook the checkout it ends: the webhook looks the user up by    *)
(* the subscription and finds nobody, and nothing ever ends that           *)
(* subscription again.                                                     *)
(***************************************************************************)
CancellationsTakeEffect ==
  \A u \in registered :
    row[u].status = "active" => row[u].sub \notin cancelSeen \ overtaken

=============================================================================
