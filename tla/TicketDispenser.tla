-------------------------- MODULE TicketDispenser --------------------------
(***************************************************************************)
(* What the nonce manager promises to the tasks that share one account:    *)
(* from one start of the bot to the next, no number is given out twice.    *)
(* Numbers may be skipped, and a holder may let go of its number at any    *)
(* time, used or not.                                                      *)
(***************************************************************************)
CONSTANTS Tasks, Numbers

VARIABLES
  open,     \* numbers are being given out
  retired,  \* the numbers that will not be given out any more
  holding   \* what each task holds: a set of at most one number

vars == <<open, retired, holding>>

Init ==
  /\ open = FALSE
  /\ retired = {}
  /\ holding = [t \in Tasks |-> {}]

Open ==
  /\ ~open
  /\ open' = TRUE
  /\ retired' \in SUBSET Numbers
  /\ UNCHANGED holding

Give(t) ==
  /\ open
  /\ holding[t] = {}
  /\ \E n \in Numbers \ retired :
       /\ retired' = retired \cup {n}
       /\ holding' = [holding EXCEPT ![t] = {n}]
  /\ UNCHANGED open

LetGo(t) ==
  /\ holding[t] # {}
  /\ holding' = [holding EXCEPT ![t] = {}]
  /\ UNCHANGED <<open, retired>>

Skip ==
  /\ open
  /\ retired' \in SUBSET Numbers
  /\ retired \subseteq retired'
  /\ UNCHANGED <<open, holding>>

Close ==
  /\ open
  /\ open' = FALSE
  /\ retired' = {}
  /\ holding' = [t \in Tasks |-> {}]

Next ==
  \/ Open
  \/ \E t \in Tasks : Give(t) \/ LetGo(t)
  \/ Skip
  \/ Close

Spec == Init /\ [][Next]_vars
=============================================================================
