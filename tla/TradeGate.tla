----------------------------- MODULE TradeGate -----------------------------
(***************************************************************************)
(* What the risk gate promises to an operator, whatever it checks inside:  *)
(* while trading is halted no strategy is let through, except for the one  *)
(* whose check was already under way when the halt came (the straggler).   *)
(***************************************************************************)
CONSTANT Strategies

VARIABLES
  halted,     \* trading is halted
  straggler,  \* a check begun before the halt may still end in a grant
  trading     \* the strategies that have been let through

vars == <<halted, straggler, trading>>

Init ==
  /\ halted = FALSE
  /\ straggler = FALSE
  /\ trading = {}

Grant(s) ==
  /\ s \notin trading
  /\ halted => straggler
  /\ trading' = trading \cup {s}
  /\ straggler' = FALSE
  /\ UNCHANGED halted

Finish(s) ==
  /\ s \in trading
  /\ trading' = trading \ {s}
  /\ UNCHANGED <<halted, straggler>>

Halt ==
  /\ ~halted
  /\ halted' = TRUE
  /\ straggler' \in BOOLEAN
  /\ UNCHANGED trading

\* The straggler is refused after all.
Forfeit ==
  /\ straggler
  /\ straggler' = FALSE
  /\ UNCHANGED <<halted, trading>>

Lift ==
  /\ halted
  /\ halted' = FALSE
  /\ straggler' = FALSE
  /\ UNCHANGED trading

Next ==
  \/ \E s \in Strategies : Grant(s) \/ Finish(s)
  \/ Halt
  \/ Forfeit
  \/ Lift

Spec == Init /\ [][Next]_vars
=============================================================================
