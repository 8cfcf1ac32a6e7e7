----------------------------- MODULE NonceClaims -----------------------------
(***************************************************************************)
(* What nonce_manager.py says of the resync, to be compared with what the  *)
(* code does.                                                              *)
(***************************************************************************)
EXTENDS NonceManager

\* nonce_manager.py line 9, `Gap detection: if chain nonce > local, resync':
\* after a resync that saw the chain ahead, the manager is not behind it.
ResyncCatchesUp ==
  [][ResyncApply /\ chainNonce > nonce => nonce' >= chainNonce]_vars

=============================================================================
