------------------------ MODULE MCLiquidationScanner ------------------------
(* Values for TLC: a sound account with debt and a liquidatable one.         *)
EXTENDS LiquidationScanner

ThreeBorrowers == 1..3
SoundOrNot == {[hf |-> 150, debt |-> 1], [hf |-> 96, debt |-> 2]}
=============================================================================
