-------------------------- MODULE MCProfitPipeline --------------------------
(* Values for TLC: two pairs on two exchanges whose quotes differ by         *)
(* nothing, too little, or enough; a triangle that loses, or earns.          *)
EXTENDS ProfitPipeline

TwoPairs == 1..2
Quotes == {0, 10000, 10005, 10020}
Triangle == {0, 499000, 500800}
=============================================================================
