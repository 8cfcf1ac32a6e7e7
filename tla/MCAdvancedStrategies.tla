------------------------ MODULE MCAdvancedStrategies ------------------------
(* Values for TLC.  The blocks are those around the one block of a thousand  *)
(* in which the funding rate is at its lowest.                               *)
EXTENDS AdvancedStrategies

Swaps == {[eth |-> 20, calldata |-> "short"], [eth |-> 10, calldata |-> "long"],
          [eth |-> 0, calldata |-> "long"], [eth |-> 0, calldata |-> "short"]}
Markets == <<"ETH-USD", "BTC-USD", "ARB-USD">>
AllChains == {"arbitrum", "base", "polygon", "optimism"}
Prices == {3000, 3500}
=============================================================================
