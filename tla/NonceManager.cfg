CONSTANTS
  Tasks = {arb, collect, deposit}
  MaxNonce = 3
  MaxRestarts = 1
SPECIFICATION FairSpec
INVARIANTS
  TypeOK
  HeldNoncesDistinct
  EveryNonceAccounted
PROPERTIES
  WastedNeverReused
  ImplementsDispenser
  SentIsMinedOrStalled
