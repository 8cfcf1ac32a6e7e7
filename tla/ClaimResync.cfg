CONSTANTS
  Tasks = {arb, deposit}
  MaxNonce = 3
  MaxRestarts = 1
SPECIFICATION Spec
PROPERTY ResyncCatchesUp
