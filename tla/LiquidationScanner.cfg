CONSTANTS
  Borrowers <- ThreeBorrowers
  Accounts <- SoundOrNot
  BATCH_SIZE = 1
  MAX_TRACKED_BORROWERS = 1
  TTL = 2
SPECIFICATION FairSpec
INVARIANTS
  MapsAgree
  OnlyFailedChecksForget
PROPERTIES
  ForgottenOnesExpire
