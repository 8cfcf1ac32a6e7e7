CONSTANTS
  Users = {alice}
  AccessLife = 2
  RefreshLife = 2
  Plans = {"starter", "pro"}
  Toggled = {"arb", "triangular"}
  Subs = {s1, s2}
  Requests = {r1, r2}
  None = none
SPECIFICATION Spec
SYMMETRY Symmetry
INVARIANTS
  SessionsEnd
  TogglesKept
  CancellationsTakeEffect
PROPERTY OnlyNewCheckoutActivates
