CONSTANTS
  Browsers = {b1, b2}
  Calls = {c1, c2}
  Tokens = {r1, r2}
  None = None
SPECIFICATION Spec
INVARIANTS TypeOK SessionIsLatest StaysSignedIn
PROPERTY LosesAccess
