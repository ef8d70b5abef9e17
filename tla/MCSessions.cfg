SPECIFICATION Spec
CONSTANTS
  Request = {r1, r2}
  MaxToken = 3
SYMMETRY Symmetry
INVARIANTS
  NoSilentOrphan
  CookieUsable
PROPERTIES
  ForksAreConcurrent
