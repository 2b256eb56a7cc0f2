SPECIFICATION Spec
CONSTANTS
  Providers = {p, q}
  ClientCredentials = {q}
  Callers = {c1, c2}
  MaxGeneration = 1
SYMMETRY Symmetry
INVARIANT StoreMatchesGeneration
CHECK_DEADLOCK FALSE
