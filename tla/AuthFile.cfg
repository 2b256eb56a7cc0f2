SPECIFICATION Spec
CONSTANTS
  Providers = {p1, p2}
  Plugins = {g1}
  Updates = {u1, u2, u3}
  None = None
CHECK_DEADLOCK FALSE
PROPERTIES
  IsAtomicStore
  UpdateAnswered
