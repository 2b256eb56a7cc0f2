SPECIFICATION Spec
CONSTANTS
  Commands = {s1, s2}
  Edits = {e1}
  first = first
  dead = dead
  None = None
CHECK_DEADLOCK FALSE
INVARIANT LockSerializesWriters
