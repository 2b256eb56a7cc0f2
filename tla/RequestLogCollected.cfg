SPECIFICATION Spec
CONSTANT Modes = {"stream", "stream-only", "generate"}
CHECK_DEADLOCK FALSE
INVARIANT CancelIsQuiet
