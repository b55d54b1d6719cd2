\* A documented property, with one checker.
SPECIFICATION Spec
CONSTANTS
    Checkers = {c1}
    Hanging = {}
INVARIANTS
    SignalExitsCleanly
CHECK_DEADLOCK FALSE
