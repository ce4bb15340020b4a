\* A person invalidates the claim while its evaluator is completing it.
SPECIFICATION Spec
CONSTANTS
    Procs = {p1, p2}
    None = None
    Frozen = 1
    Tables = 1
    Reports = 1
CHECK_DEADLOCK FALSE
PROPERTIES
    InvalidationIsFinal
