\* The same, for the bundle that two overlapping preparations mix.
SPECIFICATION SpecPart
CONSTANTS
    Procs = {p1, p2, p3}
    Trainers = {p1, p2}
    Snapshots = {a, b, c}
    Corrected = {a, b}
    Versions = {v1, v2}
    None = None
    Artifacts = 2
    MaxPrepares = 2
    MaxCrashes = 1
    Frozen = 2
    Tables = 1
    Reports = 2
SYMMETRY Symmetry
\* A run whose developer died is never continued.
CHECK_DEADLOCK FALSE
INVARIANT
    BundleIsOne
