\* Three processes at a run with one table and two reports; two that prepare and
\* load three snapshots, two of them alike after the warm-up, or publish two bundles.
SPECIFICATION SpecPart
CONSTANTS
    Procs = {p1, p2, p3}
    Trainers = {p1, p2}
    Snapshots = {a, b, c}
    Corrected = {a, b}
    Versions = {v1, v2}
    None = None
    Artifacts = 2
    MaxPrepares = 2
    MaxCrashes = 1
    Frozen = 2
    Tables = 1
    Reports = 2
SYMMETRY Symmetry
\* A run whose developer died is never continued.
CHECK_DEADLOCK FALSE
INVARIANTS
    HoldoutOpenedOnce
    PromotedOnEvidence
    PreparedAloneIsOne
    VersionsWhole
PROPERTIES
    ImplementsWriteOnce
