\* Two trainers and a reader on two versions of two payload files.
SPECIFICATION Spec
CONSTANTS
    Evaluations = {e1}
    Trainers = {t1, t2}
    Readers = {r1}
    Versions = {v1, v2}
    Payloads = 2
    None = None
SYMMETRY Symmetry
INVARIANTS
    ReadsStand
    RaisedIsWithdrawn
PROPERTIES
    ImplementsWriteOnce
