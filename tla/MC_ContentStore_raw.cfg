\* A writer that finds its object already linked verifies it and returns.
SPECIFICATION Spec
CONSTANTS
    Writers = {w1, w2}
    Digests = {d1}
    Names = {n1}
    Payloads = 1
    None = None
INVARIANTS
    RawPublicationDurable
