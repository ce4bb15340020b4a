\* Three calls over a development run and a copy, with two evaluation run ids.
SPECIFICATION SpecPart
CONSTANTS
    Attempts = {a1, a2, a3}
    Runs = {r1, r2}
    Evaluations = {e1, e2}
    Registry = Registry
    Dataset = Dataset
    None = None
    MaxCrashes = 1
SYMMETRY Symmetry
INVARIANTS
    OpenedOnce
    AcceptedIsOriginal
    PublishedRunStays
    FailedIsUnreadable
PROPERTIES
    ImplementsSource
