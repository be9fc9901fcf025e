SPECIFICATION Spec
CONSTANTS
    Tabs = {t1, t2}
    Hashes = {h1, h2}
    MaxRevision = 3
    MaxLives = 2
    None = None
SYMMETRY Symmetry
INVARIANT RevisionBustsCache
CHECK_DEADLOCK FALSE
