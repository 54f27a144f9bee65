\* The checkpointed programs, one at a time. A tab may be left closed for good.
SPECIFICATION CheckpointsSpec
CONSTANTS
    t1 = t1
    t2 = t2
    Tabs = {t1, t2}
    Scopes <- TwoSelections
    MaxPrompts = 2
    MaxFaults = 2
    MaxScriptFaults = 3
SYMMETRY TabSymmetry
CHECK_DEADLOCK FALSE
INVARIANTS
    FreshSafe
    DisclosureSafe
    PointerSurvives
