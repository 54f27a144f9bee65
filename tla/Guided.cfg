SPECIFICATION Spec
CONSTANT Visits <- SmallVisits
INVARIANT GuidedRunSafe
PROPERTY GuidedSteps
CHECK_DEADLOCK FALSE
