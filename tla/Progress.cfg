\* The components whose progress matters, one at a time. A finished one stops.
SPECIFICATION Spec
CHECK_DEADLOCK FALSE
PROPERTIES
    ServerServes
    ScriptsComplete
    VisitorsServed
