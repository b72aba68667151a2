SPECIFICATION Spec
CONSTANTS
    Macs = {m1, m2}
    Nodes = {n1, n2}
    limit = 2
    MaxVisits = 3
    MaxEmits = 3
    MaxLosses = 1
CHECK_DEADLOCK FALSE
INVARIANTS
    WindowHoldsNewest
    OneEntryPerVisit
