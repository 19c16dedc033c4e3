SPECIFICATION Spec
CONSTANTS
    t1 = t1
    t2 = t2
    t3 = t3
    v1 = v1
    Nobody = Nobody
    Tasks <- MCTasks
    Visits <- NoVisits
    Modes = {TRUE}
SYMMETRY MCSymmetry
INVARIANTS DoneIsEvaluated
CHECK_DEADLOCK FALSE
