SPECIFICATION Spec
CONSTANTS
    t1 = t1
    t2 = t2
    t3 = t3
    v1 = v1
    Nobody = Nobody
    Tasks <- MCTasks
    Visits <- MCVisits
    Modes = {TRUE, FALSE}
SYMMETRY MCSymmetry
VIEW MCView
 
PROPERTIES UpdateAddsChild 
CHECK_DEADLOCK FALSE
