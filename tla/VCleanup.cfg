\* "retain nodes for debugging when cluster creation fails", without --retain.
SPECIFICATION Spec
CONSTANTS
    c1 = c1
    c2 = c2
    cp1 = cp1
    cp2 = cp2
    lb1 = lb1
    Procs = {p1}
    Clusters = {c1}
    CPs <- TwoCPs
    Others <- WithLB
    Absent = Absent
    Exclusive = TRUE
    RuntimeFails = TRUE
INVARIANT
    FailedCreateLeavesNothing
