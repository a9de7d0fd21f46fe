\* An HA cluster and a single-node one side by side: calls only fail where they collide.
SPECIFICATION Spec
CONSTANTS
    c1 = c1
    c2 = c2
    cp1 = cp1
    cp2 = cp2
    lb1 = lb1
    Procs = {p1, p2}
    Clusters = {c1, c2}
    CPs <- LoneC2
    Others <- WithoutLB
    Absent = Absent
    Exclusive = TRUE
    RuntimeFails = FALSE
SYMMETRY Symmetry
INVARIANTS
    CreatedIsComplete
    CreatedForResume
