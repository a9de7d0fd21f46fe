\* Two processes create and delete the same HA cluster, and every call may fail.
SPECIFICATION Spec
CONSTANTS
    c1 = c1
    c2 = c2
    cp1 = cp1
    cp2 = cp2
    lb1 = lb1
    Procs = {p1, p2}
    Clusters = {c1}
    CPs <- TwoCPs
    Others <- WithoutLB
    Absent = Absent
    Exclusive = FALSE
    RuntimeFails = TRUE
SYMMETRY Symmetry
INVARIANTS
    TypeOK
    CreatedIsComplete
    CreatedForResume
    LeftoversWereInFlight
    KubeconfigFollows
