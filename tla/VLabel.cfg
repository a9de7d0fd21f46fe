\* The ip-pinned label as a contract, with two creations side by side.
SPECIFICATION Spec
CONSTANTS
    c1 = c1
    c2 = c2
    cp1 = cp1
    cp2 = cp2
    lb1 = lb1
    Procs = {p1, p2}
    Clusters = {c1, c2}
    CPs <- TwoCPs
    Others <- WithLB
    Absent = Absent
    Exclusive = TRUE
    RuntimeFails = FALSE
SYMMETRY Symmetry
INVARIANT
    LabelIsContract
