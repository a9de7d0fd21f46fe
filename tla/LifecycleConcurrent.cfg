\* Two processes at once on a pinned HA cluster.
SPECIFICATION Spec
CONSTANTS
    cp1 = cp1
    cp2 = cp2
    w1 = w1
    lb1 = lb1
    a1 = a1
    a2 = a2
    a3 = a3
    a4 = a4
    Procs = {p1, p2}
    CPs <- TwoCPs
    Workers <- NoNodes
    LBs <- OneLB
    Addresses = {a1, a2, a3}
    NoIP = NoIP
    Dynamic = Dynamic
    Detached = Detached
    Nerdctl = FALSE
    Labels = {"ip-pinned"}
    Options = {"auto"}
    LateEntrypoint = FALSE
    MaxOthers = 1
SYMMETRY ProcSymmetry
INVARIANTS
    PinnedAddressKept
    ResumeKeepsPeerAddresses
