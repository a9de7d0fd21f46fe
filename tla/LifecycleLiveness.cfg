\* A pinned HA cluster whose load balancer entrypoint may run late, under fairness.
SPECIFICATION FairSpec
CONSTANTS
    cp1 = cp1
    cp2 = cp2
    w1 = w1
    lb1 = lb1
    a1 = a1
    a2 = a2
    a3 = a3
    a4 = a4
    Procs = {p1}
    CPs <- TwoCPs
    Workers <- NoNodes
    LBs <- OneLB
    Addresses = {a1, a2, a3}
    NoIP = NoIP
    Dynamic = Dynamic
    Detached = Detached
    Nerdctl = FALSE
    Labels = {"ip-pinned"}
    Options = {"auto", "cert-regen"}
    LateEntrypoint = TRUE
    MaxOthers = 0
PROPERTIES
    CommandsEnd
