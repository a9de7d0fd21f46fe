\* One process, an HA cluster of two control planes, a worker and a load balancer.
SPECIFICATION Spec
CONSTANTS
    cp1 = cp1
    cp2 = cp2
    w1 = w1
    lb1 = lb1
    a1 = a1
    a2 = a2
    a3 = a3
    a4 = a4
    Procs = {p1}
    CPs <- TwoCPs
    Workers <- OneWorker
    LBs <- OneLB
    Addresses = {a1, a2, a3, a4}
    NoIP = NoIP
    Dynamic = Dynamic
    Detached = Detached
    Nerdctl = FALSE
    Labels = {"ip-pinned", "cert-regen", ""}
    Options = {"auto", "ip-pin", "cert-regen"}
    LateEntrypoint = FALSE
    MaxOthers = 0
SYMMETRY Symmetry
INVARIANTS
    TypeOK
    PauseStopsEverything
    ResumeStartsEverything
    ResumeRestoresRouting
    ResumeKeepsPeerAddresses
    QuorumSafeOrder
    NoStartUnpinned
    
