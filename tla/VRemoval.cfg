SPECIFICATION WsSpec
CONSTANTS
    None = None
    Unset = Unset
    p1 = p1
    p2 = p2
    p3 = p3
    n1 = n1
    n2 = n2
    n3 = n3
    n4 = n4
    n5 = n5
    r1 = r1
    r2 = r2
    r3 = r3
    flat = flat
    main = main
    alpha = alpha
    Procs = {p1, p2}
    Flat = flat
    Names = {main, alpha}
    Root = root
    Titles = {n1, n2, n3, n4, n5}
    Requirements = {r1, r2, r3}
    Settings = {"nyquist", "ai", "use_worktrees", "subagent_timeout"}
    Menu <- RemovalMenu
    Starts <- RemovalStarts
    MaxKills = 0
    MaxFaults = 0
    Patience = TRUE
INVARIANT RemovalKeepsNumbers
