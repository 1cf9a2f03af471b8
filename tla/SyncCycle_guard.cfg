\* an operation paused after the guard under the lock
SPECIFICATION Spec
CONSTANTS
    e1 = e1
    h1 = h1
    r1 = r1
    g1 = g1
    g2 = g2
    Configured = {"auto-commit-sync"}
    ModeOmitted = FALSE
    SaveLock = TRUE
    LinkedWorktree = FALSE
    OnConflict = "backup"
    BranchConfigured = FALSE
    Edits = {e1}
    HumanCommits = {h1}
    OtherCommits = {r1}
    LoopCommits = {g1, g2}
    Intrusions = {"operation"}
    Failures = {}
    MaxDisturbances = 1
SYMMETRY CommitSymmetry
PROPERTIES HandsOff
