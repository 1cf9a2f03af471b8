\* convergence with a network that fails now and then, and commits with one that may be down for good
SPECIFICATION LiveSpec
CONSTANTS
    e1 = e1
    h1 = h1
    r1 = r1
    g1 = g1
    g2 = g2
    Configured = {"auto-commit-sync"}
    ModeOmitted = FALSE
    SaveLock = TRUE
    LinkedWorktree = FALSE
    OnConflict = "backup"
    BranchConfigured = TRUE
    Edits = {e1}
    HumanCommits = {h1}
    OtherCommits = {r1}
    LoopCommits = {g1, g2}
    Intrusions = {}
    Failures = {"fetch", "push", "resolution"}
    MaxDisturbances = 1
PROPERTIES Converges EditsGetCommitted
