\* every workflow with a save lock and every failure: people, other clones and writers race the cycle
SPECIFICATION Spec
CONSTANTS
    e1 = e1
    e2 = e2
    h1 = h1
    r1 = r1
    g1 = g1
    g2 = g2
    Configured = {"auto-commit-sync", "auto-commit-only", "committed-sync"}
    ModeOmitted = TRUE
    SaveLock = TRUE
    LinkedWorktree = FALSE
    OnConflict = "claude"
    BranchConfigured = FALSE
    Edits = {e1, e2}
    HumanCommits = {h1}
    OtherCommits = {r1}
    LoopCommits = {g1, g2}
    Intrusions = {"edit", "commit"}
    Failures = {"fetch", "push", "git", "lock"}
    MaxDisturbances = 2
SYMMETRY CommitSymmetry
INVARIANTS TypeOK LockScope NoMergeLeftBehind SyncingMeansWriting CommittedSyncOnlyTransports
PROPERTIES WritesAnnounced HandsOff SuccessMeansSynced TransportsCommits IsRepositoryLoop
