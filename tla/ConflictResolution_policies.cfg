\* both policies on conflicts of every shape, when claude comes and goes, reads, writes and commands fail, and a text looks like a marker
SPECIFICATION LiveSpec
CONSTANTS
    f1 = f1
    f2 = f2
    f3 = f3
    Files = {f1, f2, f3}
    OnConflict = "claude"
    Quoted = {}
    Lookalikes = {f3}
    Failures = {"git", "abort", "read", "write", "remove", "claude"}
INVARIANTS OursRescued ClaudeSawBothSides
PROPERTIES SettlesAtOnce ConflictsSettle
