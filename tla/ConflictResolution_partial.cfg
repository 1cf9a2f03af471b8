\* claude resolves one file and skips another: the fallback meets a file without stages
SPECIFICATION Spec
CONSTANTS
    f1 = f1
    f2 = f2
    Files = {f1, f2}
    OnConflict = "claude"
    Quoted = {}
    Lookalikes = {}
    Failures = {}
SYMMETRY FileSymmetry
INVARIANTS UpstreamAccepted
