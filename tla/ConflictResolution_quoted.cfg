\* a conflicting file whose name git quotes
SPECIFICATION LiveSpec
CONSTANTS
    f1 = f1
    Files = {f1}
    OnConflict = "backup"
    Quoted = {f1}
    Lookalikes = {}
    Failures = {}
PROPERTIES ConflictsSettle
