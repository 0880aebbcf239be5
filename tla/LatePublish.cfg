SPECIFICATION Spec
CONSTANTS
    Builds = {"b1"}
    Procs = {"worker", "web"}
    Nil = Nil
    Tags = {"", "a"}
    BadTags = {}
    N = 2
    Notes = {}
    BuiltAt <- MCBuiltAt
    Ops <- TaggingOps
    BuildsUsed <- EveryBuild
    TagsUsed <- NoTags
    Faults = {"download", "extract", "copy", "metadata", "gbp.json"}
    MaxCrashes = 0
INVARIANTS
    PublishedIsComplete
