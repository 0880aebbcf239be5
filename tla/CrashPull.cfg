SPECIFICATION Spec
CONSTANTS
    Builds = {"b1"}
    Procs = {"worker", "web"}
    Nil = Nil
    Tags = {"", "a"}
    BadTags = {}
    N = 3
    Notes = {"n"}
    BuiltAt <- MCBuiltAt
    Ops <- PullOps
    BuildsUsed <- EveryBuild
    TagsUsed <- WorkerTags
    Faults = {}
    MaxCrashes = 2
INVARIANTS
    CompletedIsWhole
    CrashInv
