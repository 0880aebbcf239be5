SPECIFICATION Spec
CONSTANTS
    Builds = {"b1", "b2"}
    Procs = {"worker"}
    Nil = Nil
    Tags = {""}
    BadTags = {}
    N = 2
    Notes = {}
    BuiltAt <- MCBuiltAt
    Ops <- PullOps
    BuildsUsed <- EveryBuild
    TagsUsed <- NoTags
    Faults = {}
    MaxCrashes = 1
INVARIANTS
    CompletedIsWhole
