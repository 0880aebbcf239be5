SPECIFICATION Spec
CONSTANTS
    Builds = {"b1"}
    Procs = {"worker", "web"}
    Nil = Nil
    Tags = {""}
    BadTags = {}
    N = 2
    Notes = {"n"}
    BuiltAt <- MCBuiltAt
    Ops <- PullOps
    BuildsUsed <- EveryBuild
    TagsUsed <- NoTags
    Faults = {}
    MaxCrashes = 1
PROPERTIES
    PullKeepsNote
