SPECIFICATION Spec
CONSTANTS
    Builds = {"b1", "b2"}
    Procs = {"p1", "p2"}
    Nil = Nil
    Tags = {""}
    BadTags = {}
    N = 2
    Notes = {}
    BuiltAt <- MCBuiltAt
    Ops <- ChaosOps
    BuildsUsed <- ChaosBuilds
    TagsUsed <- NoTags
    Faults = {"copy"}
    MaxCrashes = 0
INVARIANTS
    TypeOK
PROPERTIES
    JobsEnd
