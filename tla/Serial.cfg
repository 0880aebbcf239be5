SPECIFICATION Spec
CONSTANTS
    Builds = {"b1", "b2"}
    Procs = {"worker", "web"}
    Nil = Nil
    Tags = {"", "a"}
    BadTags = {}
    N = 2
    Notes = {}
    BuiltAt <- MCBuiltAt
    Ops <- SerialOps
    BuildsUsed <- EveryBuild
    TagsUsed <- SerialTags
    Faults = {"download", "extract", "copy", "metadata", "gbp.json"}
    MaxCrashes = 0
INVARIANTS
    Inv
    CompletedIsWhole
    SettledAtRest
PROPERTIES
    CompletedIsImmutable
    FollowsLifecycle
    ImplementsLifecycle
