SPECIFICATION Spec
CONSTANTS
    Builds = {"b1", "b2"}
    Procs = {"worker", "web"}
    Nil = Nil
    Tags = {"", "a", "-x"}
    BadTags = {"-x"}
    N = 3
    Notes = {}
    BuiltAt <- MCBuiltAt
    Ops <- TaggingOps
    BuildsUsed <- EveryBuild
    TagsUsed <- TaggingTags
    Faults = {"download", "extract", "copy", "metadata"}
    MaxCrashes = 0
INVARIANTS
    TagsSettle
    PublishedIsComplete
    TagInv
    OnlyFailuresDeleted
    PublicationInv
PROPERTIES
    NoStepBack
