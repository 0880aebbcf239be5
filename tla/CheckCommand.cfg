SPECIFICATION CheckSpec
CONSTANTS
    Builds = {"b1", "b2"}
    Procs = {"worker"}
    Nil = Nil
    Tags = {""}
    BadTags = {}
    N = 2
    Notes = {}
    BuiltAt <- MCBuiltAt
    Ops <- MCOps
    BuildsUsed <- MCBuilds
    TagsUsed <- MCTags
    Faults = {"download", "copy", "gbp.json"}
    MaxCrashes = 1
    Binpkgs = 1
    Aux = 2
INVARIANTS
    CrashesAreNoticed
    PullsAreNoErrors
    ChecksLeaveNothing
    LeavesInv
    NoErrorsInv
