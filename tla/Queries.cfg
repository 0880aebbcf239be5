SPECIFICATION Spec
CONSTANTS
    Machines = {1, 2}
    Builds = {1, 2, 3, 4}
    MachineOf <- MCMachineOf
    BuiltAt <- MCBuiltAt
    Texts = {"ok", "Bad"}
    LogOf <- MCLogOf
    Notes = {"ok"}
    Keys = {"ok", "Bad"}
    Containing <- MCContaining
    Lower <- MCLower
    Nil = Nil
    TagNames <- MCTagNames
    Bases <- MCBases
    Offsets = {"0", "1", "2"}
    Invalid = Invalid
    NotFound = NotFound
    PackagesIn <- MCPackagesIn
    Failure = Failure
    MaxOps = 2
    MaxCrashes = 1
CHECK_DEADLOCK FALSE
INVARIANTS
    BuiltWhenCompleted
    BackendsAgree
    ResolvesAsDocumented
    RedirectsArrive
    ServesTaggedBuild
    QueriesFit
    MemoryInv
PROPERTIES
    SavedAsGiven
