SPECIFICATION Spec
SYMMETRY Symmetric
CONSTANTS
    Names = {"alice"}
    LowerName <- MCLowerName
    BadNames = {}
    Keys = {k1, k2}
    Blank = Blank
    Nil = Nil
    ProjectRoot <- MCProjectRoot
    Machines = {"repos"}
    Repos = {"gentoo"}
    Parameters = {"BUILD_TARGET"}
    Web = {w1, w2}
    ApiKeyEnable = TRUE
    Asked <- MCAsked
    HttpFaults = TRUE
    MaxCrashes = 1
INVARIANTS
    RevokedKeysStayOut
    OnlyIssuedKeys
    KeysAreListed
    FoldersAreMade
PROPERTIES
    FailuresAreReported
