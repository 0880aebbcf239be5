SPECIFICATION Spec
CONSTANTS
    Machines = {1}
    Builds = {1, 2}
    MachineOf <- MCMachineOf
    Packages <- MCPackages
    TagNames = {""}
    Notes = {"n"}
    Nil = Nil
    Changers = {"changer"}
    Updaters = {"worker"}
    Readers = {"web"}
    MaxChanges = 2
    MaxClears = 0
CHECK_DEADLOCK FALSE
INVARIANTS
    MachinePageRenders
