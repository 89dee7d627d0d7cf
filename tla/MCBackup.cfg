SPECIFICATION Spec
CONSTANTS
    d1 = d1
    d2 = d2
    d3 = d3
    None = None
    Directories = {d1, d2, d3}
    Live = d1
    Commands = {c1, c2}
    Plans = {p1}
    MaxGeneration = 2
    MaxServers = 1
SYMMETRY MCSymmetry
INVARIANTS
    BackupTypeOK
    StartableIsWhole
PROPERTIES
    IssuedAnew
