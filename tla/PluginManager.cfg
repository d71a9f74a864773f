SPECIFICATION Spec
CONSTANTS
    Plugins = {a, b}
    Procs = {p1, p2}
    MaxVersion = 2
SYMMETRY Symmetry
INVARIANT InstalledIsTrue
PROPERTY ManualKept
