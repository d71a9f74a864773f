SPECIFICATION Spec
CONSTANTS
    Objects = {"a", "b"}
    Missing = {"gone"}
    CommandLines <- TwoNames
    MaxGen = 3
    MaxForeign = 0
INVARIANT SuspendSuspends
