SPECIFICATION Spec
CONSTANTS
    p1 = p1
    p2 = p2
    Procs = {p1, p2}
    Nobody = Nobody
    Victims = {p1}
    ReadSizes = {1, 2}
    Serial = {"cr", "kill", "erase", "list"}
    Keys <- MCKeys
    INPUT_BUF = 2
    CountMod = 4
INVARIANTS InputReachable ModifiersMatch
PROPERTIES ImplementsLines
