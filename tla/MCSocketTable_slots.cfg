SPECIFICATION Spec
CONSTANTS
    Contexts = {c1, c2, c3}
    Addrs = {a1, a2, a3}
    Null = Null
    Frame = 2
    MaxSlots = 5
    MaxBytes = 3
    MaxBusy = 1
SYMMETRY Symmetry
VIEW View
INVARIANT IndexedByHandle
