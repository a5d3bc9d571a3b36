SPECIFICATION Spec
CONSTANTS
    Notes = 2
    Text = {}
    Source = source
    Absent = absent
    Previewer = {p1}
    Applier = {a1, a2}
    BatchSize = 2
    Edited = {1}
    MaxBuilds = 2
SYMMETRY Symmetry
INVARIANTS RestoreInv Resumable
PROPERTIES NoneStranded
