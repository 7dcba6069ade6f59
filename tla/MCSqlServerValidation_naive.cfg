SPECIFICATION Spec
CONSTANTS
    Objects = {o1, o2}
    MaxFaults = 2
    MaxChanges = 1
SYMMETRY MCSymmetry
CHECK_DEADLOCK FALSE
INVARIANTS
    ModificationWarned
