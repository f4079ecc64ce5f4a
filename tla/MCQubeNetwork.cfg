CONSTANTS
    n1 = n1
    n2 = n2
    q1 = q1
    Qubes = {n1, n2, q1}
    Nets = {n2}
    NoQube = NoQube
    Default = Default
    Absent = Absent
    Unnamed = Unnamed
    MaxChanges = 2
    Pausable = {q1}
    Fallible = {q1}
SPECIFICATION MCSpec
INVARIANTS
    InterfaceFollowsNetvm
    ServedByNetvm
CHECK_DEADLOCK FALSE
