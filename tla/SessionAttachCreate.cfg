SPECIFICATION Spec
CONSTANTS
    Clients = {c1, c2}
    Servers = {s1, s2}
    Inodes = {i1, i2, i3}
    None = None
    Gone = Gone
    Commands = {"attach", "attach_create"}
SYMMETRY Symmetry
INVARIANTS TypeOK LeaseReachable LastIsCurrent
CHECK_DEADLOCK FALSE
