SPECIFICATION Spec
CONSTANTS
    Clients = {c1, c2}
    Servers = {s1, s2}
    Inodes = {i1, i2, i3}
    None = None
    Gone = Gone
    Commands = {"new", "kill", "list", "delete"}
SYMMETRY Symmetry
INVARIANTS EndpointOwned KilledServerIsGone
PROPERTIES DeleteSparesLive EndpointSpec
CHECK_DEADLOCK FALSE
