SPECIFICATION Spec
CONSTANTS
    Heights = {3}
    Widths = {11}
    MaxPanes = 3
    Ids = {p, q, r}
    Cells = {1}
    None = None
PROPERTY SiblingsExpand
CHECK_DEADLOCK FALSE
