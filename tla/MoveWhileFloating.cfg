SPECIFICATION Spec
CONSTANTS
    Panes = {p, q, r}
    WindowIds = {1, 2, 3, 4, 5, 6}
    MaxWindows = 3
    MaxPanes = 2
    None = None
INVARIANT MovesKeepRunning
SYMMETRY PaneSymmetry
CHECK_DEADLOCK FALSE
