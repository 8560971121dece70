SPECIFICATION ServicesSpec
CONSTANTS
    twin1 = twin1
    twin2 = twin2
    both1 = both1
    both2 = both2
    Nil = Nil
    Vanished = Vanished
    Scenes = {"rename", "attach", "wire", "follow", "calls", "drop", "redrop", "drag", "layouts", "windows"}
SYMMETRY Symmetry
INVARIANTS ScriptsAreAnswered ClientsAreServed DragsAreToldOver WorkspaceIsRestored
PROPERTIES RenamesAreSafe
CHECK_DEADLOCK FALSE
