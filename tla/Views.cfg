SPECIFICATION Spec
CONSTANTS
    twin1 = twin1
    twin2 = twin2
    both1 = both1
    both2 = both2
    Nil = Nil
    Vanished = Vanished
    Scenes = {"picker", "bindings", "bar", "footer", "help", "input", "editor", "host", "program", "probes"}
CONSTRAINT Bounded
PROPERTIES ManagerIsTrue KeysAreTrue InputIsTyped PacketsAreTaken
CHECK_DEADLOCK FALSE
