SPECIFICATION Spec
CONSTANTS
    Requests = {r1, r2}
    Backends = {"mutter", "hyprland", "sway", "kde", "x11"}
    Ports = 2
    FailingGuards = {"output", "screen"}
INVARIANTS
    ActiveIsHeld
    NothingLeftBehind
    ScreenStaysWhileStreaming
PROPERTIES
    LeftScreenIsFreed
CHECK_DEADLOCK FALSE
