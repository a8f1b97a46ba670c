SPECIFICATION Spec
CONSTANTS
    Fingers = {f1, f2, f3}
    Width = 1
    Slop = 0
    TwoSteps = 2
    Layouts <- MCLayouts
    Sinks = {"uinput", "mutter"}
CONSTRAINT FewCancelled
INVARIANTS
    NothingStuck
    ScrollFollowsFingers
    PointerUnderFinger
PROPERTIES
    ActsLikeAMouse
    HeldFingerActs
CHECK_DEADLOCK FALSE
