SPECIFICATION Spec
CONSTANTS
    Phones = {h1}
    Sizes = {1, 2}
    MaxTime = 4
    NoFile = NoFile
    PC = PC
INVARIANTS SessionsConverge
PROPERTIES UndisturbedEditsSurvive RemovalsStick OnlyUsersRemove
