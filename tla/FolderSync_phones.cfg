SPECIFICATION Spec
CONSTANTS
    Phones = {h1, h2}
    Sizes = {1}
    MaxTime = 3
    NoFile = NoFile
    PC = PC
PROPERTY OnlyUsersRemove
