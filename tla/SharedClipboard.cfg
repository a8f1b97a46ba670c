SPECIFICATION Spec
CONSTANTS
    Phones = {h1, h2}
    Texts = {1, 2, 3}
    Images = {i}
    Places = 1
    Copies = 3
    Drops = 1
    None = None
CONSTRAINT Uncrossed
INVARIANTS
    SharedWhenSettled
CHECK_DEADLOCK FALSE
PROPERTIES
    EchoesDieOut
