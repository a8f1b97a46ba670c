SPECIFICATION Spec
CONSTANTS
    Phones = {h1}
    Texts = {1, 2}
    Images = {i}
    Places = 1
    Copies = 3
    Drops = 1
    None = None
CONSTRAINT Uncrossed
INVARIANT CopiedIsPasted
CHECK_DEADLOCK FALSE
