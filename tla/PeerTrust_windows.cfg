SPECIFICATION FairSpec
CONSTANTS
    Phones = {p1, p2}
    Conns = {c1}
    Windows = {w1, w2}
    BootCodes = {b1}
    Forgets = {}
    Tools = {}
    NoOne = NoOne
INVARIANTS CodesExpire PairedAnswerIsTrue
PROPERTY CodesStopWorking
