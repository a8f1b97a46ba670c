SPECIFICATION Spec
CONSTANTS
    Phones = {p1, p2}
    Conns = {c1}
    Windows = {w1}
    BootCodes = {b1}
    Forgets = {f1}
    Tools = {t1}
    NoOne = NoOne
SYMMETRY Symmetry
INVARIANTS TrustNeedsCode ForgottenStaysOut PairOkIsDurable
