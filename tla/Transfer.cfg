SPECIFICATION Spec
CONSTANTS
    Phones = {p1, p2}
    Offers = {o1}
    FilesFail = TRUE
    Uploads = {u1, u2}
    LastSuffix = 1
    User = User
    None = None
INVARIANTS OfferToOneIsWhole OkMeansWhole UserFileSurvives NoDebris
