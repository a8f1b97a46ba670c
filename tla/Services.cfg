SPECIFICATION Spec
CONSTANTS
    Toggles = 3
    Watchers = {w1, w2}
    Calls = 3
    Speakers = {s1, s2}
    Mics = {m1, m2}
    Nobody = Nobody
    Keys = {k1, k2}
    Talks = {k1, k2}
    Page = Page
    Tasks = {t1, t2}
    Posts = 2
    Waiting = 1
    Devices = {h1, h2}
    Changes = 2
    Streams = {p1}
    Switches = {r1, r2}
INVARIANTS
    BleIsNotGivenUp
    ModulesFollowSessions
    DesktopFollowsPhone
    AnswersGoWhereAsked
    FilesAreTrue
    SleepsOnlyWhenRight
    RestartKeepsSetting
PROPERTIES
    SwitchesAgree
    FileBecomesTrue
    LocksWhenLeft
    UnlocksWhenBack
CHECK_DEADLOCK FALSE
