\* One post may fail; nothing else goes wrong.
CONSTANTS
    a1 = a1
    a2 = a2
    k1 = k1
    k2 = k2
    d1 = d1
    d2 = d2
    u1 = u1
    u2 = u2
    Torn = Torn
    Alerts = {a1, a2}
    Keys = {k1, k2}
    KeyOf <- DistinctKeys
    Dashboards = {d1, d2}
    Users = {u1, u2}
    UserOf <- OneUser
    PostsFail = TRUE
    TabsClose = FALSE
    WritesTear = FALSE
    UpsertRaces = FALSE
    MaxFaults = 1
\* Once every alert is fired and handled nothing more need happen.
CHECK_DEADLOCK FALSE
SPECIFICATION Spec
INVARIANT DeliveredIsPersisted
