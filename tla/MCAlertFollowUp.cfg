SPECIFICATION Spec
CONSTANTS
    u1 = u1
    u2 = u2
    e1 = e1
    e2 = e2
    Nobody = Nobody
    Users = {u1, u2}
    OnCall = {u1}
    Forced = {}
    Delays = {1}
    Engines = {e1, e2}
    MaxLag = 1
    MaxEscalations = 1
    MaxChanges = 2
    MaxJobs = 2
    MaxSubs = 1
    MaxMishaps = 1
CHECK_DEADLOCK FALSE
INVARIANTS RulesOnce ToldOnce
PROPERTIES StopsPaging SubsFollow
