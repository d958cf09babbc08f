\* Two replicas of the deployments of Worlds, with three failures or crashes.
CONSTANTS
    Absent = Absent
    Unset = Unset
    Blank = Blank
    Garbage = Garbage
    Missing = Missing
    Faults = {"postgres"}
    Replicas = {r1, r2}
    Plan <- ShortPlan
    Links <- ShortLinks
    Ends <- ShortEnds
    UserIds = {u1, u2}
    NoUser = NoUser
    MaxTrouble = 3
SPECIFICATION MCSpec
\* Every replica may serve with no failure left to happen.
CHECK_DEADLOCK FALSE
INVARIANTS
    StartupTypeOK
    StoredIsPrefix
    ServingSeeded
    SecretFromManager
PROPERTIES
    DeletedAdminStays
    StartsInTheEnd
    DeletedAdminBlocksStarts
