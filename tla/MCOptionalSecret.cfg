\* One replica, nothing fails: a deployment without an ADMIN_EMAIL secret.
CONSTANTS
    Absent = Absent
    Unset = Unset
    Blank = Blank
    Garbage = Garbage
    Missing = Missing
    Faults = {}
    Replicas = {r1}
    Plan <- ShortPlan
    Links <- ShortLinks
    Ends <- ShortEnds
    UserIds = {u1, u2}
    NoUser = NoUser
    MaxTrouble = 0
SPECIFICATION NoAdminSpec
PROPERTY OptionalSecretMayBeMissing
