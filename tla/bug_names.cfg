\* Two logins under one name overlap.
SPECIFICATION Spec
CONSTANTS
    s1 = s1 s2 = s2 s3 = s3
    bob = bob BOB = BOB ann = ann bobRow = bobRow annRow = annRow
    Session <- TwoSessions
    Username <- Names
    Account <- Rows
    AccountOf <- Fold
    OpsFile = {}
    Blacklist = {}
    IdLimit = 2
    Commands = {}
    None = None
INVARIANT UniqueNames
