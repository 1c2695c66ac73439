\* A player listed in ops.txt logs in, with nobody to deop anyone.
SPECIFICATION Spec
CONSTANTS
    s1 = s1 s2 = s2 s3 = s3
    bob = bob BOB = BOB ann = ann bobRow = bobRow annRow = annRow
    Session <- TwoSessions
    Username <- Names
    Account <- Rows
    AccountOf <- Fold
    OpsFile = {ann}
    Blacklist = {}
    IdLimit = 1
    Commands = {}
    None = None
INVARIANT OpsFileCounts
