\* Fair handlers, clients that may do anything or nothing.
SPECIFICATION FairSpec
CONSTANTS
    s1 = s1 s2 = s2 s3 = s3
    bob = bob BOB = BOB ann = ann bobRow = bobRow annRow = annRow
    Session <- TwoSessions
    Username <- Names
    Account <- Rows
    AccountOf <- Fold
    OpsFile = {ann}
    Blacklist = {}
    IdLimit = 1
    Commands = {"op", "ban", "unban"}
    None = None
CONSTRAINT BobIsOperator
INVARIANTS FlagBacked BanReaches
PROPERTIES HangupEnds LoginResolves
