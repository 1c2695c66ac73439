\* Three connections compete for two ids while operators kick and deop.
SPECIFICATION Spec
CONSTANTS
    s1 = s1 s2 = s2 s3 = s3
    bob = bob BOB = BOB ann = ann bobRow = bobRow annRow = annRow
    Session <- ThreeSessions
    Username = {bob, BOB}
    Account = {bobRow}
    AccountOf <- Fold
    OpsFile = {bob, BOB}
    Blacklist = {}
    IdLimit = 2
    Commands = {"kick", "deop"}
    None = None
SYMMETRY TwinSymmetry
INVARIANTS TypeOK RosterSound SlotOwned DistinctIds NameShared
PROPERTIES OnlyHolderVacates SeatingSpec
