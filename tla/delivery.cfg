\* Two players talk, come, go and teleport; a client may stop reading for a
\* while or hang up; a shutdown may interrupt the first handler wherever it is.
SPECIFICATION FairSpec
CONSTANTS
    Player <- TwoPlayers
    Room = 1
    MaxSaid = 2
    Commands = {"tp", "save", "shutdown"}
    Struck <- AHandler
    Saver = Saver Sender = Sender Down = Down None = None
INVARIANTS TypeOK AllServed  NoCircle
PROPERTIES ChatSpec MutexReturned Heard ShutdownEnds
\* A shutdown ends the process.
CHECK_DEADLOCK FALSE
