\* Two players and the saver; the process may be killed or shut down.
SPECIFICATION FairSpec
CONSTANTS
    p1 = p1 p2 = p2
    o1 = o1 o2 = o2 o3 = o3
    main = main hills = hills stone = stone brick = brick server = server
    Player <- TwoPlayers
    Server = server
    Name <- Names
    Main = main
    Object <- TwoObjects
    Value <- OneValue
    Commands = {"edit", "join", "new", "del", "crash", "shutdown"}
    MaxBackups = 0
    None = None
INVARIANTS TypeOK LevelsWhole
PROPERTIES MainSaved VersionsKept
