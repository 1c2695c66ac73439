\* One player, all commands but edits, crashes.
SPECIFICATION Spec
CONSTANTS
    p1 = p1 p2 = p2
    o1 = o1 o2 = o2 o3 = o3
    main = main hills = hills stone = stone brick = brick server = server
    Player <- OnePlayer
    Server = server
    Name <- Names
    Main = main
    Object <- TwoObjects
    Value <- OneValue
    Commands = {"save", "join", "new", "del", "revert", "crash", "shutdown"}
    MaxBackups = 2
    None = None
SYMMETRY Symmetry
PROPERTIES BackupsKept MainStays
