\* A /join meets a /del of its target.
SPECIFICATION Spec
CONSTANTS
    p1 = p1 p2 = p2
    o1 = o1 o2 = o2 o3 = o3
    main = main hills = hills stone = stone brick = brick server = server
    Player <- TwoPlayers
    Server = server
    Name <- Names
    Main = main
    Object <- TwoObjects
    Value <- OneValue
    Commands = {"join", "del"}
    MaxBackups = 1
    None = None
SYMMETRY Symmetry
PROPERTY DelStays
