\* /del moves players that are moving themselves, /tp follows players that move.
SPECIFICATION Spec
CONSTANTS
    p1 = p1 p2 = p2 p3 = p3
    main = main hills = hills caves = caves
    Player <- ThreePlayers
    World <- TwoWorlds
    Main = main
    Moves = {"join", "tp", "del"}
    None = None
SYMMETRY Symmetry
INVARIANTS TypeOK AllMet
