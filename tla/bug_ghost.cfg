\* Two players swap levels.
SPECIFICATION Spec
CONSTANTS
    p1 = p1 p2 = p2 p3 = p3
    main = main hills = hills caves = caves
    Player <- TwoPlayers
    World <- TwoWorlds
    Main = main
    Moves = {"join"}
    None = None
SYMMETRY Symmetry
INVARIANT NoGhosts
