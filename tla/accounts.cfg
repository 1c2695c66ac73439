\* Logins, operator commands, /new and edits of two threads, and crashes.
SPECIFICATION Spec
CONSTANTS
    t1 = t1 t2 = t2
    Thread = {t1, t2}
    bob = bob eve = eve
    Account = {bob, eve}
    home = home
    Address = {home}
    Columns = {"is_banned"}
    main = main lobby = lobby
    Level = {main, lobby}
    None = None
SYMMETRY Symmetry
CONSTRAINT OnCourse
INVARIANTS TypeOK OwnRecord WorldIds LogTrue
PROPERTY RightsAsMeant
