\* Two editors and their pages, three performances, two or three rounds.
SPECIFICATION Spec
CONSTANTS
    a = a
    b = b
    Tab = {a, b}
    Performance = {1, 2, 3}
    Sale = {1, 2}
    FirstPage <- Filling
    MaxTouches = 1
    MaxSaves = 3
    MaxId = 4
SYMMETRY EitherTab
CHECK_DEADLOCK FALSE
INVARIANTS NoDanglingReference SavedAsShown
PROPERTIES RowsKeepTheirIds OldPageLosesNothing
