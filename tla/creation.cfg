SPECIFICATION Spec
CONSTANTS
    Keys <- MCKeys
    Rows <- MCRows
    Files <- MCFiles
    r1 = r1
    r2 = r2
    MaxRequests = 3
    MaxExpiries = 1
INVARIANTS CreatedOnce ImportedOnce OneImporter
PROPERTIES ReservationsEnd
CHECK_DEADLOCK FALSE
