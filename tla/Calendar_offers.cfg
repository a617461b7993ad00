SPECIFICATION Spec
CONSTANTS
    monday = monday
    tuesday = tuesday
    Today = monday
    ScheduleIds = {w1, w2}
    RowBodies <- Rows
    SessionIds = {long, short}
    Durations = {1, 2}
    NewDurations = {0, 2}
    Clients = {eve, dan}
    NoSlot = NoSlot
    MaxBookings = 2
CONSTRAINT OnePage
SYMMETRY Symmetry
INVARIANTS
    TypeOK
    SlotsAreFree
    SlotsAreAll
    SameSessionDisjoint
CHECK_DEADLOCK FALSE
