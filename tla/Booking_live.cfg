SPECIFICATION FairSpec
CONSTANTS
    r1 = r1
    r2 = r2
    k1 = k1
    k2 = k2
    mentee = mentee
    mentor = mentor
    slot1 = slot1
    q1 = q1
    q2 = q2
    Res = {r1}
    Keys = {k1, k2}
    Users = {mentee, mentor}
    Req = {q1, q2}
    NoRes = NoRes
    NoKey = NoKey
    OrderOf <- TwoCheckouts
    MenteeOf <- Mentees
    MentorOf <- Mentors
    SlotOf <- Slots
    Handlers = {"expire", "withdraw", "complete", "progress"}
    Faults = {"network", "decline"}
INVARIANTS
    ChargeLeavesRow
PROPERTIES
    PaidGetsRoom
    PendingEnds
    ConfirmedEnds
CHECK_DEADLOCK FALSE
