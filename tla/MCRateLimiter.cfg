SPECIFICATION SpecWithExtend
CONSTANTS
    w1 = w1
    w2 = w2
    w3 = w3
    Workflows = {w1, w2, w3}
    Limit = 3
    Counts = {1, 2, 3}
    MaxSlots = 4
SYMMETRY Symmetry
INVARIANTS TypeOK WithinReservation WaitersAccounted
PROPERTIES QueueIsFIFO ReservationsSurvive
