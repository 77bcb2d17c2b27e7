SPECIFICATION Spec
CONSTANTS
    MaxDials = 2
    Clients = {c1, c2}
    NoClient = none
INVARIANTS TypeOK OneTalksToTheModem
PROPERTIES LossIsNoticed AcceptedIsServed AllStop
CHECK_DEADLOCK FALSE
