SPECIFICATION Spec
CONSTANTS
    Clients = {c1, c2}
    Publishers = {p1, p2}
    Capacity = 1
    MaxPublished = 2
INVARIANTS TypeOK NoPanic DeliveryExplained
PROPERTY GoneClientsEndAtShutdown
CHECK_DEADLOCK FALSE
