\* The agents, stores and bounds of both instances are in MCMediator.
SPECIFICATION MediatorsSpec
CONSTANTS
    NoOne = NoOne
    Routers = {"sled", "memory"}
    Setup <- MCSetup
    Conns = {c1, c2}
    Requests = {"r1", "r2"}
CHECK_DEADLOCK FALSE
INVARIANTS
    AcceptedIsAccountedFor
    ReceivedOnce
    AddressedOnly
