SPECIFICATION Spec
CONSTANTS
    Servers = {s}
    Subscribers = {u}
    Publishers = {p}
    Clients = {c}
    Order <- MCOrder
    Invalid = {}
    Waiters = {w}
    ServerOf <- MCServerOf
    Messages = {"answers", "pathless"}
    Servlets <- MCServlets
    Digits = {"1"}
    Handler <- MCHandler
    Mute = Mute
    Silent = Mute
    MaxLives = 2
    MaxRequests = 2
INVARIANTS
    AnswersMatchRequests
    BrokerInvariant
PROPERTIES
    MessagesAreRead
    WaitsReturn
CHECK_DEADLOCK FALSE
