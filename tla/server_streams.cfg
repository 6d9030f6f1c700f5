SPECIFICATION Spec
CONSTANTS
    Sockets = {"s1", "s2"}
    DidRooms = {"d"}
    MaxSubscriptions = 2
    MessageLimit = 1
    MaxEvents = 1
    LedgerOf <- EventLedgers
    Unreadable = {4}
    Unmatched = {5}
    Unledgered = {2, 7}
    PageLimit = 2
    MaxFailures = 2
INVARIANTS
    HubRegistryExact
    EventsSentInOrder
    MessagesKept
PROPERTIES
    HubShutsDown
    EventsDelivered
\* Everything asked of a part may have been done.
CHECK_DEADLOCK FALSE
