SPECIFICATION FairSpec
CONSTANTS
    ClientOrder <- MCClients
    NoClient = NoClient
    NumEvents = 2
INVARIANTS
    TypeOK
    RegistryFollowsConnections
    ReturnedReachedAll
    EventsInOrder
PROPERTIES
    BroadcastsEnd
\* When the last broadcast is over and all clients have left, nothing is left to do.
CHECK_DEADLOCK FALSE
