SPECIFICATION Spec
CONSTANTS
    ClientOrder <- MCClients
    NoClient = NoClient
    NumEvents = 1
INVARIANT BroadcastReachedAll
\* When the last broadcast is over and all clients have left, nothing is left to do.
CHECK_DEADLOCK FALSE
