SPECIFICATION FairAcceptorSpec
CONSTANTS
    FdLimit = 3
    MaxClients = 6
CHECK_DEADLOCK FALSE
INVARIANTS
    DescriptorsAreOwned
PROPERTIES
    ClientsAreServed
