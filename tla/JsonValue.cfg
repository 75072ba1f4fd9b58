SPECIFICATION Spec
CONSTANTS
    Letters = {"a", "b"}
    MaxElements = 2
    MaxCalls = 2
CHECK_DEADLOCK FALSE
INVARIANTS
    RoundTrip
    LoadedIsExact
PROPERTIES
    InsertIsLocal
