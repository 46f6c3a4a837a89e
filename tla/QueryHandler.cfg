CONSTANTS
    Queries = {q1, q2}
    Reports = {m1}
    Holdable = {q1}
    Requested <- Some
    Availabilities <- AvailabilitiesValue
    NoMode = NoMode
SPECIFICATION Spec
CHECK_DEADLOCK FALSE
INVARIANTS TypeOK RunsAvailable CountedAsTold ReportsWhole ModesWithinStatuses
PROPERTIES ImplementsStream
