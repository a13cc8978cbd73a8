SPECIFICATION MCSpec
CONSTANTS
    Inserts <- MCInserts
    Users <- MCUsers
    Typed <- MCTyped
    Reads = {q1}
    Numbers = {0, 2}
    Nothing = Nothing
INVARIANTS BTypeOK FreshAmongCommitted TurnsBounded SameTitleListed ListingCausal
PROPERTIES NumbersInOrder TriggerEnds
CHECK_DEADLOCK FALSE
