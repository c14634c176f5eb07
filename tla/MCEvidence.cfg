SPECIFICATION Spec
CONSTANTS
    Session = "s1"
    Other = "s2"
    Contents = {"allowed", "refused"}
    MaxEntries = 5
    MaxLate = 1
    MaxEdits <- MCMaxEdits
INVARIANTS
    TamperEvident
    ProofOnlyOfRecorded
    EveryEntryProvable
CHECK_DEADLOCK FALSE
