CONSTANTS
    Conversations = {c1, c2}
    MaxVersion = 2
    MaxReloads = 1
    MaxRefusals = 1
SPECIFICATION FairSpec
INVARIANTS TypeOK AtRestStored LegacyKept
PROPERTIES StoredNeverOlder LoadKeepsChanges EventuallyMigrated
CHECK_DEADLOCK FALSE
