SPECIFICATION FairSpec
CONSTANTS
    admin = admin
    wg1 = wg1
    wg2 = wg2
    cp2 = cp2
    tm2 = tm2
    cc1 = cc1
    wg9 = wg9
    Seeds <- MCSeeds
    Extra <- MCExtra
    Links <- MCLinks
    MaxAttempts = 2
    MaxInterruptions = 3
INVARIANTS
    TypeOK
    SeededAsAWhole
PROPERTIES
    SeedLinksResolve
    StartsKeepRecords
    ServesAgain
CHECK_DEADLOCK FALSE
