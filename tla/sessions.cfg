SPECIFICATION Spec
CONSTANTS
    alice = alice
    bob = bob
    Users = {alice, bob}
    Hired <- MCHired
    Becomes <- MCBecomes
    TTL = 1
    MaxTime = 1
    Tabs = {t1, t2}
    Calls = {c1, c2}
    None = None
INVARIANTS
    TypeOK
    IdentityIsTheTokens
    OffersAreHonoured
    LoadingIsAwaited
PROPERTIES
    RevokedWithinTTL
    LogoutLasts
SYMMETRY MCSymmetry
