SPECIFICATION TrailSpec
CONSTANTS
    Generators = {}
    Carriers = {}
    Manifests = {m1}
    Checks = {k1}
    Requests = {r1, r2}
    None = None
    Seeded = {m1}
    GeneratorSeed = "active"
    CarrierSeed = "verified"
    ManifestSeed = "submitted"
    CheckSeed = "pending"
    GeneratorVersions = 1
    CarrierVersions = 1
    ManifestVersions = 1
    CheckVersions = 2
    MaxTime = 1
    Ahead = 0
    Seed <- MCSeed
    MaxVersion <- MCMaxVersion
INVARIANTS
    HistoryInOrder
    HistoryIsAStory
    SummaryMissesNothing
PROPERTIES
    CommitsAreOneStep
    EveryRequestIsAnswered
