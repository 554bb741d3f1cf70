SPECIFICATION SearchSpec
CONSTANTS
    Parts = {"list", "top", "bool"}
    Allowed = {}
    Terms = {"a", "b", "c"}
    NDocs = 2
    Readers = {1}
    ExtraFloor = 1
    MaxQueries = 2
    MaxDead = 1
    MaxCompact = 1
    MaxReload = 1
    Asked <- MCAsked
    ShardOf <- MCShardOf
    Contents <- MCContents
INVARIANTS
    FinishedDocsFound
    AnswersAreExact
PROPERTIES
    HeldIsFrozen
CHECK_DEADLOCK FALSE
