SPECIFICATION FeedsSpec
CONSTANTS
    Feeds <- SomeFeeds
    Preprints <- SomePreprints
    Published <- Days
    Queries <- SomeQueries
    KeywordSets <- Matches
    Created <- AtFirst
    AskedDays <- SomeDays
    MaxVersion = 2
    LastVersion <- Rewrites
    Similarity <- Near
    Relevance <- Relevant
    VectorCandidates = 2
    RerankCandidates = 2
    TopN = 1
    DigestMinScore = 2
    KeywordBoost = 1
    WeekTicks = 2
    DigestTicks = 2
    MaxTick = 3
    MaxCalls = 2
    MaxFaults = 1
    MaxEvents = 2
INVARIANTS EmbeddingIsOfQuery WeekIsServed
CHECK_DEADLOCK FALSE
