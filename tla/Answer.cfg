SPECIFICATION Spec
CONSTANTS
    Papers <- SomePapers
    Row <- Rows
    Archive <- Archives
    Terms = {"named"}
    Cites <- ACites
    RrfScale = 60
    RrfK = 1
    VectorK = 2
    GateK = 3
    RerankTopN = 2
    AnchorK = 1
    PriorBoost = 1
    NameBoost = 1
    CarryBoost = 1
    MinScore = 1
    MinPapersKept = 1
    PapersForAnswer = 2
    ChainFrom = 1
    ChainMax = 1
    ChunkK = 3
    PassageTopN = 2
    PassageMin = 2
    DetailMin = 1
    DetailMax = 1
    MaxPerPaper = 1
    PassagesForAnswer = 2
    MinPassagesKept = 1
    MaxQueries = 2
    Rankings <- SomeRankings
    Rerankings <- Scores
    Filters <- SomeFilters
    Earlier <- Answered
    Pinnable = {1, 3, 4}
    ChunksOf <- Chunked
    ChunkLists <- Lists
    PassageScores = {0, 1, 2}
    Unready = {2}
    ReadAnswers <- SomeNotes
    ReadMinNotes = 1
    MaxNotes = 2
    Drafts <- SomeDrafts
    Texts <- SomeTexts
    NamesIn <- Names
    AltersMath = {"garbled"}
    SaysPreprint = {"named"}
    TextNames <- InTexts
    TitleNames <- InTitles
    MaxPins = 3
    MaxRestarts = 1
    MaxRechunked = 1
INVARIANTS SelectionInv EvidenceInv EvidenceIsKept KeptIsSupported
CHECK_DEADLOCK FALSE
