SPECIFICATION Spec
CONSTANTS
    Entities <- MCEntities
    Episodes <- MCEpisodes
    Communities <- MCCommunities
    Sagas <- MCSagas
    Facts <- MCFacts
    Mentions <- MCMentions
    Members <- MCMembers
    SagaEpisodes <- MCSagaEpisodes
    Successions <- MCSuccessions
    g1 = g1
    g2 = g2
    Groups = {g1, g2}
    GraphOf <- MCGraphOf
    AnyGroup = AnyGroup
    Stores = {"Neo4j", "FalkorDB", "Kuzu", "Neptune"}
    Clients = {1, 2}
    Asks <- MCAsks
    Batch = 1
    None = None
    Seeds <- MCSeeds
    TextQuestions <- MCTextQuestions
    PathQuestions <- MCPathQuestions
    Queries <- MCQueries
    NameOf <- MCNameOf
    CitedBy <- MCCitedBy
    Alike <- MCAlike
    RecipeLimit = 2
INVARIANTS PromisesKept SearchesAgree AnswersRanked
PROPERTIES StoreSpec OperationsEnd
CHECK_DEADLOCK FALSE
