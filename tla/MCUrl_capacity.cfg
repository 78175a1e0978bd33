SPECIFICATION MCSpec
CONSTANTS
    Scenes = {"pattern"}
    None = None
    Patterns = {"p1", "p2", "p3"}
    Component <- Components
    Strings = {"s1", "s2"}
    Dictionaries = {"d"}
    Bases = {"base"}
    Process <- Processing
    Capacity = 1
    MaxObjects = 1
    MaxResults = 2
    Objects = {"u1"}
    Texts <- TextSet
    Queries <- QuerySet
    Inits <- InitSet
    Tokens <- TokenSet
    Names = {1, 2}
    Values = {"x"}
    Hosts = {"host"}
    Paths = {"/path"}
    Subclass = FALSE
    MaxPairs = 2
    MaxDepth = 1
INVARIANTS
    MapWithinCapacity
