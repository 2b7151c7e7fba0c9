SPECIFICATION FairSpec
CONSTANTS
    Requests = {"reload"}
    Names = {"a", "b", "c"}
    Contents <- MCContents
    Parsed <- MCParsed
    Initial = "first"
    CommandLines <- MCCommandLines
    ANONYMOUS_INPUT_NAME = "any"
    DIMENSION_MAX = 9
    Missing = "missing"
    None = "nobody"
    MAX_CONFIG_JSON_READ_RETRY_COUNT = 2
    MaxEdits = 2
    MaxFailures = 2
INVARIANTS
    OkIsTrue
    CliAgrees
PROPERTIES
    Converges
    LoadersSettle
