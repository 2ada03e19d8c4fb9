\* 162 URLs; 72 responses, cut into pieces in every way.
CONSTANTS
    Names = {"http", "host", "fe80", "a", "b", "id"}
    Urls <- MCUrls
    Responses <- Answers
    nullptr = nullptr
SPECIFICATION HttpSpec
INVARIANTS
    RequestAsksForUrl
    BodyIntact
    ArrivedIsDelivered
CHECK_DEADLOCK FALSE
