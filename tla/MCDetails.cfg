SPECIFICATION DetailsSpec
CONSTANTS
    r1 = r1
    r2 = r2
    page = page
    p = p
    q = q
    Caller <- MCCallers
    Request <- MCRequests
    ProductId <- MCProducts
    NoApi = NoApi
    NoTask = NoTask
    Returned = Returned
    Nothing = Nothing
INVARIANTS
    DetailsTypeOK
    HandedIsCreated
    NeverBlank
    ShowsWhatWasAsked
PROPERTIES
    ConnectionSettles
    LoadingEnds
CHECK_DEADLOCK FALSE
