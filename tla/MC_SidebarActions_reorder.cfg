\* Read transactions that may complete in any order.
CONSTANTS
    c1 = c1
    c2 = c2
    none = none
    Convs <- MC_Convs
    NoConv <- none
    ReorderedReads = TRUE
    MaxEvents <- MC_MaxEvents
    MaxReads <- MC_MaxReads
SPECIFICATION Spec
INVARIANT HighlightFollowsRoute
