\* Reads complete in the order they were issued.
CONSTANTS
    c1 = c1
    c2 = c2
    none = none
    Convs <- MC_Convs
    NoConv <- none
    ReorderedReads = FALSE
    MaxEvents <- MC_MaxEvents
    MaxReads <- MC_MaxReads
SPECIFICATION Spec
INVARIANT TypeOK
INVARIANT HighlightFollowsRoute
PROPERTY ListCatchesUp
