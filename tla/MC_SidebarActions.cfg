\* Two conversations, any order of sends, replies and sidebar actions.
CONSTANTS
    c1 = c1
    c2 = c2
    none = none
    Convs <- MC_Convs
    NoConv <- none
    ReorderedReads = FALSE
    MaxEvents <- MC_MaxEvents
    MaxReads <- MC_MaxReads
SPECIFICATION Spec
PROPERTY NoChangeWhileGenerating
