CONSTANTS
    c1 = c1
    c2 = c2
    none = none
    Convs <- MC_Convs
    NoConv <- none
    Texts <- MC_Texts
    MaxMsgs <- MC_MaxMsgs
    MaxItems <- MC_MaxItems
    MaxTimers <- MC_MaxTimers
SPECIFICATION Spec
INVARIANT TypeOK
PROPERTY ReplyShownWhenDone
CHECK_DEADLOCK FALSE
