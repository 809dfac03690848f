\* DeepSeek-R1-style replies: one leading think block, stopped anywhere;
\* user turns with up to two items.
CONSTANTS
    Letters <- MC_Letters
    MaxTokens <- MC_MaxTokens
    Format = "r1"
    ExtraTypes <- MC_ExtraTypes
    AudioMimes <- MC_AudioMimes
    MaxExtras <- MC_MaxExtras
SPECIFICATION Spec
INVARIANTS
    TypeOK
    DisplayMatchesReference
    RequestFollowsSpec
\* A finished reply of MaxTokens tokens has no successor: the stream ends.
CHECK_DEADLOCK FALSE
