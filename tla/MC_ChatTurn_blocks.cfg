\* Replies with several think blocks.
CONSTANTS
    Letters <- MC_Letters
    MaxTokens <- MC_MaxTokens
    Format = "blocks"
    ExtraTypes <- MC_ExtraTypes
    AudioMimes <- MC_AudioMimes
    MaxExtras <- MC_NoExtras
SPECIFICATION Spec
INVARIANTS
    DisplayMatchesReference
\* A finished reply of MaxTokens tokens has no successor: the stream ends.
CHECK_DEADLOCK FALSE
