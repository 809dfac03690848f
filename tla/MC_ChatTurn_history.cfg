\* DeepSeek-R1-style replies: one leading think block, stopped anywhere.
CONSTANTS
    Letters <- MC_Letters
    MaxTokens <- MC_MaxTokens
    Format = "r1"
    ExtraTypes <- MC_ExtraTypes
    AudioMimes <- MC_AudioMimes
    MaxExtras <- MC_NoExtras
SPECIFICATION Spec
INVARIANTS
    HistoryMatchesDisplay
\* A finished reply of MaxTokens tokens has no successor: the stream ends.
CHECK_DEADLOCK FALSE
