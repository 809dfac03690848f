---------------------------- MODULE MC_ChatTurn ----------------------------
EXTENDS ChatTurn

\* Two letters tell apart text on either side of a tag.
MC_Letters == {"a", "b"}

\* Two tags, a letter before, between and after them, and a space to trim.
MC_MaxTokens == 6

MC_ExtraTypes == {"context", "textFile", "imageFile", "audioFile"}

MC_AudioMimes == {"audio/mpeg", "audio/wav"}

\* Two items: their order is what the normalization must keep.
MC_MaxExtras == 2

\* Violation runs: a user turn without items.
MC_NoExtras == 0
=============================================================================
