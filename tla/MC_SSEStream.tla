--------------------------- MODULE MC_SSEStream ---------------------------
EXTENDS SSEStream

\* Two distinct payloads tell yielded events apart; three lines give every
\* shape before, between and after another.
MC_Payloads == {"p1", "p2"}
MC_MaxLines == 3
=============================================================================
