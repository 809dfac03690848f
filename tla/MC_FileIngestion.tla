------------------------- MODULE MC_FileIngestion -------------------------
EXTENDS FileIngestion, TLC

CONSTANTS b1, b2

\* One drop of up to three files of every kind: its awaits interleave
\* with the FileReader callbacks of its own text files.
MC_Batches == {b1}
MC_FileKinds == AllKinds
MC_MaxFiles == 3
MC_MaxPages == 2

\* A PDF followed by a text file, no read errors.
MC_PdfKinds == {"pdf", "text"}

\* Images and text files whose reads may fail, no PDF.
MC_ReadKinds == {"image", "text"}
MC_OneBatch == {b1}
=============================================================================
