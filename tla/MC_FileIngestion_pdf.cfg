\* A batch holding a PDF and text files, reads never failing: does every
\* file after a successfully converted PDF get handled?
CONSTANTS
    b1 = b1
    b2 = b2
    Batches <- MC_OneBatch
    FileKinds <- MC_PdfKinds
    MaxFiles <- MC_MaxFiles
    MaxPages <- MC_MaxPages
    IOFailures = FALSE
SPECIFICATION Spec
PROPERTY RemainingFilesProcessed
CHECK_DEADLOCK FALSE
