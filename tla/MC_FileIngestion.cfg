\* One onFileAdded call over every file kind, with read errors.
\* A state without successor is one where every batch and every FileReader
\* has finished: the hook then waits for the next drop, which is not
\* modelled as a new batch.
CONSTANTS
    b1 = b1
    b2 = b2
    Batches <- MC_Batches
    FileKinds <- MC_FileKinds
    MaxFiles <- MC_MaxFiles
    MaxPages <- MC_MaxPages
    IOFailures = TRUE
SPECIFICATION Spec
INVARIANT TypeOK
INVARIANT ItemsMatchFiles
CHECK_DEADLOCK FALSE
