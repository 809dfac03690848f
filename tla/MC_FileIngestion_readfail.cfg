\* Images and text files, no PDF, reads may fail: does a failed read stop
\* the files after it?
CONSTANTS
    b1 = b1
    b2 = b2
    Batches <- MC_OneBatch
    FileKinds <- MC_ReadKinds
    MaxFiles <- MC_MaxFiles
    MaxPages <- MC_MaxPages
    IOFailures = TRUE
SPECIFICATION Spec
PROPERTY RemainingFilesProcessed
CHECK_DEADLOCK FALSE
