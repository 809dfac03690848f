\* Every response of up to three lines, framed as the server sends it.
\* A generator that has returned, thrown or been stopped takes no step.
CONSTANTS
    Payloads <- MC_Payloads
    MaxLines <- MC_MaxLines
    AfterDone = FALSE
SPECIFICATION Spec
INVARIANT TypeOK
PROPERTY ImplementsContract
CHECK_DEADLOCK FALSE
