\* Every tree of up to MaxMsgs nodes the UI can build; the only states
\* without a successor are those where the id bound is used up.
CONSTANTS
    MaxMsgs <- MC_MaxMsgs
SPECIFICATION Spec
INVARIANT TypeOK
INVARIANT BranchIsRootPath
INVARIANT NavigatorSelectsVersion
CHECK_DEADLOCK FALSE
