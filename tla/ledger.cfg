\* A sender that restarts and wraps, a receiver that restarts, a history of two
\* entries that is verified while the third is appended.
SPECIFICATION LedgerSpec
CONSTANTS
    SeqModulus = 5
    MaxFrames = 5
    MaxRuns = 2
    MaxForgets = 1
    MaxHistory = 2
INVARIANTS
    NoFalseFork
    GapsDetected
    IntactChainVerifies
PROPERTY NoFalseGap
CHECK_DEADLOCK FALSE
