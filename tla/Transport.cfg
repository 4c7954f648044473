SPECIFICATION FairSpec
CONSTANTS
    SeqRange = 3
    MaxPending = 2
    ReceiveWindow = 2
    McuStart <- AnyStart
    MaxBlocks = 5
    MaxLosses = 1
    MaxPremature = 1
    MaxEvents = 1
\* The link is silent when there is nothing more to send.
CHECK_DEADLOCK FALSE
INVARIANTS TypeOK AckedIsExecuted BufferSuffices
PROPERTIES LinkRefined ResponseBeforeCompletion AllAcknowledged
