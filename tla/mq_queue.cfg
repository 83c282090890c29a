SPECIFICATION FairSpec
CONSTANTS
    w1 = w1
    w2 = w2
    None = None
    Senders = {w1, w2}
    SlotCount = 2
    MaxSends <- MCMaxSends
    MayDie = {w1}
    MayLapse = {w1}
    MayWait = {w2}
    MaxRestarts = 1
INVARIANTS SlotOwnedByOne ReceivedInOrder SentIsKept
PROPERTIES EverythingArrives WaiterServed
CHECK_DEADLOCK FALSE
