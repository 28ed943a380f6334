SPECIFICATION FairSpec
CONSTANTS
    Payload = {a, b}
    MaxReliableInTransit = 2
    MaxPosts = 3
INVARIANTS TypeOK InOrder NoStall AckedIsKept
PROPERTIES FifoSpec EventuallyDelivered EventuallyAcknowledged
