SPECIFICATION NetSpec
CONSTANTS
    ChunkSize = 496
    BigLimit = 1000
    ItemMax = 255
    PacketMax = 520
    LittleLimit = 1000000
    LargeLimit = 5000000
    Lengths = {249, 250, 1000}
    Transfers = {1001, 1488}
    NoStamp = NoStamp
    MaxMessages = 3
INVARIANTS NetTypeOK WholeInOrder DatagramsFit AllArrive
