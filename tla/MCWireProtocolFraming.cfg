SPECIFICATION WireSpec
CONSTANTS
    Bytes = {1, 2}
    MaxPayload = 2
    MaxFrames = 2
    StreamBuf = 20
    DatagramBuf = 9
    MaxDamage = 1
CHECK_DEADLOCK FALSE
INVARIANT WholeMessages
