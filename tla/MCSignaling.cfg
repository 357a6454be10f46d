SPECIFICATION FairSpec
CONSTANTS
    Window = 1
    Exchanges = 1
    Relay <- ClientRelays
    MaxSockets <- ClientLoses
INVARIANTS
    NoSpuriousEnd
PROPERTIES
    HandshakeCompletes
    RevokedSocketsEnd
CHECK_DEADLOCK FALSE
