\* The server's components, one at a time; faults strike at any step.
SPECIFICATION ServerSpec
CONSTANTS
    primary <- OneUrl
    fallbackUrls <- TwoUrls
    Broadcasts = {"b"}
    Reads = {"r"}
    quarantineMs = 1
    chainCheckTtlMs = 1
    LastSwitch = 1
    MaxTime = 2
    courierAt <- OneRequest
    gateAt <- TwoAddresses
    pipelinesAt <- OneDelegate
    crashesAt <- OneFault
    readinessAt <- TwoDelegates
    auditsAt <- TwoClients
INVARIANTS
    CourierSafe
    GateSafe
    RpcSafe
    MandatesSafe
    PacketsSafe
