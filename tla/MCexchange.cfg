SPECIFICATION FairSpec
CONSTANTS
    SubQos <- MCSubQos
    Swipes = 1
    Messages = 2
    InFlight = 1
    Losses = 1
    MSG_QUEUE_ACK = 2
    PUBLISH_RECON = 2
    QOS2_QUE = 1
    SUBRECV_LEN = 1
INVARIANTS TypeOK ConfirmedByBroker
PROPERTIES CallsReturn PubrecEnds
CHECK_DEADLOCK FALSE
