SPECIFICATION Spec
CONSTANTS
    SubQos <- MCSubscribed
    Swipes = 2
    Messages = 0
    InFlight = 1
    Losses = 0
    MSG_QUEUE_ACK = 4
    PUBLISH_RECON = 3
    QOS2_QUE = 1
    SUBRECV_LEN = 4
INVARIANT PublishConfirmed
CHECK_DEADLOCK FALSE
