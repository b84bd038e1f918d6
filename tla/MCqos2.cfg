SPECIFICATION FairSpec
CONSTANTS
    SubQos <- MCSubQos
    Swipes = 0
    Messages = 1
    InFlight = 1
    Losses = 0
    MSG_QUEUE_ACK = 4
    PUBLISH_RECON = 3
    QOS2_QUE = 1
    SUBRECV_LEN = 4
PROPERTY Qos2Delivered
CHECK_DEADLOCK FALSE
