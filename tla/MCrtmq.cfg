SPECIFICATION FairSpec
CONSTANTS
    max_msgs = 2
    Senders = {s1, s2}
    Receivers = {r1, r2, r3}
    Forever = {r1}
    Msgs = {m1, m2}
    NoMsg = NoMsg
INVARIANTS TypeOK ListsIntact CopyIntact WakeupsSuffice
PROPERTIES MessagesReceived QueueSpec
CHECK_DEADLOCK FALSE
