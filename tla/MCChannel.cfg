SPECIFICATION Spec
CONSTANTS
    s1 = s1
    s2 = s2
    p1 = p1
    None = None
    Calls <- MCCalls
    Streaming <- MCStreaming
    FrameUnits = 2
    MaxUnits = 4
    Room = 2
INVARIANTS OneConversation OwnAnswers
PROPERTIES Returns Implements
CHECK_DEADLOCK FALSE
