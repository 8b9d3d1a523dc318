SPECIFICATION LiveSpec
CONSTANTS
    Limit = 11
    Closing = 2
    Lines <- SmallTexts
    Loops <- SmallLoops
    ChunksOf <- SmallChunks
    Texts = {"short", "long", "code", "blank", "tool", "thinking", "stopped", "error"}
    Answers = {"short", "long", "code", "blank"}
    Blank = "blank"
    Tool = "tool"
    Thinking = "thinking"
    Stopped = "stopped"
    Error = "error"
    Threads = {t1, t2}
    Resumed = t1
    MaxLines = 2
    MaxFaults = 2
    None = None
INVARIANTS
    ReplyIsTheAnswer
PROPERTIES
    CanceledTurnEnds
