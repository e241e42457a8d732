SPECIFICATION RpcSpec
CONSTANTS
    N = 4
    WordsA = {"fw"}
    WordsB = {"tok", "arg", "st"}
    Values = {0, 1, 2, 3, 4, 5, 6}
    Zero = 0
    HostRegions = {"A", "B", "IOP_CTRL"}
    CoreRegions = {"B"}
    Calls = 2
    Reloads = 0
    PollLimited = FALSE
INVARIANT ReplyIsForCall
CHECK_DEADLOCK TRUE
