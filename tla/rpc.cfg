SPECIFICATION RpcSpec
CONSTANTS
    N = 2
    WordsA = {"fw"}
    WordsB = {"tok", "arg", "st"}
    Values = {0, 1, 2, 3, 4, 5, 6}
    Zero = 0
    HostRegions = {"A", "B", "IOP_CTRL"}
    CoreRegions = {"B"}
    Calls = 2
    Reloads = 1
    PollLimited = TRUE
INVARIANTS RpcTypeOK AnswerInStep ServedOnce NoRequestIgnored
PROPERTIES CallsKept CallReturns RingAcknowledged
CHECK_DEADLOCK TRUE
