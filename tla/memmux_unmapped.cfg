SPECIFICATION Spec
CONSTANTS
    N = 2
    WordsA = {a1}
    WordsB = {w1}
    Values = {0, 1}
    Zero = 0
    HostRegions = {"B", "IOP_CTRL", "unmapped"}
    CoreRegions = {"B"}
PROPERTIES HostCompletes
