SPECIFICATION HSpec
CONSTANTS
    N = 2
    WordsA = {a1}
    WordsB = {w1, w2}
    Values = {0, 1}
    Zero = 0
    HostRegions = {"A", "B", "IOP_CTRL"}
    CoreRegions = {"A", "B", "mmio"}
SYMMETRY SameWords
INVARIANTS TypeOK CoreReadAtomic FirmwareReadStable StallBound StoreWrittenOnce
PROPERTIES AtomicMailbox
CHECK_DEADLOCK TRUE
