SPECIFICATION Spec
CONSTANTS
    N = 1
    Pins = {0, 1, 2, 3, 4, 5, 6, 7, 8, 9, 10, 11, 12, 13, 14, 15}
    CountMod = 4096
    Channels = {0, 1}
    Images = {"ir_learn"}
    CapMod = 512
INVARIANTS EdgesOnTime
