SPECIFICATION MasterSpec
CONSTANTS
    N = 1
    Pins = {2, 3, 4, 5}
    Bits = 3
    Transfers = 2
    Cpol = {0, 1}
    Cpha = {0}
    Startup = 0
    Reboots = 1
INVARIANTS SpiTypeOK ByteReceived ByteSent
