SPECIFICATION QencSpec
CONSTANTS
    N = 2
    Pins = {"A", "B", "BTN"}
INVARIANTS QencTypeOK NothingLeftBehind
PROPERTIES NothingCountedTwice StepCounted
CHECK_DEADLOCK TRUE
