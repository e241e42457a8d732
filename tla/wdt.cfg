SPECIFICATION TestSpec
CONSTANTS
    N = 2
    CountMod = 32
    Reload = 20
    Reboots = 1
INVARIANTS TestTypeOK ExpiresOnTime NeverLate ReportsOnce ReportComplete
PROPERTIES HangCaught
CHECK_DEADLOCK TRUE
