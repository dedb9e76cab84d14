\* The video of the first emulator, one component at a time.
SPECIFICATION SuiteSpec

CHECK_DEADLOCK FALSE

PROPERTIES
    DrawingKeepsItsRules
    ScreensKeepTheirRules
