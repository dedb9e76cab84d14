\* What is asked for comes, one request at a time.
SPECIFICATION SuiteSpec

CHECK_DEADLOCK FALSE

PROPERTIES
    EveryRequestIsServed
