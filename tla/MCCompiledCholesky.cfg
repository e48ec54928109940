SPECIFICATION FairSpec
CONSTANTS
    Inputs <- SmallInputs
\* The program ends.
CHECK_DEADLOCK FALSE
INVARIANTS
    IInv
    OperandsAreSerial
    OrderIsNecessary
    AsyncHasWorkers
    KeepsProtocol
PROPERTIES
    RefinesSequential
    CallsEnd
