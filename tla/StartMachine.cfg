\* A program that can or cannot be opened, one failing fork, stages that die.
CONSTANTS
    Openable = {TRUE, FALSE}
    Crashing = {"instruction_store", "processing_unit"}
    MaxForkFailures = 1
SPECIFICATION FairSpec
INVARIANTS OpenedLeavesNothing EndsOneOfTwoWays
PROPERTY LimitHolds
\* The machine ends.
CHECK_DEADLOCK FALSE
