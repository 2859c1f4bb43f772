\* Do the semaphores of a queue count what is in that queue?
CONSTANTS
    Machines = {m1, m2}
    Crashing = {}
    Starved = {}
    None = None
SPECIFICATION NamesSpec
INVARIANT SemaphoresCountOwnQueue
SYMMETRY Symmetry
\* queue_new returns, and that is all.
CHECK_DEADLOCK FALSE
