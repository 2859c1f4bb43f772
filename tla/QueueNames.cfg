\* Four machines that start at the same time; one of them may be killed, and
\* memory may be short for another one.
CONSTANTS
    Machines = {m1, m2, m3, m4}
    Crashing = {m3}
    Starved = {m4}
    None = None
SPECIFICATION NamesSpec
INVARIANTS NamesAreTransient AloneGetsQueue SomebodyGetsQueue
SYMMETRY Symmetry
\* queue_new returns, and that is all.
CHECK_DEADLOCK FALSE
