\* int32 and the 32-bit counter scaled to 4 and 2 bits: 2^2 counted
\* executions reach the counter's width.
CONSTANTS
    Instrs <- MCProfiledInstrs
    Caps <- MCProfilingCaps
    Values <- MCProfiledValues
    ProgLen = 1
    CharLoadFailures = 3
    IntBits = 4
    CounterBits = 2
    HintsSound = TRUE
    MaxRuns = 5

SPECIFICATION ProfileSpec

\* Spec section 5 on the profiling counter's increments.
PROPERTY CounterSaturates

\* The explored executions end after MaxRuns.
CHECK_DEADLOCK FALSE
