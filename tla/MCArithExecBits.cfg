CONSTANTS
    Instrs <- MCBitInstrs
    Caps <- MCBitCaps
    Values <- MCValues
    ProgLen = 1
    CharLoadFailures = 3
    IntBits = 4
    CounterBits = 8
    HintsSound = TRUE

SPECIFICATION ExecSpec

INVARIANT ExecTypeOK
INVARIANT UrshiftThenUnsigned
PROPERTY ImplementsArithOp

\* The instruction runs once: after it has stored its result no step is left.
CHECK_DEADLOCK FALSE
