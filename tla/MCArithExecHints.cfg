\* Registers may hold values the parser's hints rule out.
CONSTANTS
    Instrs <- MCHintInstrs
    Caps <- MCCaps
    Values <- MCValues
    ProgLen = 1
    CharLoadFailures = 3
    IntBits = 4
    CounterBits = 8
    HintsSound = FALSE

SPECIFICATION ExecSpec

\* Spec section 3: the operand hints are "never trusted as a proof"; the
\* instruction stores the ECMAScript result whatever the hints say.
PROPERTY ImplementsArithOp

\* The instruction runs once: after it has stored its result no step is left.
CHECK_DEADLOCK FALSE
