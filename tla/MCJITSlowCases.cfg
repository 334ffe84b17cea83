CONSTANTS
    Instrs <- MCInstrs
    Caps <- MCCaps
    ProgLen = 1
    CharLoadFailures = 3

SPECIFICATION Spec

INVARIANT TypeOK
INVARIANT SlowCasesBalanced
INVARIANT SlowCaseReachesItsHandler
INVARIANT SpecialFastCaseProfilesSorted

\* Compilation ends: after the slow pass (or a failed assert) no step is left.
CHECK_DEADLOCK FALSE
