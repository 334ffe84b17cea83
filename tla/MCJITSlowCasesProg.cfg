\* Programs of three instructions, each one of the representatives of the
\* instruction shapes: entries of neighbouring instructions meet in the
\* slow-case list, and an instruction without slow cases can sit between
\* two that have them.
CONSTANTS
    Instrs <- MCRepresentatives
    Caps <- MCCaps
    ProgLen = 3
    CharLoadFailures = 3

SPECIFICATION Spec

INVARIANT SlowCasesBalanced
INVARIANT SlowCaseReachesItsHandler

\* Compilation ends: after the slow pass (or a failed assert) no step is left.
CHECK_DEADLOCK FALSE
