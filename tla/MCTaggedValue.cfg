CONSTANTS
    Instrs <- MCTVInstrs
    Words <- MCWords
    IntBits = 4
    TagBits = 7
    GapBits = 1
    ExpBits = 3

SPECIFICATION TVSpec

\* The xor64 negate of emit_op_negate.
INVARIANT NegateWordCorrect
\* The and64 of emit_op_bitand.
INVARIANT BitAndWordCorrect
\* The boxing of double results in emit_op_div and the double retry.
INVARIANT BoxedResultCorrect

\* One instruction on one pair of words: the model stops after it.
CHECK_DEADLOCK FALSE
