--------------------------- MODULE MCTaggedValue ---------------------------
(***************************************************************************)
(* A 12-bit JSValue word: 7 tag bits (sign, 3 exponent bits, 3 mantissa    *)
(* bits), 1 gap bit and a 4-bit int32.                                     *)
(***************************************************************************)
EXTENDS TaggedValue

\* Every raw double whose low mantissa bits are all zero or all one, which
\* gives every value of the tag field a double can have.
MCRawDoubles ==
    {r \in 0..(2 ^ WordBits - 1) :
        /\ r % DoubleEncodeOffset \in {0, DoubleEncodeOffset - 1}
        /\ BoxableRaw(r)}

MCWords ==
    {EncodeInt(n) : n \in Int32}
    \cup {EncodeDouble(r) : r \in MCRawDoubles}
    \cup {ValueNull, ValueFalse, ValueTrue, ValueUndefined, 16, 24}

MCTVInstrs ==
    {[op |-> o, imm1 |-> FALSE, imm2 |-> FALSE, imm |-> 0] :
        o \in {"negate", "bitand", "div", "retry"}}
    \cup
    {[op |-> "bitand", imm1 |-> c1, imm2 |-> ~c1, imm |-> k] : c1 \in BOOLEAN, k \in Int32}

=============================================================================
