---------------------------- MODULE MCArithExec ----------------------------
(***************************************************************************)
(* Models of ArithExec on int32 scaled to 4 bits: the arithmetic          *)
(* instructions (add, sub, mul, div, mod, inc, dec, negate) and the bit    *)
(* instructions (lshift, rshift, urshift, bitand, unsigned), each with     *)
(* every operand kind and hint under every build that changes its code.   *)
(***************************************************************************)
EXTENDS ArithExec

MCOperands ==
    {[k |-> "var", v |-> 0], [k |-> "int", v |-> -1], [k |-> "int", v |-> 0],
     [k |-> "int", v |-> 2], [k |-> "double", v |-> 0], [k |-> "char", v |-> 1],
     [k |-> "other", v |-> 0]}

MCHints(o) ==
    CASE o.k = "var" -> {"notNumber", "maybeNumber", "number"}
      [] o.k \in {"int", "double"} -> {"number"}
      [] OTHER -> {"notNumber"}

MCVar == [k |-> "var", v |-> 0]

MCInstrs ==
    {[op |-> op, op1 |-> o1, op2 |-> MCVar, types |-> <<"maybeNumber", "maybeNumber">>] :
        op \in {"negate", "inc", "dec"}, o1 \in {MCVar}}
    \cup
    {[op |-> "mod", op1 |-> o1, op2 |-> o2, types |-> <<"maybeNumber", "maybeNumber">>] :
        o1 \in MCOperands, o2 \in MCOperands}
    \cup
    UNION {{[op |-> op, op1 |-> o1, op2 |-> o2, types |-> t] :
                op \in {"add", "sub", "mul", "div"}, t \in MCHints(o1) \X MCHints(o2)} :
            o1 \in MCOperands, o2 \in MCOperands}

\* Neither fpTruncate nor supportsFloatingPoint changes these instructions'
\* code.
MCCaps == [x86 : BOOLEAN, fpTruncate : {FALSE}, profiling : BOOLEAN, fp : {TRUE}]

MCBitInstrs ==
    {[op |-> "unsigned", op1 |-> MCVar, op2 |-> MCVar,
      types |-> <<"maybeNumber", "maybeNumber">>]}
    \cup
    {[op |-> op, op1 |-> o1, op2 |-> o2, types |-> <<"maybeNumber", "maybeNumber">>] :
        op \in {"lshift", "rshift", "urshift", "bitand"}, o1 \in MCOperands, o2 \in MCOperands}

\* Only floating-point truncation changes the bit instructions' code.
MCBitCaps == [x86 : {TRUE}, fpTruncate : BOOLEAN, profiling : {FALSE}, fp : {TRUE}]

MCRelInstrs ==
    {[op |-> op, op1 |-> o1, op2 |-> o2, types |-> <<"maybeNumber", "maybeNumber">>] :
        op \in RelOps, o1 \in MCOperands, o2 \in MCOperands}

\* Only supportsFloatingPoint (the double retry) changes the relational
\* jumps' code.
MCRelCaps == [x86 : {TRUE}, fpTruncate : {FALSE}, profiling : {FALSE}, fp : BOOLEAN]

\* Register values: ints at and next to the int32 (4-bit) bounds and zero,
\* -0, a fraction, integral doubles (one that truncates to INT_MIN, the
\* truncation's failure value), NaN, +Infinity, a string, an object and
\* undefined.
MCValues ==
    {IntV(n) : n \in {-8, -1, 0, 2, 7}}
    \cup {DblV(NegZero), DblV(MkNum(-3, 2, FALSE)), DblV(IntNum(4)), DblV(IntNum(-8)), DblV(NaN), DblV(PosInf)}
    \cup {StrV(<<1>>), ObjV, UndefV, NullV, BoolV(TRUE)}

\* Register values for the relational jumps: ints around the constants,
\* -0 (equal to 0), a fraction, an integral double, NaN, +Infinity, strings
\* of one character (equal to and above the constant's) and of two, an
\* object and undefined.
MCRelValues ==
    {IntV(n) : n \in {-1, 0, 2}}
    \cup {DblV(NegZero), DblV(MkNum(-3, 2, FALSE)), DblV(IntNum(2)), DblV(NaN), DblV(PosInf)}
    \cup {StrV(<<1>>), StrV(<<2>>), StrV(<<1, 1>>), ObjV, UndefV, NullV, BoolV(TRUE)}

\* add, sub, mul and div of two registers under every hint pair, for a run
\* where the values need not agree with the hints.
MCHintInstrs ==
    {[op |-> op, op1 |-> MCVar, op2 |-> MCVar, types |-> t] :
        op \in {"add", "sub", "mul", "div"},
        t \in MCHints(MCVar) \X MCHints(MCVar)}

=============================================================================
