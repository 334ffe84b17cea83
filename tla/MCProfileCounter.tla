-------------------------- MODULE MCProfileCounter --------------------------
(***************************************************************************)
(* A profiled multiplication of two registers executed repeatedly with    *)
(* operands whose product is a negative zero or not.                       *)
(***************************************************************************)
EXTENDS ProfileCounter

MCVar == [k |-> "var", v |-> 0]

MCProfiledInstrs ==
    {[op |-> "mul", op1 |-> MCVar, op2 |-> MCVar, types |-> <<"number", "number">>]}

MCProfilingCaps == [x86 : {TRUE}, fpTruncate : {FALSE}, profiling : {TRUE}, fp : {TRUE}]

MCProfiledValues == {IntV(-1), IntV(0), IntV(2)}

=============================================================================
