--------------------------- MODULE MCJITSlowCases ---------------------------
(***************************************************************************)
(* Model of JITSlowCases: every instruction shape the arithmetic emitters  *)
(* tell apart, under every build the emitters distinguish.                 *)
(***************************************************************************)
EXTENDS JITSlowCases

\* Operand kinds: a non-constant register, constant ints on either side of
\* the > 0 and >= 0 tests, a constant double, a constant one-character
\* string and any other constant.
MCOperands ==
    {[k |-> "var", v |-> 0], [k |-> "int", v |-> -1], [k |-> "int", v |-> 0],
     [k |-> "int", v |-> 2], [k |-> "double", v |-> 0], [k |-> "char", v |-> 0],
     [k |-> "other", v |-> 0]}

\* The hints the parser can give an operand: any for a register, the
\* constant's own type for a constant.
MCHints(o) ==
    CASE o.k = "var" -> {"notNumber", "maybeNumber", "number"}
      [] o.k \in {"int", "double"} -> {"number"}
      [] OTHER -> {"notNumber"}

MCUnaryOps  == {"negate", "inc", "dec", "unsigned"}
MCBinaryOps == {"lshift", "rshift", "urshift", "bitand", "mod"}
MCHintedOps == {"add", "sub", "mul", "div"}

MCInstrs ==
    {[op |-> op, op1 |-> o1, op2 |-> [k |-> "var", v |-> 0],
      types |-> <<"maybeNumber", "maybeNumber">>] : op \in MCUnaryOps, o1 \in MCOperands}
    \cup
    {[op |-> op, op1 |-> o1, op2 |-> o2, types |-> <<"maybeNumber", "maybeNumber">>] :
        op \in MCBinaryOps \cup RelOps, o1 \in MCOperands, o2 \in MCOperands}
    \cup
    UNION {{[op |-> op, op1 |-> o1, op2 |-> o2, types |-> t] :
                op \in MCHintedOps, t \in MCHints(o1) \X MCHints(o2)} :
            o1 \in MCOperands, o2 \in MCOperands}

\* x86 (the IDIV fast path for mod), floating-point truncation (the double
\* path of the shifts) and value profiling (the mul negative-zero counter).
MCCaps == [x86 : BOOLEAN, fpTruncate : BOOLEAN, profiling : BOOLEAN]

\* What the driver can observe of an instruction under each build: the slow
\* cases its main pass records, the handlers its slow routine links, the
\* profiles it adds, and whether it must own a profile.
MCSignature(i) ==
    [c \in MCCaps |-> <<MainSites(i, c), SlowHandlers(i, c),
                        SpecialFastCaseProfiles(i, c), i.op \in {"mul", "div"}>>]

\* One instruction per signature: two programs whose instructions have the
\* same signatures have the same behaviours, so pairs of representatives
\* cover every two-instruction program.
MCRepresentatives ==
    {CHOOSE i \in MCInstrs : MCSignature(i) = s : s \in {MCSignature(i) : i \in MCInstrs}}

=============================================================================
