------------------------------- MODULE ArithOp -------------------------------
(***************************************************************************)
(* What an arithmetic or relational bytecode promises: in one step it      *)
(* stores the ECMAScript result of its opcode on its operand values (for a *)
(* relational jump, the branch it takes), and it does so eventually.  How  *)
(* the result is computed (fast path, slow-case entry, double retry,       *)
(* runtime call) and how it is encoded (int32 or double) is invisible.     *)
(***************************************************************************)
CONSTANTS Ref(_, _, _),  \* the ECMAScript result of an opcode on two values
          NoResult       \* the destination before the instruction stores

VARIABLES opcode, opnd1, opnd2,  \* the instruction and its operand values
          stored                 \* the value stored, or NoResult

arithVars == <<opcode, opnd1, opnd2, stored>>

AInit == stored = NoResult

\* The instruction completes: the result is the reference value.
Store ==
    /\ stored = NoResult
    /\ stored' = Ref(opcode, opnd1, opnd2)
    /\ UNCHANGED <<opcode, opnd1, opnd2>>

ASpec == AInit /\ [][Store]_arithVars /\ WF_arithVars(Store)

=============================================================================
