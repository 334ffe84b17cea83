--------------------------- MODULE ProfileCounter ---------------------------
(***************************************************************************)
(* Repeated execution of one compiled instruction.  The code the baseline  *)
(* JIT emits for a bytecode runs every time the bytecode executes; the     *)
(* special fast-case profile it increments (RareCaseProfile::m_counter) is *)
(* allocated once at compile time and persists across those executions.    *)
(* Each execution is ArithExec's fast path and slow path on fresh operand  *)
(* values; between executions only the counter carries over.               *)
(***************************************************************************)
EXTENDS Integers, Sequences, ArithExec

CONSTANT MaxRuns   \* the number of executions explored

VARIABLE runs      \* executions of the compiled code started so far

profileVars == <<allVars, runs>>

ProfileInit == ExecInit /\ runs = 1

\* The bytecode executes again: the same machine code is entered with the
\* operand registers holding new values.  An execution that faulted or
\* branched to no entry does not come back.
Rerun ==
    /\ xphase = "ret"
    /\ runs < MaxRuns
    /\ a' \in OperandValues(prog[1].op1, prog[1].types[1])
    /\ b' \in IF prog[1].op \in UnaryOps THEN {UndefV}
              ELSE OperandValues(prog[1].op2, prog[1].types[2])
    /\ xphase' = "idle"
    /\ entry' = 0
    /\ runs' = runs + 1
    /\ UNCHANGED <<compileVars, r0, r1, result, counter>>

ProfileNext == (ExecNext /\ UNCHANGED runs) \/ Rerun

ProfileSpec == ProfileInit /\ [][ProfileNext]_profileVars

\* Spec section 5: the profiling counters are "simple saturating
\* increments"; the next tier reads a counter that was ever incremented as
\* non-zero.  The generated add32(1, &m_counter) of mul's negative-zero
\* path and div's failed retag is meant never to lower the counter.
CounterSaturates == [][counter' >= counter]_counter

=============================================================================
