---------------------------- MODULE JITSlowCases ----------------------------
(***************************************************************************)
(* The two-pass protocol of the baseline JIT's arithmetic code generator   *)
(* (JITArithmetic.cpp, USE(JSVALUE64)).                                    *)
(*                                                                         *)
(* The main pass visits every instruction in order and calls its emit_op_* *)
(* routine, which appends to the slow-case list one entry for every        *)
(* conditional branch it leaves unresolved (addSlowCase and the            *)
(* emitJumpSlowCaseIf* helpers).  The slow pass walks that list from its   *)
(* front: the entry at the iterator names the instruction whose            *)
(* emitSlow_op_* routine is called, and that routine consumes entries with *)
(* linkSlowCase / getSlowCase / linkDummySlowCase.  Nothing but order and  *)
(* count pairs an entry with the slow code that handles it.                *)
(*                                                                         *)
(* An entry is modelled by the bytecode offset it belongs to and a label   *)
(* naming the check that branches to it; a slow routine is modelled by the *)
(* sequence of handlers it links, a handler being the label the slow code  *)
(* assumes ("any" when it goes straight to a call that reloads operands).  *)
(***************************************************************************)
EXTENDS Integers, Sequences, FiniteSets

CONSTANTS
    Instrs,          \* instructions the program may contain
    ProgLen,         \* instructions per compiled program
    Caps,            \* build capabilities (one record per supported build)
    CharLoadFailures \* failure branches emitLoadCharacterString appends

ASSUME ProgLen \in Nat \ {0} /\ CharLoadFailures \in Nat

VARIABLES
    prog,       \* the bytecode: 1..ProgLen -> Instrs (offset = index)
    caps,       \* the build's capability flags
    phase,      \* "main", "slow", "done" or "fatal"
    pc,         \* m_bytecodeOffset during the main pass
    slowCases,  \* m_slowCases: << [to, label] >>
    iter,       \* the slow pass iterator into m_slowCases
    links,      \* every entry linked so far, with the handler it reached
    profiles    \* m_specialFastCaseProfiles: the bytecode offset of each, in order

vars == <<prog, caps, phase, pc, slowCases, iter, links, profiles>>

LOCAL SeqExt == INSTANCE SequencesExt

RelOps == {"jless", "jlesseq", "jgreater", "jgreatereq",
           "jnless", "jnlesseq", "jngreater", "jngreatereq"}

-----------------------------------------------------------------------------
(* Operand classification (the isOperandConstantImmediate... tests) and     *)
(* type hints (ResultType::mightBeNumber, definitelyIsNumber).             *)

IsConstInt(o)    == o.k = "int"
IsConstDouble(o) == o.k = "double"
IsConstChar(o)   == o.k = "char"
ConstInt(o)      == o.v

mightBeNumber(h)      == h # "notNumber"
definitelyIsNumber(h) == h = "number"

Any(n) == [j \in 1..n |-> "any"]

-----------------------------------------------------------------------------
(* Main-pass emitters: the labels of the slow cases each one records.      *)

\* emitLoadCharacterString's failure list, one entry per failure branch.
CharFailures == [j \in 1..CharLoadFailures |-> "notCharString"]

emit_compareAndJump(i) ==
    IF IsConstChar(i.op1) \/ IsConstChar(i.op2)
        THEN <<"notCell">> \o CharFailures
    ELSE IF IsConstInt(i.op2) THEN <<"op1NotInt">>
    ELSE IF IsConstInt(i.op1) THEN <<"op2NotInt">>
    ELSE <<"op1NotInt", "op2NotInt">>

\* The int path tests the low 31 bits for zero (0 and INT_MIN); a non-int
\* operand only reaches the slow case if it is not a number either.
emit_op_negate(i) == <<"zeroOrMinInt", "op1NotNumber">>

emit_op_lshift(i) == <<"op1NotInt", "op2NotInt">>

emit_op_rshift(i, c) ==
    IF IsConstInt(i.op2) THEN <<"op1NotInt">>
    ELSE IF c.fpTruncate THEN <<"op1NotNumber", "truncFailed", "op2NotInt">>
    ELSE <<"op1NotInt", "op2NotInt">>

emit_op_urshift(i, c) ==
    IF IsConstInt(i.op2) THEN <<"op1NotInt">>
    ELSE IF c.fpTruncate THEN <<"op1NotNumber", "truncFailed", "op2NotInt">>
    ELSE <<"op1NotInt", "op2NotInt">>

emit_op_unsigned(i) == <<"op1NotInt", "negative">>

emit_op_bitand(i) ==
    IF IsConstInt(i.op1) THEN <<"op2NotInt">>
    ELSE IF IsConstInt(i.op2) THEN <<"op1NotInt">>
    ELSE <<"resultNotInt">>

emit_op_inc(i) == <<"op1NotInt", "overflow">>

emit_op_dec(i) == <<"op1NotInt", "overflow">>

emit_op_mod(i, c) ==
    IF c.x86
        THEN <<"op1NotInt", "op2NotInt", "divByZero", "minIntDivNegOne",
               "negZeroRemainder">>
        ELSE <<>>

\* Variant: the two int checks emitted in the other order.
compileBinaryArithOp_checksSwapped(opc, c) ==
    <<"op2NotInt", "op1NotInt">> \o
    CASE opc \in {"add", "sub"} -> <<"overflow">>
      [] opc = "mul" /\ c.profiling -> <<"overflow", "negZero">>
      [] opc = "mul" -> <<"overflow", "zeroResult">>

compileBinaryArithOp(opc, c) ==
    <<"op1NotInt", "op2NotInt">> \o
    CASE opc \in {"add", "sub"} -> <<"overflow">>
      [] opc = "mul" /\ c.profiling -> <<"overflow", "negZero">>
      [] opc = "mul" -> <<"overflow", "zeroResult">>

emit_op_add(i, c) ==
    IF ~mightBeNumber(i.types[1]) \/ ~mightBeNumber(i.types[2]) THEN <<"dummy">>
    ELSE IF IsConstInt(i.op1) THEN <<"op2NotInt", "overflow">>
    ELSE IF IsConstInt(i.op2) THEN <<"op1NotInt", "overflow">>
    ELSE compileBinaryArithOp("add", c)

emit_op_mul(i, c) ==
    IF IsConstInt(i.op1) /\ ConstInt(i.op1) > 0 THEN <<"op2NotInt", "overflow">>
    ELSE IF IsConstInt(i.op2) /\ ConstInt(i.op2) > 0 THEN <<"op1NotInt", "overflow">>
    ELSE compileBinaryArithOp("mul", c)

\* An operand that is neither a constant double nor a constant int is
\* type-checked unless its hint says it definitely is a number.
DivOperandSite(o, h, lbl) ==
    IF ~IsConstDouble(o) /\ ~IsConstInt(o) /\ ~definitelyIsNumber(h)
        THEN <<lbl>> ELSE <<>>

emit_op_div(i) ==
    DivOperandSite(i.op1, i.types[1], "op1NotNumber")
        \o DivOperandSite(i.op2, i.types[2], "op2NotNumber")

emit_op_sub(i, c) == compileBinaryArithOp("sub", c)

MainSites(i, c) ==
    CASE i.op \in RelOps  -> emit_compareAndJump(i)
      [] i.op = "negate"   -> emit_op_negate(i)
      [] i.op = "lshift"   -> emit_op_lshift(i)
      [] i.op = "rshift"   -> emit_op_rshift(i, c)
      [] i.op = "urshift"  -> emit_op_urshift(i, c)
      [] i.op = "unsigned" -> emit_op_unsigned(i)
      [] i.op = "bitand"   -> emit_op_bitand(i)
      [] i.op = "inc"      -> emit_op_inc(i)
      [] i.op = "dec"      -> emit_op_dec(i)
      [] i.op = "mod"      -> emit_op_mod(i, c)
      [] i.op = "add"      -> emit_op_add(i, c)
      [] i.op = "mul"      -> emit_op_mul(i, c)
      [] i.op = "div"      -> emit_op_div(i)
      [] i.op = "sub"      -> emit_op_sub(i, c)

\* addSpecialFastCaseProfile calls made by the main pass for one instruction.
\* Variant: the constant-operand paths of emit_op_mul add no profile.
SpecialFastCaseProfiles_mulConstNoProfile(i, c) ==
    CASE i.op = "add" -> IF /\ mightBeNumber(i.types[1]) /\ mightBeNumber(i.types[2])
                               /\ ~IsConstInt(i.op1) /\ ~IsConstInt(i.op2)
                            THEN 1 ELSE 0
      [] i.op = "mul" -> IF \/ IsConstInt(i.op1) /\ ConstInt(i.op1) > 0
                            \/ IsConstInt(i.op2) /\ ConstInt(i.op2) > 0
                         THEN 0 ELSE 1
      [] i.op \in {"sub", "div"} -> 1
      [] OTHER -> 0

SpecialFastCaseProfiles(i, c) ==
    CASE i.op = "add" -> IF /\ mightBeNumber(i.types[1]) /\ mightBeNumber(i.types[2])
                               /\ ~IsConstInt(i.op1) /\ ~IsConstInt(i.op2)
                            THEN 1 ELSE 0
      [] i.op \in {"sub", "mul", "div"} -> 1
      [] OTHER -> 0

-----------------------------------------------------------------------------
(* Slow-pass emitters: the handlers each one links, in order.  "any" is a  *)
(* handler that calls the runtime with operands it reloads or that every   *)
(* entry of the shape leaves in place; "unreachable" stops compilation.    *)

emit_compareAndJumpSlow(i) ==
    IF IsConstChar(i.op1) \/ IsConstChar(i.op2) THEN Any(4)
    ELSE IF IsConstInt(i.op2) THEN <<"op1NotInt">>
    ELSE IF IsConstInt(i.op1) THEN <<"op2NotInt">>
    \* the double retry runs on the first entry, and assumes op1 is no int
    ELSE <<"op1NotInt", "any">>

emitSlow_op_negate(i) == Any(2)

emitSlow_op_lshift(i) == Any(2)

emitSlow_op_rshift(i, c) ==
    IF IsConstInt(i.op2) THEN Any(1)
    ELSE IF c.fpTruncate THEN Any(3)
    ELSE Any(2)

emitSlow_op_urshift(i, c) ==
    IF IsConstInt(i.op2) THEN Any(1)
    ELSE IF c.fpTruncate THEN Any(3)
    ELSE Any(2)

emitSlow_op_unsigned(i) == Any(2)

\* Variant: the routine links two entries, as lshift's does.
emitSlow_op_bitand_twoEntries(i) == Any(2)

emitSlow_op_bitand(i) == Any(1)

emitSlow_op_inc(i) == Any(2)

emitSlow_op_dec(i) == Any(2)

emitSlow_op_mod(i, c) == IF c.x86 THEN Any(5) ELSE <<"unreachable">>

\* notImm1 / notImm2 take the first entries with getSlowCase; the double
\* code linked to them assumes which operand failed the int check.
compileBinaryArithOpSlowCase(opc, op1HasImm, op2HasImm) ==
    (IF op1HasImm THEN <<"op2NotInt">>
     ELSE IF op2HasImm THEN <<"op1NotInt">>
     ELSE <<"op1NotInt", "op2NotInt">>)
    \o <<"any">>
    \o (IF opc = "mul" /\ ~op1HasImm /\ ~op2HasImm THEN <<"any">> ELSE <<>>)

emitSlow_op_add(i) ==
    IF ~mightBeNumber(i.types[1]) \/ ~mightBeNumber(i.types[2]) THEN <<"dummy">>
    ELSE LET op1Has == IsConstInt(i.op1)
             op2Has == ~op1Has /\ IsConstInt(i.op2)
         IN  compileBinaryArithOpSlowCase("add", op1Has, op2Has)

\* Variant: the slow path drops the "> 0" test of the constant operand.
emitSlow_op_mul_noSignTest(i) ==
    LET op1Has == IsConstInt(i.op1)
        op2Has == ~op1Has /\ IsConstInt(i.op2)
    IN  compileBinaryArithOpSlowCase("mul", op1Has, op2Has)

emitSlow_op_mul(i) ==
    LET op1Has == IsConstInt(i.op1) /\ ConstInt(i.op1) > 0
        op2Has == ~op1Has /\ IsConstInt(i.op2) /\ ConstInt(i.op2) > 0
    IN  compileBinaryArithOpSlowCase("mul", op1Has, op2Has)

\* With both hints numeric the routine returns at once (a breakpoint in
\* debug builds): the main pass recorded nothing for it.
emitSlow_op_div(i) ==
    IF definitelyIsNumber(i.types[1]) /\ definitelyIsNumber(i.types[2]) THEN <<>>
    ELSE LET Link(o, h) == IF ~IsConstDouble(o) /\ ~IsConstInt(o)
                                   /\ ~definitelyIsNumber(h)
                              THEN Any(1) ELSE <<>>
         IN  Link(i.op1, i.types[1]) \o Link(i.op2, i.types[2])

emitSlow_op_sub(i) == compileBinaryArithOpSlowCase("sub", FALSE, FALSE)

SlowHandlers(i, c) ==
    CASE i.op \in RelOps  -> emit_compareAndJumpSlow(i)
      [] i.op = "negate"   -> emitSlow_op_negate(i)
      [] i.op = "lshift"   -> emitSlow_op_lshift(i)
      [] i.op = "rshift"   -> emitSlow_op_rshift(i, c)
      [] i.op = "urshift"  -> emitSlow_op_urshift(i, c)
      [] i.op = "unsigned" -> emitSlow_op_unsigned(i)
      [] i.op = "bitand"   -> emitSlow_op_bitand(i)
      [] i.op = "inc"      -> emitSlow_op_inc(i)
      [] i.op = "dec"      -> emitSlow_op_dec(i)
      [] i.op = "mod"      -> emitSlow_op_mod(i, c)
      [] i.op = "add"      -> emitSlow_op_add(i)
      [] i.op = "mul"      -> emitSlow_op_mul(i)
      [] i.op = "div"      -> emitSlow_op_div(i)
      [] i.op = "sub"      -> emitSlow_op_sub(i)

-----------------------------------------------------------------------------
(* The driver (JIT::privateCompileMainPass / privateCompileSlowCases).     *)

Init ==
    /\ prog \in [1..ProgLen -> Instrs]
    /\ caps \in Caps
    /\ phase = "main"
    /\ pc = 1
    /\ slowCases = <<>>
    /\ iter = 1
    /\ links = <<>>
    /\ profiles = <<>>

\* One instruction of the main pass: its emit_op_* routine records its
\* slow cases; after the last one the slow pass starts at the list's front.
\* Variant: the entries are tagged with the offset after the instruction's.
EmitMainPass_offsetAdvanced ==
    /\ phase = "main"
    /\ LET sites == MainSites(prog[pc], caps)
           entries == [j \in 1..Len(sites) |-> [to |-> pc + 1, label |-> sites[j]]]
       IN  /\ slowCases' = slowCases \o entries
           /\ phase' = IF pc < ProgLen THEN "main"
                       ELSE IF slowCases' = <<>> THEN "done" ELSE "slow"
    /\ profiles' = profiles \o [j \in 1..SpecialFastCaseProfiles(prog[pc], caps) |-> pc]
    /\ pc' = pc + 1
    /\ UNCHANGED <<prog, caps, iter, links>>

EmitMainPass ==
    /\ phase = "main"
    /\ LET sites == MainSites(prog[pc], caps)
           entries == [j \in 1..Len(sites) |-> [to |-> pc, label |-> sites[j]]]
       IN  /\ slowCases' = slowCases \o entries
           /\ phase' = IF pc < ProgLen THEN "main"
                       ELSE IF slowCases' = <<>> THEN "done" ELSE "slow"
    /\ profiles' = profiles \o [j \in 1..SpecialFastCaseProfiles(prog[pc], caps) |-> pc]
    /\ pc' = pc + 1
    /\ UNCHANGED <<prog, caps, iter, links>>

\* One iteration of the slow pass: the entry at the iterator selects the
\* instruction, whose emitSlow_op_* routine links as many entries as it has
\* handlers; then the two RELEASE_ASSERTs check that it linked exactly the
\* entries of its own offset.  Running past the end of the list, an
\* unreachable routine or a failed assert ends compilation ("fatal").
EmitSlowCases ==
    /\ phase = "slow"
    /\ LET first == slowCases[iter].to
           h     == SlowHandlers(prog[first], caps)
           next  == iter + Len(h)
           overrun == next - 1 > Len(slowCases)
           notEnough == next <= Len(slowCases) /\ slowCases[next].to = first
           tooMany == Len(h) = 0 \/ slowCases[next - 1].to # first
       IN  /\ links' = IF overrun THEN links
                       ELSE links \o [j \in 1..Len(h) |->
                              [to |-> slowCases[iter + j - 1].to, by |-> first,
                               site |-> slowCases[iter + j - 1].label,
                               handler |-> h[j]]]
           /\ iter' = next
           /\ phase' = IF overrun \/ \E j \in 1..Len(h) : h[j] = "unreachable" \/ notEnough \/ tooMany
                           THEN "fatal"
                       ELSE IF next > Len(slowCases) THEN "done" ELSE "slow"
    /\ UNCHANGED <<prog, caps, pc, slowCases, profiles>>

Next == EmitMainPass \/ EmitSlowCases

Spec == Init /\ [][Next]_vars

-----------------------------------------------------------------------------
(* Properties.                                                             *)

Labels == {"op1NotInt", "op2NotInt", "op1NotNumber", "op2NotNumber", "notCell",
           "notCharString", "zeroOrMinInt", "truncFailed", "negative",
           "resultNotInt", "overflow", "divByZero", "minIntDivNegOne",
           "negZeroRemainder", "negZero", "zeroResult", "dummy"}

Ops == RelOps \cup {"negate", "lshift", "rshift", "urshift", "unsigned", "bitand",
                    "inc", "dec", "mod", "add", "mul", "div", "sub"}
Hints == {"notNumber", "maybeNumber", "number"}
Operand == [k : {"var", "int", "double", "char", "other"}, v : Int]

TypeOK ==
    /\ prog \in [1..ProgLen -> [op : Ops, op1 : Operand, op2 : Operand,
                                types : Hints \X Hints]]
    /\ caps \in Caps
    /\ phase \in {"main", "slow", "done", "fatal"}
    /\ pc \in 1..ProgLen + 1
    /\ slowCases \in Seq([to : 1..ProgLen, label : Labels])
    /\ iter \in Nat \ {0}
    /\ links \in Seq([to : 1..ProgLen, by : 1..ProgLen, site : Labels,
                      handler : Labels \cup {"any", "unreachable"}])
    /\ profiles \in Seq(1..ProgLen)

\* For every instruction shape and every build, emitSlow_op_* links exactly
\* as many slow cases as emit_op_* recorded: privateCompileSlowCases never
\* runs off the list and its "Not enough / Too many jumps linked"
\* RELEASE_ASSERTs never fire, nor is an unreachable slow routine called.
SlowCasesBalanced == phase # "fatal"

\* Every slow case reaches the slow code of its own instruction, and where
\* that code depends on which check failed (the double retry behind
\* getSlowCase's notImm1/notImm2 and the comparison's first entry), the
\* check that branched there is the one the slow code assumes.
SlowCaseReachesItsHandler ==
    \A j \in 1..Len(links) :
        /\ links[j].to = links[j].by
        /\ links[j].handler \in {"any", links[j].site}

\* addSpecialFastCaseProfile appends to the CodeBlock's one vector, and the
\* DFG finds an instruction's profile by binary search on the bytecode
\* offset (specialFastCaseProfileForBytecodeOffset).  Across the whole
\* method the offsets are strictly increasing, so each is found and is
\* unique, and every mul or div the main pass has passed has its profile,
\* which the DFG expects to find.
SpecialFastCaseProfilesSorted ==
    /\ SeqExt!IsSorted(profiles, <)
    /\ \A o \in 1..(pc - 1) : prog[o].op \in {"mul", "div"} => o \in SeqExt!ToSet(profiles)

=============================================================================
