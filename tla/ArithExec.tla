------------------------------ MODULE ArithExec ------------------------------
(***************************************************************************)
(* Compilation followed by execution of one arithmetic instruction.        *)
(*                                                                         *)
(* The compile phase is JITSlowCases (main pass, slow pass).  When it has  *)
(* finished, the code it produced runs once on the operand values a and b: *)
(* the fast path either stores a result or branches at one of its checks   *)
(* to the slow-case entry that check recorded; the slow code the slow pass *)
(* linked to that entry (the handler in links) then retries in double      *)
(* arithmetic or calls the runtime.  The runtime calls (slow_path_add     *)
(* and the rest) have the reference semantics ArithRef.                  *)
(*                                                                         *)
(* Registers are values: a register holding a value of another type than   *)
(* the code expects decodes as that code would decode it (AsDouble).       *)
(***************************************************************************)
EXTENDS Integers, Sequences, JSNumber, JITSlowCases

CONSTANTS Values,     \* the values a non-constant operand may hold at run time
          CounterBits, \* width of RareCaseProfile::m_counter (32, scaled)
          HintsSound   \* the parser's hints are true of the values at run time

ASSUME HintsSound \in BOOLEAN

ASSUME ProgLen = 1

VARIABLES a, b,      \* operand values in the virtual registers op1 and op2
          xphase,    \* "idle", "slow", "ret", "trap" or "lost"
          entry,     \* index in slowCases of the entry the fast path took
          r0, r1,    \* regT0 and regT1 at that branch
          result,    \* the value stored to the destination register
          counter    \* the special fast-case profile's m_counter

compileVars == vars
execVars == <<a, b, xphase, entry, r0, r1, result, counter>>
allVars == <<compileVars, execVars>>

UnaryOps == {"negate", "inc", "dec", "unsigned"}

-----------------------------------------------------------------------------
(* Values of operands.                                                     *)

\* A constant operand's value: a double constant is a non-integral double.
ConstValue(o) ==
    CASE o.k = "int"    -> IntV(o.v)
      [] o.k = "double" -> DblV(MkNum(2 * o.v + 1, 2, FALSE))
      [] o.k = "char"   -> StrV(<<o.v>>)
      [] o.k = "other"  -> UndefV

\* The static type of the operand agrees with its hint.
HintHolds(h, v) ==
    CASE h = "number"    -> IsNumberV(v)
      [] h = "notNumber" -> ~IsNumberV(v)
      [] OTHER           -> TRUE

OperandValues(o, h) ==
    IF o.k = "var" THEN {v \in Values : HintsSound => HintHolds(h, v)}
    ELSE {ConstValue(o)}

\* add64(tagTypeNumberRegister) then move64ToDouble: a double's own value.
\* Any other word w (a cell, a boolean, null or undefined, all below 2^48)
\* becomes the bits 0xFFFF000000000000 + w, a quiet NaN whose payload is the
\* word; field w keeps it.
AsDouble(v) ==
    IF v.t = "double" THEN v.x ELSE [k |-> "nan", n |-> 0, d |-> 1, w |-> v]

WordNaN(q) == "w" \in DOMAIN q

\* addDouble, subDouble, mulDouble and divDouble (SSE2, VFP) on a NaN
\* operand: the result is that NaN, bits unchanged, the destination's when
\* both are NaN; only a NaN the operation itself makes is the default NaN.
FPU(op, dst, src) ==
    CASE IsNaN(dst)  -> dst
      [] IsNaN(src)  -> src
      [] op = "add"  -> NAdd(dst, src)
      [] op = "sub"  -> NSub(dst, src)
      [] op = "mul"  -> NMul(dst, src)
      [] op = "div"  -> NDiv(dst, src)

\* moveDoubleTo64 and sub64(tagTypeNumberRegister): the box of a double; a
\* NaN carrying a word gives that word back.
BoxResult(q) == IF WordNaN(q) THEN q.w ELSE DblV(q)

\* convertInt32ToDouble of a register that holds an int.
IntAsDouble(v) == IntNum(v.n)

-----------------------------------------------------------------------------
(* The runtime operations the slow paths call, slow_path_add and the rest: *)
(* the ECMAScript result, boxed by jsNumber.                               *)

\* ToPrimitive: an object becomes its string "[object Object]" (only its
\* first two characters, '[' and 'o', are kept).
ToPrimitive(v) == IF v = ObjV THEN StrV(<<91, 111>>) ELSE v

\* jsLess / jsLessEq: strings compare by code units, anything else by
\* number, where NaN makes the comparison false.
JSLess(x, y) ==
    LET px == ToPrimitive(x)
        py == ToPrimitive(y)
    IN  IF IsStrV(px) /\ IsStrV(py) THEN StrLess(px.s, py.s)
        ELSE LET nx == ToNumber(px)
                 ny == ToNumber(py)
             IN  ~IsNaN(nx) /\ ~IsNaN(ny) /\ NLess(nx, ny)
JSLessEq(x, y) ==
    LET px == ToPrimitive(x)
        py == ToPrimitive(y)
    IN  IF IsStrV(px) /\ IsStrV(py) THEN ~StrLess(py.s, px.s)
        ELSE LET nx == ToNumber(px)
                 ny == ToNumber(py)
             IN  ~IsNaN(nx) /\ ~IsNaN(ny) /\ ~NLess(ny, nx)

\* operationCompareLess / LessEq / Greater / GreaterEq.
CompareOperation(operation, x, y) ==
    CASE operation = "less"      -> JSLess(x, y)
      [] operation = "lesseq"    -> JSLessEq(x, y)
      [] operation = "greater"   -> JSLess(y, x)
      [] operation = "greatereq" -> JSLessEq(y, x)

\* The arguments each relational opcode passes: the int condition of
\* emit_compareAndJump, and the double condition, runtime operation and
\* invert flag of emit_compareAndJumpSlow.  A negated opcode branches on
\* the opposite int condition, on the "OrUnordered" opposite double
\* condition, and on the inverted result of the positive operation.
RelConditions_orderedNegation ==
    [jless       |-> [cond |-> "lt", dcond |-> "lt", unordered |-> FALSE, operation |-> "less",      invert |-> FALSE],
     jlesseq     |-> [cond |-> "le", dcond |-> "le", unordered |-> FALSE, operation |-> "lesseq",    invert |-> FALSE],
     jgreater    |-> [cond |-> "gt", dcond |-> "gt", unordered |-> FALSE, operation |-> "greater",   invert |-> FALSE],
     jgreatereq  |-> [cond |-> "ge", dcond |-> "ge", unordered |-> FALSE, operation |-> "greatereq", invert |-> FALSE],
     jnless      |-> [cond |-> "ge", dcond |-> "ge", unordered |-> FALSE, operation |-> "less",      invert |-> TRUE],
     jnlesseq    |-> [cond |-> "gt", dcond |-> "gt", unordered |-> TRUE,  operation |-> "lesseq",    invert |-> TRUE],
     jngreater   |-> [cond |-> "le", dcond |-> "le", unordered |-> TRUE,  operation |-> "greater",   invert |-> TRUE],
     jngreatereq |-> [cond |-> "lt", dcond |-> "lt", unordered |-> TRUE,  operation |-> "greatereq", invert |-> TRUE]]

RelConditions ==
    [jless       |-> [cond |-> "lt", dcond |-> "lt", unordered |-> FALSE, operation |-> "less",      invert |-> FALSE],
     jlesseq     |-> [cond |-> "le", dcond |-> "le", unordered |-> FALSE, operation |-> "lesseq",    invert |-> FALSE],
     jgreater    |-> [cond |-> "gt", dcond |-> "gt", unordered |-> FALSE, operation |-> "greater",   invert |-> FALSE],
     jgreatereq  |-> [cond |-> "ge", dcond |-> "ge", unordered |-> FALSE, operation |-> "greatereq", invert |-> FALSE],
     jnless      |-> [cond |-> "ge", dcond |-> "ge", unordered |-> TRUE,  operation |-> "less",      invert |-> TRUE],
     jnlesseq    |-> [cond |-> "gt", dcond |-> "gt", unordered |-> TRUE,  operation |-> "lesseq",    invert |-> TRUE],
     jngreater   |-> [cond |-> "le", dcond |-> "le", unordered |-> TRUE,  operation |-> "greater",   invert |-> TRUE],
     jngreatereq |-> [cond |-> "lt", dcond |-> "lt", unordered |-> TRUE,  operation |-> "greatereq", invert |-> TRUE]]

\* The bytecode's meaning: the branch of a relational jump is taken when
\* the comparison holds (the positive forms) or fails (the negated forms).
RelRef(op, x, y) ==
    CASE op = "jless"       -> JSLess(x, y)
      [] op = "jlesseq"     -> JSLessEq(x, y)
      [] op = "jgreater"    -> JSLess(y, x)
      [] op = "jgreatereq"  -> JSLessEq(y, x)
      [] op = "jnless"      -> ~JSLess(x, y)
      [] op = "jnlesseq"    -> ~JSLessEq(x, y)
      [] op = "jngreater"   -> ~JSLess(y, x)
      [] op = "jngreatereq" -> ~JSLessEq(y, x)

\* The shift count's "& 0x1f": the low log2(IntBits) bits.
ShiftCount(n) == Bits32(n) % IntBits

ArithRef(op, x, y) ==
    LET nx == ToNumber(x)
        ny == ToNumber(y)
    IN  CASE op = "add" -> IF IsCellV(x) \/ IsCellV(y) THEN GenericV
                           ELSE NumberV(NAdd(nx, ny))
          [] op = "sub"    -> NumberV(NSub(nx, ny))
          [] op = "mul"    -> NumberV(NMul(nx, ny))
          [] op = "div"    -> NumberV(NDiv(nx, ny))
          [] op = "mod"    -> NumberV(NMod(nx, ny))
          [] op = "inc"    -> NumberV(NAdd(nx, IntNum(1)))
          [] op = "dec"    -> NumberV(NSub(nx, IntNum(1)))
          [] op = "negate" -> NumberV(NNeg(nx))
          [] op = "lshift" -> IntV(ShiftLeft32(ToInt32(x), ShiftCount(ToUint32(y))))
          [] op = "rshift" -> IntV(ShiftRightArith32(ToInt32(x), ShiftCount(ToUint32(y))))
          \* slow_path_urshift returns the shifted bits cast to int32: the
          \* following op_unsigned makes it a uint32.
          [] op = "urshift" -> IntV(ShiftRightLogical32(ToInt32(x), ShiftCount(ToUint32(y))))
          [] op = "unsigned" -> NumberV(IntNum(ToUint32(x)))
          [] op = "bitand" -> IntV(BitAnd32(ToInt32(x), ToInt32(y)))
          [] op \in RelOps -> BranchV(RelRef(op, x, y))

\* The ECMAScript value of x >>> y, a uint32.
JSUnsignedRightShift(x, y) ==
    NumberV(IntNum(Bits32(ToInt32(x)) \div (2 ^ ShiftCount(ToUint32(y)))))

-----------------------------------------------------------------------------
(* Outcomes of the fast path.                                              *)

Outcome(kind, v, label, x, y, cnt) ==
    [kind |-> kind, v |-> v, label |-> label, r0 |-> x, r1 |-> y, cnt |-> cnt]
Done(v)          == Outcome("done", v, "none", UndefV, UndefV, 0)
Jump(lbl, x, y)  == Outcome("jump", UndefV, lbl, x, y, 0)
\* The branch is preceded by add32(1, m_counter).
CountedJump(lbl, x, y) == Outcome("jump", UndefV, lbl, x, y, 1)
\* idiv raising #DE (division by zero or INT_MIN / -1).
Trap             == Outcome("trap", UndefV, "none", UndefV, UndefV, 0)

Fits(n) == n \in Int32

-----------------------------------------------------------------------------
(* Fast paths.                                                             *)

\* emit_op_negate: an int whose low 31 bits are zero (0 and INT_MIN) goes
\* slow; a double is negated by flipping bit 63.
FastPath_negate(x) ==
    CASE IsIntV(x) /\ Bits32(x.n) % (2 ^ (IntBits - 1)) = 0 -> Jump("zeroOrMinInt", x, UndefV)
      [] IsIntV(x)       -> Done(IntV(-x.n))
      [] ~IsNumberV(x)   -> Jump("op1NotNumber", x, UndefV)
      [] OTHER           -> Done(DblV(NNeg(x.x)))

\* emit_op_inc / emit_op_dec: branchAdd32 / branchSub32 write regT0 even
\* when they overflow.
FastPath_inc(x) ==
    CASE ~IsIntV(x)      -> Jump("op1NotInt", x, UndefV)
      [] ~Fits(x.n + 1)  -> Jump("overflow", IntV(WrapInt32(x.n + 1)), UndefV)
      [] OTHER           -> Done(IntV(x.n + 1))

FastPath_dec(x) ==
    CASE ~IsIntV(x)      -> Jump("op1NotInt", x, UndefV)
      [] ~Fits(x.n - 1)  -> Jump("overflow", IntV(WrapInt32(x.n - 1)), UndefV)
      [] OTHER           -> Done(IntV(x.n - 1))

\* emit_op_mod: the x86 IDIV path.  cdq; idivl leaves the remainder (with
\* the dividend's sign) in edx; a negative dividend with a zero remainder
\* is -0 and goes slow.  Other builds call slow_path_mod inline.
FastPath_mod(c, x, y) ==
    LET rem == x.n - TruncDiv(x.n, y.n) * y.n
    IN  CASE ~c.x86                        -> Done(ArithRef("mod", x, y))
          [] ~IsIntV(x)                    -> Jump("op1NotInt", x, y)
          [] ~IsIntV(y)                    -> Jump("op2NotInt", x, y)
          [] y.n = 0                       -> Jump("divByZero", x, y)
          [] y.n = -1 /\ x.n = IntMin      -> Jump("minIntDivNegOne", x, y)
          [] y.n = 0 \/ (y.n = -1 /\ x.n = IntMin) -> Trap
          [] x.n >= 0                      -> Done(IntV(rem))
          [] rem = 0                       -> Jump("negZeroRemainder", x, y)
          [] OTHER                         -> Done(IntV(rem))

\* Variant: the negative-zero test uses LessThanOrEqual for regT0.
BinaryArith_negZeroLe(opc, c, x, y) ==
    LET r == CASE opc = "add" -> x.n + y.n
               [] opc = "sub" -> x.n - y.n
               [] opc = "mul" -> x.n * y.n
    IN  CASE ~IsIntV(x)                 -> Jump("op1NotInt", x, y)
          [] ~IsIntV(y)                 -> Jump("op2NotInt", x, y)
          [] opc = "mul" /\ c.profiling ->
                 CASE ~Fits(r)            -> Jump("overflow", x, y)
                   [] r # 0               -> Done(IntV(r))
                   [] x.n <= 0 \/ y.n < 0 -> CountedJump("negZero", x, y)
                   [] OTHER               -> Done(IntV(0))
          [] ~Fits(r)                   -> Jump("overflow", IntV(WrapInt32(r)), y)
          [] opc = "mul" /\ r = 0       -> Jump("zeroResult", IntV(0), y)
          [] OTHER                      -> Done(IntV(r))

\* compileBinaryArithOp: regT0 = op1, regT1 = op2.  mul with profiling
\* multiplies into regT2 and tells a genuine -0 (a zero product with a
\* negative factor), which it counts, from +0, which stays fast; without
\* profiling every zero product goes slow.
BinaryArith(opc, c, x, y) ==
    LET r == CASE opc = "add" -> x.n + y.n
               [] opc = "sub" -> x.n - y.n
               [] opc = "mul" -> x.n * y.n
    IN  CASE ~IsIntV(x)                 -> Jump("op1NotInt", x, y)
          [] ~IsIntV(y)                 -> Jump("op2NotInt", x, y)
          [] opc = "mul" /\ c.profiling ->
                 CASE ~Fits(r)            -> Jump("overflow", x, y)
                   [] r # 0               -> Done(IntV(r))
                   [] x.n < 0 \/ y.n < 0  -> CountedJump("negZero", x, y)
                   [] OTHER               -> Done(IntV(0))
          [] ~Fits(r)                   -> Jump("overflow", IntV(WrapInt32(r)), y)
          [] opc = "mul" /\ r = 0       -> Jump("zeroResult", IntV(0), y)
          [] OTHER                      -> Done(IntV(r))

\* The constant-operand paths of add and mul: regT0 holds the other
\* operand, the three-operand branchAdd32 / branchMul32 write regT1.
ImmArith(opc, k, lbl, x) ==
    LET r == IF opc = "add" THEN x.n + k ELSE x.n * k
    IN  CASE ~IsIntV(x) -> Jump(lbl, x, UndefV)
          [] ~Fits(r)   -> Jump("overflow", x, IntV(WrapInt32(r)))
          [] OTHER      -> Done(IntV(r))

\* emit_op_add: with a hint that excludes numbers, slow_path_add is called
\* inline (and a dummy slow case recorded).
FastPath_add(i, c, x, y) ==
    CASE ~mightBeNumber(i.types[1]) \/ ~mightBeNumber(i.types[2]) ->
             Done(ArithRef("add", x, y))
      [] IsConstInt(i.op1) -> ImmArith("add", ConstInt(i.op1), "op2NotInt", y)
      [] IsConstInt(i.op2) -> ImmArith("add", ConstInt(i.op2), "op1NotInt", x)
      [] OTHER             -> BinaryArith("add", c, x, y)

\* Variant: the constant paths also taken for a zero constant.
FastPath_mul_constNonNeg(i, c, x, y) ==
    CASE IsConstInt(i.op1) /\ ConstInt(i.op1) >= 0 ->
             ImmArith("mul", ConstInt(i.op1), "op2NotInt", y)
      [] IsConstInt(i.op2) /\ ConstInt(i.op2) >= 0 ->
             ImmArith("mul", ConstInt(i.op2), "op1NotInt", x)
      [] OTHER -> BinaryArith("mul", c, x, y)

\* emit_op_mul: the constant paths only for a constant greater than zero.
FastPath_mul(i, c, x, y) ==
    CASE IsConstInt(i.op1) /\ ConstInt(i.op1) > 0 ->
             ImmArith("mul", ConstInt(i.op1), "op2NotInt", y)
      [] IsConstInt(i.op2) /\ ConstInt(i.op2) > 0 ->
             ImmArith("mul", ConstInt(i.op2), "op1NotInt", x)
      [] OTHER -> BinaryArith("mul", c, x, y)

\* Variant: no doubleZero branch; +0 is boxed as a double and counted.
FastPath_div_noDoubleZero(i, x, y) ==
    LET Load(o, v) == CASE IsConstDouble(o) -> v.x
                        [] IsConstInt(o)    -> IntNum(ConstInt(o))
                        [] IsIntV(v)        -> IntAsDouble(v)
                        [] OTHER            -> AsDouble(v)
        NotNumber(o, h, v) == ~IsConstDouble(o) /\ ~IsConstInt(o)
                              /\ ~definitelyIsNumber(h) /\ ~IsNumberV(v)
        q == FPU("div", Load(i.op1, x), Load(i.op2, y))
    IN  CASE NotNumber(i.op1, i.types[1], x) -> Jump("op1NotNumber", x, y)
          [] NotNumber(i.op2, i.types[2], y) -> Jump("op2NotNumber", x, y)
          [] ~ConvertDoubleToInt32Fails(q)  -> Done(IntV(q.n))
          [] OTHER -> [Done(BoxResult(q)) EXCEPT !.cnt = 1]

\* emit_op_div: both operands loaded as doubles (an operand not known to be
\* a number is checked first), divDouble, then the result is retagged as
\* an int when it converts exactly; otherwise +0 (all bits zero) becomes
\* int 0, and any other double is boxed after add32(1, m_counter).
FastPath_div(i, x, y) ==
    LET Load(o, v) == CASE IsConstDouble(o) -> v.x
                        [] IsConstInt(o)    -> IntNum(ConstInt(o))
                        [] IsIntV(v)        -> IntAsDouble(v)
                        [] OTHER            -> AsDouble(v)
        NotNumber(o, h, v) == ~IsConstDouble(o) /\ ~IsConstInt(o)
                              /\ ~definitelyIsNumber(h) /\ ~IsNumberV(v)
        q == FPU("div", Load(i.op1, x), Load(i.op2, y))
    IN  CASE NotNumber(i.op1, i.types[1], x) -> Jump("op1NotNumber", x, y)
          [] NotNumber(i.op2, i.types[2], y) -> Jump("op2NotNumber", x, y)
          [] ~ConvertDoubleToInt32Fails(q)  -> Done(IntV(q.n))
          [] q = PosZero                    -> Done(IntV(0))
          [] OTHER -> [Done(BoxResult(q)) EXCEPT !.cnt = 1]

\* emit_op_lshift: both operands must be ints; shl masks the count itself.
FastPath_lshift(x, y) ==
    CASE ~IsIntV(x) -> Jump("op1NotInt", x, y)
      [] ~IsIntV(y) -> Jump("op2NotInt", x, y)
      [] OTHER      -> Done(IntV(ShiftLeft32(x.n, ShiftCount(y.n))))

\* branchTruncateDoubleToInt32 (cvttsd2si): fails when the result is
\* 0x80000000, the "integer indefinite" of NaN, infinities and values out
\* of range, and the truncation of values in (INT_MIN - 1, INT_MIN].
TruncateDoubleToInt32Fails(q) ==
    ~IsFiniteNum(q) \/ TruncDiv(q.n, q.d) \notin (IntMin + 1)..IntMax

\* emit_op_rshift / emit_op_urshift (sar, or shr when logical): a constant count
\* is masked with 0x1f and only op1 is checked; otherwise, with floating-
\* point truncation, a double op1 is truncated to int32 first.
ShiftFast(i, c, logical, x, y) ==
    LET Shift(n, k) == IF logical THEN ShiftRightLogical32(n, k)
                       ELSE ShiftRightArith32(n, k)
        lhs == IF IsIntV(x) THEN x.n ELSE TruncDiv(x.x.n, x.x.d)
    IN  CASE IsConstInt(i.op2) ->
                 IF ~IsIntV(x) THEN Jump("op1NotInt", x, y)
                 ELSE Done(IntV(Shift(x.n, ShiftCount(ConstInt(i.op2)))))
          [] c.fpTruncate /\ ~IsIntV(x) /\ ~IsNumberV(x) -> Jump("op1NotNumber", x, y)
          [] c.fpTruncate /\ ~IsIntV(x) /\ TruncateDoubleToInt32Fails(x.x) ->
                 Jump("truncFailed", IntV(IntMin), y)
          [] ~c.fpTruncate /\ ~IsIntV(x) -> Jump("op1NotInt", x, y)
          [] ~IsIntV(y) -> Jump("op2NotInt", IntV(lhs), y)
          [] OTHER -> Done(IntV(Shift(lhs, ShiftCount(y.n))))

FastPath_rshift(i, c, x, y)  == ShiftFast(i, c, FALSE, x, y)
FastPath_urshift(i, c, x, y) == ShiftFast(i, c, TRUE, x, y)

\* Variant: the branch32(LessThan, regT0, 0) slow case is missing.
FastPath_unsigned_noSignCheck(x) ==
    CASE ~IsIntV(x) -> Jump("op1NotInt", x, UndefV)
      [] OTHER      -> Done(x)

\* Variant: the result is stored without emitFastArithReTagImmediate (a
\* raw int32 word, which is no JSValue).
FastPath_unsigned_untagged(x) ==
    CASE ~IsIntV(x) -> Jump("op1NotInt", x, UndefV)
      [] x.n < 0    -> Jump("negative", x, UndefV)
      [] OTHER      -> Done(IntNum(x.n))

\* emit_op_unsigned: a negative int is a uint32 above INT_MAX.
FastPath_unsigned(x) ==
    CASE ~IsIntV(x) -> Jump("op1NotInt", x, UndefV)
      [] x.n < 0    -> Jump("negative", x, UndefV)
      [] OTHER      -> Done(x)

\* Variant: the two-register path checks the tag of op1 only.
FastPath_bitand_oneTagChecked(i, x, y) ==
    CASE IsConstInt(i.op1) ->
             IF ~IsIntV(y) THEN Jump("op2NotInt", y, UndefV)
             ELSE Done(IntV(BitAnd32(ConstInt(i.op1), y.n)))
      [] IsConstInt(i.op2) ->
             IF ~IsIntV(x) THEN Jump("op1NotInt", x, UndefV)
             ELSE Done(IntV(BitAnd32(x.n, ConstInt(i.op2))))
      [] IsIntV(x) -> Done(IntV(BitAnd32(x.n, y.n)))
      [] OTHER -> Jump("resultNotInt", UndefV, y)

\* emit_op_bitand.  A constant operand is and64'd as a sign-extended Imm32
\* (the tag survives a negative one, is restored for a non-negative one);
\* two registers are and64'd as tagged words, which leaves an int tag only
\* when both were ints.
FastPath_bitand(i, x, y) ==
    CASE IsConstInt(i.op1) ->
             IF ~IsIntV(y) THEN Jump("op2NotInt", y, UndefV)
             ELSE Done(IntV(BitAnd32(ConstInt(i.op1), y.n)))
      [] IsConstInt(i.op2) ->
             IF ~IsIntV(x) THEN Jump("op1NotInt", x, UndefV)
             ELSE Done(IntV(BitAnd32(x.n, ConstInt(i.op2))))
      [] IsIntV(x) /\ IsIntV(y) -> Done(IntV(BitAnd32(x.n, y.n)))
      [] OTHER -> Jump("resultNotInt", UndefV, y)

IntCompare(cond, p, q) ==
    CASE cond = "lt" -> p < q
      [] cond = "le" -> p <= q
      [] cond = "gt" -> p > q
      [] cond = "ge" -> p >= q

\* commute(condition): the condition with its operands swapped.
Commute(cond) ==
    CASE cond = "lt" -> "gt"
      [] cond = "le" -> "ge"
      [] cond = "gt" -> "lt"
      [] cond = "ge" -> "le"

\* emitLoadCharacterString fails unless the cell is a string of length 1.
IsCharString(v) == IsStrV(v) /\ Len(v.s) = 1

\* emit_compareAndJump: against a constant one-character string the other
\* operand's character code is compared (commuted when the constant is
\* op1); otherwise ints are compared, a constant int as an immediate.
CompareFast(i, x, y) ==
    LET cond == RelConditions[i.op].cond
        CharCompare(v, c, k) ==
            CASE ~IsCellV(v)       -> Jump("notCell", v, UndefV)
              [] ~IsCharString(v)  -> Jump("notCharString", v, UndefV)
              [] OTHER             -> Done(BranchV(IntCompare(c, v.s[1], k)))
    IN  CASE IsConstChar(i.op1) ->
                 CharCompare(y, Commute(cond), ConstValue(i.op1).s[1])
          [] IsConstChar(i.op2) ->
                 CharCompare(x, cond, ConstValue(i.op2).s[1])
          [] IsConstInt(i.op2) ->
                 IF ~IsIntV(x) THEN Jump("op1NotInt", x, UndefV)
                 ELSE Done(BranchV(IntCompare(cond, x.n, ConstInt(i.op2))))
          [] IsConstInt(i.op1) ->
                 IF ~IsIntV(y) THEN Jump("op2NotInt", UndefV, y)
                 ELSE Done(BranchV(IntCompare(Commute(cond), y.n, ConstInt(i.op1))))
          [] ~IsIntV(x) -> Jump("op1NotInt", x, y)
          [] ~IsIntV(y) -> Jump("op2NotInt", x, y)
          [] OTHER      -> Done(BranchV(IntCompare(cond, x.n, y.n)))

FastPath(i, c, x, y) ==
    CASE i.op = "negate" -> FastPath_negate(x)
      [] i.op = "inc"    -> FastPath_inc(x)
      [] i.op = "dec"    -> FastPath_dec(x)
      [] i.op = "mod"    -> FastPath_mod(c, x, y)
      [] i.op = "add"    -> FastPath_add(i, c, x, y)
      [] i.op = "mul"    -> FastPath_mul(i, c, x, y)
      [] i.op = "div"    -> FastPath_div(i, x, y)
      [] i.op = "sub"    -> BinaryArith("sub", c, x, y)
      [] i.op = "lshift"   -> FastPath_lshift(x, y)
      [] i.op = "rshift"   -> FastPath_rshift(i, c, x, y)
      [] i.op = "urshift"  -> FastPath_urshift(i, c, x, y)
      [] i.op = "unsigned" -> FastPath_unsigned(x)
      [] i.op = "bitand"   -> FastPath_bitand(i, x, y)
      [] i.op \in RelOps -> CompareFast(i, x, y)

-----------------------------------------------------------------------------
(* Slow paths.                                                             *)

\* The operand with an immediate int fast case, as emitSlow_op_add and
\* emitSlow_op_mul compute it.
Op1HasImm(i) ==
    /\ i.op \in {"add", "mul"}
    /\ IsConstInt(i.op1)
    /\ i.op = "mul" => ConstInt(i.op1) > 0
Op2HasImm(i) ==
    /\ i.op \in {"add", "mul"}
    /\ ~Op1HasImm(i)
    /\ IsConstInt(i.op2)
    /\ i.op = "mul" => ConstInt(i.op2) > 0

\* Variant: the double result is stored without the sub64 that boxes it.
DoubleRetry_unboxed(i, handler, x, y, v0, v1) ==
    LET NotNum(h, v) == ~definitelyIsNumber(h) /\ ~IsNumberV(v)
        call == ArithRef(i.op, x, y)
    IN  CASE Op1HasImm(i) ->
                 IF NotNum(i.types[2], v0) THEN call
                 ELSE FPU(i.op, IntNum(ConstInt(i.op1)), AsDouble(v0))
          [] Op2HasImm(i) ->
                 IF NotNum(i.types[1], v0) THEN call
                 ELSE FPU(i.op, IntNum(ConstInt(i.op2)), AsDouble(v0))
          [] handler = "op1NotInt" ->
                 IF NotNum(i.types[1], v0) \/ NotNum(i.types[2], v1) THEN call
                 ELSE FPU(i.op, AsDouble(v0),
                          IF IsIntV(v1) THEN IntAsDouble(v1) ELSE AsDouble(v1))
          [] handler = "op2NotInt" ->
                 IF NotNum(i.types[2], v1) THEN call
                 ELSE FPU(i.op, IntAsDouble(v0), AsDouble(v1))

\* compileBinaryArithOpSlowCase's double code behind notImm1 / notImm2
\* (handler = the label the code assumes): a register that is not a number
\* (unless the hint says it is) goes to the stub call; otherwise both
\* operands are taken as doubles into fpRegT1 and fpRegT2, the operation
\* computes fpRegT1 OP fpRegT2 and the double is boxed (sub64).  With a
\* constant operand fpRegT1 holds the constant, whichever side it is on.
DoubleRetry(i, handler, x, y, v0, v1) ==
    LET NotNum(h, v) == ~definitelyIsNumber(h) /\ ~IsNumberV(v)
        call == ArithRef(i.op, x, y)
    IN  CASE Op1HasImm(i) ->
                 IF NotNum(i.types[2], v0) THEN call
                 ELSE BoxResult(FPU(i.op, IntNum(ConstInt(i.op1)), AsDouble(v0)))
          [] Op2HasImm(i) ->
                 IF NotNum(i.types[1], v0) THEN call
                 ELSE BoxResult(FPU(i.op, IntNum(ConstInt(i.op2)), AsDouble(v0)))
          [] handler = "op1NotInt" ->
                 IF NotNum(i.types[1], v0) \/ NotNum(i.types[2], v1) THEN call
                 ELSE BoxResult(FPU(i.op, AsDouble(v0),
                                    IF IsIntV(v1) THEN IntAsDouble(v1) ELSE AsDouble(v1)))
          [] handler = "op2NotInt" ->
                 IF NotNum(i.types[2], v1) THEN call
                 ELSE BoxResult(FPU(i.op, IntAsDouble(v0), AsDouble(v1)))

\* branchDouble: an "OrUnordered" condition holds when an operand is NaN,
\* an ordered one does not.
DoubleCompare(cond, unordered, p, q) ==
    IF IsNaN(p) \/ IsNaN(q) THEN unordered
    ELSE CASE cond = "lt" -> NLess(p, q)
           [] cond = "le" -> ~NLess(q, p)
           [] cond = "gt" -> NLess(q, p)
           [] cond = "ge" -> ~NLess(p, q)

\* emit_compareAndJumpSlow: where supportsFloatingPoint(), the entry of a
\* failed op1 int check (or the only entry of a constant-int shape) retries
\* in double arithmetic when both operands are numbers (in the two-register
\* shape: op1 a double and op2 a double); everything else calls the
\* operation and branches on its result, inverted for the negated opcodes.
CompareSlow(i, c, handler, x, y, v0, v1) ==
    LET rc == RelConditions[i.op]
        Call(p, q) == CompareOperation(rc.operation, p, q) # rc.invert
        Retry(p, q) == DoubleCompare(rc.dcond, rc.unordered, p, q)
    IN  BranchV(
          CASE IsConstChar(i.op1) \/ IsConstChar(i.op2) -> Call(x, y)
            [] IsConstInt(i.op2) ->
                   IF c.fp /\ IsNumberV(v0)
                   THEN Retry(AsDouble(v0), IntNum(ConstInt(i.op2)))
                   ELSE Call(v0, y)
            [] IsConstInt(i.op1) ->
                   IF c.fp /\ IsNumberV(v1)
                   THEN Retry(IntNum(ConstInt(i.op1)), AsDouble(v1))
                   ELSE Call(x, v1)
            [] handler = "op1NotInt" ->
                   IF c.fp /\ IsNumberV(v0) /\ IsNumberV(v1) /\ ~IsIntV(v1)
                   THEN Retry(AsDouble(v0), AsDouble(v1))
                   ELSE Call(v0, v1)
            [] OTHER -> Call(v0, v1))

\* The slow code linked to an entry: the stub call (JITSlowPathCall, which
\* reloads the operands from their virtual registers) or the double retry.
SlowPath(i, c, handler, x, y, v0, v1) ==
    IF i.op \in RelOps THEN CompareSlow(i, c, handler, x, y, v0, v1)
    ELSE IF handler = "any" THEN ArithRef(i.op, x, y)
    ELSE DoubleRetry(i, handler, x, y, v0, v1)

-----------------------------------------------------------------------------
(* Compilation, then one execution of the compiled instruction.            *)

ExecInit ==
    /\ Init
    /\ a \in OperandValues(prog[1].op1, prog[1].types[1])
    /\ b \in IF prog[1].op \in UnaryOps THEN {UndefV}
             ELSE OperandValues(prog[1].op2, prog[1].types[2])
    /\ xphase = "idle"
    /\ entry = 0
    /\ r0 = UndefV
    /\ r1 = UndefV
    /\ result = UndefV
    /\ counter = 0

Compile == Next /\ UNCHANGED execVars

\* The fast path runs to a store or to a branch.  A branch goes to the
\* slow-case entry its check recorded; a branch no entry was recorded for
\* ("lost") and an idiv fault ("trap") end the execution.
RunFastPath ==
    /\ phase = "done"
    /\ xphase = "idle"
    /\ LET out == FastPath(prog[1], caps, a, b)
           js  == {j \in 1..Len(slowCases) : slowCases[j].label = out.label}
       IN  /\ xphase' = CASE out.kind = "done" -> "ret"
                           [] out.kind = "trap" -> "trap"
                           [] js = {}           -> "lost"
                           [] OTHER             -> "slow"
           /\ entry' = IF xphase' = "slow"
                       THEN CHOOSE j \in js : \A k \in js : j <= k
                       ELSE entry
           /\ r0' = out.r0
           /\ r1' = out.r1
           /\ result' = IF out.kind = "done" THEN out.v ELSE result
           \* add32(TrustedImm32(1), AbsoluteAddress(&m_counter))
           /\ counter' = (counter + out.cnt) % (2 ^ CounterBits)
    /\ UNCHANGED <<compileVars, a, b>>

\* The slow code the slow pass linked to the entry runs and stores.
RunSlowPath ==
    /\ xphase = "slow"
    /\ result' = SlowPath(prog[1], caps, links[entry].handler, a, b, r0, r1)
    /\ xphase' = "ret"
    /\ UNCHANGED <<compileVars, a, b, entry, r0, r1, counter>>

ExecNext == Compile \/ RunFastPath \/ RunSlowPath

\* The compiled code runs to completion once it is entered: nothing in it
\* blocks or waits.
ExecSpec == ExecInit /\ [][ExecNext]_allVars /\ WF_allVars(ExecNext)

-----------------------------------------------------------------------------
(* Properties.                                                             *)

NumberType == [k : {"fin", "negzero", "nan", "posinf", "neginf"},
               n : Int, d : Nat \ {0}]
Value == [t : {"int", "double", "str", "obj", "undef", "null", "bool", "generic", "branch"},
          n : Int, x : NumberType, s : Seq(Int)]

ExecTypeOK ==
    /\ TypeOK
    /\ {a, b, r0, r1, result} \subseteq Value
    /\ xphase \in {"idle", "slow", "ret", "trap", "lost"}
    /\ entry \in 0..Len(slowCases)
    /\ counter \in 0..(2 ^ CounterBits - 1)

\* The bytecode generator follows op_urshift by op_unsigned: run on the
\* value urshift stored, op_unsigned's code (fast path, or slow_path_unsigned
\* behind either of its slow cases) yields the uint32 of ECMAScript's >>>.
UrshiftThenUnsigned ==
    (xphase = "ret" /\ prog[1].op = "urshift") =>
        LET out == FastPath_unsigned(result)
            v   == IF out.kind = "done" THEN out.v ELSE ArithRef("unsigned", result, UndefV)
        IN  SameValue(v, JSUnsignedRightShift(a, b))

\* The ECMAScript value a stored JSValue stands for: an int32 and a double
\* holding the same number are the same value.
JSValueOf(v) == IF IsNumberV(v) THEN NumberV(NumOf(v)) ELSE v

NoResult == Val("none", 0, PosZero, <<>>)

\* The refinement mapping: the instruction and its operands are fixed; the
\* destination holds its value from the store on.
Abstract == INSTANCE ArithOp
    WITH opcode <- prog[1].op, opnd1 <- a, opnd2 <- b,
         stored <- IF xphase = "ret" THEN JSValueOf(result) ELSE NoResult,
         Ref <- ArithRef

\* Compilation followed by execution of the emitted fast and slow code
\* implements the atomic instruction: every execution stores exactly the
\* ECMAScript result (or takes exactly the ECMAScript branch), once, and
\* eventually (no idiv fault, no branch to an entry that was not recorded).
ImplementsArithOp == Abstract!ASpec

\* Spec section 8: for int operands whose sum, difference or product does
\* not overflow (and is no negative zero), the fast path produces the
\* result and the slow path is never entered.
IntFastPathComplete ==
    (xphase = "ret" /\ prog[1].op \in {"add", "sub", "mul"} /\ IsIntV(a) /\ IsIntV(b)
     /\ IsIntV(ArithRef(prog[1].op, a, b))) => entry = 0

\* compileBinaryArithOp's mul profiling: with profiling on, the counter is
\* incremented exactly for "a genuine negative zero" of two int operands
\* (never for a +0 product, an overflow or a double retry), and when the
\* product is +0 "we don't want the slow case to be taken".
MulNegativeZeroProfile ==
    (xphase = "ret" /\ prog[1].op = "mul") =>
        /\ counter > 0 <=> /\ caps.profiling /\ IsIntV(a) /\ IsIntV(b)
                           /\ ArithRef("mul", a, b) = DblV(NegZero)
        /\ (caps.profiling /\ IsIntV(a) /\ IsIntV(b)
            /\ ArithRef("mul", a, b) = IntV(0)) => entry = 0

\* emit_op_div's retag: a quotient that is an int32 (other than -0) is
\* stored as an int, and the counter is incremented exactly when a double
\* is stored ("If it's not an integer, we increment a count").
DivRetag ==
    (xphase = "ret" /\ prog[1].op = "div" /\ entry = 0) =>
        LET q == NDiv(ToNumber(a), ToNumber(b))
        IN  /\ IsIntV(result) <=> (IsIntegral(q) /\ q.k = "fin" /\ Fits(q.n))
            /\ counter > 0 <=> result.t = "double"

=============================================================================
