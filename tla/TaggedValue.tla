---------------------------- MODULE TaggedValue ----------------------------
(***************************************************************************)
(* The USE(JSVALUE64) encoding of a JSValue in one machine word, and the   *)
(* bit tricks the baseline JIT plays on it: negating a double by flipping  *)
(* bit 63 (emit_op_negate) and and64 of tagged words or of a sign-extended *)
(* immediate (emit_op_bitand).                                             *)
(*                                                                         *)
(* The 64-bit word is scaled to WordBits = TagBits + GapBits + IntBits:    *)
(*   int32   TagTypeNumber | uint32 payload   (top TagBits all ones)       *)
(*   double  raw IEEE bits + DoubleEncodeOffset (2^(GapBits + IntBits))    *)
(*   other   cells (aligned pointers below 2^(GapBits + IntBits)), null,   *)
(*           undefined, true, false: top TagBits all zero.                 *)
(* The raw double is a binary format of the same width with ExpBits        *)
(* exponent bits; the tag field spans the sign, the exponent and the top   *)
(* mantissa bits, as the 16-bit tag spans sign, 11 exponent bits and 4     *)
(* mantissa bits.  JSC stores NaN only as the purified quiet NaN (or its   *)
(* negation), which keeps every double's top field below all ones.        *)
(***************************************************************************)
EXTENDS Integers, JSNumber

CONSTANTS TagBits, GapBits, ExpBits

WordBits == TagBits + GapBits + IntBits
MantBits == WordBits - 1 - ExpBits
Bias     == 2 ^ (ExpBits - 1) - 1

ASSUME /\ TagBits >= 1 + ExpBits + 2 /\ MantBits >= TagBits - 1 - ExpBits
       /\ GapBits >= 1

Word == 0..(2 ^ WordBits - 1)

\* Word arithmetic: add64 and sub64 wrap modulo 2^64.
Add64(w, k) == (w + k) % (2 ^ WordBits)

DoubleEncodeOffset == 2 ^ (GapBits + IntBits)
TagTypeNumber      == (2 ^ TagBits - 1) * DoubleEncodeOffset
SignBit64          == 2 ^ (WordBits - 1)

ValueNull  == 2
ValueFalse == 6
ValueTrue  == 7
ValueUndefined == 10

-----------------------------------------------------------------------------
(* Raw IEEE bits of the scaled double format.                              *)

RawSign(r) == r \div SignBit64
RawExp(r)  == (r \div (2 ^ MantBits)) % (2 ^ ExpBits)
RawMant(r) == r % (2 ^ MantBits)

\* The number a raw double holds.
RawValue(r) ==
    LET s == IF RawSign(r) = 1 THEN -1 ELSE 1
        e == RawExp(r)
        m == RawMant(r)
    IN  CASE e = 2 ^ ExpBits - 1 /\ m = 0 -> SignedInf(s = -1)
          [] e = 2 ^ ExpBits - 1          -> NaN
          [] e = 0 -> MkNum(s * m, 2 ^ (MantBits + Bias - 1), s = -1)
          [] OTHER -> MkNum(s * (2 ^ MantBits + m) * 2 ^ e,
                            2 ^ (MantBits + Bias), s = -1)

\* PNaN (purifyNaN): the quiet NaN with only the top mantissa bit set.
PNaNRaw == (2 ^ ExpBits - 1) * 2 ^ MantBits + 2 ^ (MantBits - 1)

\* The raw doubles a JSValue may box: any non-NaN, and PNaN of either sign.
BoxableRaw(r) ==
    ~IsNaN(RawValue(r)) \/ r \in {PNaNRaw, PNaNRaw + SignBit64}

-----------------------------------------------------------------------------
(* The encoding (JSCJSValue.h).                                            *)

EncodeInt(n)    == TagTypeNumber + Bits32(n)
EncodeDouble(r) == Add64(r, DoubleEncodeOffset)

\* add64(tagTypeNumberRegister, reg): adding 0xFFFF000000000000 modulo 2^64
\* subtracts DoubleEncodeOffset and gives back the raw double.
DecodeDouble(w) == Add64(w, TagTypeNumber)
DecodeInt(w)    == WrapInt32(w % (2 ^ IntBits))

\* emitJumpIfImmediateInteger: branch64(AboveOrEqual, reg, tagTypeNumber).
IsImmediateInteger(w) == w >= TagTypeNumber
\* emitJumpIfImmediateNumber: branchTest64(NonZero, reg, tagTypeNumber).
IsImmediateNumber(w)  == (w & TagTypeNumber) # 0

\* The number a number-tagged word stands for.
WordNumber(w) ==
    IF IsImmediateInteger(w) THEN IntNum(DecodeInt(w)) ELSE RawValue(DecodeDouble(w))

\* A word some JSValue encodes: an int, a boxed boxable double, or a word
\* with an empty tag field.
IsJSValue(w) ==
    \/ IsImmediateInteger(w)
    \/ IsImmediateNumber(w) /\ BoxableRaw(DecodeDouble(w))
    \/ w < DoubleEncodeOffset

-----------------------------------------------------------------------------
(* The generated code on words.                                            *)

VARIABLES instr,   \* the instruction: [op, imm1, imm2, imm]: op1 or op2 is the constant imm
          w1, w2,  \* the words in the operand registers (regT0, regT1); for
                   \* "div" and "retry" w1 is the raw result of the double op
          out,     \* the word stored to the destination, Slow, or NoWord
          counter  \* the increment of the special fast-case profile

tvVars == <<instr, w1, w2, out, counter>>

NoWord == -1
Slow   == -2

\* and64(Imm32(imm), reg): the immediate is sign-extended to 64 bits.
SignExtend(imm) == IF imm < 0 THEN 2 ^ WordBits + imm ELSE imm

\* Variant: the xor64 mask is 0x4000000000000000 (an exponent bit).
NegateWord_wrongBit(w) ==
    CASE IsImmediateInteger(w) ->
             IF w % (2 ^ (IntBits - 1)) = 0 THEN Slow
             ELSE TagTypeNumber | ((2 ^ IntBits - (w % (2 ^ IntBits))) % (2 ^ IntBits))
      [] ~IsImmediateNumber(w) -> Slow
      [] OTHER -> w ^^ (SignBit64 \div 2)

\* emit_op_negate.  An int: zero and INT_MIN (low 31 bits zero) go slow,
\* otherwise neg32 (a 32-bit op, which clears the upper half) and the
\* retag.  A double: xor64 with 0x8000000000000000.
NegateWord(w) ==
    CASE IsImmediateInteger(w) ->
             IF w % (2 ^ (IntBits - 1)) = 0 THEN Slow
             ELSE TagTypeNumber | ((2 ^ IntBits - (w % (2 ^ IntBits))) % (2 ^ IntBits))
      [] ~IsImmediateNumber(w) -> Slow
      [] OTHER -> w ^^ SignBit64

\* Variant: the retag is skipped for a zero immediate ("if (imm > 0)").
BitAndWord_retagPositive(i, x, y) ==
    LET WithImm(imm, w) ==
            IF ~IsImmediateInteger(w) THEN Slow
            ELSE LET r == w & SignExtend(imm)
                 IN  IF imm > 0 THEN r | TagTypeNumber ELSE r
        r == x & y
    IN  CASE i.imm1 -> WithImm(i.imm, y)
          [] i.imm2 -> WithImm(i.imm, x)
          [] OTHER -> IF IsImmediateInteger(r) THEN r ELSE Slow

\* emit_op_bitand.  A constant operand is and64'd as a sign-extended
\* immediate into the other, int-checked, operand and the result is
\* retagged only for a non-negative immediate; two registers are and64'd
\* as tagged words and the result is int-checked.
BitAndWord(i, x, y) ==
    LET WithImm(imm, w) ==
            IF ~IsImmediateInteger(w) THEN Slow
            ELSE LET r == w & SignExtend(imm)
                 IN  IF imm >= 0 THEN r | TagTypeNumber ELSE r
        r == x & y
    IN  CASE i.imm1 -> WithImm(i.imm, y)
          [] i.imm2 -> WithImm(i.imm, x)
          [] OTHER -> IF IsImmediateInteger(r) THEN r ELSE Slow

\* The raw bits addDouble, subDouble, mulDouble and divDouble can leave in
\* the result register: any number, or a quiet NaN.  A NaN is the default
\* NaN of the FPU (negative PNaN on x86, PNaN on ARM) or a NaN operand's
\* bits quieted; an operand is a boxed JSValue, so its NaN is PNaN already.
FPUResult == {r \in Word : ~IsNaN(RawValue(r))} \cup {PNaNRaw, PNaNRaw + SignBit64}

\* Variant: the box adds tagTypeNumber, as the unboxing add64 does.
BoxDouble_add(r) == Add64(r, TagTypeNumber)

\* moveDoubleTo64 and sub64(tagTypeNumberRegister, reg): the raw bits
\* minus 0xFFFF000000000000 modulo 2^64, with no NaN purification.
BoxDouble(r) == (r - TagTypeNumber) % (2 ^ WordBits)

\* The tail of emit_op_div on the raw quotient: retagged as an int when
\* branchConvertDoubleToInt32 succeeds; otherwise an all-zero word (+0.0)
\* is stored as int 0, and any other double is boxed after add32(1,
\* m_counter).  The record holds the stored word and the counter increment.
DivResult(r) ==
    LET q == RawValue(r)
    IN  CASE ~ConvertDoubleToInt32Fails(q) -> [w |-> EncodeInt(q.n), cnt |-> 0]
          [] r = 0 -> [w |-> TagTypeNumber, cnt |-> 0]
          [] OTHER -> [w |-> BoxDouble(r), cnt |-> 1]

CONSTANTS Instrs,  \* the instructions to run
          Words    \* the words an operand register may hold

TVInit ==
    /\ instr \in Instrs
    \* a constant operand is not in a register
    /\ w1 \in CASE instr.op \in {"div", "retry"} -> FPUResult
               [] instr.op = "bitand" /\ instr.imm1 -> {ValueUndefined}
               [] OTHER -> Words
    /\ w2 \in IF instr.op = "bitand" /\ ~instr.imm2 THEN Words ELSE {ValueUndefined}
    /\ out = NoWord
    /\ counter = 0

\* One instruction: negate, bitand, the end of div, or the end of the
\* add/sub/mul/div double retry in compileBinaryArithOpSlowCase.
Execute ==
    /\ out = NoWord
    /\ \/ instr.op = "negate" /\ out' = NegateWord(w1) /\ counter' = 0
       \/ instr.op = "bitand" /\ out' = BitAndWord(instr, w1, w2) /\ counter' = 0
       \/ instr.op = "div" /\ out' = DivResult(w1).w /\ counter' = DivResult(w1).cnt
       \/ instr.op = "retry" /\ out' = BoxDouble(w1) /\ counter' = 0
    /\ UNCHANGED <<instr, w1, w2>>

TVSpec == TVInit /\ [][Execute]_tvVars

-----------------------------------------------------------------------------

\* emit_op_negate: whatever word the register holds, the stored word is a
\* JSValue (the sign flip keeps a boxed double boxed, and a purified NaN
\* purified) holding the negation of the operand, and only the int
\* operands 0 and INT_MIN and non-numbers reach the slow case.
NegateWordCorrect ==
    instr.op = "negate" /\ out # NoWord =>
        IF out = Slow
        THEN \/ ~IsImmediateNumber(w1)
             \/ IsImmediateInteger(w1) /\ DecodeInt(w1) \in {0, IntMin}
        ELSE /\ IsImmediateNumber(out) /\ IsJSValue(out)
             /\ WordNumber(out) = NNeg(WordNumber(w1))

\* emit_op_bitand: the stored word is the int encoding of the ToInt32
\* bitwise and, and it is stored exactly when the operands are ints: no
\* and64 of a double, cell or other word with anything passes the int tag
\* check, and a negative immediate keeps the tag without a retag.
BitAndWordCorrect ==
    instr.op = "bitand" /\ out # NoWord =>
        LET x == IF instr.imm1 THEN EncodeInt(instr.imm) ELSE w1
            y == IF instr.imm2 THEN EncodeInt(instr.imm) ELSE w2
            ints == IsImmediateInteger(x) /\ IsImmediateInteger(y)
        IN  /\ (out = Slow) <=> ~ints
            /\ ints => out = EncodeInt(BitAnd32(DecodeInt(x), DecodeInt(y)))

\* The double results of div and of the double retry: whatever raw bits the
\* FPU leaves, NaNs included, the stored word is a JSValue number holding
\* that double (never an int pattern or a cell pointer, although nothing
\* purifies the NaN); div stores an int exactly when the quotient is an
\* int32 other than -0, and bumps the profile exactly when it stores a
\* boxed double.
BoxedResultCorrect ==
    instr.op \in {"div", "retry"} /\ out # NoWord =>
        /\ IsImmediateNumber(out) /\ IsJSValue(out)
        /\ WordNumber(out) = RawValue(w1)
        /\ instr.op = "div" =>
              /\ IsImmediateInteger(out) <=>
                    (IsIntegral(RawValue(w1)) /\ RawValue(w1).n \in Int32
                     /\ RawValue(w1) # NegZero)
              /\ (counter = 1) <=> ~IsImmediateInteger(out)

=============================================================================
