------------------------------ MODULE JSNumber ------------------------------
(***************************************************************************)
(* The values the arithmetic bytecodes operate on, at the level the JIT's  *)
(* fast and slow paths tell them apart, and ECMAScript number arithmetic.  *)
(*                                                                         *)
(* A double is an exact rational in lowest terms, or -0, NaN or an         *)
(* infinity: the operand magnitudes the models use are small enough that   *)
(* every sum, difference and product is exact in binary64, and whether a   *)
(* quotient is an integer (all the division retag tests) is decided        *)
(* exactly.  int32 is scaled to IntBits bits: every wrap, overflow test    *)
(* and shift mask (0x1f = 32 - 1) is taken modulo 2^IntBits instead of     *)
(* 2^32.                                                                   *)
(*                                                                         *)
(* A value is an int32, a double, a string (a sequence of character        *)
(* codes), an object, undefined, null, a boolean, or an opaque "generic"   *)
(* result of the runtime (string concatenation and other non-numeric      *)
(* outcomes).                                                              *)
(***************************************************************************)
EXTENDS Integers, Sequences, Bitwise

CONSTANT IntBits

ASSUME IntBits \in {2, 4, 8, 16, 32}

IntMin == -(2 ^ (IntBits - 1))
IntMax == 2 ^ (IntBits - 1) - 1
Int32  == IntMin..IntMax

\* Two's complement wrap of an integer to int32.
WrapInt32(n) == ((n - IntMin) % (2 ^ IntBits)) + IntMin

\* The unsigned 32-bit pattern of an int32.
Bits32(n) == n % (2 ^ IntBits)

-----------------------------------------------------------------------------
(* Doubles.                                                                *)

RECURSIVE GCD(_, _)
GCD(a, b) == IF b = 0 THEN a ELSE GCD(b, a % b)

Abs(n) == IF n < 0 THEN -n ELSE n

\* Round toward zero of n / d.
TruncDiv(n, d) ==
    IF (n >= 0) = (d > 0) THEN Abs(n) \div Abs(d) ELSE -(Abs(n) \div Abs(d))

Num(k, n, d) == [k |-> k, n |-> n, d |-> d]
PosZero == Num("fin", 0, 1)
NegZero == Num("negzero", 0, 1)
NaN     == Num("nan", 0, 1)
PosInf  == Num("posinf", 0, 1)
NegInf  == Num("neginf", 0, 1)

\* n / d in lowest terms with a positive denominator; a zero takes the sign
\* negZero asks for.
MkNum(n, d, negZero) ==
    IF n = 0 THEN (IF negZero THEN NegZero ELSE PosZero)
    ELSE LET g == GCD(Abs(n), Abs(d))
             s == IF d < 0 THEN -1 ELSE 1
         IN  Num("fin", s * (n \div g), s * (d \div g))

IntNum(n) == MkNum(n, 1, FALSE)
SignedInf(neg) == IF neg THEN NegInf ELSE PosInf

IsNaN(x)      == x.k = "nan"
IsInf(x)      == x.k \in {"posinf", "neginf"}
IsZero(x)     == x.k = "negzero" \/ (x.k = "fin" /\ x.n = 0)
IsFiniteNum(x) == x.k \in {"fin", "negzero"}
\* The IEEE sign bit.
SignBit(x)    == x.k \in {"negzero", "neginf"} \/ (x.k = "fin" /\ x.n < 0)
\* An integral double and the integer it holds.
IsIntegral(x) == IsFiniteNum(x) /\ x.d = 1

NNeg(x) ==
    CASE x.k = "fin"     -> MkNum(-x.n, x.d, x.n = 0)
      [] x.k = "negzero" -> PosZero
      [] x.k = "posinf"  -> NegInf
      [] x.k = "neginf"  -> PosInf
      [] x.k = "nan"     -> NaN

NAdd(x, y) ==
    CASE IsNaN(x) \/ IsNaN(y)                 -> NaN
      [] {x.k, y.k} = {"posinf", "neginf"}     -> NaN
      [] IsInf(x)                              -> x
      [] IsInf(y)                              -> y
      [] x.k = "negzero" /\ y.k = "negzero"   -> NegZero
      [] OTHER -> MkNum(x.n * y.d + y.n * x.d, x.d * y.d, FALSE)

NSub(x, y) == NAdd(x, NNeg(y))

NMul(x, y) ==
    LET neg == SignBit(x) # SignBit(y)
    IN  CASE IsNaN(x) \/ IsNaN(y)                                -> NaN
          [] (IsInf(x) /\ IsZero(y)) \/ (IsZero(x) /\ IsInf(y))   -> NaN
          [] IsInf(x) \/ IsInf(y)                                 -> SignedInf(neg)
          [] OTHER -> MkNum(x.n * y.n, x.d * y.d, neg)

NDiv(x, y) ==
    LET neg == SignBit(x) # SignBit(y)
    IN  CASE IsNaN(x) \/ IsNaN(y)                              -> NaN
          [] (IsInf(x) /\ IsInf(y)) \/ (IsZero(x) /\ IsZero(y)) -> NaN
          [] IsInf(x)                                           -> SignedInf(neg)
          [] IsInf(y)                                           -> MkNum(0, 1, neg)
          [] IsZero(y)                                          -> SignedInf(neg)
          [] OTHER -> MkNum(x.n * y.d, x.d * y.n, neg)

\* ECMAScript % (C fmod): the remainder takes the dividend's sign.
NMod(x, y) ==
    CASE IsNaN(x) \/ IsNaN(y) \/ IsInf(x) \/ IsZero(y) -> NaN
      [] IsInf(y) \/ IsZero(x)                        -> x
      [] OTHER ->
          LET q == TruncDiv(x.n * y.d, x.d * y.n)
          IN  MkNum(x.n * y.d - q * y.n * x.d, x.d * y.d, SignBit(x))

\* x < y for numbers neither of which is NaN (the zeros are equal).
NLess(x, y) ==
    CASE x.k = "neginf" -> y.k # "neginf"
      [] y.k = "posinf" -> x.k # "posinf"
      [] x.k = "posinf" \/ y.k = "neginf" -> FALSE
      [] OTHER -> x.n * y.d < y.n * x.d

\* branchConvertDoubleToInt32 (negative-zero check on): fails for any zero,
\* a non-integral value, NaN and a value outside int32.
ConvertDoubleToInt32Fails(q) ==
    ~IsIntegral(q) \/ IsZero(q) \/ q.n \notin Int32

\* ECMAScript ToInt32 / ToUint32 of a number.
NumToInt32(x) ==
    IF ~IsFiniteNum(x) THEN 0 ELSE WrapInt32(TruncDiv(x.n, x.d))
NumToUint32(x) == Bits32(NumToInt32(x))

-----------------------------------------------------------------------------
(* int32 operations as the hardware performs them.                         *)

BitAnd32(a, b) == WrapInt32(Bits32(a) & Bits32(b))
ShiftLeft32(a, s) == WrapInt32(a * 2 ^ s)
\* Arithmetic shift right (sar): floor division by 2^s.
ShiftRightArith32(a, s) == a \div (2 ^ s)
\* Logical shift right (shr) of the bit pattern, read back as int32.
ShiftRightLogical32(a, s) == WrapInt32(Bits32(a) \div (2 ^ s))

-----------------------------------------------------------------------------
(* Values.                                                                 *)

Val(t, n, x, s) == [t |-> t, n |-> n, x |-> x, s |-> s]
IntV(n)  == Val("int", n, PosZero, <<>>)
DblV(x)  == Val("double", 0, x, <<>>)
StrV(s)  == Val("str", 0, PosZero, s)
ObjV     == Val("obj", 0, PosZero, <<>>)
UndefV   == Val("undef", 0, PosZero, <<>>)
NullV    == Val("null", 0, PosZero, <<>>)
BoolV(b) == Val("bool", IF b THEN 1 ELSE 0, PosZero, <<>>)
GenericV == Val("generic", 0, PosZero, <<>>)
\* The outcome of a relational jump: taken or not.
BranchV(taken) == Val("branch", IF taken THEN 1 ELSE 0, PosZero, <<>>)

IsIntV(v)    == v.t = "int"
IsNumberV(v) == v.t \in {"int", "double"}
IsCellV(v)   == v.t \in {"str", "obj"}
IsStrV(v)    == v.t = "str"

NumOf(v) == IF IsIntV(v) THEN IntNum(v.n) ELSE v.x

\* jsNumber(double): an int32 when the double holds one exactly and is not
\* -0, a double otherwise.
NumberV(x) ==
    IF IsIntegral(x) /\ x.k = "fin" /\ x.n \in Int32 THEN IntV(x.n) ELSE DblV(x)

\* The same ECMAScript value, whichever encoding holds it.
SameValue(v, w) ==
    IF IsNumberV(v) /\ IsNumberV(w) THEN NumOf(v) = NumOf(w) ELSE v = w

\* ToNumber: true is 1, false and null are +0; the models' strings hold no
\* digits and their objects convert to NaN, as does undefined.
ToNumber(v) ==
    CASE IsNumberV(v)   -> NumOf(v)
      [] v.t = "bool"   -> IntNum(v.n)
      [] v = NullV      -> PosZero
      [] OTHER          -> NaN
ToInt32(v)  == NumToInt32(ToNumber(v))
ToUint32(v) == NumToUint32(ToNumber(v))

\* Code-unit order of strings: after a common prefix of length k, s ends
\* first or has the smaller code unit.
StrLess(s, t) ==
    \E k \in 0..Len(s) :
        /\ k <= Len(t)
        /\ \A j \in 1..k : s[j] = t[j]
        /\ \/ k = Len(s) /\ k < Len(t)
           \/ k < Len(s) /\ k < Len(t) /\ s[k + 1] < t[k + 1]

=============================================================================
