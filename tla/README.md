# TLA+ models of the baseline JIT's arithmetic code generator

The repository's visible source is one file:
`src/modules/web/src/main/native/Source/JavaScriptCore/jit/JITArithmetic.cpp`
(JavaScriptCore's baseline JIT, the `USE(JSVALUE64)` emitters for arithmetic
and relational bytecodes). `spec.md` describes the same subsystem. This
directory holds TLA+ models of it, the TLC configurations that check them, and
`PROJECT.json`, which maps every modelled definition to the source lines it
translates and lists the runs, mutants and hazards.

## 1. Inventory

### Components

| Component | Where | State it keeps | Operations |
|---|---|---|---|
| Operand classifier | `isOperandConstantImmediateInt/Double/Char`, `OperandTypes` (JIT.h, ResultType.h; used throughout the file) | none (pure) | classify an operand as a constant int / double / one-character string or a register; read the parser's hints `mightBeNumber`, `definitelyIsNumber` |
| Fast-path emitter | `emit_op_*`, `emit_compareAndJump`, `compileBinaryArithOp` (lines 46-116, 192-214, 225-240, 250-283, 307-340, 364-374, 385-427, 529-555, 565-593, 607-634, 649-653, 666-703, 788-816, 835-862, 876-950, 976-985) | appends to the method's instruction buffer; appends entries to `m_slowCases`; adds special fast-case profiles to the CodeBlock | one routine per opcode, choosing one shape from the operand classes and the build's capabilities |
| Slow-case list | `m_slowCases` (`addSlowCase`, `emitJumpSlowCaseIf*`, `linkSlowCase`, `getSlowCase`, `linkDummySlowCase`) | an ordered list of (unlinked jump, bytecode offset) | append during the main pass, consume in order during the slow pass |
| Slow-path emitter | `emitSlow_op_*`, `emit_compareAndJumpSlow`, `compileBinaryArithOpSlowCase` (lines 118-188, 216-223, 242-248, 285-305, 342-362, 376-383, 429-527, 557-601, 636-658, 705-786, 818-833, 864-874, 952-974, 987-995) | consumes entries, emits the double retry and the runtime call | one routine per opcode, which must consume exactly the entries its fast routine recorded, in the same order |
| Runtime operation bridge | `JITSlowPathCall` / `callOperation` with `slow_path_*` and `operationCompare*` (outside this file) | none visible here | the full ECMAScript semantics of each operation |
| Tagged value model | `JSValue` encoding (JSCJSValue.h, outside this file); used here by `add64/sub64(tagTypeNumberRegister)`, `xor64` (negate), `and64` (bitand), `emitFastArithReTagImmediate` | none | int32 = `TagTypeNumber | uint32`, double = raw bits + 2^48, cell = pointer with no tag bits |
| Profiling feedback | `RareCaseProfile::m_counter` (lines 671, 693, 846, 853, 941) | one 32-bit counter per profiled bytecode offset, allocated at compile time, incremented by the generated code | `addSpecialFastCaseProfile` (compile time), `add32(1, counter)` (run time) |
| Driver | `JIT::privateCompileMainPass`, `privateCompileSlowCases` (JIT.cpp, outside this file) | `m_bytecodeOffset`, the slow-case iterator | main pass in bytecode order; slow pass groups entries by bytecode offset and `RELEASE_ASSERT`s that each emitSlow routine linked exactly its own entries |

### How they interact

The driver calls each opcode's fast routine in bytecode order. A fast routine
asks the classifier which shape to emit and records one slow-case entry per
guard it leaves open, tagged only with the bytecode offset. The slow pass then
walks the list from the front: the entry at the iterator selects the
instruction, whose slow routine re-derives the shape from the same operand
facts and consumes as many entries as it believes were recorded. Nothing but
order and count ties an entry to the code that handles it. At run time the
generated fast code either produces the result or jumps to one of these
entries; the slow code there either retries in double arithmetic (comparisons,
add/sub/mul) or calls the runtime bridge. Generated code also increments the
profiling counters that the next tier reads.

### What is hard

Compilation is single-threaded and synchronous (spec §5): there is no
interleaving, crash or message loss to model. The hard behaviour is:

* **the fast/slow pairing** - two independently written routines per opcode
  must agree, for every operand classification, hint combination and build
  (x86 or not, floating-point truncation or not, profiling or not), on the
  number and order of entries. A mismatch only shows as a release assert or,
  worse, as correct counts with the wrong slow code behind an entry;
* **numeric edges of the generated code** - overflow at INT_MIN/INT_MAX,
  negative zero (0 negated, 0 * negative, negative % divisor with zero
  remainder, 0 / negative), INT_MIN % -1, division by zero, shift amounts of
  32 or more, unsigned results above INT_MAX, NaN in relational jumps and the
  polarity of the negated jumps;
* **the tagged encoding tricks** - bitand of two tagged words, skipping the
  retag after a negative immediate, negating a double by flipping bit 63;
* **trust in type hints** - the division and add emitters skip type checks
  when the parser's hints say "number", and the div slow routine returns
  without linking anything;
* **the profiling counters** - 32-bit counters incremented with a plain
  `add32`.

### What makes each component correct

* Slow-case list: every emitSlow routine consumes exactly the entries its emit
  routine recorded (the driver's release asserts never fire), and each entry
  reaches slow code that handles the check that jumped there.
* Fast and slow emitters together: for every operand pair, the value the
  generated code stores (or the branch it takes) equals the ECMAScript result;
  the fast path alone handles int operands with no overflow and no negative
  zero.
* Relational jumps: `jless` and `jnless` classify alike and branch opposite
  ways for every input, NaN included.
* Tagged values: int and double encodings are disjoint; the bit tricks of
  negate and bitand give the encoding of the right value.
* Profiling: every mul and div has exactly one special fast-case profile; a
  counter that was incremented reads non-zero.

## 2. Plan

Modules, in the order they are built (most important behaviour first):

1. **`JITSlowCases`** (done) - the two-pass protocol. State: the program, the
   build, the phase, `m_bytecodeOffset`, `m_slowCases`, the slow-pass
   iterator, the links made so far, the profiles added. Actions:
   `EmitMainPass` (one instruction's emit routine) and `EmitSlowCases` (one
   iteration of the slow pass with its two release asserts). Every emit and
   emitSlow routine is a definition returning the labels it records or the
   handlers it links.
2. **`JSNumber`** (done) - the reference semantics of the runtime bridge over an
   abstract number domain (exact rationals, -0, NaN, +-Infinity) and int32
   scaled to `IntBits` bits (`% 2^IntBits`), ToInt32/ToUint32, the relational
   comparison with undefined for NaN. Pure operators, checked against
   definitions by enumeration.
3. **`ArithExec`** (done) - execution of the code one instruction compiles to: the
   fast path on concrete operands (registers, guards, overflow tests, the
   profile increments), the jump to the k-th slow-case entry, the handler the
   pairing of `JITSlowCases` gives that entry, the double retry and the
   runtime call. Extends `JITSlowCases` and `JSNumber`. Checks
   that the stored value or branch equals the reference for every operand
   pair, that int operands without overflow never leave the fast path, jump
   polarity, the division retag and negative zero, mod's guards and shift
   masking.
4. **`ArithOp`** (done) - the abstract specification of an arithmetic instruction
   (one atomic step from operands to the reference result), and the proof by
   TLC that `ArithExec` implements it under a refinement mapping (PROPERTY
   `ImplementsArithOp == Abstract!ASpec`).
5. **`TaggedValue`** (done) - the 64-bit encoding scaled down (tag field,
   payload, double offset) with the community `Bitwise` operators: the
   `xor64` negate trick, `and64` of tagged words and of a
   sign-extended immediate.
6. **`ProfileCounter`** (done) - repeated execution of a profiled site: the 32-bit
   counter (scaled width) against the spec's "saturating" claim.
7. (done) A violation run where the parser's hints are allowed to be wrong,
   as the spec says they may be, against the div/add fast paths that trust
   them.
8. (done) `JITSlowCases` on programs of three instructions, where groups of
   neighbouring instructions meet. `TaggedValue` extended to the bit-level
   boxing of div's and the double retry's results, over every NaN the FPU
   can return.

## 3. Modules and runs so far

### `JITSlowCases` (`MCJITSlowCases.tla`, `MCJITSlowCases.cfg`)

* `prog`, `caps` are chosen in `Init` and never change; `phase`, `pc`,
  `slowCases`, `iter`, `links` and `profiles` follow the driver.
* An instruction is a record `[op, op1, op2, types]`; an operand is a register
  (`"var"`) or a constant int (with its value, which matters for mul's `> 0`
  test), double, one-character string or other constant; `types` are the two
  hints. A slow-case entry is `[to, label]`: the offset it belongs to and the
  check that jumps to it (`op1NotInt`, `overflow`, `negZero`, ...).
* A slow routine's handler is the label its code assumes at that entry, or
  `any` where it calls the runtime with reloaded operands or with registers
  every entry of the shape leaves in place. The labels that matter are
  those of `compileBinaryArithOpSlowCase`'s `notImm1`/`notImm2` and the first
  entry of `emit_compareAndJumpSlow`, which run the double retry.
* `emitLoadCharacterString` (JITInlines.h) is not in the file; its failure
  count is the constant `CharLoadFailures` = 3 (structure, length, null value).
* The driver's behaviour on a failed release assert, on running past the end
  of the list (undefined behaviour) or on `UNREACHABLE_FOR_PLATFORM` is the
  single outcome `phase = "fatal"`: all of them stop compilation or worse.

Run `slowcases_all_shapes`: every opcode, every operand kind on each side,
every hint combination a register can have (a constant's hint is its own
type), under all 8 builds (x86 or not, FP truncation or not, profiling or
not); one instruction per program (7 912 initial states). Properties:

* `SlowCasesBalanced` - no release assert, overrun or unreachable routine;
* `SlowCaseReachesItsHandler` - each entry is linked by its own instruction
  and to a handler that handles the check that jumped there (catches swapped
  orders that keep the count);
* `SpecialFastCaseProfilesSorted` - `profiles` is the CodeBlock's vector
  of special fast-case profiles, one bytecode offset per
  `addSpecialFastCaseProfile` call, in call order. The DFG finds a profile
  by binary search on the offset, so the vector must be strictly increasing.
  Every mul and div already passed has its profile (the DFG expects one,
  line 845). The mutant `SpecialFastCaseProfiles_mulConstNoProfile` (the
  constant mul paths add none) breaks it. Since `EmitMainPass` appends the
  current offset and offsets only grow, the order across instructions holds
  by construction. What the property tests is that each instruction adds at
  most one profile, and that mul and div add theirs; it is checked on single
  instructions only. A profile added by a slow routine cannot arise in this
  model, because `EmitSlowCases` never touches `profiles`;
* `TypeOK`.

Run `slowcases_programs` (`MCJITSlowCasesProg.cfg`): programs of three
instructions. With one instruction every entry belongs to offset 1, so "each
entry is linked by its own instruction" holds by construction there. Likewise
a slow routine that links one entry too many only overruns the list and never
links a wrong entry. With three instructions, a group ends where the next
one starts, and an instruction without slow cases (div with two numeric
hints) can sit between two that have
them. The programs draw from `MCRepresentatives`: one instruction for each
distinct `MCSignature`, that is, for each combination, under all 8 builds, of
the entries the main pass records, the handlers the slow routine links, the
profiles it adds and whether it is a mul or div. The driver and the
properties see nothing else of an instruction, so pairs of representatives
stand for all pairs of instructions. There are 24 of them, and 24^3 * 8 =
110 592 initial states; the run takes 10 s. Checks `SlowCasesBalanced` and
`SlowCaseReachesItsHandler`. The mutant `emitSlow_op_bitand_twoEntries` (a
slow routine linking one entry more than its fast path recorded) violates
`SlowCaseReachesItsHandler` here and not in `slowcases_all_shapes`.

No fairness is assumed and none is needed: the model has no liveness
property, since compilation is a finite deterministic walk. The run sets
`CHECK_DEADLOCK FALSE` because compilation really does stop.

### `JSNumber`

Pure operators. A double is `[k, n, d]`: kind (`fin`, `negzero`, `nan`,
`posinf`, `neginf`) and, for finite values, an exact fraction in lowest terms.
The operand magnitudes used are small, so every sum, difference and product
is exact in binary64, and the division retag ("is the quotient an int32?") is
decided exactly. int32 is scaled to `IntBits` = 4 bits (-8..7): overflow,
wrap, the `0x1f` shift mask (here `IntBits - 1`) and the signed/unsigned
reading of a bit pattern all use `2^IntBits`. A value is `[t, n, x, s]`:
an int, a double, a string of character codes, an object, undefined, null,
a boolean (ToNumber 1 or +0), an opaque runtime result (`generic`), or a branch outcome.

### `ArithExec` (`MCArithExec.tla`)

`ArithExec` extends `JITSlowCases` (its compilation state and actions) and
`JSNumber`, and adds one execution of the compiled instruction (`ExecSpec`):

* `Compile` is a step of `JITSlowCases`; execution variables stay unchanged.
* `RunFastPath` (phase `done`): `FastPath` computes what the emitted fast
  code does with the operand values `a`, `b`: it stores a result (`Done`),
  branches at one of its checks (`Jump`, with the registers `regT0`/`regT1`
  as they are at the branch, e.g. the wrapped sum after an overflow), or
  faults in `idiv` (`Trap`). A branch goes to the first slow-case entry
  recorded with that check's label; no such entry means `lost`. The profile
  increment of a counted branch (`CountedJump`, div's failed retag) is
  `add32`, modulo `2^CounterBits`.
* `RunSlowPath`: the slow code the slow pass linked to that entry runs with
  the registers as the fast path left them: the double retry of
  `compileBinaryArithOpSlowCase` (`DoubleRetry`) or of
  `emit_compareAndJumpSlow` (`CompareSlow` with `RelConditions`: each
  opcode's int and double condition, ordered or `OrUnordered`, operation and
  `invert`), or the runtime call, whose result is the reference `ArithRef`.
* A register holding another type than the code expects decodes the way the
  code decodes it. `AsDouble` reads the word of a cell, boolean, null or
  undefined, plus 2^48, as a quiet NaN whose payload is that word (field
  `w`). `FPU` applies the hardware's NaN rule: the result of an operation on
  a NaN operand is that NaN, with its bits (the destination's if both are
  NaN). `BoxResult` is the `sub64` box, which turns such a NaN back into
  the word. With sound hints these NaNs never arise; the
  `spec_hints_advisory` run is where they matter.
* The runtime bridge (`slow_path_*`, `operationCompare*`, outside the file)
  is `ArithRef` / `RelRef` over `JSNumber`: ECMAScript arithmetic, ToInt32,
  ToUint32, shifts, and the abstract relational comparison with ToPrimitive.
  These are the definitions the fast and slow code are checked against, so
  they are written from ECMAScript, independently of the emitters (RelRef
  does not use the condition table).

Fairness: `WF_vars(Next)`. Generated code neither blocks nor waits; a step
that is enabled (the next emitter call, the branch, the slow code) is taken.

Runs (each `CHECK_DEADLOCK FALSE`: the instruction runs once and stops):

* `arith_exec` (`MCArithExec.cfg`): add, sub, mul, div, mod, inc, dec,
  negate; every operand kind on each side (register, constant int -1/0/2,
  double, character, other), every hint combination, x86 or not, profiling or
  not; register values int -8, -1, 0, 2, 7 (INT_MIN, INT_MAX scaled), doubles
  -0, -1.5, 4, -8, NaN, +Inf, a string, an object, undefined, null, true.
  A register's value agrees with its hint (`HintsSound = TRUE`). Properties:
  `ImplementsArithOp` (below),
  `MulNegativeZeroProfile` (the counter is bumped if and only if profiling
  is on and the product of two ints is a true negative zero; with
  profiling, a +0 product stays on the fast path),
  `DivRetag` (the stored quotient is an int exactly when it is an integral
  non-negative-zero int32, and the counter moves exactly for a double),
  `ExecTypeOK`.
* `bits_exec` (`MCArithExecBits.cfg`): lshift, rshift, urshift, bitand,
  unsigned with and without floating-point truncation. Adds
  `UrshiftThenUnsigned`: urshift followed by the op_unsigned the bytecode
  generator emits after it gives ECMAScript `x >>> y`, whether unsigned takes
  its fast or slow path.
* `rel_exec` (`MCArithExecRel.cfg`): the eight relational jumps, with and
  without floating point; values include NaN, +Inf, -0 and strings of one
  and two characters. `ImplementsArithOp` here says the branch is taken
  exactly when the ECMAScript comparison holds (NaN makes `jless` fall
  through and `jnless` jump).
* `spec_int_fast_path` (violation, `MCArithExecIntFast.cfg`):
  `IntFastPathComplete`, spec section 8's "int pairs whose result does not
  overflow never enter the slow path". TLC shows `0 * 0` of two constant
  zeros leaving the fast path when `shouldEmitProfiling()` is false (line
  678). The zeros fail `emit_op_mul`'s `> 0` test and take the general
  shape, whose `branchTest32(Zero)` (line 699) sends every zero product slow.
  With a constant operand > 0, `0 * 2` stays fast.
* `spec_hints_advisory` (violation, `MCArithExecHints.cfg`): add, sub, mul,
  div of two registers under every hint pair with `HintsSound = FALSE`, i.e.
  values the hints rule out. `ImplementsArithOp` fails: with both hints
  `number`, `-8 / "\x01"` stores the string itself, where ECMAScript gives
  NaN. The string's cell word is unboxed as a NaN with the word as its
  payload (line 916). `divsd` returns that NaN (line 920), and `sub64` gives
  the word back (lines 939-942). `-8 / null` likewise stores null, not
  -Infinity. The code skips the number checks on
  `definitelyIsNumber` (lines 891, 910 and the double retry, 733-762), so
  it is right only while the parser's hints are sound; spec section 3 says
  they are never trusted as a proof.

The value sets hit every edge the code tests: INT_MIN and INT_MAX (overflow
of add/sub/inc/dec/negate, INT_MIN % -1, mul overflow), zero on each side
(negative zero, division and modulo by zero), negative operands with zero
products and zero remainders, a double that is integral and one that is not,
a double outside int32 (-8 as a double is INT_MIN: truncation fails), NaN and
infinity, and non-numbers. Scaling to 4 bits keeps every one of those edges
and makes the state spaces 19 000-120 000 states.

### `ArithOp` and the refinement

`ArithOp` is what an instruction promises: one step `Store` puts
`Ref(opcode, opnd1, opnd2)` into `stored`, under weak fairness. `ArithExec`
maps onto it (`Abstract == INSTANCE ArithOp WITH ...`): `opcode`, `opnd1`,
`opnd2` are the instruction and the operand values; `stored` is
`JSValueOf(result)` once `xphase = "ret"` and `NoResult` before; `Ref` is
`ArithRef`. `JSValueOf` forgets the encoding: an int32 and a double holding
the same number are one ECMAScript value (the double retry stores doubles
that `ArithRef` gives as ints). Every compile step, fast path and branch is a
stuttering step; the store is the abstract `Store`. The property
`ImplementsArithOp == Abstract!ASpec` in `arith_exec`, `bits_exec` and
`rel_exec` therefore says: every execution stores the ECMAScript result (or
takes the ECMAScript branch), exactly once, and eventually. The "eventually"
part fails on a fatal compilation, an `idiv` fault or a branch to an entry
nobody recorded.

### `ProfileCounter` (`MCProfileCounter.tla`)

The compiled code runs again each time the bytecode executes (`Rerun`, with
fresh operand values); the counter persists. Run `counter_saturates`
(violation): `CounterSaturates` (`[][counter' >= counter]_counter`, the
spec's "saturating increments") fails after 2^`CounterBits` negative-zero
products: the plain `add32` wraps to 0. `CounterBits` is 2 here (8 in the
passing runs; TLC's own integers are 32-bit, so the real width cannot be
used). The next tier then sees a site that never produced a negative zero.

### `TaggedValue` (`MCTaggedValue.tla`, `MCTaggedValue.cfg`)

The JSValue64 word, scaled from 64 to 12 bits: a 7-bit tag field (sign, 3
exponent bits and 3 mantissa bits of the raw double, as the real 16-bit tag
is sign, 11 exponent and 4 mantissa bits), 1 gap bit (16 in the real word) and
the 4-bit int32 payload. An int is `TagTypeNumber | payload`; a double is its
raw bits plus `DoubleEncodeOffset` (2^5 for 2^48); null, undefined, the
booleans and cells have an empty tag field. The raw double is a 12-bit
binary format (`RawValue` decodes it exactly). NaNs are boxed only as the
purified quiet NaN or its negation. The 3 mantissa bits in the tag matter:
with fewer, the negated quiet NaN plus the offset would carry into the int tag
or into the empty tag. The real layout keeps the same margin (0xFFF8 + 1).

State: the instruction, the two operand words, and the stored word (or
`Slow`). `Execute` is the whole of `emit_op_negate` (`NegateWord`: the int
path's `0x7fffffff` test, `neg32` and retag; the double path's
`emitJumpSlowCaseIfNotImmediateNumber` and `xor64` with bit 63) or of
`emit_op_bitand` (`BitAndWord`: the constant paths' sign-extended
`and64(Imm32)` and conditional retag, with the constant on either side,
and the two-register `and64` and int check). A constant operand's register
is not read: it holds undefined in `TVInit`.
It can also be the tail of `emit_op_div` (`DivResult`: `branchConvertDoubleToInt32`
and retag, the raw-zero test that stores int 0, the counter increment and
the box) or of the double retry (`BoxDouble`: `moveDoubleTo64` and
`sub64(tagTypeNumberRegister)`). For these two, `w1` holds the raw bits the
FPU left, drawn from `FPUResult`: every non-NaN raw and both signs of the
quiet NaN. That set is what the hardware can produce from boxed operands:
x86's default NaN is the negative quiet NaN, ARM's the positive one, and a
NaN operand (which, being boxed, is PNaN) propagates quieted, that is,
unchanged. `FPUResult` assumes numeric operands, that is, sound hints.
With unsound hints, a non-number operand's payload NaN also reaches the box;
`ArithExec` models that case. `counter` is the profile increment.

Run `tagged_words`: every int word, every boxable double whose low mantissa
bits are all zeros or all ones (so every tag-field value a double has), and
the other words, and every raw result for div and the retry; 155 852 states.
Properties:

* `NegateWordCorrect` - the stored word is a boxed number (a boxed double
  stays boxed and purified) holding the negation of the operand, and only 0,
  INT_MIN and non-numbers go slow;
* `BitAndWordCorrect` - the stored word is exactly the int encoding of the
  and, stored exactly when both operands are ints (no mix of tags passes the
  int check, a negative immediate keeps the tag without retag);
* `BoxedResultCorrect` - the word div or the retry stores is a number word
  holding the FPU's double, NaNs included: nothing purifies them, and none
  lands on an int pattern or a cell. Div stores an int exactly for an int32
  quotient other than -0, and counts exactly the boxed doubles. If any raw
  word were allowed as an FPU result, a signalling NaN such as 0x701 would
  break the property, so the property depends on which NaNs the hardware
  returns. The mutant `BoxDouble_add`, which boxes with the unboxing
  `add64`, breaks it.

The module has no type invariant: every operation on the words is bitwise or
taken modulo 2^WordBits, so the type of the words holds by construction.

## 4. Not modelled

* The `USE(JSVALUE32_64)` emitters (another file) and the optimizing tier.
* Instruction selection and register allocation beyond what the fast and
  slow paths assume of `regT0`-`regT2`; the instruction buffer and linking.
* The runtime bridge's coercions of non-numeric operands (valueOf calls,
  string concatenation) beyond their numeric result; strings hold no digits,
  so ToNumber of a string is NaN.
* The unboxing `add64(tagTypeNumberRegister)` before the double loads of
  div and the double retry is modelled at the level of values in
  `ArithExec` (`AsDouble` with its payload NaN, not bit by bit). The boxing of their results is also checked on words, in
  `TaggedValue` (`BoxDouble`, `DivResult`).
* The storage of the special fast-case profiles (CodeBlock.h, not in this
  file). The generated code bakes in the address of each profile's counter
  (line 941, and the `RareCaseProfile*` of line 671). That address stays
  valid only if later appends never move the vector's elements. The model
  checks the order of the offsets in the vector, not where it lives.
* Concurrent execution of generated code: JavaScript runs on one thread per
  VM, so the counters' lost updates the spec mentions are not modelled.
