------------------------------ MODULE Numbers -------------------------------
(***************************************************************************)
(* A program that computes with numbers of one word (i64, u64), of two     *)
(* (i128, u128) and of four (i256, u256), and its loops over a range():    *)
(* the range values of runtime/bigint.h and the loop codegen.c emits.      *)
(***************************************************************************)
EXTENDS BigInt

CONSTANTS
  Operands,     \* the numbers it computes with
  Bounds,       \* the numbers its ranges are made of
  MaxCount      \* bound: the iterations of a loop that are counted

ASSUME NumbersAssumption ==
  /\ \A x \in Operands \cup Bounds : x \in Seq(Words) /\ Len(x) \in {1, 2, 4}
  /\ MaxCount \in Nat

VARIABLE call   \* what is being executed

Idle == [kind |-> "idle"]

-----------------------------------------------------------------------------
(* What the numbers stand for.                                             *)

Size(n) == Power(Radix, n)

\* A loop has fewer iterations than its type has numbers: all are counted.
ASSUME CountAssumption == \A x \in Bounds : Size(Len(x)) <= MaxCount

\* What the n lowest words stand for.
Lower(x, n) ==
  LET sum[i \in 0 .. n] == IF i = 0 THEN 0 ELSE sum[i - 1] + x[i] * Size(i - 1)
  IN  sum[n]
Natural(x) == Lower(x, Len(x))
Number(signed, x) ==
  IF signed /\ 2 * Natural(x) >= Size(Len(x)) THEN Natural(x) - Size(Len(x)) ELSE Natural(x)

Fits(signed, n, number) ==
  IF signed THEN -(Size(n) \div 2) <= number /\ number < Size(n) \div 2
  ELSE 0 <= number /\ number < Size(n)

-----------------------------------------------------------------------------
(* Ranges.  has_zero_step, continues, contains and len are functions of    *)
(* the type of the bounds: i64 on its own, the others from one macro.      *)

Positive(signed, step) == Lt(signed, Zero(step), step)

Continues(r, value) ==
  IF Positive(r.signed, r.step) THEN Lt(r.signed, value, r.stop) ELSE Lt(r.signed, r.stop, value)

Inside(r, value) ==
  IF Positive(r.signed, r.step)
  THEN ~Lt(r.signed, value, r.start) /\ Lt(r.signed, value, r.stop)
  ELSE ~Lt(r.signed, r.start, value) /\ Lt(r.signed, r.stop, value)

\* The distance is taken in uint64_t so it cannot overflow.
GrayRange_i64_contains(r, value) ==
  /\ Inside(r, value)
  /\ IF Positive(TRUE, r.step)
     THEN Wrap(value[1] - r.start[1]) % r.step[1] = 0
     ELSE Wrap(r.start[1] - value[1]) % Wrap(-r.step[1]) = 0

\* The distance is taken in the type of the bounds, and may wrap.
GrayRange_WIDE_contains(r, value) ==
  Inside(r, value) /\ Mod(r.signed, Sub(value, r.start), r.step) = Zero(value)

\* -1 where the function panics.
GrayRange_i64_len(r) ==
  IF ~Continues(r, r.start) THEN 0
  ELSE LET distance == IF Positive(TRUE, r.step) THEN Wrap(r.stop[1] - r.start[1])
                       ELSE Wrap(r.start[1] - r.stop[1])
           stride == IF Positive(TRUE, r.step) THEN r.step[1] ELSE Wrap(-r.step[1])
           n == (distance - 1) \div stride + 1
       IN  IF n > Int64Max THEN -1 ELSE n

GrayRange_WIDE_len(r) ==
  LET one == Small(1, Len(r.start))
      span == SubChecked(r.signed, r.stop, r.start)
      last == IF Positive(r.signed, r.step) THEN SubChecked(r.signed, span, one) ELSE Add(span, one)
  IN  IF ~Continues(r, r.start) THEN 0
      ELSE IF span = Panic THEN -1
      ELSE LET quotient == Div(r.signed, last, r.step)
           IN  IF ~Lt(r.signed, quotient, Small(Int64Max, Len(r.start))) THEN -1
               ELSE quotient[1] + 1

IsI64(r) == r.signed /\ Len(r.start) = 1

RangeContains(r, value) ==
  IF IsI64(r) THEN GrayRange_i64_contains(r, value) ELSE GrayRange_WIDE_contains(r, value)
RangeLen(r) == IF IsI64(r) THEN GrayRange_i64_len(r) ELSE GrayRange_WIDE_len(r)

-----------------------------------------------------------------------------
(* The operations.  The result of the operation op of the signed or the    *)
(* unsigned type.                                                          *)

Unary(op, signed, x) ==
  CASE op = "neg" -> Neg(x)
    [] op = "neg_checked" -> NegChecked(x)
    [] op = "to_i128" -> gray_wide_cast_words(x, signed, 2, TRUE)
    [] op = "to_u128" -> gray_wide_cast_words(x, signed, 2, FALSE)
    [] op = "to_i256" -> gray_wide_cast_words(x, signed, 4, TRUE)
    [] op = "to_u256" -> gray_wide_cast_words(x, signed, 4, FALSE)
    [] op = "to_i64" -> ToWord(x, signed, TRUE)
    [] op = "to_u64" -> ToWord(x, signed, FALSE)
    [] op = "to_decimal" -> to_digits(x, 10)
    [] op = "to_octal" -> to_digits(x, 8)

Binary(op, signed, l, r) ==
  CASE op = "add" -> Add(l, r)
    [] op = "sub" -> Sub(l, r)
    [] op = "mul" -> Mul(l, r)
    [] op = "lt" -> Lt(signed, l, r)
    [] op = "div" -> Div(signed, l, r)
    [] op = "mod" -> Mod(signed, l, r)
    [] op = "shl" -> Shl(l, Number(signed, r))
    [] op = "shr" -> Shr(signed, l, Number(signed, r))
    [] op = "add_checked" -> AddChecked(signed, l, r)
    [] op = "sub_checked" -> SubChecked(signed, l, r)
    [] op = "mul_checked" -> MulChecked(signed, l, r)

\* Of numbers of one word, whether the result does not fit.
Overflows(op, signed, l, r) ==
  CASE op = "add_overflows" -> gray_add_overflows_i64(AsSigned(l), AsSigned(r))
    [] op = "sub_overflows" -> gray_sub_overflows_i64(AsSigned(l), AsSigned(r))
    [] op = "mul_overflows" -> IF signed THEN gray_mul_overflows_i64(AsSigned(l), AsSigned(r))
                               ELSE gray_mul_overflows_u64(l, r)

UnaryOps == {"neg", "neg_checked", "to_i128", "to_u128", "to_i256", "to_u256", "to_i64", "to_u64",
             "to_decimal", "to_octal"}
BinaryOps == {"add", "sub", "mul", "lt", "div", "mod", "shl", "shr",
              "add_checked", "sub_checked", "mul_checked"}
OverflowOps == {"add_overflows", "sub_overflows", "mul_overflows"}

Result(op, signed, l, r, result) ==
  [kind |-> "computed", op |-> op, signed |-> signed, left |-> l, right |-> r, result |-> result]

-----------------------------------------------------------------------------
Init == call = Idle

Load ==
  /\ call = Idle
  /\ \E left \in Operands : call' = [kind |-> "load", left |-> left]

Compute ==
  /\ call.kind = "load"
  /\ \E signed \in BOOLEAN :
       \/ /\ Len(call.left) > 1
          /\ \E op \in UnaryOps :
               call' = Result(op, signed, call.left, call.left, Unary(op, signed, call.left))
       \/ /\ Len(call.left) > 1
          /\ \E op \in BinaryOps, right \in Operands :
               /\ Len(right) = Len(call.left)
               /\ call' = Result(op, signed, call.left, right, Binary(op, signed, call.left, right))
       \/ /\ Len(call.left) = 1
          /\ \E op \in OverflowOps, right \in Operands :
               /\ Len(right) = 1
               /\ call' = Result(op, signed, call.left, right,
                                 Overflows(op, signed, call.left[1], right[1]))

\* for value in range(start, stop, step): a step of zero panics.  But of a loop
\* over i64 whose step is written with a minus, -n, codegen.c takes the step to
\* be negative: it emits no check, and a comparison for a range that goes down.
ForRange ==
  /\ call = Idle
  /\ \E signed, minus \in BOOLEAN, start, stop, step \in Bounds :
       /\ Len(start) = Len(stop) /\ Len(start) = Len(step)
       /\ minus => signed /\ Len(start) = 1
       /\ call' = IF step = Zero(step) /\ ~minus THEN [kind |-> "panicked"]
                  ELSE [kind |-> "loop", signed |-> signed, minus |-> minus,
                        start |-> start, stop |-> stop, step |-> step,
                        value |-> start, count |-> 0]

\* The condition of the loop.
LoopContinues(r, value) == IF r.minus THEN Lt(TRUE, r.stop, value) ELSE Continues(r, value)

\* The body has run with value.
Advance ==
  /\ call.kind = "loop" /\ LoopContinues(call, call.value)
  /\ call' = [call EXCEPT !.value = range_advance(call.signed, call.value, call.step, call.stop),
                          !.count = IF @ < MaxCount THEN @ + 1 ELSE @]

EndLoop ==
  /\ call.kind = "loop" /\ ~LoopContinues(call, call.value)
  /\ call' = Idle

Next == Load \/ Compute \/ ForRange \/ Advance \/ EndLoop

Spec == Init /\ [][Next]_call
FairSpec == Spec /\ WF_call(Advance \/ EndLoop)

-----------------------------------------------------------------------------
(* Properties.                                                             *)

Computed(ops) == call.kind = "computed" /\ call.op \in ops

Left == Number(call.signed, call.left)
Right == Number(call.signed, call.right)
Returned == Number(call.signed, call.result)
Panicked == call.result = Panic

Equals(x, number) == Natural(x) = number % Size(Len(x))

\* Truncated division, with a remainder that has the sign of the dividend.  The
\* one quotient that does not fit wraps.
Quotient == IF Fits(call.signed, Len(call.left), Truncated(Left, Right)) THEN Truncated(Left, Right) ELSE Left

\* Sums, products, comparisons and shifts of whole numbers carry over every
\* border between words, products over the halves of a word, and division
\* truncates towards zero with a remainder that has the sign of the dividend
\* (bigint.h 206-615, 1180-1200).
ArithmeticExact ==
  /\ Computed({"add"}) => Equals(call.result, Left + Right)
  /\ Computed({"sub"}) => Equals(call.result, Left - Right)
  /\ Computed({"neg"}) => Equals(call.result, -Left)
  /\ Computed({"mul"}) =>
       Equals(call.result, Number(TRUE, call.left) * Number(TRUE, call.right))
  /\ Computed({"lt"}) => (call.result <=> Left < Right)
  /\ Computed({"div"}) => IF Right = 0 THEN Panicked ELSE Returned = Quotient
  /\ Computed({"mod"}) =>
       IF Right = 0 THEN Panicked ELSE Returned = Left - Truncated(Left, Right) * Right
  /\ Computed({"shl", "shr"}) /\ ~Panicked =>
       IF call.op = "shl" THEN Equals(call.result, (Left % Power(2, Len(call.left) * WordBits - Right)) * Power(2, Right))
       ELSE Returned = Left \div Power(2, Right)

\* A number as digits, most significant first.
Positional(digits, base) ==
  LET sum[i \in 0 .. Len(digits)] == IF i = 0 THEN 0 ELSE sum[i - 1] * base + digits[i]
  IN  sum[Len(digits)]

Exactly(signed, n, number) ==
  IF Fits(signed, n, number) THEN Len(call.result) = n /\ Number(signed, call.result) = number
  ELSE Panicked

\* The product, or more than fits.
Product ==
  IF call.signed \/ Right = 0 \/ Left <= (Size(Len(call.left)) - 1) \div Right
  THEN Left * Right ELSE Size(Len(call.left))

LeastByMinusOne ==
  /\ call.signed /\ Right = -1
  /\ ~Fits(TRUE, Len(call.left), -Left)

\* Checked arithmetic panics where the result is not representable and only
\* there, although it looks at signs, at borders and at quotients of results
\* that have wrapped (bigint.h 905-1083, runtime.h 392-420).  Except for one
\* product: the least number times -1 is tested by a division that wraps as it
\* did (935, 1030) and is the least number, without the panic of STANDARD.md 452.
CheckedArithmetic ==
  LET n == Len(call.left)
  IN  /\ Computed({"add_checked"}) => Exactly(call.signed, n, Left + Right)
      /\ Computed({"sub_checked"}) => Exactly(call.signed, n, Left - Right)
      /\ Computed({"mul_checked"}) =>
           IF LeastByMinusOne THEN call.result = call.left ELSE Exactly(call.signed, n, Product)
      /\ Computed({"neg_checked"}) => Exactly(TRUE, n, -Number(TRUE, call.left))
      /\ Computed({"add_overflows"}) /\ call.signed => (call.result <=> ~Fits(TRUE, 1, Left + Right))
      /\ Computed({"sub_overflows"}) /\ call.signed => (call.result <=> ~Fits(TRUE, 1, Left - Right))
      /\ Computed({"mul_overflows"}) => (call.result <=> ~Fits(call.signed, 1, Left * Right))

\* A cast to any of the six types returns the number it was given, or panics
\* where the type has no such number (bigint.h 96-151, 769-786); and the digits
\* a number is printed with are its own: they are read back as the number, the
\* first is not zero, and none is too large (619-633, 1088-1114, 1264-1304).
ConversionsKeepNumber ==
  /\ Computed({"to_i128"}) => Exactly(TRUE, 2, Left)
  /\ Computed({"to_u128"}) => Exactly(FALSE, 2, Left)
  /\ Computed({"to_i256"}) => Exactly(TRUE, 4, Left)
  /\ Computed({"to_u256"}) => Exactly(FALSE, 4, Left)
  /\ Computed({"to_i64"}) => Exactly(TRUE, 1, Left)
  /\ Computed({"to_u64"}) => Exactly(FALSE, 1, Left)
  /\ Computed({"to_decimal", "to_octal"}) =>
       LET base == IF call.op = "to_decimal" THEN 10 ELSE 8
       IN  /\ from_digits(call.result, base, Len(call.left)) = call.left
           /\ \A i \in 1 .. Len(call.result) : call.result[i] < base
           /\ call.result[1] = 0 => Len(call.result) = 1
           /\ Positional(call.result, base) = Natural(call.left)

\* If the step of an i64 loop is written with a minus, it is negative, as
\* codegen.c 13465-13468 takes it to be.
Directed(r) == r.minus => Lt(r.signed, r.step, Zero(r.step))

\* A loop over a range, in and len agree: the loop visits the numbers in says
\* the range contains, as many as len says it has, up to the last number of the
\* type, and neither misses the stop nor starts over when the next number would
\* not fit.  For a signed wide range, in and len are held to it only while the
\* distance from start to stop is a number of the type; an i64 loop whose step is
\* -n only while that is negative, since it goes by the minus where in and len, and
\* STANDARD.md 1587-1589, go by the number.
RangesAgree == call.kind = "loop" /\ Directed(call) =>
  LET span == Number(call.signed, call.stop) - Number(call.signed, call.start)
      fits == IsI64(call) \/ ~call.signed \/ Fits(TRUE, Len(call.start), span)
      step == Number(call.signed, call.step)
  IN  IF LoopContinues(call, call.value)
      THEN /\ Number(call.signed, call.value) = Number(call.signed, call.start) + call.count * step
           /\ fits => RangeContains(call, call.value)
      ELSE fits => RangeLen(call) = IF call.count > Int64Max THEN -1 ELSE call.count

\* A loop over a range ends (STANDARD.md 1577: the end is exclusive), also one
\* whose next number would not fit, and one that goes the wrong way because of
\* its minus; but not an i64 loop whose step is -n with n = 0, for which 13500-13526
\* emit no check, against STANDARD.md 1594-1595.
LoopEnds ==
  call.kind = "loop" /\ (call.minus => call.step # Zero(call.step)) ~> call.kind # "loop"
=============================================================================
