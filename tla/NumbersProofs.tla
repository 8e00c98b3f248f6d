---------------------------- MODULE NumbersProofs ---------------------------
(***************************************************************************)
(* Theorems about programs that compute with the numbers of bigint.h, and  *)
(* about their loops over ranges, for words of any size.                   *)
(***************************************************************************)
EXTENDS BigIntProofs, TLAPS

-----------------------------------------------------------------------------
(* The states of the program.                                              *)

\* What has been computed: c is a call with its result.
Ran(c) ==
  /\ c.signed \in BOOLEAN
  /\ \/ /\ c.op \in UnaryOps
        /\ \E n \in {2, 4} : c.left \in WordSeq(n)
        /\ c.result = Unary(c.op, c.signed, c.left)
     \/ /\ c.op \in BinaryOps
        /\ \E n \in {2, 4} : c.left \in WordSeq(n) /\ c.right \in WordSeq(n)
        /\ c.result = Binary(c.op, c.signed, c.left, c.right)
     \/ /\ c.op \in OverflowOps
        /\ c.left \in WordSeq(1) /\ c.right \in WordSeq(1)
        /\ c.result = Overflows(c.op, c.signed, c.left[1], c.right[1])

Executed ==
  /\ call.kind = "load" => call.left \in Operands
  /\ call.kind = "computed" => Ran(call)

\* What the operands of the program are.
LEMMA OperandFacts ==
  ASSUME NEW x \in Operands
  PROVE  /\ Len(x) > 1 => \E n \in {2, 4} : x \in WordSeq(n) /\ Len(x) = n
         /\ Len(x) = 1 => x \in WordSeq(1)
  BY NumbersAssumption DEF WordSeq

\* Compute executes an operation of one operand,
LEMMA UnaryRan ==
  ASSUME NEW signed \in BOOLEAN, NEW l \in Operands, Len(l) > 1, NEW op \in UnaryOps
  PROVE  Ran(Result(op, signed, l, l, Unary(op, signed, l)))
  <1>1. PICK n \in {2, 4} : l \in WordSeq(n)
    BY OperandFacts
  <1>2. PICK u : u = Unary(op, signed, l)
    OBVIOUS
  <1>3. Ran(Result(op, signed, l, l, u))
    BY <1>1, <1>2 DEF Ran, Result
  <1>4. QED
    BY <1>2, <1>3

\* of two operands,
LEMMA BinaryRan ==
  ASSUME NEW signed \in BOOLEAN, NEW l \in Operands, NEW r \in Operands, Len(l) > 1, Len(r) = Len(l),
         NEW op \in BinaryOps
  PROVE  Ran(Result(op, signed, l, r, Binary(op, signed, l, r)))
  <1>1. PICK n \in {2, 4} : l \in WordSeq(n) /\ Len(l) = n
    BY OperandFacts
  <1>2. PICK m \in {2, 4} : r \in WordSeq(m) /\ Len(r) = m
    BY <1>1, OperandFacts
  <1>3. r \in WordSeq(n)
    BY <1>1, <1>2
  <1>4. PICK u : u = Binary(op, signed, l, r)
    OBVIOUS
  <1>5. Ran(Result(op, signed, l, r, u))
    BY <1>1, <1>3, <1>4 DEF Ran, Result
  <1>6. QED
    BY <1>4, <1>5

\* or a test of two numbers of one word.
LEMMA OverflowRan ==
  ASSUME NEW signed \in BOOLEAN, NEW l \in Operands, NEW r \in Operands, Len(l) = 1, Len(r) = 1,
         NEW op \in OverflowOps
  PROVE  Ran(Result(op, signed, l, r, Overflows(op, signed, l[1], r[1])))
  <1>1. l \in WordSeq(1)
    BY OperandFacts
  <1>2. r \in WordSeq(1)
    BY OperandFacts
  <1>3. PICK u : u = Overflows(op, signed, l[1], r[1])
    OBVIOUS
  <1>4. Ran(Result(op, signed, l, r, u))
    BY <1>1, <1>2, <1>3 DEF Ran, Result
  <1>5. QED
    BY <1>3, <1>4

\* Only Load and Compute make such a state.
LEMMA ExecutedIsInvariant == Spec => []Executed
  <1>1. Init => Executed
    BY DEF Init, Executed, Idle
  <1>2. Executed /\ [Next]_call => Executed'
    <2> SUFFICES ASSUME Executed, [Next]_call PROVE Executed'
      OBVIOUS
    <2>1. CASE Load
      BY <2>1 DEF Load, Executed
    <2>2. CASE Compute
      <3>1. PICK l \in Operands : call.left = l
        BY <2>2 DEF Compute, Executed
      <3>2. PICK signed \in BOOLEAN :
              \/ /\ Len(l) > 1
                 /\ \E op \in UnaryOps : call' = Result(op, signed, l, l, Unary(op, signed, l))
              \/ /\ Len(l) > 1
                 /\ \E op \in BinaryOps, right \in Operands :
                      /\ Len(right) = Len(l)
                      /\ call' = Result(op, signed, l, right, Binary(op, signed, l, right))
              \/ /\ Len(l) = 1
                 /\ \E op \in OverflowOps, right \in Operands :
                      /\ Len(right) = 1
                      /\ call' = Result(op, signed, l, right, Overflows(op, signed, l[1], right[1]))
        BY <2>2, <3>1, Zenon DEF Compute
      <3>3. \E c : call' = c /\ c.kind = "computed" /\ Ran(c)
        <4>1. CASE /\ Len(l) > 1
                   /\ \E op \in UnaryOps : call' = Result(op, signed, l, l, Unary(op, signed, l))
          <5>1. PICK op \in UnaryOps : call' = Result(op, signed, l, l, Unary(op, signed, l))
            BY <4>1
          <5>2. PICK c : c = Result(op, signed, l, l, Unary(op, signed, l))
            OBVIOUS
          <5>3. Ran(c)
            BY <4>1, <5>2, UnaryRan
          <5>4. c.kind = "computed"
            BY <5>2 DEF Result
          <5>5. QED
            BY <5>1, <5>2, <5>3, <5>4
        <4>2. CASE /\ Len(l) > 1
                   /\ \E op \in BinaryOps, right \in Operands :
                        /\ Len(right) = Len(l)
                        /\ call' = Result(op, signed, l, right, Binary(op, signed, l, right))
          <5>1. PICK op \in BinaryOps, right \in Operands :
                  /\ Len(right) = Len(l)
                  /\ call' = Result(op, signed, l, right, Binary(op, signed, l, right))
            BY <4>2
          <5>2. PICK c : c = Result(op, signed, l, right, Binary(op, signed, l, right))
            OBVIOUS
          <5>3. Ran(c)
            BY <4>2, <5>1, <5>2, BinaryRan
          <5>4. c.kind = "computed"
            BY <5>2 DEF Result
          <5>5. QED
            BY <5>1, <5>2, <5>3, <5>4
        <4>3. CASE /\ Len(l) = 1
                   /\ \E op \in OverflowOps, right \in Operands :
                        /\ Len(right) = 1
                        /\ call' = Result(op, signed, l, right, Overflows(op, signed, l[1], right[1]))
          <5>1. PICK op \in OverflowOps, right \in Operands :
                  /\ Len(right) = 1
                  /\ call' = Result(op, signed, l, right, Overflows(op, signed, l[1], right[1]))
            BY <4>3
          <5>2. PICK c : c = Result(op, signed, l, right, Overflows(op, signed, l[1], right[1]))
            OBVIOUS
          <5>3. Ran(c)
            BY <4>3, <5>1, <5>2, OverflowRan
          <5>4. c.kind = "computed"
            BY <5>2 DEF Result
          <5>5. QED
            BY <5>1, <5>2, <5>3, <5>4
        <4>4. QED
          BY <3>2, <4>1, <4>2, <4>3
      <3>4. QED
        BY <3>3 DEF Executed
    <2>3. CASE ForRange
      BY <2>3 DEF ForRange, Executed
    <2>4. CASE Advance
      BY <2>4 DEF Advance, Executed
    <2>5. CASE EndLoop
      BY <2>5 DEF EndLoop, Executed, Idle
    <2>6. CASE UNCHANGED call
      BY <2>6 DEF Executed
    <2>7. QED
      BY <2>1, <2>2, <2>3, <2>4, <2>5, <2>6 DEF Next
  <1>3. QED
    BY <1>1, <1>2, PTL DEF Spec

\* The operands and the result of an operation that has been executed.
UnaryCall(op, n, signed, x) ==
  /\ x \in WordSeq(n) /\ Len(x) = n
  /\ call.signed = signed /\ call.left = x /\ call.op = op
  /\ call.result = Unary(op, signed, x)
BinaryCall(op, n, signed, l, r) ==
  /\ l \in WordSeq(n) /\ r \in WordSeq(n) /\ Len(l) = n
  /\ call.signed = signed /\ call.left = l /\ call.right = r /\ call.op = op
  /\ call.result = Binary(op, signed, l, r)
OverflowCall(op, signed, l, r) ==
  /\ l \in WordSeq(1) /\ r \in WordSeq(1)
  /\ call.signed = signed /\ call.left = l /\ call.right = r /\ call.op = op
  /\ call.result = Overflows(op, signed, l[1], r[1])

\* What Executed says when an operation of one operand was computed,
LEMMA UnaryExecuted ==
  ASSUME NEW op \in UnaryOps, Executed, Computed({op})
  PROVE  \E n, signed, x : n \in {2, 4} /\ signed \in BOOLEAN /\ UnaryCall(op, n, signed, x)
  <1>1. Ran(call) /\ call.op = op
    BY DEF Executed, Computed
  <1>2. op \notin BinaryOps /\ op \notin OverflowOps
    BY DEF UnaryOps, BinaryOps, OverflowOps
  <1>3. PICK n \in {2, 4} : call.left \in WordSeq(n)
    BY <1>1, <1>2 DEF Ran
  <1>4. call.signed \in BOOLEAN /\ call.result = Unary(op, call.signed, call.left)
    BY <1>1, <1>2 DEF Ran
  <1>5. PICK x \in WordSeq(n), signed \in BOOLEAN : call.left = x /\ call.signed = signed
    BY <1>3, <1>4
  <1>6. Len(x) = n
    BY DEF WordSeq
  <1>7. UnaryCall(op, n, signed, x)
    BY <1>1, <1>4, <1>5, <1>6 DEF UnaryCall
  <1>8. QED
    BY <1>7

\* one of two operands,
LEMMA BinaryExecuted ==
  ASSUME NEW op \in BinaryOps, Executed, Computed({op})
  PROVE  \E n, signed, l, r :
            n \in {2, 4} /\ signed \in BOOLEAN /\ BinaryCall(op, n, signed, l, r)
  <1>1. Ran(call) /\ call.op = op
    BY DEF Executed, Computed
  <1>2. op \notin UnaryOps /\ op \notin OverflowOps
    BY DEF UnaryOps, BinaryOps, OverflowOps
  <1>3. PICK n \in {2, 4} : call.left \in WordSeq(n) /\ call.right \in WordSeq(n)
    BY <1>1, <1>2 DEF Ran
  <1>4. call.signed \in BOOLEAN /\ call.result = Binary(op, call.signed, call.left, call.right)
    BY <1>1, <1>2 DEF Ran
  <1>5. PICK l \in WordSeq(n), r \in WordSeq(n), signed \in BOOLEAN :
          call.left = l /\ call.right = r /\ call.signed = signed
    BY <1>3, <1>4
  <1>6. Len(l) = n
    BY DEF WordSeq
  <1>7. BinaryCall(op, n, signed, l, r)
    BY <1>1, <1>4, <1>5, <1>6 DEF BinaryCall
  <1>8. QED
    BY <1>7

\* or a test.
LEMMA OverflowExecuted ==
  ASSUME NEW op \in OverflowOps, Executed, Computed({op})
  PROVE  \E signed, l, r : signed \in BOOLEAN /\ OverflowCall(op, signed, l, r)
  <1>1. Ran(call) /\ call.op = op
    BY DEF Executed, Computed
  <1>2. op \notin UnaryOps /\ op \notin BinaryOps
    BY DEF UnaryOps, BinaryOps, OverflowOps
  <1>3. /\ call.left \in WordSeq(1) /\ call.right \in WordSeq(1) /\ call.signed \in BOOLEAN
        /\ call.result = Overflows(op, call.signed, call.left[1], call.right[1])
    BY <1>1, <1>2 DEF Ran
  <1>4. PICK l \in WordSeq(1), r \in WordSeq(1), signed \in BOOLEAN :
          call.left = l /\ call.right = r /\ call.signed = signed
    BY <1>3
  <1>5. OverflowCall(op, signed, l, r)
    BY <1>1, <1>3, <1>4 DEF OverflowCall
  <1>6. QED
    BY <1>5

-----------------------------------------------------------------------------
(* The results.                                                            *)

\* Numbers of two and of four words are added, subtracted, negated, multiplied,
\* compared, divided and shifted exactly, whatever their signs, and whatever
\* the size of a word (bigint.h 206-615, 1180-1200).
LEMMA ExecutedExactly ==
  ASSUME Executed
  PROVE  ArithmeticExact
  <1>1. ASSUME Computed({"add"})
        PROVE  Equals(call.result, Left + Right)
    <2>1. PICK n, signed, l, r :
            n \in {2, 4} /\ signed \in BOOLEAN /\ BinaryCall("add", n, signed, l, r)
      BY <1>1, BinaryExecuted, "add" \in BinaryOps DEF BinaryOps
    <2>2. Equals(Add(l, r), Number(signed, l) + Number(signed, r))
      BY <2>1, AddIs DEF BinaryCall
    <2>3. call.result = Add(l, r)
      BY <2>1 DEF BinaryCall, Binary
    <2>4. QED
      BY <2>1, <2>2, <2>3, Zenon DEF BinaryCall, Left, Right
  <1>2. ASSUME Computed({"sub"})
        PROVE  Equals(call.result, Left - Right)
    <2>1. PICK n, signed, l, r :
            n \in {2, 4} /\ signed \in BOOLEAN /\ BinaryCall("sub", n, signed, l, r)
      BY <1>2, BinaryExecuted, "sub" \in BinaryOps DEF BinaryOps
    <2>2. Equals(Sub(l, r), Number(signed, l) - Number(signed, r))
      BY <2>1, SubIs DEF BinaryCall
    <2>3. call.result = Sub(l, r)
      BY <2>1 DEF BinaryCall, Binary
    <2>4. QED
      BY <2>1, <2>2, <2>3, Zenon DEF BinaryCall, Left, Right
  <1>3. ASSUME Computed({"neg"})
        PROVE  Equals(call.result, -Left)
    <2>1. PICK n, signed, x :
            n \in {2, 4} /\ signed \in BOOLEAN /\ UnaryCall("neg", n, signed, x)
      BY <1>3, UnaryExecuted, "neg" \in UnaryOps DEF UnaryOps
    <2>2. Equals(Neg(x), -Number(signed, x))
      BY <2>1, NegIs DEF UnaryCall
    <2>3. call.result = Neg(x)
      BY <2>1 DEF UnaryCall, Unary
    <2>4. QED
      BY <2>1, <2>2, <2>3, Zenon DEF UnaryCall, Left
  <1>4. ASSUME Computed({"mul"})
        PROVE  Equals(call.result, Number(TRUE, call.left) * Number(TRUE, call.right))
    <2>1. PICK n, signed, l, r :
            n \in {2, 4} /\ signed \in BOOLEAN /\ BinaryCall("mul", n, signed, l, r)
      BY <1>4, BinaryExecuted, "mul" \in BinaryOps DEF BinaryOps
    <2>2. Equals(Mul(l, r), Number(TRUE, l) * Number(TRUE, r))
      BY <2>1, MulIs DEF BinaryCall
    <2>3. call.result = Mul(l, r)
      BY <2>1 DEF BinaryCall, Binary
    <2>4. QED
      BY <2>1, <2>2, <2>3, Zenon DEF BinaryCall
  <1>5. ASSUME Computed({"lt"})
        PROVE  call.result <=> Left < Right
    <2>1. PICK n, signed, l, r :
            n \in {2, 4} /\ signed \in BOOLEAN /\ BinaryCall("lt", n, signed, l, r)
      BY <1>5, BinaryExecuted, "lt" \in BinaryOps DEF BinaryOps
    <2>2. Lt(signed, l, r) <=> Number(signed, l) < Number(signed, r)
      <3>1. n \in Nat \ {0}
        BY <2>1
      <3>2. QED
        BY <2>1, <3>1, LtIs DEF BinaryCall
    <2>3. call.result = Lt(signed, l, r)
      <3>1. Binary("lt", signed, l, r) = Lt(signed, l, r)
        BY DEF Binary
      <3>2. QED
        BY <2>1, <3>1, Zenon DEF BinaryCall
    <2>4. QED
      BY <2>1, <2>2, <2>3, Zenon DEF BinaryCall, Left, Right
  <1>6. ASSUME Computed({"div"})
        PROVE  IF Right = 0 THEN Panicked ELSE Returned = Quotient
    <2>1. PICK n, signed, l, r :
            n \in {2, 4} /\ signed \in BOOLEAN /\ BinaryCall("div", n, signed, l, r)
      BY <1>6, BinaryExecuted, "div" \in BinaryOps DEF BinaryOps
    <2>2. Divided(signed, n, l, r, Div(signed, l, r))
      BY <2>1, DivIs DEF BinaryCall
    <2>3. call.result = Div(signed, l, r)
      BY <2>1 DEF BinaryCall, Binary
    <2>4. QED
      BY <2>1, <2>2, <2>3, Zenon
         DEF BinaryCall, Divided, Left, Right, Returned, Panicked, Quotient
  <1>7. ASSUME Computed({"mod"})
        PROVE  IF Right = 0 THEN Panicked ELSE Returned = Left - Truncated(Left, Right) * Right
    <2>1. PICK n, signed, l, r :
            n \in {2, 4} /\ signed \in BOOLEAN /\ BinaryCall("mod", n, signed, l, r)
      BY <1>7, BinaryExecuted, "mod" \in BinaryOps DEF BinaryOps
    <2>2. Remains(signed, l, r, Mod(signed, l, r))
      BY <2>1, ModIs DEF BinaryCall
    <2>3. call.result = Mod(signed, l, r)
      BY <2>1 DEF BinaryCall, Binary
    <2>4. QED
      BY <2>1, <2>2, <2>3, Zenon DEF BinaryCall, Remains, Left, Right, Returned, Panicked
  <1>8. ASSUME Computed({"shl"}), ~Panicked
        PROVE  Equals(call.result,
                      (Left % Power(2, Len(call.left) * WordBits - Right)) * Power(2, Right))
    <2>1. PICK n, signed, l, r :
            n \in {2, 4} /\ signed \in BOOLEAN /\ BinaryCall("shl", n, signed, l, r)
      BY <1>8, BinaryExecuted, "shl" \in BinaryOps DEF BinaryOps
    <2>2. PICK amount : amount = Number(signed, r)
      OBVIOUS
    <2>3. call.result = Shl(l, amount)
      BY <2>1, <2>2 DEF BinaryCall, Binary
    <2>4. amount \in 0 .. n * WordBits - 1 /\ call.result = shift_left_words(l, amount)
      BY <1>8, <2>1, <2>3, Zenon DEF Shl, Panicked, BinaryCall
    <2>5. Equals(shift_left_words(l, amount),
                 (Number(signed, l) % Power(2, n * WordBits - amount)) * Power(2, amount))
      <3>1. n \in Nat \ {0}
        BY <2>1
      <3>2. QED
        BY <2>1, <2>4, <3>1, ShlIs DEF BinaryCall
    <2>6. QED
      BY <2>1, <2>2, <2>4, <2>5, Zenon DEF BinaryCall, Left, Right
  <1>9. ASSUME Computed({"shr"}), ~Panicked
        PROVE  Returned = Left \div Power(2, Right)
    <2>1. PICK n, signed, l, r :
            n \in {2, 4} /\ signed \in BOOLEAN /\ BinaryCall("shr", n, signed, l, r)
      BY <1>9, BinaryExecuted, "shr" \in BinaryOps DEF BinaryOps
    <2>2. PICK amount : amount = Number(signed, r)
      OBVIOUS
    <2>3. call.result = Shr(signed, l, amount)
      BY <2>1, <2>2 DEF BinaryCall, Binary
    <2>4. amount \in 0 .. n * WordBits - 1 /\ call.result = shift_right_words(l, amount, signed)
      BY <1>9, <2>1, <2>3, Zenon DEF Shr, Panicked, BinaryCall
    <2>5. Number(signed, shift_right_words(l, amount, signed))
            = Number(signed, l) \div Power(2, amount)
      <3>1. n \in Nat \ {0}
        BY <2>1
      <3>2. QED
        BY <2>1, <2>4, <3>1, ShiftRightIs DEF BinaryCall
    <2>6. QED
      BY <2>1, <2>2, <2>4, <2>5, Zenon DEF BinaryCall, Left, Right, Returned
  <1>10. ASSUME Computed({"shl", "shr"}), ~Panicked
         PROVE  IF call.op = "shl"
                THEN Equals(call.result,
                            (Left % Power(2, Len(call.left) * WordBits - Right)) * Power(2, Right))
                ELSE Returned = Left \div Power(2, Right)
    <2>1. CASE call.op = "shl"
      <3>1. Computed({"shl"})
        BY <1>10, <2>1 DEF Computed
      <3>2. QED
        BY <1>8, <1>10, <2>1, <3>1, Zenon
    <2>2. CASE call.op # "shl"
      <3>1. Computed({"shr"})
        BY <1>10, <2>2 DEF Computed
      <3>2. QED
        BY <1>9, <1>10, <2>2, <3>1, Zenon
    <2>3. QED
      BY <2>1, <2>2
  <1>11. QED
    BY <1>1, <1>2, <1>3, <1>4, <1>5, <1>6, <1>7, <1>10, Zenon DEF ArithmeticExact

\* Sums, products, comparisons, quotients and shifts of wide numbers are those of the
\* numbers they stand for (bigint.h 206-615, 1180-1200).
THEOREM ArithmeticIsExact == Spec => []ArithmeticExact
  <1>1. Executed => ArithmeticExact
    BY ExecutedExactly
  <1>2. QED
    BY <1>1, ExecutedIsInvariant, PTL

\* Checked arithmetic of two and of four words panics where the result has no
\* words and only there, but for the least number times -1; and the tests of
\* numbers of one word tell an overflow (bigint.h 905-1083, runtime.h 392-420).
LEMMA ExecutedChecks ==
  ASSUME Executed
  PROVE  CheckedArithmetic
  <1> DEFINE n0 == Len(call.left)
  <1>1. ASSUME Computed({"add_checked"})
        PROVE  Exactly(call.signed, n0, Left + Right)
    <2>1. PICK n, signed, l, r :
            n \in {2, 4} /\ signed \in BOOLEAN /\ BinaryCall("add_checked", n, signed, l, r)
      BY <1>1, BinaryExecuted, "add_checked" \in BinaryOps DEF BinaryOps
    <2>2. Outcome(signed, n, Number(signed, l) + Number(signed, r), AddChecked(signed, l, r))
      BY <2>1, AddCheckedIs DEF BinaryCall
    <2>3. call.result = AddChecked(signed, l, r)
      BY <2>1 DEF BinaryCall, Binary
    <2>4. QED
      BY <2>1, <2>2, <2>3, Zenon DEF BinaryCall, Outcome, Exactly, Left, Right, Panicked
  <1>2. ASSUME Computed({"sub_checked"})
        PROVE  Exactly(call.signed, n0, Left - Right)
    <2>1. PICK n, signed, l, r :
            n \in {2, 4} /\ signed \in BOOLEAN /\ BinaryCall("sub_checked", n, signed, l, r)
      BY <1>2, BinaryExecuted, "sub_checked" \in BinaryOps DEF BinaryOps
    <2>2. Outcome(signed, n, Number(signed, l) - Number(signed, r), SubChecked(signed, l, r))
      BY <2>1, SubCheckedIs DEF BinaryCall
    <2>3. call.result = SubChecked(signed, l, r)
      BY <2>1 DEF BinaryCall, Binary
    <2>4. QED
      BY <2>1, <2>2, <2>3, Zenon DEF BinaryCall, Outcome, Exactly, Left, Right, Panicked
  <1>3. ASSUME Computed({"mul_checked"})
        PROVE  IF LeastByMinusOne THEN call.result = call.left
               ELSE Exactly(call.signed, n0, Product)
    <2>1. PICK n, signed, l, r :
            n \in {2, 4} /\ signed \in BOOLEAN /\ BinaryCall("mul_checked", n, signed, l, r)
      BY <1>3, BinaryExecuted, "mul_checked" \in BinaryOps DEF BinaryOps
    <2>2. ProductOutcome(signed, n, l, r, MulChecked(signed, l, r))
      BY <2>1, MulCheckedIs DEF BinaryCall
    <2>3. call.result = MulChecked(signed, l, r)
      BY <2>1 DEF BinaryCall, Binary
    <2>4. /\ LeastByMinusOne <=> signed /\ Number(signed, r) = -1 /\ ~Fits(TRUE, n, -Number(signed, l))
          /\ Product = Multiplied(signed, n, l, r)
      BY <2>1, Zenon DEF BinaryCall, LeastByMinusOne, Product, Multiplied, Left, Right
    <2>5. CASE LeastByMinusOne
      BY <2>1, <2>2, <2>3, <2>4, <2>5, Zenon DEF BinaryCall, ProductOutcome
    <2>6. CASE ~LeastByMinusOne
      BY <2>1, <2>2, <2>3, <2>4, <2>6, Zenon
         DEF BinaryCall, ProductOutcome, Outcome, Exactly, Panicked
    <2>7. QED
      BY <2>5, <2>6
  <1>4. ASSUME Computed({"neg_checked"})
        PROVE  Exactly(TRUE, n0, -Number(TRUE, call.left))
    <2>1. PICK n, signed, x :
            n \in {2, 4} /\ signed \in BOOLEAN /\ UnaryCall("neg_checked", n, signed, x)
      BY <1>4, UnaryExecuted, "neg_checked" \in UnaryOps DEF UnaryOps
    <2>2. Outcome(TRUE, n, -Number(TRUE, x), NegChecked(x))
      BY <2>1, NegCheckedIs DEF UnaryCall
    <2>3. call.result = NegChecked(x)
      BY <2>1 DEF UnaryCall, Unary
    <2>4. QED
      BY <2>1, <2>2, <2>3, Zenon DEF UnaryCall, Outcome, Exactly, Panicked
  <1>5. ASSUME Computed({"add_overflows"}), call.signed
        PROVE  call.result <=> ~Fits(TRUE, 1, Left + Right)
    <2>1. PICK signed, l, r : signed \in BOOLEAN /\ OverflowCall("add_overflows", signed, l, r)
      BY <1>5, OverflowExecuted, "add_overflows" \in OverflowOps DEF OverflowOps
    <2>2. Overflows("add_overflows", TRUE, l[1], r[1])
            <=> ~Fits(TRUE, 1, Number(TRUE, l) + Number(TRUE, r))
      BY <2>1, OverflowsIs, TRUE \in BOOLEAN DEF OverflowCall
    <2>3. signed = TRUE
      BY <1>5, <2>1 DEF OverflowCall
    <2>4. QED
      BY <2>1, <2>2, <2>3, Zenon DEF OverflowCall, Left, Right
  <1>6. ASSUME Computed({"sub_overflows"}), call.signed
        PROVE  call.result <=> ~Fits(TRUE, 1, Left - Right)
    <2>1. PICK signed, l, r : signed \in BOOLEAN /\ OverflowCall("sub_overflows", signed, l, r)
      BY <1>6, OverflowExecuted, "sub_overflows" \in OverflowOps DEF OverflowOps
    <2>2. Overflows("sub_overflows", TRUE, l[1], r[1])
            <=> ~Fits(TRUE, 1, Number(TRUE, l) - Number(TRUE, r))
      BY <2>1, OverflowsIs, TRUE \in BOOLEAN DEF OverflowCall
    <2>3. signed = TRUE
      BY <1>6, <2>1 DEF OverflowCall
    <2>4. QED
      BY <2>1, <2>2, <2>3, Zenon DEF OverflowCall, Left, Right
  <1>7. ASSUME Computed({"mul_overflows"})
        PROVE  call.result <=> ~Fits(call.signed, 1, Left * Right)
    <2>1. PICK signed, l, r : signed \in BOOLEAN /\ OverflowCall("mul_overflows", signed, l, r)
      BY <1>7, OverflowExecuted, "mul_overflows" \in OverflowOps DEF OverflowOps
    <2>2. Overflows("mul_overflows", signed, l[1], r[1])
            <=> ~Fits(signed, 1, Number(signed, l) * Number(signed, r))
      BY <2>1, OverflowsIs DEF OverflowCall
    <2>3. QED
      BY <2>1, <2>2, Zenon DEF OverflowCall, Left, Right
  <1>8. QED
    BY <1>1, <1>2, <1>3, <1>4, <1>5, <1>6, <1>7, Zenon DEF CheckedArithmetic

\* Checked arithmetic panics exactly where the result is not representable, but for the
\* least number times -1 (bigint.h 905-1083, runtime.h 392-420).
THEOREM ChecksAreExact == Spec => []CheckedArithmetic
  <1>1. Executed => CheckedArithmetic
    BY ExecutedChecks
  <1>2. QED
    BY <1>1, ExecutedIsInvariant, PTL

-----------------------------------------------------------------------------
(* The results, of conversions.                                            *)

\* Casts between the six types keep the number or panic, and the digits of a
\* number stand for it, whatever the size of a word (bigint.h 96-151, 769-786,
\* 619-633, 1088-1114, 1264-1304).
LEMMA ExecutedConverts ==
  ASSUME Executed
  PROVE  ConversionsKeepNumber
  <1>1. ASSUME Computed({"to_i128"})
        PROVE  Exactly(TRUE, 2, Left)
    <2>1. PICK n, signed, x :
            n \in {2, 4} /\ signed \in BOOLEAN /\ UnaryCall("to_i128", n, signed, x)
      BY <1>1, UnaryExecuted, "to_i128" \in UnaryOps DEF UnaryOps
    <2>2. Outcome(TRUE, 2, Number(signed, x), gray_wide_cast_words(x, signed, 2, TRUE))
      BY <2>1, CastsAre, 2 \in {2, 4} DEF UnaryCall
    <2>3. call.result = gray_wide_cast_words(x, signed, 2, TRUE)
      BY <2>1 DEF UnaryCall, Unary
    <2>4. QED
      BY <2>1, <2>2, <2>3, Zenon DEF UnaryCall, Left, Outcome, Exactly, Panicked
  <1>2. ASSUME Computed({"to_u128"})
        PROVE  Exactly(FALSE, 2, Left)
    <2>1. PICK n, signed, x :
            n \in {2, 4} /\ signed \in BOOLEAN /\ UnaryCall("to_u128", n, signed, x)
      BY <1>2, UnaryExecuted, "to_u128" \in UnaryOps DEF UnaryOps
    <2>2. Outcome(FALSE, 2, Number(signed, x), gray_wide_cast_words(x, signed, 2, FALSE))
      BY <2>1, CastsAre, 2 \in {2, 4} DEF UnaryCall
    <2>3. call.result = gray_wide_cast_words(x, signed, 2, FALSE)
      BY <2>1 DEF UnaryCall, Unary
    <2>4. QED
      BY <2>1, <2>2, <2>3, Zenon DEF UnaryCall, Left, Outcome, Exactly, Panicked
  <1>3. ASSUME Computed({"to_i256"})
        PROVE  Exactly(TRUE, 4, Left)
    <2>1. PICK n, signed, x :
            n \in {2, 4} /\ signed \in BOOLEAN /\ UnaryCall("to_i256", n, signed, x)
      BY <1>3, UnaryExecuted, "to_i256" \in UnaryOps DEF UnaryOps
    <2>2. Outcome(TRUE, 4, Number(signed, x), gray_wide_cast_words(x, signed, 4, TRUE))
      BY <2>1, CastsAre, 4 \in {2, 4} DEF UnaryCall
    <2>3. call.result = gray_wide_cast_words(x, signed, 4, TRUE)
      BY <2>1 DEF UnaryCall, Unary
    <2>4. QED
      BY <2>1, <2>2, <2>3, Zenon DEF UnaryCall, Left, Outcome, Exactly, Panicked
  <1>4. ASSUME Computed({"to_u256"})
        PROVE  Exactly(FALSE, 4, Left)
    <2>1. PICK n, signed, x :
            n \in {2, 4} /\ signed \in BOOLEAN /\ UnaryCall("to_u256", n, signed, x)
      BY <1>4, UnaryExecuted, "to_u256" \in UnaryOps DEF UnaryOps
    <2>2. Outcome(FALSE, 4, Number(signed, x), gray_wide_cast_words(x, signed, 4, FALSE))
      BY <2>1, CastsAre, 4 \in {2, 4} DEF UnaryCall
    <2>3. call.result = gray_wide_cast_words(x, signed, 4, FALSE)
      BY <2>1 DEF UnaryCall, Unary
    <2>4. QED
      BY <2>1, <2>2, <2>3, Zenon DEF UnaryCall, Left, Outcome, Exactly, Panicked
  <1>5. ASSUME Computed({"to_i64"})
        PROVE  Exactly(TRUE, 1, Left)
    <2>1. PICK n, signed, x :
            n \in {2, 4} /\ signed \in BOOLEAN /\ UnaryCall("to_i64", n, signed, x)
      BY <1>5, UnaryExecuted, "to_i64" \in UnaryOps DEF UnaryOps
    <2>2. Outcome(TRUE, 1, Number(signed, x), ToWord(x, signed, TRUE))
      BY <2>1, WordCastsAre DEF UnaryCall
    <2>3. call.result = ToWord(x, signed, TRUE)
      BY <2>1 DEF UnaryCall, Unary
    <2>4. QED
      BY <2>1, <2>2, <2>3, Zenon DEF UnaryCall, Left, Outcome, Exactly, Panicked
  <1>6. ASSUME Computed({"to_u64"})
        PROVE  Exactly(FALSE, 1, Left)
    <2>1. PICK n, signed, x :
            n \in {2, 4} /\ signed \in BOOLEAN /\ UnaryCall("to_u64", n, signed, x)
      BY <1>6, UnaryExecuted, "to_u64" \in UnaryOps DEF UnaryOps
    <2>2. Outcome(FALSE, 1, Number(signed, x), ToWord(x, signed, FALSE))
      BY <2>1, WordCastsAre DEF UnaryCall
    <2>3. call.result = ToWord(x, signed, FALSE)
      BY <2>1 DEF UnaryCall, Unary
    <2>4. QED
      BY <2>1, <2>2, <2>3, Zenon DEF UnaryCall, Left, Outcome, Exactly, Panicked
  <1> DEFINE base == IF call.op = "to_decimal" THEN 10 ELSE 8
  <1>7. ASSUME Computed({"to_decimal", "to_octal"})
        PROVE  Printed(Len(call.left), call.left, base, call.result)
    <2>1. CASE Computed({"to_decimal"})
      <3>1. PICK n, signed, x :
              n \in {2, 4} /\ signed \in BOOLEAN /\ UnaryCall("to_decimal", n, signed, x)
        BY <2>1, UnaryExecuted, "to_decimal" \in UnaryOps DEF UnaryOps
      <3>2. Printed(n, x, 10, to_digits(x, 10))
        BY <3>1, DigitsAre, 10 \in {8, 10} DEF UnaryCall
      <3>3. call.result = to_digits(x, 10)
        BY <3>1 DEF UnaryCall, Unary
      <3>4. base = 10
        BY <3>1 DEF UnaryCall
      <3> HIDE DEF base
      <3>5. QED
        BY <3>1, <3>2, <3>3, <3>4, Zenon DEF UnaryCall
    <2>2. CASE Computed({"to_octal"})
      <3>1. PICK n, signed, x :
              n \in {2, 4} /\ signed \in BOOLEAN /\ UnaryCall("to_octal", n, signed, x)
        BY <2>2, UnaryExecuted, "to_octal" \in UnaryOps DEF UnaryOps
      <3>2. Printed(n, x, 8, to_digits(x, 8))
        BY <3>1, DigitsAre, 8 \in {8, 10} DEF UnaryCall
      <3>3. call.result = to_digits(x, 8)
        BY <3>1 DEF UnaryCall, Unary
      <3>4. base = 8
        BY <3>1 DEF UnaryCall
      <3> HIDE DEF base
      <3>5. QED
        BY <3>1, <3>2, <3>3, <3>4, Zenon DEF UnaryCall
    <2>3. Computed({"to_decimal"}) \/ Computed({"to_octal"})
      BY <1>7 DEF Computed
    <2>4. QED
      BY <2>1, <2>2, <2>3
  <1>8. Computed({"to_decimal", "to_octal"}) =>
          /\ from_digits(call.result, base, Len(call.left)) = call.left
          /\ \A i \in 1 .. Len(call.result) : call.result[i] < base
          /\ call.result[1] = 0 => Len(call.result) = 1
          /\ Positional(call.result, base) = Natural(call.left)
    <2> HIDE DEF base
    <2>1. QED
      BY <1>7, Zenon DEF Printed
  <1>9. QED
    BY <1>1, <1>2, <1>3, <1>4, <1>5, <1>6, <1>8, Zenon DEF ConversionsKeepNumber

\* A program that casts and prints numbers keeps them (bigint.h 96-151, 769-786,
\* 619-633, 1088-1114, 1264-1304).
THEOREM ConversionsAreExact == Spec => []ConversionsKeepNumber
  <1>1. Executed => ConversionsKeepNumber
    BY ExecutedConverts
  <1>2. QED
    BY <1>1, ExecutedIsInvariant, PTL

-----------------------------------------------------------------------------
(* Ranges.                                                                 *)

\* The numbers of a type are those from lo up to hi.
Span(signed, n, lo, hi) ==
  /\ lo \in Int /\ hi \in Int /\ hi = lo + Size(n) /\ lo <= 0 /\ 0 < hi
  /\ 0 - lo <= hi
  /\ \A v \in Int : Fits(signed, n, v) <=> lo <= v /\ v < hi

\* Every type has its least and largest number.
LEMMA SpanOf ==
  ASSUME NEW n \in Nat \ {0}, NEW signed \in BOOLEAN
  PROVE  \E lo \in Int, hi \in Int : Span(signed, n, lo, hi)
  <1>1. PICK h \in Nat \ {0} : Size(n) = 2 * h /\ Size(n) \div 2 = h
    BY HalfSize
  <1>2. CASE signed
    <2>1. signed = TRUE
      BY <1>2
    <2>2. ASSUME NEW v \in Int
          PROVE  Fits(signed, n, v) <=> 0 - h <= v /\ v < h
      <3>1. Fits(signed, n, v) <=> SignedFits(n, v)
        BY <2>1, FitsIs, Zenon
      <3>2. SignedFits(n, v) <=> 0 - h <= v /\ v < h
        BY <1>1, SignedFitsHalf
      <3>3. QED
        BY <3>1, <3>2
    <2>3. Span(signed, n, 0 - h, h)
      BY <1>1, <2>2 DEF Span
    <2>4. 0 - h \in Int /\ h \in Int
      OBVIOUS
    <2>5. QED
      BY <2>3, <2>4, Zenon
  <1>3. CASE ~signed
    <2>1. signed = FALSE
      BY <1>3
    <2>2. ASSUME NEW v \in Int
          PROVE  Fits(signed, n, v) <=> 0 <= v /\ v < Size(n)
      <3>1. Fits(signed, n, v) <=> UnsignedFits(n, v)
        BY <2>1, FitsIs, Zenon
      <3>2. QED
        BY <3>1 DEF UnsignedFits
    <2>3. Span(signed, n, 0, Size(n))
      BY <1>1, <2>2 DEF Span
    <2>4. 0 \in Int /\ Size(n) \in Int
      BY <1>1
    <2>5. QED
      BY <2>3, <2>4, Zenon
  <1>4. QED
    BY <1>2, <1>3

\* Every number is one of its type.
LEMMA NumberFits ==
  ASSUME NEW n \in Nat \ {0}, NEW x \in WordSeq(n), NEW signed \in BOOLEAN
  PROVE  Number(signed, x) \in Int /\ Fits(signed, n, Number(signed, x))
  <1>1. CASE signed
    <2>1. Number(TRUE, x) \in Int /\ Fits(TRUE, n, Number(TRUE, x))
      BY SignedRange, NumberIs, FitsIs
    <2>2. signed = TRUE
      BY <1>1
    <2>3. QED
      BY <2>1, <2>2, Zenon
  <1>2. CASE ~signed
    <2>1. Natural(x) \in 0 .. Size(n) - 1 /\ Size(n) \in Nat
      BY NumberFacts, SizeStep
    <2>2. Natural(x) \in Int /\ UnsignedFits(n, Natural(x))
      BY <2>1 DEF UnsignedFits
    <2>3. Number(FALSE, x) \in Int /\ Fits(FALSE, n, Number(FALSE, x))
      BY <2>2, NumberIs, FitsIs
    <2>4. signed = FALSE
      BY <1>2
    <2>5. QED
      BY <2>3, <2>4, Zenon
  <1>3. QED
    BY <1>1, <1>2

\* Zero is the number zero in both types, and nothing else is.
LEMMA ZeroNumber ==
  ASSUME NEW n \in Nat \ {0}, NEW x \in WordSeq(n), NEW signed \in BOOLEAN
  PROVE  /\ Zero(x) \in WordSeq(n) /\ Number(signed, Zero(x)) = 0
         /\ x = Zero(x) <=> Number(signed, x) = 0
  <1>1. Zero(x) \in WordSeq(n) /\ Zero(x) = Zero(Zero(x))
    BY NaturalZero, WordSeqFacts DEF Zero
  <1>2. /\ SignedNumber(Zero(x)) = 0 /\ Natural(Zero(x)) = 0
        /\ x = Zero(x) <=> SignedNumber(x) = 0
        /\ x = Zero(x) <=> Natural(x) = 0
    BY <1>1, SignedZero
  <1>3. CASE signed
    <2>1. signed = TRUE
      BY <1>3
    <2>2. Number(signed, Zero(x)) = SignedNumber(Zero(x)) /\ Number(signed, x) = SignedNumber(x)
      BY <2>1, NumberIs, Zenon
    <2>3. QED
      BY <1>1, <1>2, <2>2
  <1>4. CASE ~signed
    <2>1. signed = FALSE
      BY <1>4
    <2>2. Number(signed, Zero(x)) = Natural(Zero(x)) /\ Number(signed, x) = Natural(x)
      BY <2>1, NumberIs, Zenon
    <2>3. QED
      BY <1>1, <1>2, <2>2
  <1>5. QED
    BY <1>3, <1>4

\* v comes before the stop z of a range with the step s.
Before(s, v, z) == IF s > 0 THEN v < z ELSE z < v

\* What a loop keeps of its bounds.
LoopRecord(n) ==
  [kind : {"loop"}, signed : BOOLEAN, minus : BOOLEAN, start : WordSeq(n), stop : WordSeq(n),
   step : WordSeq(n), value : WordSeq(n), count : Nat]
Running(n, r) ==
  /\ r \in LoopRecord(n)
  /\ Number(r.signed, r.step) # 0
  /\ r.minus => r.signed /\ Number(r.signed, r.step) < 0

\* Positive tells the sign of a step.
LEMMA PositiveIs ==
  ASSUME NEW n \in Nat \ {0}, NEW x \in WordSeq(n), NEW signed \in BOOLEAN
  PROVE  Positive(signed, x) <=> Number(signed, x) > 0
  <1>1. Zero(x) \in WordSeq(n) /\ Number(signed, Zero(x)) = 0
    BY ZeroNumber
  <1>2. Lt(signed, Zero(x), x) <=> Number(signed, Zero(x)) < Number(signed, x)
    BY <1>1, LtIs
  <1>3. Number(signed, x) \in Int
    BY NumberFits
  <1>4. QED
    BY <1>1, <1>2, <1>3 DEF Positive

\* So does Lt the other way round.
LEMMA NegativeIs ==
  ASSUME NEW n \in Nat \ {0}, NEW x \in WordSeq(n), NEW signed \in BOOLEAN
  PROVE  Lt(signed, x, Zero(x)) <=> Number(signed, x) < 0
  <1>1. Zero(x) \in WordSeq(n) /\ Number(signed, Zero(x)) = 0
    BY ZeroNumber
  <1>2. Lt(signed, x, Zero(x)) <=> Number(signed, x) < Number(signed, Zero(x))
    BY <1>1, LtIs
  <1>3. QED
    BY <1>1, <1>2

\* Continues tells whether a value comes before the stop.
LEMMA ContinuesIs ==
  ASSUME NEW n \in Nat \ {0}, NEW r, Running(n, r), NEW v \in WordSeq(n)
  PROVE  Continues(r, v)
           <=> Before(Number(r.signed, r.step), Number(r.signed, v), Number(r.signed, r.stop))
  <1>1. Positive(r.signed, r.step) <=> Number(r.signed, r.step) > 0
    BY PositiveIs DEF Running, LoopRecord
  <1>2. Lt(r.signed, v, r.stop) <=> Number(r.signed, v) < Number(r.signed, r.stop)
    BY LtIs DEF Running, LoopRecord
  <1>3. Lt(r.signed, r.stop, v) <=> Number(r.signed, r.stop) < Number(r.signed, v)
    BY LtIs DEF Running, LoopRecord
  <1>4. QED
    BY <1>1, <1>2, <1>3, Zenon DEF Continues, Before

\* The condition of a loop that goes the way its step leads is that of its range.
LEMMA LoopContinuesIs ==
  ASSUME NEW n \in Nat \ {0}, NEW r, Running(n, r), NEW v
  PROVE  LoopContinues(r, v) <=> Continues(r, v)
  <1>1. CASE r.minus
    <2>1. r.signed = TRUE /\ Number(r.signed, r.step) < 0 /\ Number(r.signed, r.step) \in Int
      BY <1>1, NumberFits DEF Running, LoopRecord
    <2>2. Positive(r.signed, r.step) <=> Number(r.signed, r.step) > 0
      BY PositiveIs DEF Running, LoopRecord
    <2>3. ~Positive(r.signed, r.step)
      BY <2>1, <2>2
    <2>4. Continues(r, v) <=> Lt(r.signed, r.stop, v)
      BY <2>3, Zenon DEF Continues
    <2>5. LoopContinues(r, v) <=> Lt(TRUE, r.stop, v)
      BY <1>1, Zenon DEF LoopContinues
    <2>6. QED
      BY <2>1, <2>4, <2>5, Zenon
  <1>2. CASE ~r.minus
    BY <1>2, Zenon DEF LoopContinues
  <1>3. QED
    BY <1>1, <1>2

\* The numbers A, Z and s of a range, and V of the value that is reached after c
\* iterations: it is the c-th of the range, or the next one would have left the
\* type and it is the stop.
Visited(A, Z, s, V, c) ==
  /\ c = 0 \/ Before(s, A + (c - 1) * s, Z)
  /\ V = A + c * s \/ (V = Z /\ ~Before(s, A + c * s, Z))

\* A loop that continues is not at the stop by a step that left the type.
LEMMA ContinuesAt ==
  ASSUME NEW A \in Int, NEW Z \in Int, NEW s \in Int, NEW V \in Int, NEW c \in Nat,
         Visited(A, Z, s, V, c), Before(s, V, Z)
  PROVE  V = A + c * s
  BY DEF Visited, Before

\* A step that leaves the type passes the stop.
LEMMA Overshoots ==
  ASSUME NEW n \in Nat \ {0}, NEW signed \in BOOLEAN, NEW Z \in Int, NEW V \in Int, NEW s \in Int,
         Fits(signed, n, Z), Fits(signed, n, V), Before(s, V, Z), ~Fits(signed, n, V + s)
  PROVE  ~Before(s, V + s, Z)
  <1>1. PICK lo \in Int, hi \in Int : Span(signed, n, lo, hi)
    BY SpanOf
  <1>2. \A v \in Int : Fits(signed, n, v) <=> lo <= v /\ v < hi
    BY <1>1 DEF Span
  <1>3. V + s \in Int
    OBVIOUS
  <1>4. lo <= Z /\ Z < hi /\ lo <= V /\ V < hi /\ ~(lo <= V + s /\ V + s < hi)
    BY <1>2, <1>3
  <1>5. QED
    BY <1>4 DEF Before

\* w is the number, or the stop if it is not one of the type.
NumberOrStop(n, signed, number, stop, w) ==
  /\ w \in WordSeq(n)
  /\ Fits(signed, n, number) => Number(signed, w) = number
  /\ ~Fits(signed, n, number) => w = stop

\* range_advance is the next number, or the stop if there is none.
LEMMA AdvanceIs ==
  ASSUME NEW n \in Nat \ {0}, NEW v \in WordSeq(n), NEW step \in WordSeq(n), NEW stop \in WordSeq(n),
         NEW signed \in BOOLEAN
  PROVE  NumberOrStop(n, signed, Number(signed, v) + Number(signed, step), stop,
                      range_advance(signed, v, step, stop))
  <1> DEFINE w == range_advance(signed, v, step, stop)
             V == Number(signed, v) + Number(signed, step)
  <1> DEFINE sum == AddChecked(signed, v, step)
  <1>1. Outcome(signed, n, V, sum)
    BY AddCheckedIs
  <1>2. sum = Panic \/ sum = Add(v, step)
    BY DEF AddChecked, SignedAddChecked, UnsignedAddChecked
  <1>3. Add(v, step) \in WordSeq(n)
    BY AddExact
  <1>4. w = IF sum = Panic THEN stop ELSE sum
    BY DEF range_advance
  <1>5. Len(Panic) = 0
    BY DEF Panic
  <1> HIDE DEF sum, w, V
  <1>0. /\ w \in WordSeq(n)
        /\ Fits(signed, n, V) => Number(signed, w) = V
        /\ ~Fits(signed, n, V) => w = stop
    <2>1. CASE Fits(signed, n, V)
      <3>1. Len(sum) = n /\ Number(signed, sum) = V
        BY <1>1, <2>1, Zenon DEF Outcome
      <3>2. sum # Panic
        BY <3>1, <1>5
      <3>3. QED
        BY <3>1, <3>2, <1>2, <1>3, <1>4, <2>1
    <2>2. CASE ~Fits(signed, n, V)
      <3>1. sum = Panic
        BY <1>1, <2>2, Zenon DEF Outcome
      <3>2. QED
        BY <3>1, <1>4, <2>2
    <2>3. QED
      BY <2>1, <2>2
  <1>6. QED
    BY <1>0 DEF NumberOrStop, w, V

\* The loop r has a range of numbers of n words, and has visited the first of them.
RangeStart(r) == Number(r.signed, r.start)
RangeStop(r) == Number(r.signed, r.stop)
RangeStep(r) == Number(r.signed, r.step)
Looping(n, r) ==
  /\ Running(n, r)
  /\ Visited(RangeStart(r), RangeStop(r), RangeStep(r), Number(r.signed, r.value), r.count)

\* The numbers of a loop are integers, of the type.
LEMMA LoopNumbers ==
  ASSUME NEW n \in Nat \ {0}, NEW r, Running(n, r)
  PROVE  /\ RangeStart(r) \in Int /\ Fits(r.signed, n, RangeStart(r))
         /\ RangeStop(r) \in Int /\ Fits(r.signed, n, RangeStop(r))
         /\ RangeStep(r) \in Int /\ RangeStep(r) # 0
         /\ Number(r.signed, r.value) \in Int /\ Fits(r.signed, n, Number(r.signed, r.value))
  BY NumberFits DEF Running, LoopRecord, RangeStart, RangeStop, RangeStep

\* An iteration keeps Visited.
LEMMA AdvanceVisits ==
  ASSUME NEW n \in Nat \ {0}, NEW r, Looping(n, r), Continues(r, r.value),
         NEW w, w = range_advance(r.signed, r.value, r.step, r.stop)
  PROVE  /\ w \in WordSeq(n)
         /\ Visited(RangeStart(r), RangeStop(r), RangeStep(r), Number(r.signed, w), r.count + 1)
  <1>1. PICK A \in Int, Z \in Int, s \in Int, V \in Int, c \in Nat :
          /\ A = RangeStart(r) /\ Z = RangeStop(r) /\ s = RangeStep(r)
          /\ V = Number(r.signed, r.value) /\ c = r.count
    BY LoopNumbers DEF Looping, Running, LoopRecord
  <1>2. /\ r.signed \in BOOLEAN /\ r.value \in WordSeq(n) /\ r.step \in WordSeq(n)
        /\ r.stop \in WordSeq(n)
    BY DEF Looping, Running, LoopRecord
  <1>3. Visited(A, Z, s, V, c)
    BY <1>1 DEF Looping
  <1>4. Before(s, V, Z)
    BY <1>1, <1>2, ContinuesIs DEF Looping, RangeStep, RangeStop
  <1>5. V = A + c * s
    BY <1>3, <1>4, ContinuesAt
  <1>6. /\ w \in WordSeq(n)
        /\ Fits(r.signed, n, V + s) => Number(r.signed, w) = V + s
        /\ ~Fits(r.signed, n, V + s) => w = r.stop
    <2>1. NumberOrStop(n, r.signed, Number(r.signed, r.value) + Number(r.signed, r.step), r.stop,
                       range_advance(r.signed, r.value, r.step, r.stop))
      BY <1>2, AdvanceIs
    <2>2. NumberOrStop(n, r.signed, V + s, r.stop, w)
      BY <2>1, <1>1, Zenon DEF RangeStep
    <2>3. QED
      BY <2>2, Zenon DEF NumberOrStop
  <1>7. Fits(r.signed, n, V) /\ Fits(r.signed, n, Z)
    BY <1>1, LoopNumbers DEF Looping
  <1>8. A + (c + 1) * s = V + s /\ A + ((c + 1) - 1) * s = V
    <2>1. (c + 1) * s = c * s + s /\ (c + 1) - 1 = c
      OBVIOUS
    <2>2. QED
      BY <1>5, <2>1
  <1>9. Visited(A, Z, s, Number(r.signed, w), c + 1)
    <2>1. CASE Fits(r.signed, n, V + s)
      BY <2>1, <1>4, <1>6, <1>8, Zenon DEF Visited
    <2>2. CASE ~Fits(r.signed, n, V + s)
      <3>1. ~Before(s, V + s, Z)
        BY <2>2, <1>2, <1>4, <1>7, Overshoots
      <3>2. Number(r.signed, w) = Z
        BY <2>2, <1>1, <1>6 DEF RangeStop
      <3>3. QED
        BY <3>1, <3>2, <1>4, <1>8, Zenon DEF Visited
    <2>3. QED
      BY <2>1, <2>2
  <1>10. QED
    BY <1>1, <1>6, <1>9

\* A loop has fewer iterations than its type has numbers.
LEMMA CountBelow ==
  ASSUME NEW n \in Nat \ {0}, NEW r, Looping(n, r), Continues(r, r.value)
  PROVE  r.count < Size(n)
  <1>1. PICK A \in Int, Z \in Int, s \in Int, V \in Int, c \in Nat :
          /\ A = RangeStart(r) /\ Z = RangeStop(r) /\ s = RangeStep(r)
          /\ V = Number(r.signed, r.value) /\ c = r.count
    BY LoopNumbers DEF Looping, Running, LoopRecord
  <1>2. s # 0
    BY <1>1, LoopNumbers DEF Looping
  <1>3. Visited(A, Z, s, V, c)
    BY <1>1 DEF Looping
  <1>4. Before(s, V, Z)
    BY <1>1, ContinuesIs DEF Looping, Running, LoopRecord, RangeStep, RangeStop
  <1>5. V = A + c * s
    BY <1>3, <1>4, ContinuesAt
  <1>6. PICK lo \in Int, hi \in Int : Span(r.signed, n, lo, hi)
    BY SpanOf DEF Looping, Running, LoopRecord
  <1>7. lo <= A /\ A < hi /\ lo <= Z /\ Z < hi /\ hi = lo + Size(n) /\ Size(n) \in Int
    BY <1>1, <1>6, LoopNumbers, SizeStep DEF Looping, Span
  <1>8. CASE s > 0
    <2>1. c * s >= c
      <3>1. PICK d \in Nat : s = d + 1
        <4>1. s - 1 \in Nat /\ s = (s - 1) + 1
          BY <1>8
        <4>2. QED
          BY <4>1
      <3>2. c * s = c * d + c /\ c * d \in Nat
        BY <3>1
      <3>3. QED
        BY <3>2
    <2>2. PICK p \in Int : p = c * s
      OBVIOUS
    <2>3. QED
      BY <1>1, <1>4, <1>5, <1>7, <1>8, <2>1, <2>2 DEF Before
  <1>9. CASE s < 0
    <2>1. 0 - c * s >= c
      <3>1. PICK d \in Nat : s = 0 - (d + 1)
        <4>1. 0 - s - 1 \in Nat /\ s = 0 - ((0 - s - 1) + 1)
          BY <1>9
        <4>2. QED
          BY <4>1
      <3>2. c * s = 0 - c * d - c /\ c * d \in Nat
        BY <3>1
      <3>3. QED
        BY <3>2
    <2>2. PICK p \in Int : p = c * s
      OBVIOUS
    <2>3. QED
      BY <1>1, <1>4, <1>5, <1>7, <1>9, <2>1, <2>2 DEF Before
  <1>10. QED
    BY <1>2, <1>8, <1>9

\* Words that stand for a number, except for a multiple of their size, stand for
\* it where it is one of the type.
LEMMA NearUnique ==
  ASSUME NEW n \in Nat \ {0}, NEW x \in WordSeq(n), NEW signed \in BOOLEAN, NEW a \in Int,
         Near(n, x, a), Fits(signed, n, a)
  PROVE  Number(signed, x) = a
  <1>1. PICK q \in Int : a = Natural(x) + q * Size(n)
    BY DEF Near
  <1>2. CASE signed
    <2>1. signed = TRUE
      BY <1>2
    <2>2. SignedFits(n, a)
      BY <2>1, FitsIs, Zenon
    <2>3. SignedNumber(x) = a
      BY <1>1, <2>2, SignedUnique
    <2>4. QED
      BY <2>1, <2>3, NumberIs, Zenon
  <1>3. CASE ~signed
    <2>1. signed = FALSE
      BY <1>3
    <2>2. UnsignedFits(n, a)
      BY <2>1, FitsIs, Zenon
    <2>3. Natural(x) = a
      BY <1>1, <2>2, UnsignedUnique
    <2>4. QED
      BY <2>1, <2>3, NumberIs, Zenon
  <1>4. QED
    BY <1>2, <1>3

\* Sub is the difference where that is a number of the type.
LEMMA SubFits ==
  ASSUME NEW n \in Nat \ {0}, NEW l \in WordSeq(n), NEW r \in WordSeq(n), NEW signed \in BOOLEAN,
         Fits(signed, n, Number(signed, l) - Number(signed, r))
  PROVE  Sub(l, r) \in WordSeq(n) /\ Number(signed, Sub(l, r)) = Number(signed, l) - Number(signed, r)
  <1>1. Sub(l, r) \in WordSeq(n)
    BY SubExact
  <1>2. Near(n, l, Number(signed, l)) /\ Near(n, r, Number(signed, r))
    BY NearNumber
  <1>3. Near(n, Sub(l, r), Number(signed, l) - Number(signed, r))
    BY <1>2, SubNear
  <1>4. Number(signed, l) - Number(signed, r) \in Int
    BY NumberFits
  <1>5. QED
    BY <1>1, <1>3, <1>4, NearUnique

\* Add is the sum where that is a number of the type.
LEMMA AddFits ==
  ASSUME NEW n \in Nat \ {0}, NEW l \in WordSeq(n), NEW r \in WordSeq(n), NEW signed \in BOOLEAN,
         Fits(signed, n, Number(signed, l) + Number(signed, r))
  PROVE  Add(l, r) \in WordSeq(n) /\ Number(signed, Add(l, r)) = Number(signed, l) + Number(signed, r)
  <1>1. Add(l, r) \in WordSeq(n)
    BY AddExact
  <1>2. Near(n, l, Number(signed, l)) /\ Near(n, r, Number(signed, r))
    BY NearNumber
  <1>3. Near(n, Add(l, r), Number(signed, l) + Number(signed, r))
    BY <1>2, AddNear
  <1>4. Number(signed, l) + Number(signed, r) \in Int
    BY NumberFits
  <1>5. QED
    BY <1>1, <1>3, <1>4, NearUnique

\* The types of the ranges that the macro is for: i64 has functions of its own.
IsWide(signed, n) == n \in {1, 2, 4} /\ (signed => n \in {2, 4})

\* Mod in the types of the macro, one word without a sign included,
LEMMA WideMod ==
  ASSUME NEW signed \in BOOLEAN, NEW n, IsWide(signed, n), NEW l \in WordSeq(n), NEW r \in WordSeq(n),
         Number(signed, r) # 0
  PROVE  /\ Mod(signed, l, r) \in WordSeq(n)
         /\ Number(signed, Mod(signed, l, r))
              = Number(signed, l) - Truncated(Number(signed, l), Number(signed, r)) * Number(signed, r)
  <1>1. CASE signed
    <2>1. signed = TRUE /\ n \in {2, 4}
      BY <1>1 DEF IsWide
    <2>2. SignedNumber(r) # 0
      BY <2>1, NumberIs, Zenon
    <2>3. /\ SignedMod(l, r) \in WordSeq(n)
          /\ SignedNumber(SignedMod(l, r))
               = SignedNumber(l) - Truncated(SignedNumber(l), SignedNumber(r)) * SignedNumber(r)
      BY <2>1, <2>2, SignedModIs
    <2>4. Mod(signed, l, r) = SignedMod(l, r)
      BY <1>1 DEF Mod
    <2>5. /\ Number(signed, l) = SignedNumber(l) /\ Number(signed, r) = SignedNumber(r)
          /\ Number(signed, SignedMod(l, r)) = SignedNumber(SignedMod(l, r))
      BY <2>1, NumberIs, Zenon
    <2>6. QED
      BY <2>3, <2>4, <2>5, Zenon
  <1>2. CASE ~signed
    <2>1. signed = FALSE /\ n \in Nat \ {0}
      BY <1>2 DEF IsWide
    <2>2. Natural(r) # 0
      BY <2>1, NumberIs, Zenon
    <2>3. /\ divmod(l, r).remainder \in WordSeq(n)
          /\ Natural(divmod(l, r).remainder) = Natural(l) - Truncated(Natural(l), Natural(r)) * Natural(r)
      BY <2>1, <2>2, UnsignedDivIs
    <2>4. Mod(signed, l, r) = divmod(l, r).remainder
      BY <1>2 DEF Mod
    <2>5. /\ Number(signed, l) = Natural(l) /\ Number(signed, r) = Natural(r)
          /\ Number(signed, divmod(l, r).remainder) = Natural(divmod(l, r).remainder)
      BY <2>1, NumberIs, Zenon
    <2>6. QED
      BY <2>3, <2>4, <2>5, Zenon
  <1>3. QED
    BY <1>1, <1>2

\* and Div, where the quotient is a number of the type.
LEMMA WideDiv ==
  ASSUME NEW signed \in BOOLEAN, NEW n, IsWide(signed, n), NEW l \in WordSeq(n), NEW r \in WordSeq(n),
         Number(signed, r) # 0, Fits(signed, n, Truncated(Number(signed, l), Number(signed, r)))
  PROVE  /\ Div(signed, l, r) \in WordSeq(n)
         /\ Number(signed, Div(signed, l, r)) = Truncated(Number(signed, l), Number(signed, r))
  <1>1. CASE signed
    <2>1. signed = TRUE /\ n \in {2, 4}
      BY <1>1 DEF IsWide
    <2>2. SignedNumber(r) # 0
      BY <2>1, NumberIs, Zenon
    <2>3. /\ SignedDiv(l, r) \in WordSeq(n)
          /\ SignedNumber(SignedDiv(l, r)) = SignedQuotient(n, SignedNumber(l), SignedNumber(r))
      BY <2>1, <2>2, SignedDivIs
    <2>4. Div(signed, l, r) = SignedDiv(l, r)
      BY <1>1 DEF Div
    <2>5. /\ Number(signed, l) = SignedNumber(l) /\ Number(signed, r) = SignedNumber(r)
          /\ Number(signed, SignedDiv(l, r)) = SignedNumber(SignedDiv(l, r))
      BY <2>1, NumberIs, Zenon
    <2>6. SignedFits(n, Truncated(SignedNumber(l), SignedNumber(r)))
      BY <2>1, <2>5, FitsIs, Zenon
    <2>7. SignedQuotient(n, SignedNumber(l), SignedNumber(r)) = Truncated(SignedNumber(l), SignedNumber(r))
      BY <2>6, Zenon DEF SignedQuotient
    <2>8. QED
      BY <2>3, <2>4, <2>5, <2>7, Zenon
  <1>2. CASE ~signed
    <2>1. signed = FALSE /\ n \in Nat \ {0}
      BY <1>2 DEF IsWide
    <2>2. Natural(r) # 0
      BY <2>1, NumberIs, Zenon
    <2>3. /\ divmod(l, r).quotient \in WordSeq(n)
          /\ Natural(divmod(l, r).quotient) = Truncated(Natural(l), Natural(r))
      BY <2>1, <2>2, UnsignedDivIs
    <2>4. Div(signed, l, r) = divmod(l, r).quotient
      BY <1>2 DEF Div
    <2>5. /\ Number(signed, l) = Natural(l) /\ Number(signed, r) = Natural(r)
          /\ Number(signed, divmod(l, r).quotient) = Natural(divmod(l, r).quotient)
      BY <2>1, NumberIs, Zenon
    <2>6. QED
      BY <2>3, <2>4, <2>5, Zenon
  <1>3. QED
    BY <1>1, <1>2

\* A multiple of the step leaves no remainder.
LEMMA MultipleRemains ==
  ASSUME NEW c \in Nat, NEW s \in Int, s # 0
  PROVE  c * s - Truncated(c * s, s) * s = 0
  <1>1. PICK a \in Int : a = c * s
    OBVIOUS
  <1>2. PICK q \in Int, t \in Int : Truncates(a, s, q, t)
    BY TruncatedFacts
  <1>3. /\ Abs(a) = q * Abs(s) + t /\ 0 <= t /\ t < Abs(s)
        /\ a - Truncated(a, s) * s = IF a < 0 THEN -t ELSE t
    BY <1>2 DEF Truncates
  <1>4. PICK u \in Nat \ {0} : u = Abs(s)
    BY DEF Abs
  <1>5. Abs(a) = c * u
    <2>1. CASE s > 0
      <3>1. u = s
        BY <2>1, <1>4 DEF Abs
      <3>2. c * s >= 0
        BY <2>1
      <3>3. Abs(a) = a
        BY <3>2, <1>1 DEF Abs
      <3>4. QED
        BY <3>1, <3>3, <1>1
    <2>2. CASE s < 0
      <3>1. u = 0 - s
        BY <2>2, <1>4 DEF Abs
      <3>2. c * u = 0 - c * s
        BY <3>1
      <3>3. c * u >= 0
        OBVIOUS
      <3>4. Abs(a) = 0 - a
        BY <3>2, <3>3, <1>1 DEF Abs
      <3>5. QED
        BY <3>2, <3>4, <1>1
    <2>3. QED
      BY <2>1, <2>2
  <1>6. c - q = 0
    <2>1. (c - q) * u = c * u - q * u
      OBVIOUS
    <2>2. c * u = q * u + t
      BY <1>3, <1>4, <1>5
    <2>3. (c - q) * u = t
      BY <2>1, <2>2
    <2>4. (c - q) * u < u /\ (c - q) * u > 0 - u
      BY <2>3, <1>3, <1>4
    <2>5. QED
      BY <2>4, NoMultiple
  <1>7. t = 0
    <2>1. q = c
      BY <1>6
    <2>2. c * u = c * u + t
      BY <2>1, <1>3, <1>4, <1>5
    <2>3. PICK p \in Int : p = c * u
      OBVIOUS
    <2>4. QED
      BY <2>2, <2>3
  <1>8. QED
    BY <1>1, <1>3, <1>7

\* Where a value that was reached and is still to be visited lies.
Between(A, Z, s, V, c) ==
  /\ V - A = c * s
  /\ s > 0 => A <= V /\ V < Z
  /\ ~(s > 0) => V <= A /\ Z < V

\* A value that is still to be visited lies between start and stop.
LEMMA BetweenIs ==
  ASSUME NEW A \in Int, NEW Z \in Int, NEW s \in Int, s # 0, NEW V \in Int, NEW c \in Nat,
         Visited(A, Z, s, V, c), Before(s, V, Z)
  PROVE  Between(A, Z, s, V, c)
  <1>1. V = A + c * s
    BY ContinuesAt
  <1>2. PICK p \in Int : p = c * s
    OBVIOUS
  <1>3. s > 0 => p >= 0
    BY <1>2
  <1>4. s < 0 => p <= 0
    <2>1. ASSUME s < 0 PROVE c * (0 - s) >= 0
      BY <2>1
    <2>2. c * (0 - s) = 0 - c * s
      OBVIOUS
    <2>3. QED
      BY <2>1, <2>2, <1>2
  <1>5. QED
    BY <1>1, <1>2, <1>3, <1>4 DEF Between, Before

\* So does the value of a loop that continues.
LEMMA LoopBetween ==
  ASSUME NEW n \in Nat \ {0}, NEW r, Looping(n, r), Continues(r, r.value)
  PROVE  Between(RangeStart(r), RangeStop(r), RangeStep(r), Number(r.signed, r.value), r.count)
  <1>1. PICK A \in Int, Z \in Int, s \in Int, V \in Int, c \in Nat :
          /\ A = RangeStart(r) /\ Z = RangeStop(r) /\ s = RangeStep(r)
          /\ V = Number(r.signed, r.value) /\ c = r.count
    BY LoopNumbers DEF Looping, Running, LoopRecord
  <1>2. s # 0
    BY <1>1, LoopNumbers DEF Looping
  <1>3. Visited(A, Z, s, V, c)
    BY <1>1 DEF Looping
  <1>4. Before(s, V, Z)
    BY <1>1, ContinuesIs DEF Looping, Running, LoopRecord, RangeStep, RangeStop
  <1>5. Between(A, Z, s, V, c)
    BY <1>2, <1>3, <1>4, BetweenIs
  <1>6. QED
    BY <1>1, <1>5

\* A loop that continues is at a value inside its range.
LEMMA InsideIs ==
  ASSUME NEW n \in Nat \ {0}, NEW r, Looping(n, r), Continues(r, r.value)
  PROVE  Inside(r, r.value)
  <1>1. Between(RangeStart(r), RangeStop(r), RangeStep(r), Number(r.signed, r.value), r.count)
    BY LoopBetween
  <1>2. Positive(r.signed, r.step) <=> RangeStep(r) > 0
    BY PositiveIs DEF Looping, Running, LoopRecord, RangeStep
  <1>3. /\ Lt(r.signed, r.value, r.start) <=> Number(r.signed, r.value) < RangeStart(r)
        /\ Lt(r.signed, r.start, r.value) <=> RangeStart(r) < Number(r.signed, r.value)
        /\ Lt(r.signed, r.value, r.stop) <=> Number(r.signed, r.value) < RangeStop(r)
        /\ Lt(r.signed, r.stop, r.value) <=> RangeStop(r) < Number(r.signed, r.value)
    BY LtIs DEF Looping, Running, LoopRecord, RangeStart, RangeStop
  <1>4. RangeStart(r) \in Int /\ RangeStop(r) \in Int /\ Number(r.signed, r.value) \in Int
    BY LoopNumbers DEF Looping
  <1>5. CASE RangeStep(r) > 0
    BY <1>1, <1>2, <1>3, <1>4, <1>5 DEF Between, Inside
  <1>6. CASE ~(RangeStep(r) > 0)
    BY <1>1, <1>2, <1>3, <1>4, <1>6 DEF Between, Inside
  <1>7. QED
    BY <1>5, <1>6

\* The distance of two numbers, taken in the type of their bits.
LEMMA WrapDistance ==
  ASSUME NEW v \in Words, NEW a \in Words, 0 <= AsSigned(v) - AsSigned(a)
  PROVE  Wrap(v - a) = AsSigned(v) - AsSigned(a)
  <1>1. PICK R \in Nat : R = Radix /\ R >= 4
    BY RadixFacts
  <1>2. /\ v \in Int /\ 0 <= v /\ v < R /\ a \in Int /\ 0 <= a /\ a < R
    BY <1>1 DEF Words
  <1>3. PICK D \in Int : D = AsSigned(v) - AsSigned(a)
    BY AsSignedFacts
  <1>4. /\ 0 <= D /\ D < R
        /\ v - a = D \/ v - a = D + R \/ v - a = D - R
    BY <1>1, <1>2, <1>3 DEF AsSigned
  <1>5. PICK k \in Int : v - a = D + k * R
    <2>1. D + 0 * R = D /\ D + 1 * R = D + R /\ D + (-1) * R = D - R
      OBVIOUS
    <2>2. 0 \in Int /\ 1 \in Int /\ -1 \in Int
      OBVIOUS
    <2>3. QED
      BY <2>1, <2>2, <1>4
  <1>6. D \in 0 .. R - 1 /\ R \in Nat \ {0}
    BY <1>1, <1>4
  <1>7. (D + k * R) % R = D
    BY <1>6, ModUnique
  <1>8. QED
    BY <1>1, <1>3, <1>5, <1>7 DEF Wrap

\* The step of an i64 range, or its negative, as the word it is divided by.
LEMMA WrapStride ==
  ASSUME NEW t \in Words
  PROVE  /\ AsSigned(t) > 0 => t = AsSigned(t)
         /\ AsSigned(t) < 0 => Wrap(-t) = -AsSigned(t)
  <1>1. PICK R \in Nat : R = Radix /\ R >= 4
    BY RadixFacts
  <1>2. t \in Int /\ 0 <= t /\ t < R
    BY <1>1 DEF Words
  <1>3. AsSigned(t) > 0 => t = AsSigned(t)
    BY <1>1, <1>2 DEF AsSigned
  <1>4. ASSUME AsSigned(t) < 0 PROVE Wrap(-t) = -AsSigned(t)
    <2>1. AsSigned(t) = t - R /\ 2 * t >= R
      BY <1>1, <1>2, <1>4 DEF AsSigned
    <2>2. R - t \in 0 .. R - 1 /\ R \in Nat \ {0} /\ -1 \in Int
      BY <2>1, <1>1, <1>2, <1>4
    <2>3. ((R - t) + (-1) * R) % R = R - t
      BY <2>2, ModUnique
    <2>4. (R - t) + (-1) * R = -t
      BY <1>2
    <2>5. QED
      BY <2>1, <2>3, <2>4, <1>1, <1>2 DEF Wrap
  <1>5. QED
    BY <1>3, <1>4

\* A multiple has no remainder.
LEMMA MultipleMod ==
  ASSUME NEW M \in Nat \ {0}, NEW c \in Int
  PROVE  (c * M) % M = 0
  <1>1. (0 + c * M) % M = 0
    BY ModUnique, 0 \in 0 .. M - 1
  <1>2. 0 + c * M = c * M
    OBVIOUS
  <1>3. QED
    BY <1>1, <1>2

\* in of an i64 range holds what its loop is at.
LEMMA WordContains ==
  ASSUME NEW r, Looping(1, r), Continues(r, r.value), r.signed
  PROVE  GrayRange_i64_contains(r, r.value)
  <1>1. Inside(r, r.value)
    BY InsideIs, 1 \in Nat \ {0}
  <1>2. /\ Between(RangeStart(r), RangeStop(r), RangeStep(r), Number(r.signed, r.value), r.count)
        /\ Positive(r.signed, r.step) <=> RangeStep(r) > 0
        /\ RangeStep(r) \in Int /\ RangeStep(r) # 0
    BY LoopBetween, PositiveIs, LoopNumbers, 1 \in Nat \ {0} DEF Looping, Running, LoopRecord, RangeStep
  <1>3. r.signed = TRUE /\ r.count \in Nat
    BY DEF Looping, Running, LoopRecord
  <1>4. /\ r.start \in WordSeq(1) /\ r.step \in WordSeq(1) /\ r.value \in WordSeq(1)
    BY DEF Looping, Running, LoopRecord
  <1>5. PICK a \in Words, t \in Words, v \in Words : a = r.start[1] /\ t = r.step[1] /\ v = r.value[1]
    BY <1>4, OneWordNumber
  <1>6. /\ RangeStart(r) = AsSigned(a) /\ RangeStep(r) = AsSigned(t)
        /\ Number(r.signed, r.value) = AsSigned(v)
    <2>1. /\ Number(TRUE, r.start) = AsSigned(a) /\ Number(TRUE, r.step) = AsSigned(t)
          /\ Number(TRUE, r.value) = AsSigned(v)
      BY <1>4, <1>5, OneWordNumber
    <2>2. QED
      BY <2>1, <1>3, Zenon DEF RangeStart, RangeStep
  <1>7. AsSigned(a) \in Int /\ AsSigned(t) \in Int /\ AsSigned(v) \in Int
    BY AsSignedFacts
  <1>8. PICK c \in Nat, s \in Int : c = r.count /\ s = AsSigned(t) /\ s # 0
    BY <1>2, <1>3, <1>6
  <1>9. AsSigned(v) - AsSigned(a) = c * s
    BY <1>2, <1>6, <1>8 DEF Between
  <1>10. CASE s > 0
    <2>1. AsSigned(a) <= AsSigned(v)
      BY <1>2, <1>6, <1>8, <1>10 DEF Between
    <2>2. Wrap(v - a) = AsSigned(v) - AsSigned(a)
      BY <2>1, <1>7, WrapDistance
    <2>3. t = s
      BY <1>8, <1>10, WrapStride
    <2>4. (c * s) % s = 0
      BY <1>10, MultipleMod
    <2>5. Wrap(v - a) % t = 0
      BY <2>2, <2>3, <2>4, <1>9, Zenon
    <2>6. Positive(TRUE, r.step)
      BY <1>2, <1>3, <1>6, <1>8, <1>10
    <2>7. QED
      BY <1>1, <1>5, <2>5, <2>6, Zenon DEF GrayRange_i64_contains
  <1>11. CASE s < 0
    <2>0. ~(RangeStep(r) > 0)
      BY <1>6, <1>8, <1>11
    <2>1. AsSigned(v) <= AsSigned(a)
      BY <2>0, <1>2, <1>6, <1>7 DEF Between
    <2>2. Wrap(a - v) = AsSigned(a) - AsSigned(v)
      BY <2>1, <1>7, WrapDistance
    <2>3. Wrap(-t) = -s
      BY <1>8, <1>11, WrapStride
    <2>4. (c * (-s)) % (-s) = 0
      BY <1>11, MultipleMod
    <2>5. AsSigned(a) - AsSigned(v) = c * (-s)
      <3>1. c * (-s) = 0 - c * s
        OBVIOUS
      <3>2. QED
        BY <3>1, <1>7, <1>9
    <2>6. Wrap(a - v) % Wrap(-t) = 0
      BY <2>2, <2>3, <2>4, <2>5, Zenon
    <2>7. ~Positive(TRUE, r.step)
      BY <2>0, <1>2, <1>3, Zenon
    <2>8. QED
      BY <1>1, <1>5, <2>6, <2>7, Zenon DEF GrayRange_i64_contains
  <1>12. QED
    BY <1>8, <1>10, <1>11

\* A number between the start and the stop is no farther from the start.
LEMMA BetweenFits ==
  ASSUME NEW n \in Nat \ {0}, NEW signed \in BOOLEAN, NEW A \in Int, NEW Z \in Int, NEW s \in Int,
         NEW V \in Int, NEW c \in Nat, Between(A, Z, s, V, c), Fits(signed, n, Z - A)
  PROVE  Fits(signed, n, V - A)
  <1>1. PICK lo \in Int, hi \in Int : Span(signed, n, lo, hi)
    BY SpanOf
  <1>2. /\ \A v \in Int : Fits(signed, n, v) <=> lo <= v /\ v < hi
        /\ lo <= 0 /\ 0 < hi
    BY <1>1 DEF Span
  <1>3. V - A \in Int /\ Z - A \in Int
    OBVIOUS
  <1>4. lo <= Z - A /\ Z - A < hi
    BY <1>2, <1>3
  <1>5. lo <= V - A /\ V - A < hi
    BY <1>2, <1>4 DEF Between
  <1>6. QED
    BY <1>2, <1>3, <1>5

\* in of any other range, while the distance from start to stop is a number of the type.
LEMMA WideContains ==
  ASSUME NEW n, NEW r, Looping(n, r), IsWide(r.signed, n), Continues(r, r.value),
         Fits(r.signed, n, RangeStop(r) - RangeStart(r))
  PROVE  GrayRange_WIDE_contains(r, r.value)
  <1>0. n \in Nat \ {0}
    BY DEF IsWide
  <1>1. Inside(r, r.value)
    BY <1>0, InsideIs
  <1>2. PICK A \in Int, Z \in Int, s \in Int, V \in Int, c \in Nat :
          /\ A = RangeStart(r) /\ Z = RangeStop(r) /\ s = RangeStep(r)
          /\ V = Number(r.signed, r.value) /\ c = r.count
    BY <1>0, LoopNumbers DEF Looping, Running, LoopRecord
  <1>3. s # 0 /\ Between(A, Z, s, V, c)
    BY <1>0, <1>2, LoopNumbers, LoopBetween DEF Looping
  <1>4. /\ r.signed \in BOOLEAN /\ r.value \in WordSeq(n) /\ r.step \in WordSeq(n)
        /\ r.start \in WordSeq(n)
    BY DEF Looping, Running, LoopRecord
  <1>5. Fits(r.signed, n, V - A)
    <2>1. Fits(r.signed, n, Z - A)
      BY <1>2, Zenon
    <2>2. QED
      BY <2>1, <1>0, <1>3, <1>4, BetweenFits
  <1>6. Sub(r.value, r.start) \in WordSeq(n) /\ Number(r.signed, Sub(r.value, r.start)) = V - A
    <2>1. Fits(r.signed, n, Number(r.signed, r.value) - Number(r.signed, r.start))
      BY <1>2, <1>5, Zenon DEF RangeStart
    <2>2. /\ Sub(r.value, r.start) \in WordSeq(n)
          /\ Number(r.signed, Sub(r.value, r.start)) = Number(r.signed, r.value) - Number(r.signed, r.start)
      BY <2>1, <1>0, <1>4, SubFits
    <2>3. QED
      BY <2>2, <1>2, Zenon DEF RangeStart
  <1>7. PICK d \in WordSeq(n) : d = Sub(r.value, r.start) /\ Number(r.signed, d) = V - A
    BY <1>6
  <1>8. Number(r.signed, r.step) = s
    BY <1>2 DEF RangeStep
  <1>9. /\ Mod(r.signed, d, r.step) \in WordSeq(n)
        /\ Number(r.signed, Mod(r.signed, d, r.step)) = (V - A) - Truncated(V - A, s) * s
    <2>1. /\ Mod(r.signed, d, r.step) \in WordSeq(n)
          /\ Number(r.signed, Mod(r.signed, d, r.step))
               = Number(r.signed, d) - Truncated(Number(r.signed, d), Number(r.signed, r.step)) * Number(r.signed, r.step)
      BY <1>3, <1>4, <1>8, WideMod
    <2>2. QED
      BY <2>1, <1>7, <1>8, Zenon
  <1>10. (V - A) - Truncated(V - A, s) * s = 0
    <2>1. c * s - Truncated(c * s, s) * s = 0
      BY <1>3, MultipleRemains
    <2>2. V - A = c * s
      BY <1>3 DEF Between
    <2>3. QED
      BY <2>1, <2>2, Zenon
  <1>11. Mod(r.signed, d, r.step) = Zero(Mod(r.signed, d, r.step))
    BY <1>0, <1>4, <1>9, <1>10, ZeroNumber
  <1>12. Zero(Mod(r.signed, d, r.step)) = Zero(r.value)
    BY <1>0, <1>4, <1>9, WordSeqFacts DEF Zero
  <1>13. QED
    BY <1>1, <1>7, <1>11, <1>12 DEF GrayRange_WIDE_contains

\* c is the number of the values from A in steps of s before Z.
Counted(A, Z, s, c) ==
  IF s > 0 THEN A < Z /\ (Z - A - 1) \div s = c - 1 /\ c <= Z - A
  ELSE Z < A /\ (A - Z - 1) \div (-s) = c - 1 /\ c <= A - Z

\* How many steps of u it takes to D.
LEMMA CountOf ==
  ASSUME NEW D \in Int, NEW u \in Nat \ {0}, NEW c \in Nat \ {0},
         (c - 1) * u < D, D <= c * u
  PROVE  0 < D /\ (D - 1) \div u = c - 1 /\ c <= D
  <1>1. PICK b \in Nat : c = b + 1
    <2>1. c - 1 \in Nat /\ c = (c - 1) + 1
      OBVIOUS
    <2>2. QED
      BY <2>1
  <1>2. c * u = b * u + u /\ c - 1 = b
    BY <1>1
  <1>3. PICK p \in Nat : p = b * u
    OBVIOUS
  <1>4. p < D /\ D <= p + u
    BY <1>2, <1>3
  <1>5. D - 1 - p \in 0 .. u - 1
    BY <1>4
  <1>6. ((D - 1 - p) + b * u) \div u = b
    BY <1>5, ModUnique
  <1>7. (D - 1 - p) + b * u = D - 1
    BY <1>3
  <1>8. p >= b
    <2>1. PICK d \in Nat : u = d + 1
      <3>1. u - 1 \in Nat /\ u = (u - 1) + 1
        OBVIOUS
      <3>2. QED
        BY <3>1
    <2>2. b * u = b * d + b /\ b * d \in Nat
      BY <2>1
    <2>3. QED
      BY <2>2, <1>3
  <1>9. QED
    BY <1>1, <1>2, <1>4, <1>6, <1>7, <1>8

\* A loop that has ended has visited the values before its stop.
LEMMA CountedIs ==
  ASSUME NEW A \in Int, NEW Z \in Int, NEW s \in Int, s # 0, NEW V \in Int, NEW c \in Nat \ {0},
         Visited(A, Z, s, V, c), ~Before(s, V, Z)
  PROVE  Counted(A, Z, s, c)
  <1>1. Before(s, A + (c - 1) * s, Z) /\ ~Before(s, A + c * s, Z)
    BY DEF Visited
  <1>2. CASE s > 0
    <2>1. PICK p \in Int, q \in Int : p = (c - 1) * s /\ q = c * s
      OBVIOUS
    <2>2. p < Z - A /\ Z - A <= q
      BY <1>1, <1>2, <2>1 DEF Before
    <2>3. Z - A \in Int /\ s \in Nat \ {0} /\ (c - 1) * s < Z - A /\ Z - A <= c * s
      BY <1>2, <2>1, <2>2
    <2>4. 0 < Z - A /\ ((Z - A) - 1) \div s = c - 1 /\ c <= Z - A
      BY <2>3, CountOf
    <2>5. QED
      BY <2>4, <1>2 DEF Counted
  <1>3. CASE s < 0
    <2>1. PICK u \in Nat \ {0} : u = -s
      BY <1>3
    <2>2. PICK p \in Int, q \in Int : p = (c - 1) * s /\ q = c * s
      OBVIOUS
    <2>3. (c - 1) * u = 0 - p /\ c * u = 0 - q
      <3>1. (c - 1) * u = 0 - (c - 1) * s /\ c * u = 0 - c * s
        BY <2>1
      <3>2. QED
        BY <3>1, <2>2
    <2>4. Z < A + p /\ ~(Z < A + q)
      BY <1>1, <1>3, <2>2 DEF Before
    <2>5. A - Z \in Int /\ (c - 1) * u < A - Z /\ A - Z <= c * u
      BY <2>3, <2>4, <2>2
    <2>6. 0 < A - Z /\ ((A - Z) - 1) \div u = c - 1 /\ c <= A - Z
      BY <2>5, CountOf
    <2>7. QED
      BY <2>6, <2>1, <1>3 DEF Counted
  <1>4. QED
    BY <1>2, <1>3

\* The numbers of a loop that has ended.
LEMMA EndedIs ==
  ASSUME NEW n \in Nat \ {0}, NEW r, Looping(n, r), ~Continues(r, r.value)
  PROVE  /\ Continues(r, r.start) <=> r.count # 0
         /\ r.count # 0 => Counted(RangeStart(r), RangeStop(r), RangeStep(r), r.count)
  <1>1. PICK A \in Int, Z \in Int, s \in Int, V \in Int, c \in Nat :
          /\ A = RangeStart(r) /\ Z = RangeStop(r) /\ s = RangeStep(r)
          /\ V = Number(r.signed, r.value) /\ c = r.count
    BY LoopNumbers DEF Looping, Running, LoopRecord
  <1>2. s # 0
    BY <1>1, LoopNumbers DEF Looping
  <1>3. Visited(A, Z, s, V, c)
    BY <1>1 DEF Looping
  <1>4. ~Before(s, V, Z)
    BY <1>1, ContinuesIs DEF Looping, Running, LoopRecord, RangeStep, RangeStop
  <1>5. Continues(r, r.start) <=> Before(s, A, Z)
    BY <1>1, ContinuesIs DEF Looping, Running, LoopRecord, RangeStart, RangeStep, RangeStop
  <1>6. CASE c = 0
    <2>1. A + c * s = A
      BY <1>6
    <2>2. ~Before(s, A, Z)
      BY <2>1, <1>3, <1>4, Zenon DEF Visited
    <2>3. QED
      BY <2>2, <1>1, <1>5, <1>6
  <1>7. CASE c # 0
    <2>1. Counted(A, Z, s, c)
      BY <1>2, <1>3, <1>4, <1>7, CountedIs
    <2>2. Before(s, A, Z)
      BY <2>1 DEF Counted, Before
    <2>3. QED
      BY <2>1, <2>2, <1>1, <1>5, <1>7
  <1>8. QED
    BY <1>6, <1>7

\* What len returns for a loop with c iterations.
LenOf(c) == IF c > Int64Max THEN -1 ELSE c

\* The largest int64_t.
LEMMA Int64MaxIs ==
  Int64Max \in Nat /\ 2 * Int64Max + 2 = Radix /\ Int64Max >= 1
  <1>1. PICK h \in Nat : Radix = 2 * h /\ Radix \div 2 = h
    BY RadixFacts
  <1>2. QED
    BY <1>1, RadixFacts DEF Int64Max

\* len of an i64 range is the number of iterations.
LEMMA WordLen ==
  ASSUME NEW r, Looping(1, r), ~Continues(r, r.value), r.signed
  PROVE  GrayRange_i64_len(r) = LenOf(r.count)
  <1>1. /\ Continues(r, r.start) <=> r.count # 0
        /\ r.count # 0 => Counted(RangeStart(r), RangeStop(r), RangeStep(r), r.count)
        /\ Positive(r.signed, r.step) <=> RangeStep(r) > 0
        /\ RangeStep(r) \in Int /\ RangeStep(r) # 0
    BY EndedIs, PositiveIs, LoopNumbers, 1 \in Nat \ {0} DEF Looping, Running, LoopRecord, RangeStep
  <1>2. r.signed = TRUE /\ r.count \in Nat
    BY DEF Looping, Running, LoopRecord
  <1>3. CASE r.count = 0
    BY <1>1, <1>3, Int64MaxIs DEF GrayRange_i64_len, LenOf
  <1>4. CASE r.count # 0
    <2>1. /\ r.start \in WordSeq(1) /\ r.step \in WordSeq(1) /\ r.stop \in WordSeq(1)
      BY DEF Looping, Running, LoopRecord
    <2>2. PICK a \in Words, t \in Words, z \in Words : a = r.start[1] /\ t = r.step[1] /\ z = r.stop[1]
      BY <2>1, OneWordNumber
    <2>3. /\ RangeStart(r) = AsSigned(a) /\ RangeStep(r) = AsSigned(t)
          /\ RangeStop(r) = AsSigned(z)
      <3>1. /\ Number(TRUE, r.start) = AsSigned(a) /\ Number(TRUE, r.step) = AsSigned(t)
            /\ Number(TRUE, r.stop) = AsSigned(z)
        BY <2>1, <2>2, OneWordNumber
      <3>2. QED
        BY <3>1, <1>2, Zenon DEF RangeStart, RangeStep, RangeStop
    <2>4. AsSigned(a) \in Int /\ AsSigned(t) \in Int /\ AsSigned(z) \in Int
      BY AsSignedFacts
    <2>5. PICK c \in Nat, s \in Int : c = r.count /\ s = AsSigned(t) /\ s # 0
      BY <1>1, <1>2, <2>3
    <2>6. Counted(AsSigned(a), AsSigned(z), s, c)
      BY <1>1, <1>4, <2>3, <2>5
    <2>7. CASE s > 0
      <3>1. /\ AsSigned(a) < AsSigned(z)
            /\ (AsSigned(z) - AsSigned(a) - 1) \div s = c - 1
        BY <2>6, <2>7 DEF Counted
      <3>2. Wrap(z - a) = AsSigned(z) - AsSigned(a)
        BY <3>1, <2>4, WrapDistance
      <3>3. t = s
        BY <2>5, <2>7, WrapStride
      <3>4. (Wrap(z - a) - 1) \div t = c - 1
        BY <3>1, <3>2, <3>3, Zenon
      <3>5. ((Wrap(z - a) - 1) \div t) + 1 = c
        BY <3>4
      <3>6. Positive(TRUE, r.step)
        BY <1>1, <1>2, <2>3, <2>5, <2>7
      <3>7. GrayRange_i64_len(r) = IF c > Int64Max THEN -1 ELSE c
        BY <1>1, <1>4, <2>2, <3>5, <3>6, Zenon DEF GrayRange_i64_len
      <3>8. QED
        BY <3>7, <2>5 DEF LenOf
    <2>8. CASE s < 0
      <3>0. ~(RangeStep(r) > 0) /\ ~(s > 0)
        BY <2>3, <2>5, <2>8
      <3>1. /\ AsSigned(z) < AsSigned(a)
            /\ (AsSigned(a) - AsSigned(z) - 1) \div (-s) = c - 1
        BY <2>6, <3>0, Zenon DEF Counted
      <3>2. Wrap(a - z) = AsSigned(a) - AsSigned(z)
        BY <3>1, <2>4, WrapDistance
      <3>3. Wrap(-t) = -s
        BY <2>5, <2>8, WrapStride
      <3>4. (Wrap(a - z) - 1) \div Wrap(-t) = c - 1
        BY <3>1, <3>2, <3>3, Zenon
      <3>5. ((Wrap(a - z) - 1) \div Wrap(-t)) + 1 = c
        BY <3>4
      <3>6. ~Positive(TRUE, r.step)
        BY <3>0, <1>1, <1>2, Zenon
      <3>7. GrayRange_i64_len(r) = IF c > Int64Max THEN -1 ELSE c
        BY <1>1, <1>4, <2>2, <3>5, <3>6, Zenon DEF GrayRange_i64_len
      <3>8. QED
        BY <3>7, <2>5 DEF LenOf
    <2>9. QED
      BY <2>5, <2>7, <2>8
  <1>5. QED
    BY <1>3, <1>4

\* SubChecked is the difference where that is a number of the type.
LEMMA SubCheckedFits ==
  ASSUME NEW n \in Nat \ {0}, NEW l \in WordSeq(n), NEW r \in WordSeq(n), NEW signed \in BOOLEAN,
         Fits(signed, n, Number(signed, l) - Number(signed, r))
  PROVE  /\ SubChecked(signed, l, r) \in WordSeq(n) /\ SubChecked(signed, l, r) # Panic
         /\ Number(signed, SubChecked(signed, l, r)) = Number(signed, l) - Number(signed, r)
  <1>1. Outcome(signed, n, Number(signed, l) - Number(signed, r), SubChecked(signed, l, r))
    BY SubCheckedIs
  <1>2. /\ Len(SubChecked(signed, l, r)) = n
        /\ Number(signed, SubChecked(signed, l, r)) = Number(signed, l) - Number(signed, r)
    BY <1>1, Zenon DEF Outcome
  <1>3. SubChecked(signed, l, r) # Panic
    <2>1. Len(Panic) = 0
      BY DEF Panic
    <2>2. QED
      BY <1>2, <2>1
  <1>4. SubChecked(signed, l, r) = Panic \/ SubChecked(signed, l, r) = Sub(l, r)
    BY DEF SubChecked, SignedSubChecked, UnsignedSubChecked
  <1>5. Sub(l, r) \in WordSeq(n)
    BY SubExact
  <1>6. QED
    BY <1>2, <1>3, <1>4, <1>5

\* Small is its word, in signed types too if that is not larger than an int64_t.
LEMMA SmallNumber ==
  ASSUME NEW n \in Nat \ {0}, NEW w \in 0 .. Int64Max, NEW signed \in BOOLEAN
  PROVE  /\ Small(w, n) \in WordSeq(n) /\ Number(signed, Small(w, n)) = w
         /\ Fits(signed, n, w)
  <1>1. w \in Words /\ w \in Nat /\ 2 * w < Radix
    BY Int64MaxIs, RadixFacts DEF Words
  <1>2. Small(w, n) \in WordSeq(n) /\ Natural(Small(w, n)) = w
    BY <1>1, SmallIs
  <1>3. Size(n) \in Nat /\ Radix <= Size(n)
    <2>1. PICK k \in Nat : n = k + 1
      <3>1. n - 1 \in Nat /\ n = (n - 1) + 1
        OBVIOUS
      <3>2. QED
        BY <3>1
    <2>2. PICK z \in Nat \ {0}, R \in Nat : z = Size(k) /\ R = Radix /\ Size(n) = R * z
      BY <2>1, SizeStep, RadixFacts
    <2>3. PICK y \in Nat : z = y + 1
      <3>1. z - 1 \in Nat /\ z = (z - 1) + 1
        OBVIOUS
      <3>2. QED
        BY <3>1
    <2>4. R * z = R * y + R /\ R * y \in Nat
      BY <2>3
    <2>5. QED
      BY <2>2, <2>4
  <1>4. Near(n, Small(w, n), w)
    BY <1>2, NearNatural
  <1>5. Fits(signed, n, w)
    <2>1. PICK h \in Nat \ {0} : Size(n) = 2 * h /\ Size(n) \div 2 = h
      BY HalfSize
    <2>2. SignedFits(n, w) /\ UnsignedFits(n, w)
      BY <2>1, <1>1, <1>3, RadixFacts DEF SignedFits, UnsignedFits
    <2>3. signed = TRUE \/ signed = FALSE
      OBVIOUS
    <2>4. QED
      BY <2>2, <2>3, FitsIs, Zenon
  <1>6. w \in Int
    BY <1>1
  <1>7. QED
    BY <1>2, <1>4, <1>5, <1>6, NearUnique

\* A number that is not negative is what its words stand for.
LEMMA NumberNatural ==
  ASSUME NEW n \in Nat \ {0}, NEW x \in WordSeq(n), NEW signed \in BOOLEAN, Number(signed, x) >= 0
  PROVE  Natural(x) = Number(signed, x)
  <1>1. CASE signed
    <2>1. signed = TRUE
      BY <1>1
    <2>2. Number(signed, x) = SignedNumber(x)
      BY <2>1, NumberIs, Zenon
    <2>3. PICK h \in Nat \ {0} : Size(n) = 2 * h /\ Size(n) \div 2 = h
      BY HalfSize
    <2>4. /\ SignedNumber(x) \in Int
          /\ SignedNumber(x) = Natural(x) \/ SignedNumber(x) = Natural(x) - 2 * h
          /\ Natural(x) \in Int /\ Natural(x) < 2 * h
      BY <2>3, SignedInHalf
    <2>5. QED
      BY <2>2, <2>4
  <1>2. CASE ~signed
    <2>1. signed = FALSE
      BY <1>2
    <2>2. QED
      BY <2>1, NumberIs, Zenon
  <1>3. QED
    BY <1>1, <1>2

\* The last distance that still has a value before the stop, in steps.
LastOf(A, Z, s) == IF s > 0 THEN Z - A - 1 ELSE Z - A + 1

\* The quotient that len takes is the number of iterations less one.
LEMMA StepsToLast ==
  ASSUME NEW A \in Int, NEW Z \in Int, NEW s \in Int, s # 0, NEW c \in Nat \ {0}, Counted(A, Z, s, c)
  PROVE  Truncated(LastOf(A, Z, s), s) = c - 1
  <1>1. CASE s > 0
    <2>1. A < Z /\ (Z - A - 1) \div s = c - 1
      BY <1>1 DEF Counted
    <2>2. PICK L \in Nat : L = Z - A - 1
      BY <2>1
    <2>3. LastOf(A, Z, s) = L /\ Abs(L) = L /\ Abs(s) = s /\ ((L < 0) = (s < 0))
      BY <2>2, <1>1 DEF LastOf, Abs
    <2>4. Truncated(L, s) = L \div s
      BY <2>3, Zenon DEF Truncated
    <2>5. QED
      BY <2>1, <2>2, <2>3, <2>4
  <1>2. CASE s < 0
    <2>0. ~(s > 0)
      BY <1>2
    <2>1. Z < A /\ (A - Z - 1) \div (-s) = c - 1
      BY <2>0, Zenon DEF Counted
    <2>2. PICK L \in Nat, u \in Nat \ {0} : L = A - Z - 1 /\ u = -s
      BY <2>1, <1>2
    <2>3. L \div u = c - 1
      BY <2>1, <2>2, Zenon
    <2>4. LastOf(A, Z, s) = -L /\ Abs(-L) = L /\ Abs(s) = u
      BY <2>2, <2>0, <1>2 DEF LastOf, Abs
    <2>5. CASE L = 0
      <3>1. 0 \div u = 0
        OBVIOUS
      <3>2. c - 1 = 0
        BY <3>1, <2>3, <2>5, Zenon
      <3>3. ~((-L < 0) = (s < 0))
        BY <2>5, <1>2
      <3>4. Truncated(-L, s) = -(L \div u)
        BY <3>3, <2>4, Zenon DEF Truncated
      <3>5. QED
        BY <3>2, <3>4, <2>3, <2>4
    <2>6. CASE L # 0
      <3>1. (-L < 0) = (s < 0)
        BY <2>6, <1>2
      <3>2. Truncated(-L, s) = L \div u
        BY <3>1, <2>4, Zenon DEF Truncated
      <3>3. QED
        BY <3>2, <2>3, <2>4, Zenon
    <2>7. QED
      BY <2>5, <2>6
  <1>3. QED
    BY <1>1, <1>2

\* The numbers len computes with are numbers of the type.
LEMMA CountedFits ==
  ASSUME NEW n \in Nat \ {0}, NEW signed \in BOOLEAN, NEW A \in Int, NEW Z \in Int, NEW s \in Int,
         NEW c \in Nat \ {0}, Counted(A, Z, s, c), Fits(signed, n, Z - A)
  PROVE  Fits(signed, n, LastOf(A, Z, s)) /\ Fits(signed, n, c - 1)
  <1>1. PICK lo \in Int, hi \in Int : Span(signed, n, lo, hi)
    BY SpanOf
  <1>2. /\ \A v \in Int : Fits(signed, n, v) <=> lo <= v /\ v < hi
        /\ lo <= 0 /\ 0 < hi /\ 0 - lo <= hi
    BY <1>1 DEF Span
  <1>3. Z - A \in Int /\ LastOf(A, Z, s) \in Int /\ c - 1 \in Int
    BY DEF LastOf
  <1>4. lo <= Z - A /\ Z - A < hi
    BY <1>2, <1>3
  <1>5. CASE s > 0
    <2>1. A < Z /\ c <= Z - A /\ LastOf(A, Z, s) = Z - A - 1
      BY <1>5, Zenon DEF Counted, LastOf
    <2>2. /\ lo <= LastOf(A, Z, s) /\ LastOf(A, Z, s) < hi
          /\ lo <= c - 1 /\ c - 1 < hi
      BY <2>1, <1>2, <1>4
    <2>3. QED
      BY <2>2, <1>2, <1>3
  <1>6. CASE ~(s > 0)
    <2>1. Z < A /\ c <= A - Z /\ LastOf(A, Z, s) = Z - A + 1
      BY <1>6, Zenon DEF Counted, LastOf
    <2>2. /\ lo <= LastOf(A, Z, s) /\ LastOf(A, Z, s) < hi
          /\ lo <= c - 1 /\ c - 1 < hi
      BY <2>1, <1>2, <1>4
    <2>3. QED
      BY <2>2, <1>2, <1>3
  <1>7. QED
    BY <1>5, <1>6

\* len of any other range is the number of iterations, while the distance from
\* start to stop is a number of the type.
LEMMA WideLen ==
  ASSUME NEW n, NEW r, Looping(n, r), IsWide(r.signed, n), ~Continues(r, r.value),
         r.count # 0 => Fits(r.signed, n, RangeStop(r) - RangeStart(r))
  PROVE  GrayRange_WIDE_len(r) = LenOf(r.count)
  <1>0. n \in Nat \ {0}
    BY DEF IsWide
  <1>1. /\ Continues(r, r.start) <=> r.count # 0
        /\ r.count # 0 => Counted(RangeStart(r), RangeStop(r), RangeStep(r), r.count)
    BY <1>0, EndedIs
  <1>2. CASE r.count = 0
    BY <1>1, <1>2, Int64MaxIs DEF GrayRange_WIDE_len, LenOf
  <1>3. CASE r.count # 0
    <2>1. PICK A \in Int, Z \in Int, s \in Int, c \in Nat \ {0} :
            A = RangeStart(r) /\ Z = RangeStop(r) /\ s = RangeStep(r) /\ c = r.count
      BY <1>0, <1>3, LoopNumbers DEF Looping, Running, LoopRecord
    <2>2. s # 0 /\ Counted(A, Z, s, c)
      BY <1>0, <1>1, <1>3, <2>1, LoopNumbers DEF Looping
    <2>3. PICK signed \in BOOLEAN : signed = r.signed
      BY DEF Looping, Running, LoopRecord
    <2>4. /\ r.step \in WordSeq(n) /\ r.start \in WordSeq(n) /\ r.stop \in WordSeq(n)
          /\ Len(r.start) = n
      BY <1>0, WordSeqFacts DEF Looping, Running, LoopRecord
    <2>5. /\ Number(signed, r.start) = A /\ Number(signed, r.stop) = Z /\ Number(signed, r.step) = s
      BY <2>1, <2>3, Zenon DEF RangeStart, RangeStop, RangeStep
    <2>6. Fits(signed, n, Z - A)
      BY <1>3, <2>1, <2>3, Zenon
    <2>7. Fits(signed, n, LastOf(A, Z, s)) /\ Fits(signed, n, c - 1)
      BY <1>0, <2>2, <2>6, CountedFits
    <2>8. PICK one \in WordSeq(n) : one = Small(1, n) /\ Number(signed, one) = 1
      <3>1. 1 \in 0 .. Int64Max
        BY Int64MaxIs
      <3>2. QED
        BY <3>1, <1>0, SmallNumber
    <2>9. PICK span \in WordSeq(n) :
            /\ span = SubChecked(signed, r.stop, r.start) /\ span # Panic
            /\ Number(signed, span) = Z - A
      <3>1. Fits(signed, n, Number(signed, r.stop) - Number(signed, r.start))
        BY <2>5, <2>6, Zenon
      <3>2. /\ SubChecked(signed, r.stop, r.start) \in WordSeq(n)
            /\ SubChecked(signed, r.stop, r.start) # Panic
            /\ Number(signed, SubChecked(signed, r.stop, r.start))
                 = Number(signed, r.stop) - Number(signed, r.start)
        BY <3>1, <1>0, <2>4, SubCheckedFits
      <3>3. QED
        BY <3>2, <2>5
    <2>10. Positive(signed, r.step) <=> s > 0
      BY <1>0, <2>4, <2>5, PositiveIs
    <2>11. PICK last \in WordSeq(n) :
             /\ last = IF Positive(signed, r.step) THEN SubChecked(signed, span, one) ELSE Add(span, one)
             /\ Number(signed, last) = LastOf(A, Z, s)
      <3>1. CASE s > 0
        <4>1. LastOf(A, Z, s) = Number(signed, span) - Number(signed, one)
          BY <3>1, <2>8, <2>9, Zenon DEF LastOf
        <4>2. Fits(signed, n, Number(signed, span) - Number(signed, one))
          BY <4>1, <2>7, Zenon
        <4>3. /\ SubChecked(signed, span, one) \in WordSeq(n)
              /\ Number(signed, SubChecked(signed, span, one)) = Number(signed, span) - Number(signed, one)
          BY <4>2, <1>0, SubCheckedFits
        <4>4. QED
          BY <4>1, <4>3, <3>1, <2>10
      <3>2. CASE ~(s > 0)
        <4>1. LastOf(A, Z, s) = Number(signed, span) + Number(signed, one)
          BY <3>2, <2>8, <2>9, Zenon DEF LastOf
        <4>2. Fits(signed, n, Number(signed, span) + Number(signed, one))
          BY <4>1, <2>7, Zenon
        <4>3. /\ Add(span, one) \in WordSeq(n)
              /\ Number(signed, Add(span, one)) = Number(signed, span) + Number(signed, one)
          BY <4>2, <1>0, AddFits
        <4>4. QED
          BY <4>1, <4>3, <3>2, <2>10
      <3>3. QED
        BY <3>1, <3>2
    <2>12. Truncated(LastOf(A, Z, s), s) = c - 1
      BY <2>2, StepsToLast
    <2>13. PICK quotient \in WordSeq(n) :
             quotient = Div(signed, last, r.step) /\ Number(signed, quotient) = c - 1
      <3>1. Truncated(Number(signed, last), Number(signed, r.step)) = c - 1
        BY <2>5, <2>11, <2>12, Zenon
      <3>2. Fits(signed, n, Truncated(Number(signed, last), Number(signed, r.step)))
        BY <3>1, <2>7, Zenon
      <3>3. IsWide(signed, n) /\ Number(signed, r.step) # 0
        BY <2>2, <2>3, <2>5, Zenon
      <3>4. /\ Div(signed, last, r.step) \in WordSeq(n)
            /\ Number(signed, Div(signed, last, r.step))
                 = Truncated(Number(signed, last), Number(signed, r.step))
        BY <3>2, <3>3, <2>4, WideDiv
      <3>5. QED
        BY <3>1, <3>4
    <2>14. PICK most \in WordSeq(n) : most = Small(Int64Max, n) /\ Number(signed, most) = Int64Max
      <3>1. Int64Max \in 0 .. Int64Max
        BY Int64MaxIs
      <3>2. QED
        BY <3>1, <1>0, SmallNumber
    <2>15. Lt(signed, quotient, most) <=> c - 1 < Int64Max
      <3>1. Lt(signed, quotient, most) <=> Number(signed, quotient) < Number(signed, most)
        BY <1>0, LtIs
      <3>2. QED
        BY <3>1, <2>13, <2>14
    <2>16. GrayRange_WIDE_len(r) = IF ~Lt(signed, quotient, most) THEN -1 ELSE quotient[1] + 1
      BY <1>1, <1>3, <2>3, <2>4, <2>8, <2>9, <2>11, <2>13, <2>14, Zenon DEF GrayRange_WIDE_len
    <2>17. CASE c - 1 < Int64Max
      <3>1. Natural(quotient) = c - 1
        BY <1>0, <2>13, NumberNatural
      <3>2. Natural(quotient) < Radix
        BY <3>1, <2>17, Int64MaxIs
      <3>3. quotient[1] = c - 1
        BY <3>1, <3>2, <1>0, BelowRadix
      <3>4. GrayRange_WIDE_len(r) = (c - 1) + 1
        BY <3>3, <2>15, <2>16, <2>17, Zenon
      <3>5. QED
        BY <3>4, <2>1, <2>17, Int64MaxIs DEF LenOf
    <2>18. CASE ~(c - 1 < Int64Max)
      <3>1. GrayRange_WIDE_len(r) = -1
        BY <2>15, <2>16, <2>18, Zenon
      <3>2. QED
        BY <3>1, <2>1, <2>18, Int64MaxIs DEF LenOf
    <2>19. QED
      BY <2>17, <2>18
  <1>4. QED
    BY <1>2, <1>3

\* A loop is at the value that the number of its iterations says, if its step
\* leads where it goes; of the others it is enough that they keep their step.
LoopsCount ==
  call.kind = "loop" =>
    /\ {"minus", "signed", "step"} \subseteq DOMAIN call
    /\ Directed(call) => \E n \in {1, 2, 4} : Size(n) <= MaxCount /\ Looping(n, call)

\* What the bounds of the program's ranges are.
LEMMA BoundFacts ==
  ASSUME NEW x \in Bounds
  PROVE  /\ Len(x) \in {1, 2, 4} /\ x \in WordSeq(Len(x))
         /\ Size(Len(x)) <= MaxCount
  BY NumbersAssumption, CountAssumption DEF WordSeq

\* Every step keeps LoopsCount: ForRange starts at the first number, Advance goes on.
LEMMA LoopsCountIsInvariant == Spec => []LoopsCount
  <1>1. Init => LoopsCount
    BY DEF Init, Idle, LoopsCount
  <1>2. ASSUME LoopsCount, [Next]_call PROVE LoopsCount'
    <2>1. CASE Load
      BY <2>1 DEF Load, LoopsCount
    <2>2. CASE Compute
      BY <2>2 DEF Compute, Result, LoopsCount
    <2>3. CASE ForRange
      <3>1. PICK signed \in BOOLEAN, minus \in BOOLEAN,
                 start \in Bounds, stop \in Bounds, step \in Bounds :
              /\ Len(start) = Len(stop) /\ Len(start) = Len(step)
              /\ minus => signed /\ Len(start) = 1
              /\ call' = IF step = Zero(step) /\ ~minus THEN [kind |-> "panicked"]
                         ELSE [kind |-> "loop", signed |-> signed, minus |-> minus,
                               start |-> start, stop |-> stop, step |-> step,
                               value |-> start, count |-> 0]
        BY <2>3 DEF ForRange
      <3>2. CASE step = Zero(step) /\ ~minus
        BY <3>1, <3>2 DEF LoopsCount
      <3>3. CASE ~(step = Zero(step) /\ ~minus)
        <4>1. PICK n \in {1, 2, 4} :
                /\ start \in WordSeq(n) /\ stop \in WordSeq(n) /\ step \in WordSeq(n)
                /\ Size(n) <= MaxCount
          BY <3>1, BoundFacts
        <4>2. PICK r : r = [kind |-> "loop", signed |-> signed, minus |-> minus,
                            start |-> start, stop |-> stop, step |-> step,
                            value |-> start, count |-> 0]
          OBVIOUS
        <4>3. /\ r.signed = signed /\ r.minus = minus
              /\ r.start = start /\ r.stop = stop /\ r.step = step
              /\ r.value = start /\ r.count = 0
              /\ r \in LoopRecord(n) /\ {"minus", "signed", "step"} \subseteq DOMAIN r
          BY <4>1, <4>2 DEF LoopRecord
        <4>4. call' = r
          BY <3>1, <3>3, <4>2
        <4>5. ASSUME Directed(r) PROVE Looping(n, r)
          <5>1. minus => signed /\ Number(signed, step) < 0
            <6>1. Lt(signed, step, Zero(step)) <=> Number(signed, step) < 0
              BY <4>1, NegativeIs
            <6>2. minus => Lt(signed, step, Zero(step))
              BY <4>3, <4>5, Zenon DEF Directed
            <6>3. QED
              BY <3>1, <6>1, <6>2, Zenon
          <5>2. Number(signed, step) # 0
            <6>1. CASE minus
              <7>1. PICK number \in Int : number = Number(signed, step)
                BY <4>1, NumberFits
              <7>2. number < 0
                BY <5>1, <6>1, <7>1, Zenon
              <7>3. QED
                BY <7>1, <7>2
            <6>2. CASE ~minus
              BY <3>3, <6>2, <4>1, ZeroNumber
            <6>3. QED
              BY <6>1, <6>2
          <5>3. Running(n, r)
            BY <4>3, <5>1, <5>2, Zenon DEF Running
          <5>4. RangeStart(r) \in Int /\ RangeStep(r) \in Int
            BY <4>1, <5>3, LoopNumbers
          <5>5. RangeStart(r) + 0 * RangeStep(r) = RangeStart(r)
            BY <5>4
          <5>6. Number(r.signed, r.value) = RangeStart(r)
            BY <4>3 DEF RangeStart
          <5>7. QED
            BY <4>3, <5>3, <5>5, <5>6, Zenon DEF Looping, Visited
        <4>6. QED
          BY <4>1, <4>3, <4>4, <4>5 DEF LoopsCount
      <3>4. QED
        BY <3>2, <3>3
    <2>4. CASE Advance
      <3>1. call.kind = "loop" /\ LoopContinues(call, call.value)
        BY <2>4 DEF Advance
      <3>2. PICK r, w, c : /\ r = call
                           /\ w = range_advance(call.signed, call.value, call.step, call.stop)
                           /\ call' = [r EXCEPT !.value = w, !.count = c]
                           /\ c = IF r.count < MaxCount THEN r.count + 1 ELSE r.count
        BY <2>4 DEF Advance
      <3>3. {"minus", "signed", "step"} \subseteq DOMAIN r
        BY <1>2, <3>1, <3>2 DEF LoopsCount
      <3>4. /\ {"minus", "signed", "step"} \subseteq DOMAIN call'
            /\ call'.minus = r.minus /\ call'.step = r.step /\ call'.signed = r.signed
        BY <3>2, <3>3
      <3>5. ASSUME Directed(r)
            PROVE  \E n \in {1, 2, 4} : Size(n) <= MaxCount /\ Looping(n, call')
        <4>1. PICK n \in {1, 2, 4} : Size(n) <= MaxCount /\ Looping(n, r)
          BY <1>2, <3>1, <3>2, <3>5 DEF LoopsCount
        <4>2. n \in Nat \ {0} /\ Running(n, r)
          BY <4>1 DEF Looping
        <4>3. Continues(r, r.value)
          BY <3>1, <3>2, <4>2, LoopContinuesIs
        <4>4. /\ w \in WordSeq(n)
              /\ Visited(RangeStart(r), RangeStop(r), RangeStep(r), Number(r.signed, w), r.count + 1)
          BY <3>2, <4>1, <4>2, <4>3, AdvanceVisits
        <4>5. r.count < Size(n) /\ r.count \in Nat /\ Size(n) \in Nat /\ MaxCount \in Nat
          <5>1. r.count < Size(n)
            BY <4>1, <4>2, <4>3, CountBelow
          <5>2. r.count \in Nat
            BY <4>2 DEF Running, LoopRecord
          <5>3. QED
            BY <4>2, <5>1, <5>2, SizeStep, NumbersAssumption
        <4>6. c = r.count + 1
          BY <3>2, <4>1, <4>5
        <4>7. PICK next : next = [r EXCEPT !.value = w, !.count = c]
          OBVIOUS
        <4>8. r \in LoopRecord(n)
          BY <4>2 DEF Running
        <4>9. next \in LoopRecord(n)
          <5>1. c \in Nat
            BY <4>5, <4>6
          <5>2. r \in [kind : {"loop"}, signed : BOOLEAN, minus : BOOLEAN, start : WordSeq(n),
                       stop : WordSeq(n), step : WordSeq(n), value : WordSeq(n), count : Nat]
            BY <4>8 DEF LoopRecord
          <5>3. next \in [kind : {"loop"}, signed : BOOLEAN, minus : BOOLEAN, start : WordSeq(n),
                          stop : WordSeq(n), step : WordSeq(n), value : WordSeq(n), count : Nat]
            BY <4>4, <4>7, <5>1, <5>2
          <5>4. QED
            BY <5>3 DEF LoopRecord
        <4>10. /\ next.signed = r.signed /\ next.minus = r.minus
               /\ next.start = r.start /\ next.stop = r.stop
               /\ next.step = r.step /\ next.value = w /\ next.count = r.count + 1
          BY <4>6, <4>7, <4>8 DEF LoopRecord
        <4>11. Running(n, next)
          BY <4>2, <4>9, <4>10, Zenon DEF Running
        <4>12. Looping(n, next)
          BY <4>4, <4>10, <4>11, Zenon DEF Looping, RangeStart, RangeStop, RangeStep
        <4>13. QED
          BY <3>2, <4>1, <4>7, <4>12
      <3>6. Directed(call') => Directed(r)
        BY <3>4, Zenon DEF Directed
      <3>7. QED
        BY <3>4, <3>5, <3>6, Zenon DEF LoopsCount
    <2>5. CASE EndLoop
      BY <2>5 DEF EndLoop, Idle, LoopsCount
    <2>6. CASE UNCHANGED call
      BY <1>2, <2>6 DEF LoopsCount, Directed, Looping, Running, LoopRecord, RangeStart, RangeStop, RangeStep
    <2>7. QED
      BY <1>2, <2>1, <2>2, <2>3, <2>4, <2>5, <2>6 DEF Next
  <1>3. QED
    BY <1>1, <1>2, PTL DEF Spec

\* The distance that an unsigned range covers is a number of its type.
LEMMA UnsignedDistance ==
  ASSUME NEW n \in Nat \ {0}, NEW r, Looping(n, r), ~r.signed, Continues(r, r.value) \/ r.count # 0
  PROVE  Fits(r.signed, n, RangeStop(r) - RangeStart(r))
  <1>1. PICK A \in Int, Z \in Int, s \in Int, V \in Int, c \in Nat :
          /\ A = RangeStart(r) /\ Z = RangeStop(r) /\ s = RangeStep(r)
          /\ V = Number(r.signed, r.value) /\ c = r.count
    BY LoopNumbers DEF Looping, Running, LoopRecord
  <1>2. r.signed = FALSE
    BY DEF Looping, Running, LoopRecord
  <1>3. r.start \in WordSeq(n) /\ r.stop \in WordSeq(n) /\ r.step \in WordSeq(n)
    BY DEF Looping, Running, LoopRecord
  <1>4. A = Natural(r.start) /\ Z = Natural(r.stop) /\ s = Natural(r.step)
    BY <1>1, <1>2, NumberIs, Zenon DEF RangeStart, RangeStop, RangeStep
  <1>5. A \in 0 .. Size(n) - 1 /\ Z \in 0 .. Size(n) - 1 /\ s \in 0 .. Size(n) - 1 /\ Size(n) \in Nat
    BY <1>3, <1>4, NumberFacts, SizeStep
  <1>6. s > 0
    BY <1>1, <1>5, LoopNumbers DEF Looping
  <1>7. A < Z
    <2>1. CASE Continues(r, r.value)
      <3>1. Between(A, Z, s, V, c)
        BY <1>1, <2>1, LoopBetween
      <3>2. QED
        BY <3>1, <1>6 DEF Between
    <2>2. CASE ~Continues(r, r.value) /\ c # 0
      <3>1. Counted(A, Z, s, c)
        BY <1>1, <2>2, EndedIs
      <3>2. QED
        BY <3>1, <1>6 DEF Counted
    <2>3. QED
      BY <2>1, <2>2, <1>1
  <1>8. UnsignedFits(n, Z - A)
    BY <1>5, <1>7 DEF UnsignedFits
  <1>9. QED
    BY <1>1, <1>2, <1>8, FitsIs, Zenon

\* in and len can be relied on.
Reliable(r) ==
  \/ IsI64(r)
  \/ ~r.signed
  \/ Fits(TRUE, Len(r.start), Number(r.signed, r.stop) - Number(r.signed, r.start))

\* The types of ranges: i64, and the others, whose distances fit or are covered
\* by an unsigned range.
LEMMA RangeKinds ==
  ASSUME NEW n \in {1, 2, 4}, NEW r, Looping(n, r), Reliable(r)
  PROVE  \/ n = 1 /\ r.signed /\ IsI64(r)
         \/ /\ IsWide(r.signed, n) /\ ~IsI64(r)
            /\ Continues(r, r.value) \/ r.count # 0
                 => Fits(r.signed, n, RangeStop(r) - RangeStart(r))
  <1>1. r.start \in WordSeq(n) /\ r.signed \in BOOLEAN
    BY DEF Looping, Running, LoopRecord
  <1>2. Len(r.start) = n
    BY <1>1, WordSeqFacts
  <1>3. CASE n = 1 /\ r.signed
    BY <1>2, <1>3 DEF IsI64
  <1>4. CASE ~(n = 1 /\ r.signed)
    <2>1. IsWide(r.signed, n) /\ ~IsI64(r)
      BY <1>1, <1>2, <1>4 DEF IsI64, IsWide
    <2>2. CASE ~r.signed
      <3>1. Continues(r, r.value) \/ r.count # 0
              => Fits(r.signed, n, RangeStop(r) - RangeStart(r))
        BY <2>2, UnsignedDistance
      <3>2. QED
        BY <2>1, <3>1
    <2>3. CASE r.signed
      <3>1. Fits(TRUE, n, RangeStop(r) - RangeStart(r))
        BY <2>1, <2>3, <1>2, Zenon DEF Reliable, RangeStop, RangeStart
      <3>2. r.signed = TRUE
        BY <2>3, <1>1
      <3>3. Fits(r.signed, n, RangeStop(r) - RangeStart(r))
        BY <3>1, <3>2, Zenon
      <3>4. QED
        BY <2>1, <3>3
    <2>4. QED
      BY <2>2, <2>3
  <1>5. QED
    BY <1>3, <1>4

\* in, of every type of range, holds what its loop is at.
LEMMA ContainsIs ==
  ASSUME NEW n \in {1, 2, 4}, NEW r, Looping(n, r), Reliable(r), Continues(r, r.value)
  PROVE  RangeContains(r, r.value)
  <1>1. CASE n = 1 /\ r.signed /\ IsI64(r)
    <2>1. Looping(1, r)
      BY <1>1
    <2>2. GrayRange_i64_contains(r, r.value)
      BY <2>1, <1>1, WordContains
    <2>3. QED
      BY <2>2, <1>1 DEF RangeContains
  <1>2. CASE IsWide(r.signed, n) /\ ~IsI64(r) /\ Fits(r.signed, n, RangeStop(r) - RangeStart(r))
    <2>1. GrayRange_WIDE_contains(r, r.value)
      BY <1>2, WideContains
    <2>2. QED
      BY <2>1, <1>2 DEF RangeContains
  <1>3. QED
    BY <1>1, <1>2, RangeKinds

\* len, of every type of range, is the number of iterations.
LEMMA LenIs ==
  ASSUME NEW n \in {1, 2, 4}, NEW r, Looping(n, r), Reliable(r), ~Continues(r, r.value)
  PROVE  RangeLen(r) = LenOf(r.count)
  <1>1. CASE n = 1 /\ r.signed /\ IsI64(r)
    <2>1. Looping(1, r)
      BY <1>1
    <2>2. GrayRange_i64_len(r) = LenOf(r.count)
      BY <2>1, <1>1, WordLen
    <2>3. QED
      BY <2>2, <1>1 DEF RangeLen
  <1>2. CASE /\ IsWide(r.signed, n) /\ ~IsI64(r)
             /\ r.count # 0 => Fits(r.signed, n, RangeStop(r) - RangeStart(r))
    <2>1. GrayRange_WIDE_len(r) = LenOf(r.count)
      BY <1>2, WideLen
    <2>2. QED
      BY <2>1, <1>2 DEF RangeLen
  <1>3. QED
    BY <1>1, <1>2, RangeKinds

\* A loop over a range, in and len agree (bigint.h 1344-1450, codegen.c 13408-13536):
\* the loop visits the numbers the range contains, as many as len says, of every
\* type and with steps of both signs, also where the number after the last leaves
\* the type; where the step of a loop over i64 is written -n, if it is negative.
THEOREM LoopsAgree == Spec => []RangesAgree
  <1>1. ASSUME LoopsCount PROVE RangesAgree
    <2> SUFFICES ASSUME call.kind = "loop", Directed(call)
                 PROVE  /\ LoopContinues(call, call.value) =>
                             /\ Number(call.signed, call.value)
                                  = Number(call.signed, call.start)
                                      + call.count * Number(call.signed, call.step)
                             /\ Reliable(call) => RangeContains(call, call.value)
                        /\ ~LoopContinues(call, call.value) /\ Reliable(call)
                             => RangeLen(call) = LenOf(call.count)
      BY Zenon DEF RangesAgree, Reliable, LenOf
    <2>1. PICK n \in {1, 2, 4} : Looping(n, call)
      BY <1>1 DEF LoopsCount
    <2>0. LoopContinues(call, call.value) <=> Continues(call, call.value)
      <3>1. n \in Nat \ {0} /\ Running(n, call)
        BY <2>1 DEF Looping
      <3>2. QED
        BY <3>1, LoopContinuesIs
    <2>2. ASSUME Continues(call, call.value)
          PROVE  Number(call.signed, call.value)
                   = Number(call.signed, call.start) + call.count * Number(call.signed, call.step)
      <3>1. n \in Nat \ {0}
        OBVIOUS
      <3>2. Between(RangeStart(call), RangeStop(call), RangeStep(call), Number(call.signed, call.value),
                    call.count)
        BY <3>1, <2>1, <2>2, LoopBetween
      <3>3. Number(call.signed, call.value) - RangeStart(call) = call.count * RangeStep(call)
        BY <3>2 DEF Between
      <3>4. /\ RangeStart(call) \in Int /\ RangeStep(call) \in Int
            /\ Number(call.signed, call.value) \in Int /\ call.count \in Nat
        BY <3>1, <2>1, LoopNumbers DEF Looping, Running, LoopRecord
      <3>5. PICK p \in Int : p = call.count * RangeStep(call)
        BY <3>4
      <3>6. Number(call.signed, call.value) = RangeStart(call) + p
        BY <3>3, <3>4, <3>5
      <3>7. QED
        BY <3>5, <3>6, Zenon DEF RangeStart, RangeStep
    <2>3. Continues(call, call.value) /\ Reliable(call) => RangeContains(call, call.value)
      BY <2>1, ContainsIs
    <2>4. ~Continues(call, call.value) /\ Reliable(call) => RangeLen(call) = LenOf(call.count)
      BY <2>1, LenIs
    <2>5. QED
      BY <2>0, <2>2, <2>3, <2>4
  <1>2. QED
    BY <1>1, LoopsCountIsInvariant, PTL
=============================================================================
