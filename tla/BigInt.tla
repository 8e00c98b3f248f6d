------------------------------- MODULE BigInt -------------------------------
(***************************************************************************)
(* runtime/bigint.h: i128, u128, i256 and u256 as sequences of machine     *)
(* words, least significant word first (a 128-bit number has two words, a  *)
(* 256-bit number four), in two's complement, and the overflow tests of    *)
(* runtime.h for numbers of one word.  A word has WordBits bits.           *)
(*                                                                         *)
(* A function that panics returns Panic.                                   *)
(***************************************************************************)
EXTENDS Integers, Sequences, FiniteSetsExt

CONSTANT WordBits   \* 64

ASSUME WordBitsAssumption == WordBits \in Nat \ {0} /\ WordBits % 2 = 0

\* 10, the largest base that digits are printed in, is a word.
ASSUME BasesAssumption == WordBits >= 4

\* b ^ n.
Power(b, n) ==
  LET power[i \in 0 .. n] == IF i = 0 THEN 1 ELSE b * power[i - 1]
  IN  power[n]

Radix == Power(2, WordBits)
Half == Power(2, WordBits \div 2)
Words == 0 .. Radix - 1

Panic == <<>>

\* uint64_t arithmetic, and ~.
Wrap(n) == n % Radix
Complement(w) == Radix - 1 - w

\* A word as an int64_t.
AsSigned(w) == IF 2 * w >= Radix THEN w - Radix ELSE w

Small(w, n) == [i \in 1 .. n |-> IF i = 1 THEN w ELSE 0]
Zero(x) == Small(0, Len(x))
OneWord(x) == \A i \in 2 .. Len(x) : x[i] = 0
IsNeg(x) == AsSigned(x[Len(x)]) < 0

-----------------------------------------------------------------------------
(* Sums.  Of two words, and of any number of them.                         *)

gray_i128_add(left, right) ==
  LET low == Wrap(left[1] + right[1])
  IN  <<low, Wrap(left[2] + right[2] + IF low < left[1] THEN 1 ELSE 0)>>

gray_i128_sub(left, right) ==
  <<Wrap(left[1] - right[1]),
    Wrap(left[2] - right[2] - IF left[1] < right[1] THEN 1 ELSE 0)>>

gray_i128_neg(value) ==
  LET low == Wrap(Complement(value[1]) + 1)
  IN  <<low, Wrap(Complement(value[2]) + IF low = 0 THEN 1 ELSE 0)>>

\* Bug: a sum equal to the left word is never a carry.
CarryShort(word, left, carry) == IF word < left THEN 1 ELSE 0

Carry(word, left, carry) ==
  IF word < left \/ (carry = 1 /\ word = left) THEN 1 ELSE 0

\* carry[i], borrow[i]: out of word i.
gray_i256_add(left, right) ==
  LET carry[i \in 0 .. Len(left)] ==
        IF i = 0 THEN 0
        ELSE LET in == carry[i - 1] IN Carry(Wrap(left[i] + right[i] + in), left[i], in)
  IN  [i \in 1 .. Len(left) |-> Wrap(left[i] + right[i] + carry[i - 1])]

gray_i256_sub(left, right) ==
  LET borrow[i \in 0 .. Len(left)] ==
        IF i > 0 /\ (left[i] < right[i] \/ Wrap(left[i] - right[i]) < borrow[i - 1])
        THEN 1 ELSE 0
  IN  [i \in 1 .. Len(left) |-> Wrap(left[i] - right[i] - borrow[i - 1])]

gray_i256_neg(value) ==
  LET carry[i \in 0 .. Len(value)] ==
        IF i = 0 \/ Wrap(Complement(value[i]) + carry[i - 1]) < Complement(value[i])
        THEN 1 ELSE 0
  IN  [i \in 1 .. Len(value) |-> Wrap(Complement(value[i]) + carry[i - 1])]

Add(left, right) ==
  IF Len(left) = 2 THEN gray_i128_add(left, right) ELSE gray_i256_add(left, right)
Sub(left, right) ==
  IF Len(left) = 2 THEN gray_i128_sub(left, right) ELSE gray_i256_sub(left, right)
Neg(value) == IF Len(value) = 2 THEN gray_i128_neg(value) ELSE gray_i256_neg(value)

-----------------------------------------------------------------------------
(* Products.                                                               *)

\* The upper word of the product of two words, from the products of their
\* halves.
HighWord(l, r) ==
  LET middle == (l % Half) * (r \div Half) + ((l % Half) * (r % Half)) \div Half
      carry == ((middle % Half) + (l \div Half) * (r % Half)) \div Half
  IN  Wrap((l \div Half) * (r \div Half) + middle \div Half + carry)

gray_i128_mul(left, right) ==
  <<Wrap(left[1] * right[1]),
    Wrap(HighWord(left[1], right[1]) + left[1] * right[2] + left[2] * right[1])>>

\* One step of the inner loop: left's word j times right's word i.
AddProduct(left, right, i, a, j) ==
  LET previous == a.words[i + j - 1]
      low == Wrap(left[j] * right[i])
      word == Wrap(previous + low + a.carry)
      carry == HighWord(left[j], right[i]) + IF word < Wrap(previous + low) THEN 1 ELSE 0
  IN  [words |-> [a.words EXCEPT ![i + j - 1] = word],
       carry |-> Wrap(carry + IF Wrap(previous + low) < previous THEN 1 ELSE 0)]

\* The inner loop, over the words of left that reach a word of the result.
AddProducts(left, right, words, i) ==
  LET a[j \in 0 .. Len(left) + 1 - i] ==
        IF j = 0 THEN [words |-> words, carry |-> 0]
        ELSE AddProduct(left, right, i, a[j - 1], j)
  IN  a[Len(left) + 1 - i].words

gray_i256_mul(left, right) ==
  LET words[i \in 0 .. Len(left)] ==
        IF i = 0 THEN Zero(left) ELSE AddProducts(left, right, words[i - 1], i)
  IN  words[Len(left)]

Mul(left, right) ==
  IF Len(left) = 2 THEN gray_i128_mul(left, right) ELSE gray_i256_mul(left, right)

-----------------------------------------------------------------------------
(* Comparisons: the first word that differs, from the top, decides.        *)

Differ(left, right) == {i \in 1 .. Len(left) : left[i] # right[i]}

gray_u256_lt(left, right) ==
  /\ Differ(left, right) # {}
  /\ left[Max(Differ(left, right))] < right[Max(Differ(left, right))]

gray_i256_lt(left, right) ==
  /\ Differ(left, right) # {}
  /\ LET i == Max(Differ(left, right))
     IN  IF i = Len(left) THEN AsSigned(left[i]) < AsSigned(right[i])
         ELSE left[i] < right[i]

Lt(signed, left, right) ==
  IF signed THEN gray_i256_lt(left, right) ELSE gray_u256_lt(left, right)

-----------------------------------------------------------------------------
(* Quotients.                                                              *)

BitOf(x, bit) == (x[bit \div WordBits + 1] \div Power(2, bit % WordBits)) % 2

\* x shifted left by one bit, with a new lowest bit.
ShiftIn(x, bit) ==
  [i \in 1 .. Len(x) |->
     Wrap(2 * x[i]) + IF i = 1 THEN bit ELSE x[i - 1] \div (Radix \div 2)]

\* One step of the long division.
BitStep(dividend, divisor, a, bit) ==
  LET remainder == ShiftIn(a.remainder, BitOf(dividend, bit))
  IN  IF gray_u256_lt(remainder, divisor)
      THEN [a EXCEPT !.remainder = remainder]
      ELSE [remainder |-> Sub(remainder, divisor),
            quotient |-> [a.quotient EXCEPT ![bit \div WordBits + 1] = @ + Power(2, bit % WordBits)]]

\* Binary long division, from the highest bit of the dividend.
LongDivision(dividend, divisor) ==
  LET bits == Len(dividend) * WordBits
      a[n \in 0 .. bits] ==
        IF n = 0 THEN [quotient |-> Zero(dividend), remainder |-> Zero(dividend)]
        ELSE BitStep(dividend, divisor, a[n - 1], bits - n)
  IN  a[bits]

divmod(dividend, divisor) ==
  IF divisor = Zero(divisor) THEN [quotient |-> Panic, remainder |-> Panic]
  ELSE IF OneWord(dividend) /\ OneWord(divisor)
  THEN [quotient |-> Small(dividend[1] \div divisor[1], Len(dividend)),
        remainder |-> Small(dividend[1] % divisor[1], Len(dividend))]
  ELSE LongDivision(dividend, divisor)

Magnitude(x) == IF IsNeg(x) THEN Neg(x) ELSE x

SignedDiv(left, right) ==
  LET quotient == divmod(Magnitude(left), Magnitude(right)).quotient
  IN  IF quotient # Panic /\ IsNeg(left) # IsNeg(right) THEN Neg(quotient) ELSE quotient

SignedMod(left, right) ==
  LET remainder == divmod(Magnitude(left), Magnitude(right)).remainder
  IN  IF remainder # Panic /\ IsNeg(left) THEN Neg(remainder) ELSE remainder

Div(signed, left, right) ==
  IF signed THEN SignedDiv(left, right) ELSE divmod(left, right).quotient
Mod(signed, left, right) ==
  IF signed THEN SignedMod(left, right) ELSE divmod(left, right).remainder
-----------------------------------------------------------------------------
(* Overflow-checked arithmetic.                                            *)

SignedAddChecked(left, right) ==
  LET result == Add(left, right)
  IN  IF IsNeg(left) = IsNeg(right) /\ IsNeg(result) # IsNeg(left) THEN Panic ELSE result

\* Bug: the test of an addition.
SubCheckedAsAdd(left, right) ==
  LET result == Sub(left, right)
  IN  IF IsNeg(left) = IsNeg(right) /\ IsNeg(result) # IsNeg(left) THEN Panic ELSE result

SignedSubChecked(left, right) ==
  LET result == Sub(left, right)
  IN  IF IsNeg(left) # IsNeg(right) /\ IsNeg(result) # IsNeg(left) THEN Panic ELSE result

UnsignedAddChecked(left, right) ==
  LET result == Add(left, right)
  IN  IF gray_u256_lt(result, left) THEN Panic ELSE result

UnsignedSubChecked(left, right) ==
  IF gray_u256_lt(left, right) THEN Panic ELSE Sub(left, right)

AddChecked(signed, left, right) ==
  IF signed THEN SignedAddChecked(left, right) ELSE UnsignedAddChecked(left, right)
SubChecked(signed, left, right) ==
  IF signed THEN SignedSubChecked(left, right) ELSE UnsignedSubChecked(left, right)

\* The product divided by one factor must give the other.
MulChecked(signed, left, right) ==
  LET result == Mul(left, right)
  IN  IF /\ left # Zero(left) /\ right # Zero(right)
         /\ Div(signed, result, right) # left
      THEN Panic ELSE result

NegChecked(value) ==
  LET result == Neg(value) IN IF IsNeg(value) /\ IsNeg(result) THEN Panic ELSE result

\* Bug: a sum that overflows leaves the value as it is.
AdvanceStays(signed, value, step, stop) ==
  LET sum == AddChecked(signed, value, step) IN IF sum = Panic THEN value ELSE sum

\* Bug: the sum wraps.
AdvanceWraps(signed, value, step, stop) == Add(value, step)

\* The next value of a stepped loop: a sum that overflows is past the stop.
range_advance(signed, value, step, stop) ==
  LET sum == AddChecked(signed, value, step) IN IF sum = Panic THEN stop ELSE sum

-----------------------------------------------------------------------------
(* Casts.                                                                  *)

\* Bug: only the bits above the destination's own are looked at.
FirstCheckedTop(words, signed) == words * WordBits

\* The lowest of the bits that must agree with the sign.
FirstChecked(words, signed) == words * WordBits - IF signed THEN 1 ELSE 0

\* A cast keeps the value: source is extended to four words, and the sign bit
\* of the destination and every bit above it must be the sign.
gray_wide_cast_words(source, source_signed, words, signed) ==
  LET negative == source_signed /\ IsNeg(source)
      out == [i \in 1 .. 4 |-> IF i <= Len(source) THEN source[i]
                               ELSE IF negative THEN Radix - 1 ELSE 0]
      fits == /\ ~negative \/ signed
              /\ \A bit \in FirstChecked(words, signed) .. 4 * WordBits - 1 :
                   BitOf(out, bit) = IF negative THEN 1 ELSE 0
  IN  IF fits THEN SubSeq(out, 1, words) ELSE Panic

\* To one word.  For the 128-bit types the code compares high, for the others
\* each of the upper words, with the extension of the lowest.
ToWord(source, source_signed, signed) ==
  LET extension == IF source_signed /\ signed /\ AsSigned(source[1]) < 0 THEN Radix - 1 ELSE 0
      fits == /\ \A i \in 2 .. Len(source) : source[i] = extension
              /\ signed /\ ~source_signed => AsSigned(source[1]) >= 0
  IN  IF fits THEN <<source[1]>> ELSE Panic

-----------------------------------------------------------------------------
(* Shifts.                                                                 *)

shift_left_words(words, amount) ==
  LET by == amount \div WordBits
      bits == amount % WordBits
      word(i) == IF i >= 1 THEN words[i] ELSE 0
  IN  [i \in 1 .. Len(words) |->
         Wrap(word(i - by) * Power(2, bits))
           + IF bits = 0 THEN 0 ELSE word(i - by - 1) \div Power(2, WordBits - bits)]

\* Where a word beyond the last is the fill, so are the bits or-ed into it.
shift_right_words(words, amount, arithmetic) ==
  LET fill == IF arithmetic /\ IsNeg(words) THEN Radix - 1 ELSE 0
      by == amount \div WordBits
      bits == amount % WordBits
      word(i) == IF i <= Len(words) THEN words[i] ELSE fill
  IN  [i \in 1 .. Len(words) |->
         IF i + by > Len(words) THEN fill
         ELSE (word(i + by) \div Power(2, bits))
                + IF bits = 0 THEN 0 ELSE Wrap(word(i + by + 1) * Power(2, WordBits - bits))]

\* An amount outside the number panics.
Shl(value, amount) ==
  IF amount \in 0 .. Len(value) * WordBits - 1 THEN shift_left_words(value, amount) ELSE Panic
Shr(signed, value, amount) ==
  IF amount \in 0 .. Len(value) * WordBits - 1
  THEN shift_right_words(value, amount, signed) ELSE Panic

-----------------------------------------------------------------------------
(* Digits, most significant first.                                         *)

\* value * base + digit, for every digit; the product wraps.
from_digits(digits, base, n) ==
  LET value[i \in 0 .. Len(digits)] ==
        IF i = 0 THEN Small(0, n)
        ELSE Add(Mul(value[i - 1], Small(base, n)), Small(digits[i], n))
  IN  value[Len(digits)]

NextDigit(a, base) ==
  LET d == divmod(a.remaining, Small(base, Len(a.remaining)))
  IN  IF a.remaining = Zero(a.remaining) THEN a
      ELSE [remaining |-> d.quotient, digits |-> <<d.remainder[1]>> \o a.digits]

\* Repeated division by the base; a number has no more digits than bits.
to_digits(value, base) ==
  LET a[n \in 0 .. Len(value) * WordBits] ==
        IF n = 0 THEN [remaining |-> value, digits |-> <<>>] ELSE NextDigit(a[n - 1], base)
  IN  IF value = Zero(value) THEN <<0>> ELSE a[Len(value) * WordBits].digits

-----------------------------------------------------------------------------
(* Numbers of one word, in a build by TinyCC, which has no builtin for it. *)

gray_add_overflows_i64(left, right) ==
  LET result == AsSigned(Wrap(left + right))
  IN  (left < 0) # (result < 0) /\ (right < 0) # (result < 0)

gray_sub_overflows_i64(left, right) ==
  LET result == AsSigned(Wrap(left - right))
  IN  (left < 0) # (right < 0) /\ (left < 0) # (result < 0)

Abs(n) == IF n < 0 THEN -n ELSE n

\* Division as in C, towards zero.
Truncated(a, b) ==
  IF (a < 0) = (b < 0) THEN Abs(a) \div Abs(b) ELSE -(Abs(a) \div Abs(b))

Int64Max == Radix \div 2 - 1
Int64Min == -(Radix \div 2)

gray_mul_overflows_i64(left, right) ==
  /\ left # 0 /\ right # 0
  /\ IF left = -1 THEN right = Int64Min
     ELSE IF right = -1 THEN left = Int64Min
     ELSE IF left > 0
     THEN IF right > 0 THEN left > Truncated(Int64Max, right)
                       ELSE right < Truncated(Int64Min, left)
     ELSE IF right > 0 THEN left < Truncated(Int64Min, right)
                       ELSE left < Truncated(Int64Max, right)

gray_mul_overflows_u64(left, right) ==
  left # 0 /\ Wrap(left * right) \div left # right

=============================================================================
