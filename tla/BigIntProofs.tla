---------------------------- MODULE BigIntProofs ----------------------------
(***************************************************************************)
(* Lemmas about the arithmetic of bigint.h, for words of any size and      *)
(* numbers of any number of words: sums, products, quotients, shifts,      *)
(* comparisons and conversions are those of the numbers the words stand    *)
(* for.                                                                    *)
(***************************************************************************)
EXTENDS Numbers, SequenceTheorems, WellFoundedInduction, TLAPS

-----------------------------------------------------------------------------
(* Induction, and powers.                                                  *)

\* What holds of 0 and of the successor of each number it holds of holds of
\* all: the least number it does not hold of would have a predecessor.
LEMMA Induction ==
  ASSUME NEW S \in SUBSET Nat, 0 \in S, \A n \in S : n + 1 \in S
  PROVE  \A n \in Nat : n \in S
  <1> DEFINE R == OpToRel(<, Nat)
             T == Nat \ S
  <1> SUFFICES ASSUME T # {} PROVE FALSE
    OBVIOUS
  <1>1. IsWellFoundedOn(R, Nat) /\ T \in SUBSET Nat
    BY NatLessThanWellFounded
  <1>2. \A x, y \in Nat : y < x => <<y, x>> \in R
    BY DEF OpToRel
  <1>3. PICK x \in T : \A y \in T : ~(<<y, x>> \in R)
    <2> HIDE DEF R, T
    <2>1. QED
      BY <1>1, WFMin, Zenon
  <1> HIDE DEF R
  <1>4. x \in Nat /\ x \notin S /\ x # 0
    OBVIOUS
  <1>5. x - 1 \in Nat /\ x - 1 < x /\ (x - 1) + 1 = x
    BY <1>4
  <1>6. x - 1 \notin T
    BY <1>2, <1>3, <1>4, <1>5
  <1>7. QED
    BY <1>4, <1>5, <1>6

\* Induction over 0 .. n.
LEMMA UpTo ==
  ASSUME NEW n \in Nat, NEW S, 0 \in S, \A i \in 1 .. n : i - 1 \in S => i \in S
  PROVE  \A i \in 0 .. n : i \in S
  <1> DEFINE T == {m \in Nat : m <= n => m \in S}
  <1>1. 0 \in T
    OBVIOUS
  <1>2. ASSUME NEW m \in T PROVE m + 1 \in T
    <2>1. m \in Nat /\ (m <= n => m \in S)
      BY <1>2
    <2>2. m + 1 \in Nat /\ (m + 1) - 1 = m
      BY <2>1
    <2>3. m + 1 <= n => m + 1 \in S
      BY <2>1, <2>2
    <2>4. QED
      BY <2>2, <2>3
  <1>3. T \in SUBSET Nat
    OBVIOUS
  <1> HIDE DEF T
  <1>4. \A m \in Nat : m \in T
    BY <1>1, <1>2, <1>3, Induction
  <1>5. QED
    BY <1>4 DEF T

\* f is what the steps make of init, up to n of them.
Recursive(n, D, init, step, f) ==
  /\ f \in [0 .. n -> D]
  /\ f[0] = init
  /\ \A i \in 1 .. n : f[i] = step[i][f[i - 1]]

\* A function defined by recursion over 0 .. n exists.
LEMMA Recursion ==
  ASSUME NEW n \in Nat, NEW D, NEW init \in D, NEW step \in [1 .. n -> [D -> D]]
  PROVE  \E f : Recursive(n, D, init, step, f)
  <1> DEFINE Upto(m, f) == f[0] = init /\ \A i \in 1 .. m : f[i] = step[i][f[i - 1]]
             S == {m \in Nat : m <= n => \E f \in [0 .. m -> D] : Upto(m, f)}
  <1>1. 0 \in S
    <2> DEFINE f == [i \in 0 .. 0 |-> init]
    <2>1. f \in [0 .. 0 -> D] /\ Upto(0, f)
      OBVIOUS
    <2>2. QED
      BY <2>1
  <1>2. ASSUME NEW m \in S, m + 1 <= n PROVE \E f \in [0 .. m + 1 -> D] : Upto(m + 1, f)
    <2>1. m \in Nat /\ m <= n
      BY <1>2
    <2>2. PICK g \in [0 .. m -> D] : Upto(m, g)
      BY <2>1
    <2> DEFINE last == step[m + 1][g[m]]
               f == [i \in 0 .. m + 1 |-> IF i = m + 1 THEN last ELSE g[i]]
    <2>3. last \in D
      BY <1>2, <2>1
    <2> HIDE DEF last
    <2>4. f \in [0 .. m + 1 -> D]
      BY <2>1, <2>3
    <2>5. f[0] = init
      BY <2>1, <2>2
    <2>6. ASSUME NEW i \in 1 .. m + 1 PROVE f[i] = step[i][f[i - 1]]
      <3>1. f[i - 1] = g[i - 1]
        BY <2>1
      <3>2. CASE i = m + 1
        BY <2>1, <3>1, <3>2 DEF last
      <3>3. CASE i \in 1 .. m
        BY <2>1, <2>2, <3>1, <3>3
      <3>4. QED
        BY <2>1, <3>2, <3>3
    <2>7. QED
      BY <2>4, <2>5, <2>6
  <1>3. ASSUME NEW m \in S PROVE m + 1 \in S
    <2> HIDE DEF Upto
    <2>1. m \in Nat /\ m + 1 \in Nat
      OBVIOUS
    <2>2. m + 1 <= n => \E f \in [0 .. m + 1 -> D] : Upto(m + 1, f)
      BY <1>2
    <2>3. QED
      BY <2>1, <2>2
  <1>4. S \in SUBSET Nat
    OBVIOUS
  <1> HIDE DEF S
  <1>5. \A m \in Nat : m \in S
    BY <1>1, <1>3, <1>4, Induction
  <1>6. QED
    BY <1>5 DEF S, Recursive

\* The powers of b.
LEMMA PowerValue ==
  ASSUME NEW b \in Int, NEW n \in Nat
  PROVE  \E f \in [0 .. n -> Int] :
           f[0] = 1 /\ (\A i \in 1 .. n : f[i] = b * f[i - 1]) /\ Power(b, n) = f[n]
  <1> DEFINE step == [i \in 1 .. n |-> [a \in Int |-> b * a]]
             F(f) == f = [i \in 0 .. n |-> IF i = 0 THEN 1 ELSE b * f[i - 1]]
             power == CHOOSE f : F(f)
  <1>1. step \in [1 .. n -> [Int -> Int]] /\ 1 \in Int
    OBVIOUS
  <1>2. \E g : Recursive(n, Int, 1, step, g)
    <2> HIDE DEF step
    <2>1. QED
      BY <1>1, Recursion, Zenon
  <1>3. PICK g \in [0 .. n -> Int] : g[0] = 1 /\ \A i \in 1 .. n : g[i] = b * g[i - 1]
    <2>1. \A i \in 1 .. n, a \in Int : step[i][a] = b * a
      OBVIOUS
    <2>2. \A i \in 1 .. n : i - 1 \in 0 .. n
      OBVIOUS
    <2> HIDE DEF step
    <2>3. QED
      BY <1>2, <2>1, <2>2 DEF Recursive
  <1>4. F(g)
    <2>1. g = [i \in 0 .. n |-> g[i]]
      OBVIOUS
    <2>2. \A i \in 0 .. n : g[i] = IF i = 0 THEN 1 ELSE b * g[i - 1]
      BY <1>3
    <2>3. QED
      BY <2>1, <2>2, Zenon
  <1>5. Power(b, n) = power[n]
    BY DEF Power
  <1> HIDE DEF F
  <1>6. F(power)
    BY <1>4, Zenon
  <1> USE DEF F
  <1> HIDE DEF power
  <1>7. power[0] = 1 /\ \A i \in 1 .. n : power[i] = b * power[i - 1]
    BY <1>6
  <1>8. \A i \in 0 .. n : i \in {k \in 0 .. n : power[k] \in Int}
    <2> DEFINE S == {k \in 0 .. n : power[k] \in Int}
    <2>1. 0 \in S
      BY <1>7
    <2>2. ASSUME NEW i \in 1 .. n, i - 1 \in S PROVE i \in S
      BY <1>7, <2>2
    <2> HIDE DEF S
    <2>3. \A i \in 0 .. n : i \in S
      BY <2>1, <2>2, UpTo
    <2>4. QED
      BY <2>3 DEF S
  <1>9. power \in [0 .. n -> Int]
    BY <1>6, <1>8
  <1>10. QED
    BY <1>5, <1>7, <1>9

AlikeUpTo(n, f, g) == \A i \in 0 .. n : f[i] = g[i]
GoOnAlike(n, f, g) ==
  f[0] = g[0] /\ \A i \in 1 .. n : f[i - 1] = g[i - 1] => f[i] = g[i]

\* Two functions that start alike and go on alike are alike.
LEMMA Alike ==
  ASSUME NEW n \in Nat, NEW f, NEW g, GoOnAlike(n, f, g)
  PROVE  AlikeUpTo(n, f, g)
  <1> DEFINE S == {i \in 0 .. n : f[i] = g[i]}
  <1>1. 0 \in S
    BY DEF GoOnAlike
  <1>2. ASSUME NEW i \in 1 .. n, i - 1 \in S PROVE i \in S
    BY <1>2 DEF GoOnAlike
  <1> HIDE DEF S
  <1>3. \A i \in 0 .. n : i \in S
    BY <1>1, <1>2, UpTo
  <1>4. QED
    BY <1>3 DEF S, AlikeUpTo

\* The equations of Power.
LEMMA PowerStep ==
  ASSUME NEW b \in Int, NEW n \in Nat
  PROVE  /\ Power(b, 0) = 1
         /\ Power(b, n) \in Int
         /\ Power(b, n + 1) = b * Power(b, n)
  <1>1. Power(b, 0) = 1
    BY PowerValue, 0 \in Nat
  <1>2. PICK f \in [0 .. n -> Int] :
          f[0] = 1 /\ (\A i \in 1 .. n : f[i] = b * f[i - 1]) /\ Power(b, n) = f[n]
    BY PowerValue
  <1>3. PICK g \in [0 .. n + 1 -> Int] :
          /\ g[0] = 1
          /\ \A i \in 1 .. n + 1 : g[i] = b * g[i - 1]
          /\ Power(b, n + 1) = g[n + 1]
    <2>1. n + 1 \in Nat
      OBVIOUS
    <2>2. QED
      BY <2>1, PowerValue
  <1>4. GoOnAlike(n, f, g)
    BY <1>2, <1>3 DEF GoOnAlike
  <1>5. f[n] = g[n]
    <2>1. AlikeUpTo(n, f, g)
      BY <1>4, Alike
    <2>2. QED
      BY <2>1 DEF AlikeUpTo
  <1>6. g[n + 1] = b * g[n]
    BY <1>3
  <1>7. QED
    BY <1>1, <1>2, <1>3, <1>5, <1>6

\* A power of a positive number is positive.
LEMMA PowerPositive ==
  ASSUME NEW b \in Nat \ {0}, NEW n \in Nat
  PROVE  Power(b, n) \in Nat \ {0}
  <1> DEFINE S == {m \in Nat : Power(b, m) \in Nat \ {0}}
  <1>1. 0 \in S
    BY PowerStep
  <1>2. ASSUME NEW m \in S PROVE m + 1 \in S
    <2>1. Power(b, m + 1) = b * Power(b, m)
      BY PowerStep
    <2>2. QED
      BY <2>1
  <1>3. S \in SUBSET Nat
    OBVIOUS
  <1> HIDE DEF S
  <1>4. \A m \in Nat : m \in S
    BY <1>1, <1>2, <1>3, Induction
  <1>5. QED
    BY <1>4 DEF S

\* Powers of one base multiply by adding their exponents.
LEMMA PowerSum ==
  ASSUME NEW b \in Int, NEW m \in Nat, NEW n \in Nat
  PROVE  Power(b, m + n) = Power(b, m) * Power(b, n)
  <1> DEFINE S == {k \in Nat : Power(b, m + k) = Power(b, m) * Power(b, k)}
  <1>1. 0 \in S
    BY PowerStep
  <1>2. ASSUME NEW k \in S PROVE k + 1 \in S
    <2>1. Power(b, k + 1) = b * Power(b, k) /\ Power(b, k) \in Int
      BY PowerStep
    <2>2. Power(b, (m + k) + 1) = b * Power(b, m + k) /\ Power(b, m) \in Int
      BY PowerStep
    <2>3. (m + k) + 1 = m + (k + 1) /\ k + 1 \in Nat
      OBVIOUS
    <2>4. Power(b, m + k) = Power(b, m) * Power(b, k)
      OBVIOUS
    <2>5. Power(b, m + (k + 1)) = b * (Power(b, m) * Power(b, k))
      BY <2>2, <2>3, <2>4
    <2>6. b * (Power(b, m) * Power(b, k)) = Power(b, m) * (b * Power(b, k))
      BY <2>1, <2>2
    <2>7. QED
      BY <2>1, <2>3, <2>5, <2>6
  <1>3. S \in SUBSET Nat
    OBVIOUS
  <1> HIDE DEF S
  <1>4. \A k \in Nat : k \in S
    BY <1>1, <1>2, <1>3, Induction
  <1>5. QED
    BY <1>4 DEF S

-----------------------------------------------------------------------------
(* What words stand for.                                                   *)

\* The radix is even, and the product of two halves of a word.
LEMMA RadixFacts ==
  /\ Radix \in Nat /\ Radix >= 4
  /\ Radix = Half * Half
  /\ Half \in Nat /\ Half >= 2
  /\ \E h \in Nat : Radix = 2 * h /\ Radix \div 2 = h
  <1>1. PICK m \in Nat \ {0} : WordBits = m + m /\ WordBits \div 2 = m
    BY WordBitsAssumption
  <1>2. Radix = Half * Half
    BY <1>1, PowerSum, 2 \in Int DEF Radix, Half
  <1>3. Half = 2 * Power(2, m - 1)
    <2>1. m - 1 \in Nat /\ (m - 1) + 1 = m
      OBVIOUS
    <2>2. Power(2, (m - 1) + 1) = 2 * Power(2, m - 1)
      BY <2>1, PowerStep
    <2>3. QED
      BY <1>1, <2>1, <2>2 DEF Half
  <1>4. Power(2, m - 1) \in Nat \ {0}
    BY PowerPositive
  <1>5. PICK k \in Nat \ {0} : Half = 2 * k
    BY <1>3, <1>4
  <1>6. Radix = 2 * (2 * (k * k)) /\ k * k \in Nat /\ k * k >= 1
    BY <1>2, <1>5
  <1>7. PICK h \in Nat : Radix = 2 * h /\ h >= 2
    BY <1>6
  <1>8. Radix \div 2 = h
    BY <1>7
  <1>9. QED
    BY <1>2, <1>5, <1>7, <1>8

\* A further word makes a number's range Radix times as large.
LEMMA SizeStep ==
  /\ Size(0) = 1
  /\ \A n \in Nat : Size(n) \in Nat \ {0} /\ Size(n + 1) = Radix * Size(n)
  <1>1. Radix \in Int /\ Radix \in Nat \ {0}
    BY RadixFacts
  <1>2. Size(0) = 1
    BY <1>1, PowerStep, 0 \in Nat DEF Size
  <1>3. ASSUME NEW n \in Nat PROVE Size(n) \in Nat \ {0} /\ Size(n + 1) = Radix * Size(n)
    <2>1. Power(Radix, n + 1) = Radix * Power(Radix, n)
      BY <1>1, PowerStep
    <2>2. Power(Radix, n) \in Nat \ {0}
      BY <1>1, PowerPositive
    <2>3. QED
      BY <2>1, <2>2 DEF Size
  <1>4. QED
    BY <1>2, <1>3

\* The words 1 .. n of x are numbers.
Ints(x, n) == \A i \in 1 .. n : x[i] \in Int

\* The sum that Lower is the last element of exists.
LEMMA LowerValue ==
  ASSUME NEW x, NEW n \in Nat, Ints(x, n)
  PROVE  \E f \in [0 .. n -> Int] :
           /\ f[0] = 0
           /\ \A i \in 1 .. n : f[i] = f[i - 1] + x[i] * Size(i - 1)
           /\ Lower(x, n) = f[n]
  <1> DEFINE step == [i \in 1 .. n |-> [a \in Int |-> a + x[i] * Size(i - 1)]]
             F(f) == f = [i \in 0 .. n |-> IF i = 0 THEN 0 ELSE f[i - 1] + x[i] * Size(i - 1)]
             sum == CHOOSE f : F(f)
  <1>1. \A i \in 1 .. n : i - 1 \in 0 .. n /\ x[i] \in Int /\ Size(i - 1) \in Int
    BY SizeStep DEF Ints
  <1>2. step \in [1 .. n -> [Int -> Int]] /\ 0 \in Int
    BY <1>1
  <1>3. \E g : Recursive(n, Int, 0, step, g)
    <2> HIDE DEF step
    <2>1. QED
      BY <1>2, Recursion, Zenon
  <1>4. PICK g \in [0 .. n -> Int] :
          g[0] = 0 /\ \A i \in 1 .. n : g[i] = g[i - 1] + x[i] * Size(i - 1)
    <2>1. \A i \in 1 .. n, a \in Int : step[i][a] = a + x[i] * Size(i - 1)
      OBVIOUS
    <2> HIDE DEF step
    <2>2. QED
      BY <1>1, <1>3, <2>1 DEF Recursive
  <1>5. F(g)
    <2>1. g = [i \in 0 .. n |-> g[i]]
      OBVIOUS
    <2>2. \A i \in 0 .. n : g[i] = IF i = 0 THEN 0 ELSE g[i - 1] + x[i] * Size(i - 1)
      BY <1>4
    <2>3. QED
      BY <2>1, <2>2, Zenon
  <1>6. Lower(x, n) = sum[n]
    BY DEF Lower
  <1> HIDE DEF F
  <1>7. F(sum)
    BY <1>5, Zenon
  <1> USE DEF F
  <1> HIDE DEF sum
  <1>8. sum[0] = 0 /\ \A i \in 1 .. n : sum[i] = sum[i - 1] + x[i] * Size(i - 1)
    BY <1>7
  <1>9. \A i \in 0 .. n : sum[i] \in Int
    <2> DEFINE S == {k \in 0 .. n : sum[k] \in Int}
    <2>1. 0 \in S
      BY <1>8
    <2>2. ASSUME NEW i \in 1 .. n, i - 1 \in S PROVE i \in S
      <3>1. sum[i - 1] \in Int
        BY <2>2
      <3>2. x[i] * Size(i - 1) \in Int
        BY <1>1
      <3>3. sum[i] = sum[i - 1] + x[i] * Size(i - 1)
        BY <1>8
      <3>4. QED
        BY <3>1, <3>2, <3>3
    <2> HIDE DEF S
    <2>3. \A i \in 0 .. n : i \in S
      BY <2>1, <2>2, UpTo
    <2>4. QED
      BY <2>3 DEF S
  <1>10. sum \in [0 .. n -> Int]
    BY <1>7, <1>9
  <1>11. QED
    BY <1>6, <1>8, <1>10

\* One word more.
LEMMA LowerStep ==
  ASSUME NEW x, NEW n \in Nat, Ints(x, n + 1)
  PROVE  /\ Lower(x, 0) = 0
         /\ Lower(x, n) \in Int
         /\ Lower(x, n + 1) = Lower(x, n) + x[n + 1] * Size(n)
  <1>1. Ints(x, 0) /\ Ints(x, n) /\ n + 1 \in Nat
    BY DEF Ints
  <1>2. Lower(x, 0) = 0
    BY <1>1, LowerValue, 0 \in Nat
  <1>3. PICK f \in [0 .. n -> Int] :
          /\ f[0] = 0
          /\ \A i \in 1 .. n : f[i] = f[i - 1] + x[i] * Size(i - 1)
          /\ Lower(x, n) = f[n]
    BY <1>1, LowerValue
  <1>4. PICK g \in [0 .. n + 1 -> Int] :
          /\ g[0] = 0
          /\ \A i \in 1 .. n + 1 : g[i] = g[i - 1] + x[i] * Size(i - 1)
          /\ Lower(x, n + 1) = g[n + 1]
    BY <1>1, LowerValue
  <1>5. GoOnAlike(n, f, g)
    BY <1>3, <1>4 DEF GoOnAlike
  <1>6. f[n] = g[n]
    <2>1. AlikeUpTo(n, f, g)
      BY <1>5, Alike
    <2>2. QED
      BY <2>1 DEF AlikeUpTo
  <1>7. g[n + 1] = g[n] + x[n + 1] * Size(n)
    <2>1. n + 1 \in 1 .. n + 1 /\ (n + 1) - 1 = n
      OBVIOUS
    <2>2. QED
      BY <1>4, <2>1
  <1>8. QED
    BY <1>2, <1>3, <1>4, <1>6, <1>7

\* What words stand for is an integer.
LEMMA LowerIsInt ==
  ASSUME NEW x, NEW n \in Nat, Ints(x, n)
  PROVE  Lower(x, n) \in Int
  <1>1. PICK f \in [0 .. n -> Int] :
          /\ f[0] = 0
          /\ \A i \in 1 .. n : f[i] = f[i - 1] + x[i] * Size(i - 1)
          /\ Lower(x, n) = f[n]
    BY LowerValue
  <1>2. QED
    BY <1>1

\* Words: the words 1 .. n of x are machine words.
AreWords(x, n) == \A i \in 1 .. n : x[i] \in Words

\* Words are integers.
LEMMA WordsAreInts ==
  ASSUME NEW x, NEW n \in Nat, AreWords(x, n)
  PROVE  Ints(x, n)
  BY RadixFacts DEF AreWords, Ints, Words

\* n words stand for a number below Size(n).
LEMMA LowerRange ==
  ASSUME NEW x, NEW n \in Nat, AreWords(x, n)
  PROVE  Lower(x, n) \in 0 .. Size(n) - 1
  <1> DEFINE S == {k \in 0 .. n : Lower(x, k) \in 0 .. Size(k) - 1}
  <1>1. Ints(x, n)
    BY WordsAreInts
  <1>2. 0 \in S
    <2>1. Ints(x, 0)
      BY DEF Ints
    <2>2. Lower(x, 0) = 0
      BY <2>1, LowerValue, 0 \in Nat
    <2>3. QED
      BY <2>2, SizeStep
  <1>3. ASSUME NEW i \in 1 .. n, i - 1 \in S PROVE i \in S
    <2>1. PICK k \in Nat : i = k + 1 /\ i - 1 = k
      <3>1. i - 1 \in Nat /\ i = (i - 1) + 1
        OBVIOUS
      <3>2. QED
        BY <3>1
    <2>2. Ints(x, k + 1) /\ x[k + 1] \in Words
      BY <1>1, <2>1 DEF Ints, AreWords
    <2>3. Lower(x, k + 1) = Lower(x, k) + x[k + 1] * Size(k)
      BY <2>2, LowerStep
    <2>4. Lower(x, k) \in 0 .. Size(k) - 1
      BY <1>3, <2>1
    <2>5. Size(k) \in Nat \ {0} /\ Size(k + 1) = Radix * Size(k)
      BY SizeStep
    <2>6. x[k + 1] \in 0 .. Radix - 1 /\ Radix \in Nat
      BY <2>2, RadixFacts DEF Words
    <2>7. Lower(x, k) + x[k + 1] * Size(k) \in 0 .. Radix * Size(k) - 1
      <3>1. \A a, l, s, r \in Int :
              s > 0 /\ l \in 0 .. s - 1 /\ a \in 0 .. r - 1 => l + a * s \in 0 .. r * s - 1
        <4>1. SUFFICES ASSUME NEW a \in Int, NEW l \in Int, NEW s \in Int, NEW r \in Int,
                              s > 0, l \in 0 .. s - 1, a \in 0 .. r - 1
                       PROVE  l + a * s \in 0 .. r * s - 1
          OBVIOUS
        <4>2. a * s >= 0 /\ a * s \in Int /\ r * s \in Int
          BY <4>1
        <4>3. a * s + s <= r * s
          <5>1. (r - 1 - a) * s >= 0
            BY <4>1
          <5>2. (r - 1 - a) * s = r * s - s - a * s
            OBVIOUS
          <5>3. QED
            BY <5>1, <5>2, <4>2
        <4>4. QED
          BY <4>1, <4>2, <4>3
      <3>2. QED
        BY <2>4, <2>5, <2>6, <3>1
    <2>8. QED
      BY <2>1, <2>3, <2>5, <2>7
  <1> HIDE DEF S
  <1>4. \A i \in 0 .. n : i \in S
    BY <1>2, <1>3, UpTo
  <1>5. QED
    BY <1>4 DEF S

-----------------------------------------------------------------------------
(* Sums of words, with a carry from each to the next.                      *)

\* Word by word, l + k * r and a carry is s and a carry into the next word.
Chained(n, k, l, r, c, s) ==
  /\ c[0] \in Int
  /\ \A i \in 1 .. n : c[i] \in Int /\ l[i] + k * r[i] + c[i - 1] = s[i] + Radix * c[i]

\* a + k * b and the carry c is d and the carry e into what lies above z.
Carries(k, a, b, c, d, e, z) == a + k * b + c = d + e * z

\* An equation of sums up to a carry goes on with the equation of the next word.
LEMMA CarriesOn ==
  ASSUME NEW k \in Int, NEW a \in Int, NEW b \in Int, NEW c0 \in Int, NEW d \in Int,
         NEW c1 \in Int, NEW z \in Int, NEW u \in Int, NEW v \in Int, NEW w \in Int,
         NEW c2 \in Int, NEW R \in Int,
         Carries(k, a, b, c0, d, c1, z), Carries(k, u, v, c1, w, c2, R)
  PROVE  Carries(k, a + u * z, b + v * z, c0, d + w * z, c2, R * z)
  <1>1. (u + k * v + c1) * z = (w + c2 * R) * z
    BY DEF Carries
  <1>2. (u + k * v + c1) * z = u * z + k * (v * z) + c1 * z
    OBVIOUS
  <1>3. (w + c2 * R) * z = w * z + c2 * (R * z)
    OBVIOUS
  <1>4. k * (b + v * z) = k * b + k * (v * z)
    OBVIOUS
  <1>5. a + k * b + c0 = d + c1 * z
    BY DEF Carries
  <1>6. QED
    BY <1>1, <1>2, <1>3, <1>4, <1>5 DEF Carries

\* If every word and its carry satisfy an equation, so do the numbers and the last carry.
LEMMA ChainSum ==
  ASSUME NEW n \in Nat, NEW k \in Int, NEW l, NEW r, NEW c, NEW s,
         Ints(l, n), Ints(r, n), Ints(s, n), Chained(n, k, l, r, c, s)
  PROVE  Lower(l, n) + k * Lower(r, n) + c[0] = Lower(s, n) + c[n] * Size(n)
  <1> DEFINE Exact(i) == Lower(l, i) + k * Lower(r, i) + c[0] = Lower(s, i) + c[i] * Size(i)
             S == {i \in 0 .. n : Exact(i)}
  <1>1. 0 \in S
    <2>1. Lower(l, 0) = 0 /\ Lower(r, 0) = 0 /\ Lower(s, 0) = 0
      <3>1. Ints(l, 0) /\ Ints(r, 0) /\ Ints(s, 0)
        BY DEF Ints
      <3>2. QED
        BY <3>1, LowerValue, 0 \in Nat
    <2>2. c[0] \in Int
      BY DEF Chained
    <2>3. QED
      BY <2>1, <2>2, SizeStep
  <1>2. ASSUME NEW i \in 1 .. n, i - 1 \in S PROVE i \in S
    <2>1. PICK m \in Nat : i = m + 1 /\ i - 1 = m
      <3>1. i - 1 \in Nat /\ i = (i - 1) + 1
        OBVIOUS
      <3>2. QED
        BY <3>1
    <2>2. Ints(l, m + 1) /\ Ints(r, m + 1) /\ Ints(s, m + 1)
      BY <2>1 DEF Ints
    <2>3. Lower(l, m) \in Int /\ Lower(l, m + 1) = Lower(l, m) + l[m + 1] * Size(m)
      BY <2>2, LowerStep
    <2>4. Lower(r, m) \in Int /\ Lower(r, m + 1) = Lower(r, m) + r[m + 1] * Size(m)
      BY <2>2, LowerStep
    <2>5. Lower(s, m) \in Int /\ Lower(s, m + 1) = Lower(s, m) + s[m + 1] * Size(m)
      BY <2>2, LowerStep
    <2>6. Size(m) \in Int /\ Size(m + 1) = Radix * Size(m) /\ Radix \in Int
      BY SizeStep, RadixFacts
    <2>7. l[m + 1] \in Int /\ r[m + 1] \in Int /\ s[m + 1] \in Int
      BY <2>1 DEF Ints
    <2>8. c[0] \in Int /\ c[m] \in Int /\ c[m + 1] \in Int
      BY <2>1 DEF Chained
    <2>9. l[m + 1] + k * r[m + 1] + c[m] = s[m + 1] + Radix * c[m + 1]
      BY <2>1 DEF Chained
    <2>10. Lower(l, m) + k * Lower(r, m) + c[0] = Lower(s, m) + c[m] * Size(m)
      BY <1>2, <2>1
    <2>12. Exact(m + 1)
      <3>1. Carries(k, Lower(l, m), Lower(r, m), c[0], Lower(s, m), c[m], Size(m))
        BY <2>10 DEF Carries
      <3>2. Carries(k, l[m + 1], r[m + 1], c[m], s[m + 1], c[m + 1], Radix)
        BY <2>6, <2>8, <2>9 DEF Carries
      <3>3. Carries(k, Lower(l, m) + l[m + 1] * Size(m), Lower(r, m) + r[m + 1] * Size(m), c[0],
                    Lower(s, m) + s[m + 1] * Size(m), c[m + 1], Radix * Size(m))
        BY <2>3, <2>4, <2>5, <2>6, <2>7, <2>8, <3>1, <3>2, CarriesOn
      <3>4. QED
        BY <2>3, <2>4, <2>5, <2>6, <3>3 DEF Carries
    <2>13. QED
      BY <2>1, <2>12
  <1> HIDE DEF S
  <1>3. \A i \in 0 .. n : i \in S
    BY <1>1, <1>2, UpTo
  <1>4. QED
    BY <1>3 DEF S

\* Remainders of numbers that are not far off.
LEMMA NearMod ==
  ASSUME NEW M \in Nat \ {0}, NEW a \in 0 .. M - 1
  PROVE  a % M = a /\ (a + M) % M = a /\ (a - M) % M = a /\ (a - 2 * M) % M = a
  OBVIOUS

\* What Wrap makes of a sum or a difference of words.
LEMMA WrapNear ==
  ASSUME NEW a \in Words
  PROVE  /\ Wrap(a) = a /\ Wrap(a + Radix) = a
         /\ Wrap(a - Radix) = a /\ Wrap(a - 2 * Radix) = a
  BY NearMod, RadixFacts DEF Wrap, Words

\* Wrap makes a word.
LEMMA WrapIsWord ==
  ASSUME NEW a \in Int
  PROVE  Wrap(a) \in Words
  BY RadixFacts DEF Wrap, Words

\* Two words and a carry are the word of their sum and the carry out of it.
LEMMA AddWord ==
  ASSUME NEW l \in Words, NEW r \in Words, NEW c \in {0, 1}
  PROVE  /\ Carry(Wrap(l + r + c), l, c) \in {0, 1}
         /\ l + r + c = Wrap(l + r + c) + Radix * Carry(Wrap(l + r + c), l, c)
  <1>1. l \in Int /\ r \in Int /\ c \in Int /\ l >= 0 /\ r >= 0 /\ l < Radix /\ r < Radix
          /\ Radix \in Nat
    BY RadixFacts DEF Words
  <1>2. CASE l + r + c < Radix
    <2>1. l + r + c \in Words
      BY <1>1, <1>2 DEF Words
    <2>2. Wrap(l + r + c) = l + r + c
      BY <2>1, WrapNear
    <2>3. QED
      BY <1>1, <2>2 DEF Carry
  <1>3. CASE l + r + c >= Radix
    <2>1. l + r + c - Radix \in Words
      BY <1>1, <1>3 DEF Words
    <2>2. Wrap((l + r + c - Radix) + Radix) = l + r + c - Radix
      BY <2>1, WrapNear
    <2>3. Wrap(l + r + c) = l + r + c - Radix
      BY <1>1, <2>2
    <2>4. QED
      BY <1>1, <2>3 DEF Carry
  <1>4. QED
    BY <1>1, <1>2, <1>3

Borrow(l, r, b) == IF l < r \/ Wrap(l - r) < b THEN 1 ELSE 0

\* A word less another and a borrow is the word of the difference less the borrow out of it.
LEMMA SubWord ==
  ASSUME NEW l \in Words, NEW r \in Words, NEW b \in {0, 1}
  PROVE  l - r - b = Wrap(l - r - b) - Radix * Borrow(l, r, b)
  <1>1. l \in Int /\ r \in Int /\ b \in Int /\ l >= 0 /\ r >= 0 /\ l < Radix /\ r < Radix
          /\ Radix \in Nat /\ Radix >= 4
    BY RadixFacts DEF Words
  <1>2. l >= r => Wrap(l - r) = l - r
    <2>1. l >= r => l - r \in Words
      BY <1>1 DEF Words
    <2>2. QED
      BY <2>1, WrapNear
  <1>3. CASE l - r - b >= 0
    <2>1. l - r - b \in Words
      BY <1>1, <1>3 DEF Words
    <2>2. Wrap(l - r - b) = l - r - b
      BY <2>1, WrapNear
    <2>3. QED
      BY <1>1, <1>2, <1>3, <2>2 DEF Borrow
  <1>4. CASE l - r - b < 0
    <2>1. l - r - b + Radix \in Words
      BY <1>1, <1>4 DEF Words
    <2>2. Wrap((l - r - b + Radix) - Radix) = l - r - b + Radix
      BY <2>1, WrapNear
    <2>3. Wrap(l - r - b) = l - r - b + Radix
      BY <1>1, <2>2
    <2>4. Borrow(l, r, b) = 1
      BY <1>1, <1>2, <1>4 DEF Borrow
    <2>5. QED
      BY <1>1, <2>3, <2>4
  <1>5. QED
    BY <1>1, <1>3, <1>4

-----------------------------------------------------------------------------
(* Addition, subtraction and negation.                                     *)

\* The numbers of n words.
WordSeq(n) == {x \in Seq(Words) : Len(x) = n}

\* The parts of a number.
LEMMA WordSeqFacts ==
  ASSUME NEW n \in Nat, NEW x \in WordSeq(n)
  PROVE  /\ Len(x) = n
         /\ \A i \in 1 .. n : x[i] \in Words /\ x[i] \in Int
         /\ AreWords(x, n) /\ Ints(x, n)
         /\ x = [i \in 1 .. n |-> x[i]]
  <1>1. x \in Seq(Words) /\ Len(x) = n
    BY DEF WordSeq
  <1>2. \A i \in 1 .. n : x[i] \in Words
    BY <1>1
  <1>3. AreWords(x, n)
    BY <1>2 DEF AreWords
  <1>4. Ints(x, n)
    BY <1>3, WordsAreInts
  <1>5. QED
    BY <1>1, <1>2, <1>3, <1>4 DEF Ints

\* What makes a sequence of words a number.
LEMMA IsWordSeq ==
  ASSUME NEW n \in Nat, NEW x, x = [i \in 1 .. n |-> x[i]], AreWords(x, n)
  PROVE  x \in WordSeq(n)
  BY DEF WordSeq, AreWords

\* s is the sum of l and r, with the carries c.
Sums(n, l, r, c, s) ==
  /\ c \in [0 .. n -> {0, 1}] /\ c[0] = 0
  /\ s \in WordSeq(n)
  /\ \A i \in 1 .. n : l[i] + r[i] + c[i - 1] = s[i] + Radix * c[i]

\* Each word of gray_i256_add is a sum with the carry of the word before.
LEMMA Add256Sums ==
  ASSUME NEW n \in Nat, NEW l \in WordSeq(n), NEW r \in WordSeq(n)
  PROVE  \E c : Sums(n, l, r, c, gray_i256_add(l, r))
  <1> DEFINE out(i, c) == Carry(Wrap(l[i] + r[i] + c), l[i], c)
             F(f) == f = [i \in 0 .. n |->
                            IF i = 0 THEN 0
                            ELSE LET in == f[i - 1] IN Carry(Wrap(l[i] + r[i] + in), l[i], in)]
             step == [i \in 1 .. n |-> [c \in {0, 1} |-> out(i, c)]]
             carry == CHOOSE f : F(f)
             s == [i \in 1 .. n |-> Wrap(l[i] + r[i] + carry[i - 1])]
  <1>1. Len(l) = n /\ \A i \in 1 .. n : l[i] \in Words /\ r[i] \in Words /\ l[i] \in Int /\ r[i] \in Int
    BY WordSeqFacts
  <1>2. \A i \in 1 .. n, c \in {0, 1} :
          out(i, c) \in {0, 1} /\ l[i] + r[i] + c = Wrap(l[i] + r[i] + c) + Radix * out(i, c)
    BY <1>1, AddWord
  <1>3. \E g : Recursive(n, {0, 1}, 0, step, g)
    <2>1. step \in [1 .. n -> [{0, 1} -> {0, 1}]]
      BY <1>2
    <2> HIDE DEF step
    <2>2. QED
      BY <2>1, 0 \in {0, 1}, Recursion
  <1>4. PICK g : /\ g \in [0 .. n -> {0, 1}] /\ g[0] = 0
                 /\ \A i \in 1 .. n : g[i] = out(i, g[i - 1])
    <2>1. PICK g : Recursive(n, {0, 1}, 0, step, g)
      BY <1>3
    <2>2. \A i \in 1 .. n, c \in {0, 1} : step[i][c] = out(i, c)
      OBVIOUS
    <2> HIDE DEF step, out
    <2>3. g \in [0 .. n -> {0, 1}] /\ g[0] = 0 /\ \A i \in 1 .. n : g[i] = step[i][g[i - 1]]
      BY <2>1 DEF Recursive
    <2>4. \A i \in 1 .. n : g[i - 1] \in {0, 1}
      BY <2>3
    <2>5. QED
      BY <2>2, <2>3, <2>4
  <1>5. F(g)
    <2>1. g = [i \in 0 .. n |-> g[i]]
      BY <1>4
    <2>2. \A i \in 0 .. n : g[i] = IF i = 0 THEN 0
                                   ELSE LET in == g[i - 1] IN Carry(Wrap(l[i] + r[i] + in), l[i], in)
      BY <1>4
    <2>3. QED
      BY <2>1, <2>2, Zenon
  <1>6. gray_i256_add(l, r) = s
    BY <1>1 DEF gray_i256_add
  <1> HIDE DEF F
  <1>7. F(carry)
    BY <1>5, Zenon
  <1> USE DEF F
  <1> HIDE DEF carry
  <1>8. carry[0] = 0 /\ \A i \in 1 .. n : carry[i] = out(i, carry[i - 1])
    BY <1>7
  <1> HIDE DEF F, out
  <1>9. \A i \in 0 .. n : carry[i] \in {0, 1}
    <2> DEFINE S == {i \in 0 .. n : carry[i] \in {0, 1}}
    <2>1. 0 \in S
      BY <1>8
    <2>2. ASSUME NEW i \in 1 .. n, i - 1 \in S PROVE i \in S
      <3>1. carry[i - 1] \in {0, 1}
        BY <2>2
      <3>2. QED
        BY <3>1, <1>2, <1>8
    <2> HIDE DEF S
    <2>3. \A i \in 0 .. n : i \in S
      BY <2>1, <2>2, UpTo
    <2>4. QED
      BY <2>3 DEF S
  <1>10. carry \in [0 .. n -> {0, 1}]
    BY <1>7, <1>9 DEF F
  <1>11. ASSUME NEW i \in 1 .. n
         PROVE  s[i] \in Words /\ l[i] + r[i] + carry[i - 1] = s[i] + Radix * carry[i]
    <2>1. i - 1 \in 0 .. n /\ carry[i - 1] \in {0, 1}
      BY <1>9
    <2>2. l[i] + r[i] + carry[i - 1] \in Int
      BY <1>1, <2>1
    <2>3. Wrap(l[i] + r[i] + carry[i - 1]) \in Words
      BY <2>2, WrapIsWord
    <2>4. QED
      BY <1>2, <1>8, <2>1, <2>3
  <1>12. s \in WordSeq(n)
    <2>1. s = [i \in 1 .. n |-> s[i]] /\ AreWords(s, n)
      BY <1>11 DEF AreWords
    <2> HIDE DEF s
    <2>2. QED
      BY <2>1, IsWordSeq
  <1> HIDE DEF s
  <1>13. Sums(n, l, r, carry, s)
    BY <1>8, <1>10, <1>11, <1>12 DEF Sums
  <1>14. QED
    BY <1>6, <1>13

\* So is each word of gray_i128_add.
LEMMA Add128Sums ==
  ASSUME NEW l \in WordSeq(2), NEW r \in WordSeq(2)
  PROVE  \E c : Sums(2, l, r, c, gray_i128_add(l, r))
  <1> DEFINE low == Wrap(l[1] + r[1] + 0)
             c1 == Carry(low, l[1], 0)
             high == Wrap(l[2] + r[2] + c1)
             c2 == Carry(high, l[2], c1)
             c == [i \in 0 .. 2 |-> IF i = 0 THEN 0 ELSE IF i = 1 THEN c1 ELSE c2]
  <1>1. l[1] \in Words /\ l[2] \in Words /\ r[1] \in Words /\ r[2] \in Words
    BY WordSeqFacts, 2 \in Nat
  <1>2. l[1] \in Int /\ l[2] \in Int /\ r[1] \in Int /\ r[2] \in Int
    BY WordSeqFacts, 2 \in Nat
  <1>3. c1 \in {0, 1} /\ l[1] + r[1] + 0 = low + Radix * c1
    BY <1>1, 0 \in {0, 1}, AddWord
  <1>4. low \in Words
    BY <1>2, WrapIsWord
  <1>5. c1 = IF low < l[1] THEN 1 ELSE 0
    BY DEF Carry
  <1>6. gray_i128_add(l, r) = <<low, high>>
    <2>1. low = Wrap(l[1] + r[1])
      BY <1>2
    <2> HIDE DEF low
    <2>2. QED
      BY <1>5, <2>1 DEF gray_i128_add
  <1> HIDE DEF low, c1
  <1>7. c2 \in {0, 1} /\ l[2] + r[2] + c1 = high + Radix * c2
    BY <1>1, <1>3, AddWord
  <1>8. high \in Words
    BY <1>2, <1>3, WrapIsWord
  <1> HIDE DEF high, c2
  <1>9. c \in [0 .. 2 -> {0, 1}]
    BY <1>3, <1>7
  <1>10. c[0] = 0 /\ c[1] = c1 /\ c[2] = c2
    OBVIOUS
  <1> HIDE DEF c
  <1>11. \A i \in 1 .. 2 : l[i] + r[i] + c[i - 1] = <<low, high>>[i] + Radix * c[i]
    BY <1>3, <1>7, <1>10
  <1>12. <<low, high>> \in WordSeq(2)
    BY <1>4, <1>8 DEF WordSeq
  <1>13. Sums(2, l, r, c, <<low, high>>)
    BY <1>9, <1>10, <1>11, <1>12 DEF Sums
  <1>14. QED
    BY <1>6, <1>13

\* Add is the sum, up to a carry out of the last word.
LEMMA AddExact ==
  ASSUME NEW n \in Nat \ {0}, NEW l \in WordSeq(n), NEW r \in WordSeq(n)
  PROVE  /\ Add(l, r) \in WordSeq(n)
         /\ \E e \in {0, 1} : Lower(l, n) + Lower(r, n) = Lower(Add(l, r), n) + e * Size(n)
  <1>1. \E c : Sums(n, l, r, c, Add(l, r))
    <2>1. Len(l) = n
      BY WordSeqFacts
    <2>2. CASE n = 2
      BY <2>1, <2>2, Add128Sums DEF Add
    <2>3. CASE n # 2
      BY <2>1, <2>3, Add256Sums DEF Add
    <2>4. QED
      BY <2>2, <2>3
  <1>2. PICK c : Sums(n, l, r, c, Add(l, r))
    BY <1>1
  <1>3. n \in Nat /\ Add(l, r) \in WordSeq(n) /\ c[0] = 0 /\ c[n] \in {0, 1}
    BY <1>2 DEF Sums
  <1>4. Ints(l, n) /\ Ints(r, n) /\ Ints(Add(l, r), n)
    BY <1>3, WordSeqFacts
  <1>5. Chained(n, 1, l, r, c, Add(l, r))
    <2>1. \A i \in 1 .. n : l[i] \in Int /\ r[i] \in Int
      BY <1>4 DEF Ints
    <2>2. QED
      BY <1>2, <2>1 DEF Sums, Chained
  <1>6. Lower(l, n) + 1 * Lower(r, n) + c[0] = Lower(Add(l, r), n) + c[n] * Size(n)
    BY <1>3, <1>4, <1>5, 1 \in Int, ChainSum
  <1>7. Lower(l, n) \in Int /\ Lower(r, n) \in Int
    BY <1>3, <1>4, LowerIsInt
  <1>8. QED
    BY <1>3, <1>6, <1>7

\* s is l less r, with the borrows b.
Differs(n, l, r, b, s) ==
  /\ b \in [0 .. n -> {0, 1}] /\ b[0] = 0
  /\ s \in WordSeq(n)
  /\ \A i \in 1 .. n : l[i] - r[i] - b[i - 1] = s[i] - Radix * b[i]

\* Each word of gray_i256_sub is a difference with the borrow of the word before.
LEMMA Sub256Differs ==
  ASSUME NEW n \in Nat, NEW l \in WordSeq(n), NEW r \in WordSeq(n)
  PROVE  \E b : Differs(n, l, r, b, gray_i256_sub(l, r))
  <1> DEFINE F(f) == f = [i \in 0 .. n |->
                            IF i > 0 /\ (l[i] < r[i] \/ Wrap(l[i] - r[i]) < f[i - 1])
                            THEN 1 ELSE 0]
             step == [i \in 1 .. n |-> [b \in {0, 1} |-> Borrow(l[i], r[i], b)]]
             borrow == CHOOSE f : F(f)
             s == [i \in 1 .. n |-> Wrap(l[i] - r[i] - borrow[i - 1])]
  <1>1. Len(l) = n /\ \A i \in 1 .. n : l[i] \in Words /\ r[i] \in Words /\ l[i] \in Int /\ r[i] \in Int
    BY WordSeqFacts
  <1>2. \A x, y, b : Borrow(x, y, b) \in {0, 1}
    BY DEF Borrow
  <1>3. \E g : Recursive(n, {0, 1}, 0, step, g)
    <2>1. step \in [1 .. n -> [{0, 1} -> {0, 1}]]
      BY <1>2
    <2> HIDE DEF step
    <2>2. QED
      BY <2>1, 0 \in {0, 1}, Recursion
  <1>4. PICK g : /\ g \in [0 .. n -> {0, 1}] /\ g[0] = 0
                 /\ \A i \in 1 .. n : g[i] = Borrow(l[i], r[i], g[i - 1])
    <2>1. PICK g : Recursive(n, {0, 1}, 0, step, g)
      BY <1>3
    <2>2. \A i \in 1 .. n, b \in {0, 1} : step[i][b] = Borrow(l[i], r[i], b)
      OBVIOUS
    <2> HIDE DEF step
    <2>3. g \in [0 .. n -> {0, 1}] /\ g[0] = 0 /\ \A i \in 1 .. n : g[i] = step[i][g[i - 1]]
      BY <2>1 DEF Recursive
    <2>4. \A i \in 1 .. n : g[i - 1] \in {0, 1}
      BY <2>3
    <2>5. QED
      BY <2>2, <2>3, <2>4
  <1>5. F(g)
    <2>1. g = [i \in 0 .. n |-> g[i]]
      BY <1>4
    <2>2. \A i \in 0 .. n : g[i] = IF i > 0 /\ (l[i] < r[i] \/ Wrap(l[i] - r[i]) < g[i - 1])
                                   THEN 1 ELSE 0
      BY <1>4 DEF Borrow
    <2>3. QED
      BY <2>1, <2>2, Zenon
  <1>6. gray_i256_sub(l, r) = s
    BY <1>1 DEF gray_i256_sub
  <1> HIDE DEF F
  <1>7. F(borrow)
    BY <1>5, Zenon
  <1> USE DEF F
  <1> HIDE DEF borrow
  <1>8. borrow[0] = 0 /\ \A i \in 1 .. n : borrow[i] = Borrow(l[i], r[i], borrow[i - 1])
    BY <1>7 DEF Borrow
  <1>9. \A i \in 0 .. n : borrow[i] \in {0, 1}
    BY <1>2, <1>8
  <1>10. borrow \in [0 .. n -> {0, 1}]
    BY <1>7, <1>9
  <1> HIDE DEF F
  <1>11. ASSUME NEW i \in 1 .. n
         PROVE  s[i] \in Words /\ l[i] - r[i] - borrow[i - 1] = s[i] - Radix * borrow[i]
    <2>1. i - 1 \in 0 .. n /\ borrow[i - 1] \in {0, 1}
      BY <1>9
    <2>2. l[i] - r[i] - borrow[i - 1] \in Int
      BY <1>1, <2>1
    <2>3. Wrap(l[i] - r[i] - borrow[i - 1]) \in Words
      BY <2>2, WrapIsWord
    <2>4. l[i] - r[i] - borrow[i - 1]
            = Wrap(l[i] - r[i] - borrow[i - 1]) - Radix * Borrow(l[i], r[i], borrow[i - 1])
      BY <1>1, <2>1, SubWord
    <2>5. QED
      BY <1>8, <2>3, <2>4
  <1>12. s \in WordSeq(n)
    <2>1. s = [i \in 1 .. n |-> s[i]] /\ AreWords(s, n)
      BY <1>11 DEF AreWords
    <2> HIDE DEF s
    <2>2. QED
      BY <2>1, IsWordSeq
  <1> HIDE DEF s
  <1>13. Differs(n, l, r, borrow, s)
    BY <1>8, <1>10, <1>11, <1>12 DEF Differs
  <1>14. QED
    BY <1>6, <1>13

\* So is each word of gray_i128_sub.
LEMMA Sub128Differs ==
  ASSUME NEW l \in WordSeq(2), NEW r \in WordSeq(2)
  PROVE  \E b : Differs(2, l, r, b, gray_i128_sub(l, r))
  <1> DEFINE b1 == Borrow(l[1], r[1], 0)
             low == Wrap(l[1] - r[1] - 0)
             high == Wrap(l[2] - r[2] - b1)
             b2 == Borrow(l[2], r[2], b1)
             b == [i \in 0 .. 2 |-> IF i = 0 THEN 0 ELSE IF i = 1 THEN b1 ELSE b2]
  <1>1. l[1] \in Words /\ l[2] \in Words /\ r[1] \in Words /\ r[2] \in Words
    BY WordSeqFacts, 2 \in Nat
  <1>2. l[1] \in Int /\ l[2] \in Int /\ r[1] \in Int /\ r[2] \in Int
    BY WordSeqFacts, 2 \in Nat
  <1>3. b1 \in {0, 1} /\ b2 \in {0, 1}
    BY DEF Borrow
  <1>4. b1 = IF l[1] < r[1] THEN 1 ELSE 0
    <2>1. Wrap(l[1] - r[1]) \in Words
      BY <1>2, WrapIsWord
    <2>2. ~(Wrap(l[1] - r[1]) < 0)
      BY <2>1, RadixFacts DEF Words
    <2>3. QED
      BY <2>2 DEF Borrow
  <1>5. gray_i128_sub(l, r) = <<low, high>>
    <2>1. low = Wrap(l[1] - r[1])
      BY <1>2
    <2> HIDE DEF low, b1
    <2>2. QED
      BY <1>4, <2>1 DEF gray_i128_sub
  <1>6. l[1] - r[1] - 0 = low - Radix * b1
    BY <1>1, 0 \in {0, 1}, SubWord
  <1>7. low \in Words
    BY <1>2, WrapIsWord
  <1> HIDE DEF low, b1
  <1>8. l[2] - r[2] - b1 = high - Radix * b2
    BY <1>1, <1>3, SubWord
  <1>9. high \in Words
    BY <1>2, <1>3, WrapIsWord
  <1> HIDE DEF high, b2
  <1>10. b \in [0 .. 2 -> {0, 1}]
    BY <1>3
  <1>11. b[0] = 0 /\ b[1] = b1 /\ b[2] = b2
    OBVIOUS
  <1> HIDE DEF b
  <1>12. \A i \in 1 .. 2 : l[i] - r[i] - b[i - 1] = <<low, high>>[i] - Radix * b[i]
    BY <1>6, <1>8, <1>11
  <1>13. <<low, high>> \in WordSeq(2)
    BY <1>7, <1>9 DEF WordSeq
  <1>14. Differs(2, l, r, b, <<low, high>>)
    BY <1>10, <1>11, <1>12, <1>13 DEF Differs
  <1>15. QED
    BY <1>5, <1>14

\* What Differs says of the numbers.
LEMMA DiffersExact ==
  ASSUME NEW n \in Nat, NEW l, Ints(l, n), NEW r \in WordSeq(n), NEW b, NEW s,
         Differs(n, l, r, b, s)
  PROVE  /\ s \in WordSeq(n)
         /\ \E e \in {0, 1} : Lower(l, n) - Lower(r, n) = Lower(s, n) - e * Size(n)
  <1> DEFINE c == [i \in 0 .. n |-> 0 - b[i]]
  <1>1. s \in WordSeq(n) /\ b[0] = 0 /\ b[n] \in {0, 1} /\ \A i \in 0 .. n : b[i] \in {0, 1}
    BY DEF Differs
  <1>2. Ints(r, n) /\ Ints(s, n)
    BY <1>1, WordSeqFacts
  <1>3. Chained(n, -1, l, r, c, s)
    <2>1. ASSUME NEW i \in 1 .. n
          PROVE  c[i] \in Int /\ l[i] + (-1) * r[i] + c[i - 1] = s[i] + Radix * c[i]
      <3>1. l[i] \in Int /\ r[i] \in Int /\ s[i] \in Int /\ Radix \in Int
        BY <1>2, RadixFacts DEF Ints
      <3>2. l[i] - r[i] - b[i - 1] = s[i] - Radix * b[i]
        BY DEF Differs
      <3>3. b[i] \in {0, 1} /\ b[i - 1] \in {0, 1} /\ c[i] = 0 - b[i] /\ c[i - 1] = 0 - b[i - 1]
        BY <1>1
      <3> HIDE DEF c
      <3>4. (-1) * r[i] = 0 - r[i]
        BY <3>1
      <3>5. Radix * c[i] = 0 - Radix * b[i] /\ Radix * b[i] \in Int
        BY <3>1, <3>3
      <3>6. c[i] \in Int /\ c[i - 1] \in Int /\ b[i] \in Int /\ b[i - 1] \in Int
        BY <3>3
      <3>7. l[i] + (-1) * r[i] + c[i - 1] = s[i] + Radix * c[i]
        <4>1. c[i - 1] = 0 - b[i - 1]
          BY <3>3
        <4>2. QED
          BY <3>1, <3>2, <3>4, <3>5, <3>6, <4>1
      <3>8. QED
        BY <3>6, <3>7
    <2>2. c[0] \in Int
      BY <1>1
    <2> HIDE DEF c
    <2>3. QED
      BY <2>1, <2>2 DEF Chained
  <1>4. c[0] = 0 /\ c[n] = 0 - b[n]
    BY <1>1
  <1> HIDE DEF c
  <1>5. Lower(l, n) + (-1) * Lower(r, n) + c[0] = Lower(s, n) + c[n] * Size(n)
    BY <1>2, <1>3, -1 \in Int, ChainSum
  <1>6. Lower(l, n) \in Int /\ Lower(r, n) \in Int /\ Lower(s, n) \in Int /\ Size(n) \in Int
    BY <1>2, LowerIsInt, SizeStep
  <1>7. QED
    BY <1>1, <1>4, <1>5, <1>6

\* Sub is the difference, up to a borrow from beyond the last word.
LEMMA SubExact ==
  ASSUME NEW n \in Nat \ {0}, NEW l \in WordSeq(n), NEW r \in WordSeq(n)
  PROVE  /\ Sub(l, r) \in WordSeq(n)
         /\ \E e \in {0, 1} : Lower(l, n) - Lower(r, n) = Lower(Sub(l, r), n) - e * Size(n)
  <1>1. \E b : Differs(n, l, r, b, Sub(l, r))
    <2>1. Len(l) = n
      BY WordSeqFacts
    <2>2. CASE n = 2
      BY <2>1, <2>2, Sub128Differs DEF Sub
    <2>3. CASE n # 2
      BY <2>1, <2>3, Sub256Differs DEF Sub
    <2>4. QED
      BY <2>2, <2>3
  <1>2. n \in Nat /\ Ints(l, n)
    BY WordSeqFacts
  <1>3. QED
    BY <1>1, <1>2, DiffersExact

\* n words that are 0.
Nought(n) == [i \in 1 .. n |-> 0]

\* Words of zero stand for zero.
LEMMA LowerNought ==
  ASSUME NEW n \in Nat
  PROVE  /\ Nought(n) \in WordSeq(n)
         /\ Lower(Nought(n), n) = 0
  <1> DEFINE z == Nought(n)
             c == [i \in 0 .. n |-> 0]
  <1>1. z = [i \in 1 .. n |-> z[i]] /\ AreWords(z, n)
    BY RadixFacts DEF Nought, AreWords, Words
  <1>2. z \in WordSeq(n)
    BY <1>1, IsWordSeq
  <1>3. \A i \in 1 .. n : z[i] = 0 /\ c[i] = 0 /\ c[i - 1] = 0
    BY DEF Nought
  <1>4. Chained(n, 1, z, z, c, z)
    <2>1. c[0] = 0 /\ 1 * 0 = 0 /\ Radix * 0 = 0 /\ 0 + 0 + 0 = 0 + 0
      BY RadixFacts
    <2> HIDE DEF z, c
    <2>2. QED
      BY <1>3, <2>1 DEF Chained
  <1>5. Ints(z, n)
    BY <1>3 DEF Ints
  <1>6. Lower(z, n) + 1 * Lower(z, n) + c[0] = Lower(z, n) + c[n] * Size(n)
    BY <1>4, <1>5, 1 \in Int, ChainSum
  <1>7. Lower(z, n) \in Int /\ Size(n) \in Int
    BY <1>5, LowerIsInt, SizeStep
  <1>8. c[0] = 0 /\ c[n] = 0
    OBVIOUS
  <1> HIDE DEF z, c
  <1>9. Lower(z, n) = 0
    <2>1. \A a, w \in Int : a + 1 * a + 0 = a + 0 * w => a = 0
      OBVIOUS
    <2>2. QED
      BY <1>6, <1>7, <1>8, <2>1
  <1>10. QED
    BY <1>2, <1>9 DEF z

\* The carry of a negation, which is no borrow.
NegCarry(v, c) == IF Wrap(Complement(v) + c) < Complement(v) THEN 1 ELSE 0

\* A complemented word and a carry are zero less the word and a borrow.
LEMMA NegWord ==
  ASSUME NEW v \in Words, NEW c \in {0, 1}
  PROVE  /\ Wrap(Complement(v) + c) \in Words
         /\ 0 - v - (1 - c) = Wrap(Complement(v) + c) - Radix * (1 - NegCarry(v, c))
  <1>1. v \in Int /\ v >= 0 /\ v < Radix /\ Radix \in Nat /\ Radix >= 4 /\ c \in Int
    BY RadixFacts DEF Words
  <1>2. Complement(v) = Radix - 1 - v
    BY DEF Complement
  <1>3. CASE c = 1 /\ v = 0
    <2>1. Wrap(0 + Radix) = 0
      BY <1>1, WrapNear DEF Words
    <2>2. Complement(v) + c = 0 + Radix
      BY <1>1, <1>2, <1>3
    <2>3. Wrap(Complement(v) + c) = 0
      BY <2>1, <2>2
    <2>4. NegCarry(v, c) = 1
      BY <1>1, <1>2, <1>3, <2>3 DEF NegCarry
    <2>5. QED
      BY <1>1, <1>3, <2>3, <2>4 DEF Words
  <1>4. CASE ~(c = 1 /\ v = 0)
    <2>1. Complement(v) + c \in Words
      BY <1>1, <1>2, <1>4 DEF Words
    <2>2. Wrap(Complement(v) + c) = Complement(v) + c
      BY <2>1, WrapNear
    <2>3. NegCarry(v, c) = 0
      BY <1>1, <1>2, <2>2 DEF NegCarry
    <2>4. QED
      BY <1>1, <1>2, <2>1, <2>2, <2>3
  <1>5. QED
    BY <1>3, <1>4

\* Each word of gray_i256_neg is a difference from zero.
LEMMA Neg256Differs ==
  ASSUME NEW n \in Nat, NEW v \in WordSeq(n)
  PROVE  \E b : Differs(n, Nought(n), v, b, gray_i256_neg(v))
  <1> DEFINE F(f) == f = [i \in 0 .. n |->
                            IF i = 0 \/ Wrap(Complement(v[i]) + f[i - 1]) < Complement(v[i])
                            THEN 1 ELSE 0]
             step == [i \in 1 .. n |-> [c \in {0, 1} |-> NegCarry(v[i], c)]]
             carry == CHOOSE f : F(f)
             s == [i \in 1 .. n |-> Wrap(Complement(v[i]) + carry[i - 1])]
             b == [i \in 0 .. n |-> 1 - carry[i]]
  <1>1. Len(v) = n /\ \A i \in 1 .. n : v[i] \in Words /\ v[i] \in Int
    BY WordSeqFacts
  <1>2. \A x, c : NegCarry(x, c) \in {0, 1}
    BY DEF NegCarry
  <1>3. \E g : Recursive(n, {0, 1}, 1, step, g)
    <2>1. step \in [1 .. n -> [{0, 1} -> {0, 1}]]
      BY <1>2
    <2> HIDE DEF step
    <2>2. QED
      BY <2>1, 1 \in {0, 1}, Recursion
  <1>4. PICK g : /\ g \in [0 .. n -> {0, 1}] /\ g[0] = 1
                 /\ \A i \in 1 .. n : g[i] = NegCarry(v[i], g[i - 1])
    <2>1. PICK g : Recursive(n, {0, 1}, 1, step, g)
      BY <1>3
    <2>2. \A i \in 1 .. n, c \in {0, 1} : step[i][c] = NegCarry(v[i], c)
      OBVIOUS
    <2> HIDE DEF step
    <2>3. g \in [0 .. n -> {0, 1}] /\ g[0] = 1 /\ \A i \in 1 .. n : g[i] = step[i][g[i - 1]]
      BY <2>1 DEF Recursive
    <2>4. \A i \in 1 .. n : g[i - 1] \in {0, 1}
      BY <2>3
    <2>5. QED
      BY <2>2, <2>3, <2>4
  <1>5. F(g)
    <2>1. g = [i \in 0 .. n |-> g[i]]
      BY <1>4
    <2>2. \A i \in 0 .. n : g[i] = IF i = 0 \/ Wrap(Complement(v[i]) + g[i - 1]) < Complement(v[i])
                                   THEN 1 ELSE 0
      BY <1>4 DEF NegCarry
    <2>3. QED
      BY <2>1, <2>2, Zenon
  <1>6. gray_i256_neg(v) = s
    BY <1>1 DEF gray_i256_neg
  <1> HIDE DEF F
  <1>7. F(carry)
    BY <1>5, Zenon
  <1> USE DEF F
  <1> HIDE DEF carry
  <1>8. carry[0] = 1 /\ \A i \in 1 .. n : carry[i] = NegCarry(v[i], carry[i - 1])
    BY <1>7 DEF NegCarry
  <1>9. \A i \in 0 .. n : carry[i] \in {0, 1}
    BY <1>2, <1>8
  <1> HIDE DEF F
  <1>10. ASSUME NEW i \in 1 .. n
         PROVE  s[i] \in Words /\ 0 - v[i] - b[i - 1] = s[i] - Radix * b[i]
    <2>1. i - 1 \in 0 .. n /\ i \in 0 .. n /\ carry[i - 1] \in {0, 1}
      BY <1>9
    <2>2. /\ Wrap(Complement(v[i]) + carry[i - 1]) \in Words
          /\ 0 - v[i] - (1 - carry[i - 1])
               = Wrap(Complement(v[i]) + carry[i - 1]) - Radix * (1 - NegCarry(v[i], carry[i - 1]))
      BY <1>1, <2>1, NegWord
    <2>3. b[i] = 1 - carry[i] /\ b[i - 1] = 1 - carry[i - 1]
      BY <2>1
    <2> HIDE DEF b
    <2>4. QED
      BY <1>8, <2>2, <2>3
  <1>11. s \in WordSeq(n)
    <2>1. s = [i \in 1 .. n |-> s[i]] /\ AreWords(s, n)
      BY <1>10 DEF AreWords
    <2> HIDE DEF s
    <2>2. QED
      BY <2>1, IsWordSeq
  <1>12. b \in [0 .. n -> {0, 1}] /\ b[0] = 0
    BY <1>8, <1>9
  <1> HIDE DEF s, b
  <1>13. Differs(n, Nought(n), v, b, s)
    <2>1. \A i \in 1 .. n : Nought(n)[i] = 0
      BY DEF Nought
    <2>2. QED
      BY <1>10, <1>11, <1>12, <2>1 DEF Differs
  <1>14. QED
    BY <1>6, <1>13

\* So is each word of gray_i128_neg.
LEMMA Neg128Differs ==
  ASSUME NEW v \in WordSeq(2)
  PROVE  \E b : Differs(2, Nought(2), v, b, gray_i128_neg(v))
  <1> DEFINE low == Wrap(Complement(v[1]) + 1)
             c1 == NegCarry(v[1], 1)
             high == Wrap(Complement(v[2]) + c1)
             c2 == NegCarry(v[2], c1)
             b == [i \in 0 .. 2 |-> IF i = 0 THEN 0 ELSE IF i = 1 THEN 1 - c1 ELSE 1 - c2]
  <1>1. v[1] \in Words /\ v[2] \in Words
    BY WordSeqFacts, 2 \in Nat
  <1>2. c1 \in {0, 1} /\ c2 \in {0, 1}
    BY DEF NegCarry
  <1>3. low \in Words /\ 0 - v[1] - (1 - 1) = low - Radix * (1 - c1)
    BY <1>1, 1 \in {0, 1}, NegWord
  <1>4. high \in Words /\ 0 - v[2] - (1 - c1) = high - Radix * (1 - c2)
    BY <1>1, <1>2, NegWord
  <1>5. c1 = IF low = 0 THEN 1 ELSE 0
    <2>1. v[1] \in Int /\ v[1] >= 0 /\ v[1] < Radix /\ Radix \in Nat /\ Radix >= 4
      BY <1>1, RadixFacts DEF Words
    <2>2. CASE v[1] = 0
      <3>1. Wrap(0 + Radix) = 0
        BY <2>1, WrapNear DEF Words
      <3>2. Complement(v[1]) + 1 = 0 + Radix
        BY <2>1, <2>2 DEF Complement
      <3>3. QED
        BY <2>1, <2>2, <3>1, <3>2 DEF NegCarry, Complement
    <2>3. CASE v[1] # 0
      <3>1. Complement(v[1]) + 1 \in Words
        BY <2>1, <2>3 DEF Complement, Words
      <3>2. low = Complement(v[1]) + 1
        BY <3>1, WrapNear
      <3>3. QED
        BY <2>1, <2>3, <3>2 DEF NegCarry, Complement
    <2>4. QED
      BY <2>2, <2>3
  <1> HIDE DEF c1
  <1>6. gray_i128_neg(v) = <<low, high>>
    BY <1>5 DEF gray_i128_neg
  <1> HIDE DEF low, high, c2
  <1>7. b \in [0 .. 2 -> {0, 1}] /\ b[0] = 0 /\ b[1] = 1 - c1 /\ b[2] = 1 - c2
    BY <1>2
  <1> HIDE DEF b
  <1>8. \A i \in 1 .. 2 : Nought(2)[i] - v[i] - b[i - 1] = <<low, high>>[i] - Radix * b[i]
    <2>1. Nought(2)[1] = 0 /\ Nought(2)[2] = 0 /\ 1 - 1 = 0
      BY DEF Nought
    <2>2. QED
      BY <1>3, <1>4, <1>7, <2>1
  <1>9. <<low, high>> \in WordSeq(2)
    BY <1>3, <1>4 DEF WordSeq
  <1>10. Differs(2, Nought(2), v, b, <<low, high>>)
    BY <1>7, <1>8, <1>9 DEF Differs
  <1>11. QED
    BY <1>6, <1>10

\* Neg is the negative, up to a borrow from beyond the last word.
LEMMA NegExact ==
  ASSUME NEW n \in Nat \ {0}, NEW v \in WordSeq(n)
  PROVE  /\ Neg(v) \in WordSeq(n)
         /\ \E e \in {0, 1} : 0 - Lower(v, n) = Lower(Neg(v), n) - e * Size(n)
  <1>1. \E b : Differs(n, Nought(n), v, b, Neg(v))
    <2>1. Len(v) = n
      BY WordSeqFacts
    <2>2. CASE n = 2
      BY <2>1, <2>2, Neg128Differs DEF Neg
    <2>3. CASE n # 2
      BY <2>1, <2>3, Neg256Differs DEF Neg
    <2>4. QED
      BY <2>2, <2>3
  <1>2. n \in Nat /\ Nought(n) \in WordSeq(n) /\ Lower(Nought(n), n) = 0
    BY LowerNought
  <1>3. Ints(Nought(n), n)
    BY <1>2, WordSeqFacts
  <1>4. /\ Neg(v) \in WordSeq(n)
        /\ \E e \in {0, 1} : Lower(Nought(n), n) - Lower(v, n) = Lower(Neg(v), n) - e * Size(n)
    BY <1>1, <1>2, <1>3, DiffersExact
  <1>5. QED
    BY <1>2, <1>4

-----------------------------------------------------------------------------
(* The numbers of n words.                                                 *)

\* The range of a number can be halved.
LEMMA HalfSize ==
  ASSUME NEW n \in Nat \ {0}
  PROVE  \E h \in Nat \ {0} : Size(n) = 2 * h /\ Size(n) \div 2 = h
  <1>1. n - 1 \in Nat /\ (n - 1) + 1 = n
    OBVIOUS
  <1>2. Size(n) = Radix * Size(n - 1) /\ Size(n - 1) \in Nat \ {0}
    BY <1>1, SizeStep
  <1>3. PICK k \in Nat : Radix = 2 * k
    BY RadixFacts
  <1>4. k # 0
    BY <1>3, RadixFacts
  <1>5. k * Size(n - 1) \in Nat \ {0} /\ Size(n) = 2 * (k * Size(n - 1))
    BY <1>2, <1>3, <1>4
  <1>6. \A h \in Nat : (2 * h) \div 2 = h
    OBVIOUS
  <1>7. QED
    BY <1>5, <1>6

\* What AsSigned makes of a word.
LEMMA AsSignedFacts ==
  ASSUME NEW w \in Words
  PROVE  /\ AsSigned(w) \in Int /\ w \in Int
         /\ AsSigned(w) < 0 <=> 2 * w >= Radix
         /\ AsSigned(w) = w \/ AsSigned(w) = w - Radix
         /\ AsSigned(w) < 0 => AsSigned(w) = w - Radix
         /\ AsSigned(w) >= 0 => AsSigned(w) = w
  BY RadixFacts DEF AsSigned, Words

\* Words as a signed number, and the numbers that fit.
SignedNumber(x) ==
  IF 2 * Natural(x) >= Size(Len(x)) THEN Natural(x) - Size(Len(x)) ELSE Natural(x)
SignedFits(n, number) == -(Size(n) \div 2) <= number /\ number < Size(n) \div 2
UnsignedFits(n, number) == 0 <= number /\ number < Size(n)

\* Number, by cases.
LEMMA NumberIs ==
  ASSUME NEW x
  PROVE  Number(TRUE, x) = SignedNumber(x) /\ Number(FALSE, x) = Natural(x)
  BY Zenon DEF Number, SignedNumber

\* Fits, by cases.
LEMMA FitsIs ==
  ASSUME NEW n, NEW number
  PROVE  /\ Fits(TRUE, n, number) <=> SignedFits(n, number)
         /\ Fits(FALSE, n, number) <=> UnsignedFits(n, number)
  BY Zenon DEF Fits, SignedFits, UnsignedFits

\* The sign of words, and what they are as a signed number.
Signed(n, x) ==
  /\ IsNeg(x) <=> 2 * Natural(x) >= Size(n)
  /\ IsNeg(x) => SignedNumber(x) = Natural(x) - Size(n)
  /\ ~IsNeg(x) => SignedNumber(x) = Natural(x)
  /\ SignedNumber(x) = Lower(x, n - 1) + AsSigned(x[n]) * Size(n - 1)

\* The sign bit tells in which half of its range a number is, and the signed number follows.
LEMMA NumberFacts ==
  ASSUME NEW n \in Nat \ {0}, NEW x \in WordSeq(n)
  PROVE  /\ Natural(x) = Lower(x, n) /\ Natural(x) \in 0 .. Size(n) - 1
         /\ Signed(n, x)
  <1> DEFINE S == Size(n - 1)
             L == Lower(x, n - 1)
             w == x[n]
  <1>1. n - 1 \in Nat /\ (n - 1) + 1 = n /\ n \in 1 .. n
    OBVIOUS
  <1>2. Len(x) = n /\ w \in Words /\ AreWords(x, n) /\ Ints(x, n)
    BY WordSeqFacts
  <1>3. AreWords(x, n - 1)
    BY <1>2 DEF AreWords
  <1>4. L \in 0 .. S - 1
    BY <1>1, <1>3, LowerRange
  <1>5. S \in Nat \ {0} /\ Size(n) = Radix * S
    BY <1>1, SizeStep
  <1>6. Lower(x, n) = L + w * S
    <2>1. Ints(x, (n - 1) + 1)
      BY <1>1, <1>2
    <2>2. Lower(x, (n - 1) + 1) = Lower(x, n - 1) + x[(n - 1) + 1] * Size(n - 1)
      BY <1>1, <2>1, LowerStep
    <2>3. QED
      BY <1>1, <2>2
  <1>7. Natural(x) = Lower(x, n) /\ Natural(x) \in 0 .. Size(n) - 1
    BY <1>2, LowerRange DEF Natural
  <1>8. PICK k \in Nat : Radix = 2 * k /\ k >= 2
    BY RadixFacts
  <1>9. w \in 0 .. 2 * k - 1
    BY <1>2, <1>8 DEF Words
  <1>10. IsNeg(x) <=> w >= k
    BY <1>2, <1>8, <1>9, AsSignedFacts DEF IsNeg
  <1> HIDE DEF S, L, w
  <1>11. w * S \in Int /\ k * S \in Int /\ Size(n) = 2 * (k * S)
    BY <1>5, <1>8, <1>9
  <1>12. w >= k => w * S >= k * S
    <2>1. w >= k => (w - k) * S >= 0
      BY <1>5, <1>9
    <2>2. (w - k) * S = w * S - k * S
      BY <1>5, <1>9
    <2>3. QED
      BY <1>11, <2>1, <2>2
  <1>13. w < k => w * S + S <= k * S
    <2>1. w < k => (k - 1 - w) * S >= 0
      BY <1>5, <1>9
    <2>2. (k - 1 - w) * S = k * S - S - w * S
      BY <1>5, <1>9
    <2>3. QED
      BY <1>5, <1>11, <2>1, <2>2
  <1>14. IsNeg(x) <=> 2 * Natural(x) >= Size(n)
    BY <1>4, <1>5, <1>6, <1>7, <1>9, <1>10, <1>11, <1>12, <1>13
  <1>15. CASE IsNeg(x)
    <2>1. SignedNumber(x) = Natural(x) - Size(n)
      BY <1>2, <1>14, <1>15 DEF SignedNumber
    <2>2. AsSigned(w) = w - Radix
      BY <1>2, <1>8, <1>9, <1>10, <1>15, AsSignedFacts
    <2>3. (w - Radix) * S = w * S - Radix * S
      BY <1>5, <1>8, <1>9
    <2>4. SignedNumber(x) = L + AsSigned(w) * S
      BY <1>4, <1>5, <1>6, <1>7, <1>11, <2>1, <2>2, <2>3
    <2>5. QED
      BY <1>7, <1>14, <1>15, <2>1, <2>4 DEF S, L, w, Signed
  <1>16. CASE ~IsNeg(x)
    <2>1. SignedNumber(x) = Natural(x)
      BY <1>2, <1>14, <1>16 DEF SignedNumber
    <2>2. AsSigned(w) = w
      BY <1>2, <1>8, <1>9, <1>10, <1>16, AsSignedFacts
    <2>3. SignedNumber(x) = L + AsSigned(w) * S
      BY <1>4, <1>5, <1>6, <1>7, <1>11, <2>1, <2>2
    <2>4. QED
      BY <1>7, <1>14, <1>16, <2>1, <2>3 DEF S, L, w, Signed
  <1>17. QED
    BY <1>15, <1>16

\* Quotient and remainder of an integer.
LEMMA DivMod ==
  ASSUME NEW M \in Nat \ {0}, NEW a \in Int
  PROVE  a % M \in 0 .. M - 1 /\ a \div M \in Int /\ a % M = a - M * (a \div M)
  OBVIOUS

\* A remainder and a quotient are the ones of the division.
LEMMA ModUnique ==
  ASSUME NEW M \in Nat \ {0}, NEW a \in 0 .. M - 1, NEW q \in Int
  PROVE  (a + q * M) % M = a /\ (a + q * M) \div M = q
  <1> DEFINE x == a + q * M
  <1>1. x \div M = q
    OBVIOUS
  <1>2. x \in Int
    OBVIOUS
  <1>3. x % M = x - M * (x \div M)
    BY <1>2, DivMod
  <1>4. QED
    BY <1>1, <1>3

\* Words are equal to a number they differ from by a multiple of the size.
LEMMA EqualsUpTo ==
  ASSUME NEW n \in Nat \ {0}, NEW x \in WordSeq(n), NEW number, NEW q \in Int,
         number = Natural(x) + q * Size(n)
  PROVE  Equals(x, number)
  <1>1. Natural(x) \in 0 .. Size(n) - 1 /\ Len(x) = n /\ Size(n) \in Nat \ {0}
    BY NumberFacts, WordSeqFacts, SizeStep
  <1>2. (Natural(x) + q * Size(n)) % Size(n) = Natural(x)
    BY <1>1, ModUnique
  <1>3. QED
    BY <1>1, <1>2 DEF Equals

\* Natural(x) and SignedNumber(x) are numbers that fit.
LEMMA SignedRange ==
  ASSUME NEW n \in Nat \ {0}, NEW x \in WordSeq(n)
  PROVE  /\ SignedNumber(x) \in Int
         /\ SignedFits(n, SignedNumber(x))
         /\ \E e \in {0, 1} : SignedNumber(x) = Natural(x) - e * Size(n)
  <1>1. PICK h \in Nat \ {0} : Size(n) = 2 * h /\ Size(n) \div 2 = h
    BY HalfSize
  <1>2. Natural(x) \in 0 .. 2 * h - 1
    BY <1>1, NumberFacts
  <1>3. Signed(n, x)
    BY NumberFacts
  <1>4. CASE IsNeg(x)
    <2>1. SignedNumber(x) = Natural(x) - 2 * h /\ 2 * Natural(x) >= 2 * h
      BY <1>1, <1>3, <1>4 DEF Signed
    <2>2. SignedNumber(x) = Natural(x) - 1 * Size(n)
      BY <1>1, <2>1
    <2>3. SignedFits(n, SignedNumber(x))
      BY <1>1, <1>2, <2>1 DEF SignedFits
    <2>4. QED
      BY <1>2, <2>1, <2>2, <2>3
  <1>5. CASE ~IsNeg(x)
    <2>1. SignedNumber(x) = Natural(x) /\ ~(2 * Natural(x) >= 2 * h)
      BY <1>1, <1>3, <1>5 DEF Signed
    <2>2. SignedNumber(x) = Natural(x) - 0 * Size(n)
      BY <1>1, <1>2, <2>1
    <2>3. SignedFits(n, SignedNumber(x))
      BY <1>1, <1>2, <2>1 DEF SignedFits
    <2>4. QED
      BY <1>2, <2>1, <2>2, <2>3
  <1>6. QED
    BY <1>4, <1>5

\* A multiple of a size within the size is 0.
LEMMA NoMultiple ==
  ASSUME NEW z \in Nat \ {0}, NEW k \in Int, k * z < z, k * z > 0 - z
  PROVE  k = 0
  <1>1. CASE k >= 1
    <2>1. k * z >= z
      BY <1>1
    <2>2. QED
      BY <2>1
  <1>2. CASE k <= -1
    <2>1. k * z <= 0 - z
      BY <1>2
    <2>2. QED
      BY <2>1
  <1>3. QED
    BY <1>1, <1>2

\* A number that fits is the number of the words it is equal to.
LEMMA SignedUnique ==
  ASSUME NEW n \in Nat \ {0}, NEW x \in WordSeq(n), NEW number \in Int,
         SignedFits(n, number), NEW q \in Int, number = Natural(x) + q * Size(n)
  PROVE  SignedNumber(x) = number
  <1>1. PICK h \in Nat \ {0} : Size(n) = 2 * h /\ Size(n) \div 2 = h
    BY HalfSize
  <1>2. PICK e \in {0, 1} : SignedNumber(x) = Natural(x) - e * Size(n)
    BY SignedRange
  <1>3. SignedNumber(x) \in Int /\ SignedFits(n, SignedNumber(x)) /\ Natural(x) \in Int
    BY SignedRange, NumberFacts
  <1>4. number - SignedNumber(x) = (q + e) * Size(n) /\ q + e \in Int
    <2>1. (q + e) * Size(n) = q * Size(n) + e * Size(n)
      BY <1>1
    <2>2. QED
      BY <1>1, <1>2, <1>3, <2>1
  <1>5. number - SignedNumber(x) < Size(n) /\ number - SignedNumber(x) > 0 - Size(n)
    BY <1>1, <1>3 DEF SignedFits
  <1>6. PICK k \in Int : number - SignedNumber(x) = k * Size(n)
    BY <1>4
  <1>7. Size(n) \in Nat \ {0} /\ k * Size(n) < Size(n) /\ k * Size(n) > 0 - Size(n)
    BY <1>1, <1>5, <1>6
  <1>8. k = 0
    BY <1>7, NoMultiple
  <1>9. number - SignedNumber(x) = 0
    BY <1>6, <1>7, <1>8
  <1>10. QED
    BY <1>3, <1>9

\* An unsigned number is known from any number it equals up to a multiple of its size.
LEMMA UnsignedUnique ==
  ASSUME NEW n \in Nat \ {0}, NEW x \in WordSeq(n), NEW number \in Int,
         UnsignedFits(n, number), NEW q \in Int, number = Natural(x) + q * Size(n)
  PROVE  Natural(x) = number
  <1>1. Natural(x) \in 0 .. Size(n) - 1 /\ Size(n) \in Nat \ {0}
    BY NumberFacts, SizeStep
  <1>2. q * Size(n) < Size(n) /\ q * Size(n) > 0 - Size(n)
    BY <1>1 DEF UnsignedFits
  <1>3. q = 0
    BY <1>1, <1>2, NoMultiple
  <1>4. 0 * Size(n) = 0
    BY <1>1
  <1>5. QED
    BY <1>1, <1>3, <1>4

-----------------------------------------------------------------------------
(* Comparisons.                                                            *)

\* Max is the largest element.
LEMMA MaxIs ==
  ASSUME NEW n \in Nat, NEW T \in SUBSET (1 .. n), T # {}
  PROVE  Max(T) \in T /\ \A y \in T : y <= Max(T)
  <1> DEFINE Has == \E x \in T : \A y \in T : x >= y
             S == {m \in 0 .. n : (\A y \in T : y <= m) => Has}
  <1>1. 0 \in S
    <2>1. \E y \in T : ~(y <= 0)
      <3>1. PICK y : y \in T
        OBVIOUS
      <3>2. ~(y <= 0)
        BY <3>1
      <3>3. QED
        BY <3>1, <3>2
    <2> HIDE DEF Has
    <2>2. QED
      BY <2>1
  <1>2. ASSUME NEW m \in 1 .. n, m - 1 \in S PROVE m \in S
    <2>1. SUFFICES ASSUME \A y \in T : y <= m PROVE Has
      OBVIOUS
    <2>2. CASE m \in T
      BY <2>1, <2>2
    <2>3. CASE m \notin T
      <3>1. \A y \in T : y <= m - 1
        BY <2>1, <2>3
      <3>2. QED
        BY <1>2, <3>1
    <2>4. QED
      BY <2>2, <2>3
  <1> HIDE DEF S
  <1>3. \A m \in 0 .. n : m \in S
    BY <1>1, <1>2, UpTo
  <1>4. Has
    <2>1. n \in S /\ \A y \in T : y <= n
      BY <1>3
    <2>2. QED
      BY <2>1 DEF S
  <1>5. Max(T) \in T /\ \A y \in T : Max(T) >= y
    BY <1>4 DEF Max
  <1>6. QED
    BY <1>5

\* The upper number decides.
LEMMA UpperDecides ==
  ASSUME NEW z \in Nat \ {0}, NEW a \in Int, NEW b \in Int, a < b,
         NEW l \in 0 .. z - 1, NEW r \in 0 .. z - 1
  PROVE  l + a * z < r + b * z
  <1>1. (b - a - 1) * z >= 0
    OBVIOUS
  <1>2. (b - a - 1) * z = b * z - a * z - z
    OBVIOUS
  <1>3. a * z \in Int /\ b * z \in Int
    OBVIOUS
  <1>4. QED
    BY <1>1, <1>2, <1>3

\* The last word and the words below it.
LEMMA LowerSplit ==
  ASSUME NEW n \in Nat \ {0}, NEW x, AreWords(x, n)
  PROVE  /\ Lower(x, n) = Lower(x, n - 1) + x[n] * Size(n - 1)
         /\ Lower(x, n - 1) \in 0 .. Size(n - 1) - 1
         /\ Size(n - 1) \in Nat \ {0} /\ x[n] \in Int /\ n - 1 \in Nat
  <1>1. n - 1 \in Nat /\ (n - 1) + 1 = n
    OBVIOUS
  <1>2. Ints(x, (n - 1) + 1) /\ AreWords(x, n - 1)
    BY <1>1, WordsAreInts DEF AreWords
  <1>3. Lower(x, (n - 1) + 1) = Lower(x, n - 1) + x[(n - 1) + 1] * Size(n - 1)
    BY <1>1, <1>2, LowerStep
  <1>4. Lower(x, n - 1) \in 0 .. Size(n - 1) - 1
    BY <1>1, <1>2, LowerRange
  <1>5. x[n] \in Int
    BY <1>1, <1>2 DEF Ints
  <1>6. QED
    BY <1>1, <1>3, <1>4, <1>5, SizeStep

\* Words that are equal above i are as far apart as the i lowest are.
LEMMA EqualAbove ==
  ASSUME NEW n \in Nat, NEW l, NEW r, AreWords(l, n), AreWords(r, n),
         NEW i \in 0 .. n, \A j \in 1 .. n : j > i => l[j] = r[j]
  PROVE  \A k \in 0 .. n : k >= i => Lower(l, k) - Lower(r, k) = Lower(l, i) - Lower(r, i)
  <1> DEFINE S == {k \in 0 .. n : k >= i => Lower(l, k) - Lower(r, k) = Lower(l, i) - Lower(r, i)}
  <1>1. 0 \in S
    <2>1. 0 >= i => i = 0
      OBVIOUS
    <2>2. QED
      BY <2>1
  <1>2. ASSUME NEW k \in 1 .. n, k - 1 \in S PROVE k \in S
    <2>1. CASE k <= i
      <3>1. k >= i => k = i
        BY <2>1
      <3>2. QED
        BY <3>1
    <2>2. CASE k > i
      <3>1. k \in Nat \ {0} /\ AreWords(l, k) /\ AreWords(r, k)
        BY DEF AreWords
      <3>2. /\ Lower(l, k) = Lower(l, k - 1) + l[k] * Size(k - 1)
            /\ Lower(l, k - 1) \in Int /\ Size(k - 1) \in Int /\ l[k] \in Int
        BY <3>1, LowerSplit
      <3>3. Lower(r, k) = Lower(r, k - 1) + r[k] * Size(k - 1) /\ Lower(r, k - 1) \in Int
        BY <3>1, LowerSplit
      <3>4. l[k] = r[k]
        BY <2>2
      <3>5. Lower(l, k - 1) - Lower(r, k - 1) = Lower(l, i) - Lower(r, i)
        BY <1>2, <2>2
      <3>6. Lower(l, k) - Lower(r, k) = Lower(l, k - 1) - Lower(r, k - 1)
        <4>1. \A a, b, w \in Int : (a + w) - (b + w) = a - b
          OBVIOUS
        <4>2. l[k] * Size(k - 1) \in Int
          BY <3>2
        <4>3. QED
          BY <3>2, <3>3, <3>4, <4>1, <4>2
      <3>7. QED
        BY <3>5, <3>6
    <2>3. QED
      BY <2>1, <2>2
  <1> HIDE DEF S
  <1>3. \A k \in 0 .. n : k \in S
    BY <1>1, <1>2, UpTo
  <1>4. QED
    BY <1>3 DEF S

\* Where the topmost words that differ are l[i] and r[i], they decide.
LEMMA TopDecides ==
  ASSUME NEW n \in Nat, NEW l, NEW r, AreWords(l, n), AreWords(r, n),
         NEW i \in 1 .. n, \A j \in 1 .. n : j > i => l[j] = r[j], l[i] < r[i]
  PROVE  \A k \in 0 .. n : k >= i => Lower(l, k) < Lower(r, k)
  <1>1. i \in Nat \ {0} /\ AreWords(l, i) /\ AreWords(r, i)
    BY DEF AreWords
  <1>2. /\ Lower(l, i) = Lower(l, i - 1) + l[i] * Size(i - 1)
        /\ Lower(l, i - 1) \in 0 .. Size(i - 1) - 1
        /\ Size(i - 1) \in Nat \ {0} /\ l[i] \in Int
    BY <1>1, LowerSplit
  <1>3. /\ Lower(r, i) = Lower(r, i - 1) + r[i] * Size(i - 1)
        /\ Lower(r, i - 1) \in 0 .. Size(i - 1) - 1
        /\ r[i] \in Int
    BY <1>1, LowerSplit
  <1>4. Lower(l, i) < Lower(r, i)
    BY <1>2, <1>3, UpperDecides
  <1>5. \A k \in 0 .. n : k >= i => Lower(l, k) - Lower(r, k) = Lower(l, i) - Lower(r, i)
    <2>1. i \in 0 .. n
      OBVIOUS
    <2>2. QED
      BY <2>1, EqualAbove
  <1>6. ASSUME NEW k \in 0 .. n, k >= i PROVE Lower(l, k) < Lower(r, k)
    <2>1. Lower(l, k) - Lower(r, k) = Lower(l, i) - Lower(r, i)
      BY <1>5, <1>6
    <2>2. AreWords(l, k) /\ AreWords(r, k) /\ k \in Nat
      BY DEF AreWords
    <2>3. Ints(l, k) /\ Ints(r, k) /\ Ints(l, i) /\ Ints(r, i)
      BY <1>1, <2>2, WordsAreInts
    <2>4. Lower(l, k) \in Int /\ Lower(r, k) \in Int /\ Lower(l, i) \in Int /\ Lower(r, i) \in Int
      BY <1>1, <2>2, <2>3, LowerIsInt
    <2>5. QED
      BY <1>4, <2>1, <2>4
  <1>7. QED
    BY <1>6

\* l is less than r, and the word that decides.
LEMMA Decided ==
  ASSUME NEW n \in Nat \ {0}, NEW l \in WordSeq(n), NEW r \in WordSeq(n)
  PROVE  IF Differ(l, r) = {} THEN l = r
         ELSE LET i == Max(Differ(l, r))
              IN  /\ i \in 1 .. n /\ l[i] # r[i]
                  /\ \A j \in 1 .. n : j > i => l[j] = r[j]
  <1>1. Len(l) = n /\ l = [i \in 1 .. n |-> l[i]] /\ r = [i \in 1 .. n |-> r[i]]
    BY WordSeqFacts
  <1>2. Differ(l, r) = {i \in 1 .. n : l[i] # r[i]}
    BY <1>1 DEF Differ
  <1>3. CASE Differ(l, r) = {}
    <2>1. \A i \in 1 .. n : l[i] = r[i]
      BY <1>2, <1>3
    <2>2. [i \in 1 .. n |-> l[i]] = [i \in 1 .. n |-> r[i]]
      BY <2>1
    <2>3. QED
      BY <1>1, <1>3, <2>2, Zenon
  <1>4. CASE Differ(l, r) # {}
    <2>1. Differ(l, r) \in SUBSET (1 .. n)
      BY <1>2
    <2>2. Max(Differ(l, r)) \in Differ(l, r) /\ \A y \in Differ(l, r) : y <= Max(Differ(l, r))
      BY <1>4, <2>1, MaxIs
    <2>3. PICK i : i = Max(Differ(l, r))
      OBVIOUS
    <2>4. i \in 1 .. n /\ l[i] # r[i] /\ \A y \in 1 .. n : l[y] # r[y] => y <= i
      BY <1>2, <2>2, <2>3
    <2>5. \A j \in 1 .. n : j > i => l[j] = r[j]
      BY <2>4
    <2>6. QED
      BY <1>4, <2>3, <2>4, <2>5
  <1>5. QED
    BY <1>3, <1>4

\* The unsigned comparison compares the numbers.
LEMMA UnsignedLt ==
  ASSUME NEW n \in Nat \ {0}, NEW l \in WordSeq(n), NEW r \in WordSeq(n)
  PROVE  gray_u256_lt(l, r) <=> Natural(l) < Natural(r)
  <1>1. Natural(l) = Lower(l, n) /\ Natural(r) = Lower(r, n)
    BY NumberFacts
  <1>2. Lower(l, n) \in Int /\ Lower(r, n) \in Int
    BY <1>1, NumberFacts
  <1>3. AreWords(l, n) /\ AreWords(r, n) /\ n \in 0 .. n /\ n \in Nat
    BY WordSeqFacts
  <1>4. CASE Differ(l, r) = {}
    <2>1. l = r
      BY <1>4, Decided
    <2>2. ~(Natural(l) < Natural(r))
      BY <1>1, <1>2, <2>1
    <2>3. QED
      BY <1>4, <2>2 DEF gray_u256_lt
  <1>5. CASE Differ(l, r) # {}
    <2>1. PICK i \in 1 .. n : /\ i = Max(Differ(l, r)) /\ l[i] # r[i]
                              /\ \A j \in 1 .. n : j > i => l[j] = r[j]
      BY <1>5, Decided
    <2>2. gray_u256_lt(l, r) <=> l[i] < r[i]
      BY <1>5, <2>1 DEF gray_u256_lt
    <2>3. l[i] \in Int /\ r[i] \in Int
      BY WordSeqFacts
    <2>4. CASE l[i] < r[i]
      <3>1. \A k \in 0 .. n : k >= i => Lower(l, k) < Lower(r, k)
        BY <1>3, <2>1, <2>4, TopDecides
      <3>2. Lower(l, n) < Lower(r, n)
        BY <1>3, <3>1
      <3>3. QED
        BY <1>1, <2>2, <2>4, <3>2
    <2>5. CASE r[i] < l[i]
      <3>1. \A j \in 1 .. n : j > i => r[j] = l[j]
        BY <2>1
      <3>2. \A k \in 0 .. n : k >= i => Lower(r, k) < Lower(l, k)
        BY <1>3, <2>5, <3>1, TopDecides
      <3>3. Lower(r, n) < Lower(l, n)
        BY <1>3, <3>2
      <3>4. ~(l[i] < r[i]) /\ ~(Natural(l) < Natural(r))
        BY <1>1, <1>2, <2>3, <2>5, <3>3
      <3>5. QED
        BY <2>2, <3>4
    <2>6. QED
      BY <2>1, <2>3, <2>4, <2>5
  <1>6. QED
    BY <1>4, <1>5

\* So does the signed comparison.
LEMMA SignedLt ==
  ASSUME NEW n \in Nat \ {0}, NEW l \in WordSeq(n), NEW r \in WordSeq(n)
  PROVE  gray_i256_lt(l, r) <=> SignedNumber(l) < SignedNumber(r)
  <1> DEFINE z == Size(n - 1)
             a == AsSigned(l[n])
             b == AsSigned(r[n])
             L == Lower(l, n - 1)
             R == Lower(r, n - 1)
  <1>1. Len(l) = n /\ n \in 1 .. n
    BY WordSeqFacts
  <1>2. AreWords(l, n) /\ AreWords(r, n) /\ l[n] \in Words /\ r[n] \in Words
    BY <1>1, WordSeqFacts
  <1>3. L \in 0 .. z - 1 /\ z \in Nat \ {0} /\ R \in 0 .. z - 1 /\ n - 1 \in Nat
    BY <1>2, LowerSplit
  <1>4. a \in Int /\ b \in Int
    BY <1>2, AsSignedFacts
  <1>5. SignedNumber(l) = L + a * z
    BY NumberFacts DEF Signed
  <1>6. SignedNumber(r) = R + b * z
    BY NumberFacts DEF Signed
  <1>7. a * z \in Int /\ b * z \in Int
    BY <1>3, <1>4
  <1>8. CASE Differ(l, r) = {}
    <2>1. l = r
      BY <1>8, Decided
    <2>2. SignedNumber(l) \in Int
      BY SignedRange
    <2>3. ~(SignedNumber(l) < SignedNumber(r))
      BY <2>1, <2>2
    <2>4. QED
      BY <1>8, <2>3 DEF gray_i256_lt
  <1>9. CASE Differ(l, r) # {}
    <2>1. PICK i \in 1 .. n : /\ i = Max(Differ(l, r)) /\ l[i] # r[i]
                              /\ \A j \in 1 .. n : j > i => l[j] = r[j]
      BY <1>9, Decided
    <2>2. l[i] \in Int /\ r[i] \in Int
      BY WordSeqFacts
    <2>3. CASE i = n
      <3>1. gray_i256_lt(l, r) <=> a < b
        BY <1>1, <1>9, <2>1, <2>3 DEF gray_i256_lt
      <3>2. a # b
        BY <1>2, <2>1, <2>3, RadixFacts DEF AsSigned, Words
      <3> HIDE DEF z, a, b, L, R
      <3>3. a < b => SignedNumber(l) < SignedNumber(r)
        BY <1>3, <1>4, <1>5, <1>6, UpperDecides
      <3>4. b < a => SignedNumber(r) < SignedNumber(l)
        BY <1>3, <1>4, <1>5, <1>6, UpperDecides
      <3>5. SignedNumber(l) \in Int /\ SignedNumber(r) \in Int
        BY SignedRange
      <3>6. QED
        BY <1>4, <3>1, <3>2, <3>3, <3>4, <3>5
    <2>4. CASE i # n
      <3>1. gray_i256_lt(l, r) <=> l[i] < r[i]
        BY <1>1, <1>9, <2>1, <2>4 DEF gray_i256_lt
      <3>2. n - 1 \in 0 .. n /\ n - 1 >= i /\ n \in Nat
        BY <2>1, <2>4
      <3>3. a = b
        BY <1>1, <2>1, <2>4
      <3>4. l[i] < r[i] => L < R
        <4>1. l[i] < r[i] => \A k \in 0 .. n : k >= i => Lower(l, k) < Lower(r, k)
          BY <1>2, <2>1, <3>2, TopDecides
        <4>2. QED
          BY <3>2, <4>1
      <3>5. r[i] < l[i] => R < L
        <4>1. \A j \in 1 .. n : j > i => r[j] = l[j]
          BY <2>1
        <4>2. r[i] < l[i] => \A k \in 0 .. n : k >= i => Lower(r, k) < Lower(l, k)
          BY <1>2, <3>2, <4>1, TopDecides
        <4>3. QED
          BY <3>2, <4>2
      <3> HIDE DEF z, a, b, L, R
      <3>6. L < R <=> SignedNumber(l) < SignedNumber(r)
        BY <1>3, <1>5, <1>6, <1>7, <3>3
      <3>7. l[i] < r[i] <=> L < R
        BY <1>3, <2>1, <2>2, <3>4, <3>5
      <3>8. QED
        BY <3>1, <3>6, <3>7
    <2>5. QED
      BY <2>3, <2>4
  <1>10. QED
    BY <1>8, <1>9

-----------------------------------------------------------------------------
(* Sums of numbers, and whether they fit.                                  *)

\* What checked arithmetic returns: the number, or a panic where it does not
\* fit.
SignedOutcome(n, number, result) ==
  /\ SignedFits(n, number) => result \in WordSeq(n) /\ SignedNumber(result) = number
  /\ ~SignedFits(n, number) => result = Panic
UnsignedOutcome(n, number, result) ==
  /\ UnsignedFits(n, number) => result \in WordSeq(n) /\ Natural(result) = number
  /\ ~UnsignedFits(n, number) => result = Panic

\* Half the size, and the numbers of three words as numbers.
LEMMA SignedInHalf ==
  ASSUME NEW n \in Nat \ {0}, NEW x \in WordSeq(n), NEW h \in Nat \ {0},
         Size(n) = 2 * h, Size(n) \div 2 = h
  PROVE  /\ SignedNumber(x) \in Int /\ 0 - h <= SignedNumber(x) /\ SignedNumber(x) < h
         /\ IsNeg(x) <=> SignedNumber(x) < 0
         /\ SignedNumber(x) = Natural(x) \/ SignedNumber(x) = Natural(x) - 2 * h
         /\ Natural(x) \in Int /\ 0 <= Natural(x) /\ Natural(x) < 2 * h
  <1>1. SignedNumber(x) \in Int /\ SignedFits(n, SignedNumber(x))
    BY SignedRange
  <1>2. Signed(n, x) /\ Natural(x) \in 0 .. 2 * h - 1
    BY NumberFacts
  <1>3. 0 - h <= SignedNumber(x) /\ SignedNumber(x) < h
    BY <1>1 DEF SignedFits
  <1>4. CASE IsNeg(x)
    <2>1. SignedNumber(x) = Natural(x) - 2 * h
      BY <1>2, <1>4 DEF Signed
    <2>2. QED
      BY <1>1, <1>2, <1>3, <1>4, <2>1
  <1>5. CASE ~IsNeg(x)
    <2>1. SignedNumber(x) = Natural(x)
      BY <1>2, <1>5 DEF Signed
    <2>2. QED
      BY <1>1, <1>2, <1>3, <1>5, <2>1
  <1>6. QED
    BY <1>4, <1>5

\* The signed numbers are those between the halves of the range.
LEMMA SignedFitsHalf ==
  ASSUME NEW n \in Nat, NEW h \in Nat \ {0}, Size(n) \div 2 = h, NEW number \in Int
  PROVE  SignedFits(n, number) <=> 0 - h <= number /\ number < h
  BY DEF SignedFits

\* A number is not a panic.
LEMMA NotPanic ==
  ASSUME NEW n \in Nat \ {0}, NEW x \in WordSeq(n)
  PROVE  x # Panic
  BY DEF WordSeq, Panic

\* The signed checked sum is the sum, or panics where that does not fit.
LEMMA SignedAddOutcome ==
  ASSUME NEW n \in Nat \ {0}, NEW l \in WordSeq(n), NEW r \in WordSeq(n)
  PROVE  SignedOutcome(n, SignedNumber(l) + SignedNumber(r), SignedAddChecked(l, r))
  <1> DEFINE s == Add(l, r)
             A == SignedNumber(l)
             B == SignedNumber(r)
             C == SignedNumber(s)
  <1>1. n \in Nat \ {0} /\ s \in WordSeq(n)
    BY AddExact
  <1>2. PICK h \in Nat \ {0} : Size(n) = 2 * h /\ Size(n) \div 2 = h
    BY <1>1, HalfSize
  <1>3. \/ Natural(l) + Natural(r) = Natural(s)
        \/ Natural(l) + Natural(r) = Natural(s) + 2 * h
    <2>1. PICK e \in {0, 1} : Lower(l, n) + Lower(r, n) = Lower(s, n) + e * Size(n)
      BY AddExact
    <2>2. Natural(l) = Lower(l, n) /\ Natural(r) = Lower(r, n) /\ Natural(s) = Lower(s, n)
      BY <1>1, NumberFacts
    <2>3. Natural(s) \in Int
      BY <1>1, NumberFacts
    <2>4. 0 * (2 * h) = 0 /\ 1 * (2 * h) = 2 * h
      OBVIOUS
    <2> HIDE DEF s
    <2>5. Natural(l) + Natural(r) = Natural(s) + e * (2 * h)
      BY <1>2, <2>1, <2>2
    <2>6. CASE e = 0
      BY <2>3, <2>4, <2>5, <2>6
    <2>7. CASE e = 1
      BY <2>4, <2>5, <2>7
    <2>8. QED
      BY <2>6, <2>7
  <1>4. /\ A \in Int /\ 0 - h <= A /\ A < h /\ (IsNeg(l) <=> A < 0)
        /\ A = Natural(l) \/ A = Natural(l) - 2 * h
        /\ Natural(l) \in Int
    BY <1>1, <1>2, SignedInHalf
  <1>5. /\ B \in Int /\ 0 - h <= B /\ B < h /\ (IsNeg(r) <=> B < 0)
        /\ B = Natural(r) \/ B = Natural(r) - 2 * h
        /\ Natural(r) \in Int
    BY <1>1, <1>2, SignedInHalf
  <1>6. /\ C \in Int /\ 0 - h <= C /\ C < h /\ (IsNeg(s) <=> C < 0)
        /\ C = Natural(s) \/ C = Natural(s) - 2 * h
        /\ Natural(s) \in Int
    BY <1>1, <1>2, SignedInHalf
  <1>7. SignedFits(n, A + B) <=> 0 - h <= A + B /\ A + B < h
    <2>1. A + B \in Int
      BY <1>4, <1>5
    <2>2. QED
      BY <1>1, <1>2, <2>1, SignedFitsHalf
  <1>8. SignedAddChecked(l, r) = IF (IsNeg(l) <=> IsNeg(r)) /\ ~(IsNeg(s) <=> IsNeg(l)) THEN Panic ELSE s
    BY DEF SignedAddChecked, IsNeg
  <1> HIDE DEF s, A, B, C
  <1>9. A + B = C \/ A + B = C + 2 * h \/ A + B = C - 2 * h
    BY <1>3, <1>4, <1>5, <1>6
  <1>10. CASE A + B = C
    <2>1. SignedFits(n, A + B)
      BY <1>6, <1>7, <1>10
    <2>2. ~((IsNeg(l) <=> IsNeg(r)) /\ ~(IsNeg(s) <=> IsNeg(l)))
      BY <1>4, <1>5, <1>6, <1>10
    <2>3. SignedAddChecked(l, r) = s
      BY <1>8, <2>2
    <2>4. QED
      BY <1>1, <1>10, <2>1, <2>3 DEF SignedOutcome, A, B, C
  <1>11. CASE A + B # C
    <2>1. ~SignedFits(n, A + B)
      BY <1>4, <1>5, <1>6, <1>7, <1>9, <1>11
    <2>2. (IsNeg(l) <=> IsNeg(r)) /\ ~(IsNeg(s) <=> IsNeg(l))
      BY <1>4, <1>5, <1>6, <1>9, <1>11
    <2>3. SignedAddChecked(l, r) = Panic
      BY <1>8, <2>2
    <2>4. QED
      BY <2>1, <2>3 DEF SignedOutcome, A, B
  <1>12. QED
    BY <1>10, <1>11

\* So is the signed checked difference,
LEMMA SignedSubOutcome ==
  ASSUME NEW n \in Nat \ {0}, NEW l \in WordSeq(n), NEW r \in WordSeq(n)
  PROVE  SignedOutcome(n, SignedNumber(l) - SignedNumber(r), SignedSubChecked(l, r))
  <1> DEFINE s == Sub(l, r)
             A == SignedNumber(l)
             B == SignedNumber(r)
             C == SignedNumber(s)
  <1>1. n \in Nat \ {0} /\ s \in WordSeq(n)
    BY SubExact
  <1>2. PICK h \in Nat \ {0} : Size(n) = 2 * h /\ Size(n) \div 2 = h
    BY <1>1, HalfSize
  <1>3. \/ Natural(l) - Natural(r) = Natural(s)
        \/ Natural(l) - Natural(r) = Natural(s) - 2 * h
    <2>1. PICK e \in {0, 1} : Lower(l, n) - Lower(r, n) = Lower(s, n) - e * Size(n)
      BY SubExact
    <2>2. Natural(l) = Lower(l, n) /\ Natural(r) = Lower(r, n) /\ Natural(s) = Lower(s, n)
      BY <1>1, NumberFacts
    <2>3. Natural(s) \in Int
      BY <1>1, NumberFacts
    <2>4. 0 * (2 * h) = 0 /\ 1 * (2 * h) = 2 * h
      OBVIOUS
    <2> HIDE DEF s
    <2>5. Natural(l) - Natural(r) = Natural(s) - e * (2 * h)
      BY <1>2, <2>1, <2>2
    <2>6. CASE e = 0
      BY <2>3, <2>4, <2>5, <2>6
    <2>7. CASE e = 1
      BY <2>4, <2>5, <2>7
    <2>8. QED
      BY <2>6, <2>7
  <1>4. /\ A \in Int /\ 0 - h <= A /\ A < h /\ (IsNeg(l) <=> A < 0)
        /\ A = Natural(l) \/ A = Natural(l) - 2 * h
        /\ Natural(l) \in Int
    BY <1>1, <1>2, SignedInHalf
  <1>5. /\ B \in Int /\ 0 - h <= B /\ B < h /\ (IsNeg(r) <=> B < 0)
        /\ B = Natural(r) \/ B = Natural(r) - 2 * h
        /\ Natural(r) \in Int
    BY <1>1, <1>2, SignedInHalf
  <1>6. /\ C \in Int /\ 0 - h <= C /\ C < h /\ (IsNeg(s) <=> C < 0)
        /\ C = Natural(s) \/ C = Natural(s) - 2 * h
        /\ Natural(s) \in Int
    BY <1>1, <1>2, SignedInHalf
  <1>7. SignedFits(n, A - B) <=> 0 - h <= A - B /\ A - B < h
    <2>1. A - B \in Int
      BY <1>4, <1>5
    <2>2. QED
      BY <1>1, <1>2, <2>1, SignedFitsHalf
  <1>8. SignedSubChecked(l, r)
          = IF ~(IsNeg(l) <=> IsNeg(r)) /\ ~(IsNeg(s) <=> IsNeg(l)) THEN Panic ELSE s
    BY DEF SignedSubChecked, IsNeg
  <1> HIDE DEF s, A, B, C
  <1>9. A - B = C \/ A - B = C + 2 * h \/ A - B = C - 2 * h
    BY <1>3, <1>4, <1>5, <1>6
  <1>10. CASE A - B = C
    <2>1. SignedFits(n, A - B)
      BY <1>6, <1>7, <1>10
    <2>2. ~(~(IsNeg(l) <=> IsNeg(r)) /\ ~(IsNeg(s) <=> IsNeg(l)))
      BY <1>4, <1>5, <1>6, <1>10
    <2>3. SignedSubChecked(l, r) = s
      BY <1>8, <2>2
    <2>4. QED
      BY <1>1, <1>10, <2>1, <2>3 DEF SignedOutcome, A, B, C
  <1>11. CASE A - B # C
    <2>1. ~SignedFits(n, A - B)
      BY <1>4, <1>5, <1>6, <1>7, <1>9, <1>11
    <2>2. ~(IsNeg(l) <=> IsNeg(r)) /\ ~(IsNeg(s) <=> IsNeg(l))
      BY <1>4, <1>5, <1>6, <1>9, <1>11
    <2>3. SignedSubChecked(l, r) = Panic
      BY <1>8, <2>2
    <2>4. QED
      BY <2>1, <2>3 DEF SignedOutcome, A, B
  <1>12. QED
    BY <1>10, <1>11

\* and the checked negative,
LEMMA NegOutcome ==
  ASSUME NEW n \in {2, 4}, NEW v \in WordSeq(n)
  PROVE  SignedOutcome(n, -SignedNumber(v), NegChecked(v))
  <1> DEFINE s == Neg(v)
             A == SignedNumber(v)
             C == SignedNumber(s)
  <1>1. n \in Nat \ {0} /\ s \in WordSeq(n)
    BY NegExact
  <1>2. PICK h \in Nat \ {0} : Size(n) = 2 * h /\ Size(n) \div 2 = h
    BY <1>1, HalfSize
  <1>3. 0 - Natural(v) = Natural(s) \/ 0 - Natural(v) = Natural(s) - 2 * h
    <2>1. PICK e \in {0, 1} : 0 - Lower(v, n) = Lower(s, n) - e * Size(n)
      BY NegExact
    <2>2. Natural(v) = Lower(v, n) /\ Natural(s) = Lower(s, n) /\ Natural(s) \in Int
      BY <1>1, NumberFacts
    <2>3. 0 * (2 * h) = 0 /\ 1 * (2 * h) = 2 * h
      OBVIOUS
    <2> HIDE DEF s
    <2>4. 0 - Natural(v) = Natural(s) - e * (2 * h)
      BY <1>2, <2>1, <2>2
    <2>5. CASE e = 0
      BY <2>2, <2>3, <2>4, <2>5
    <2>6. CASE e = 1
      BY <2>3, <2>4, <2>6
    <2>7. QED
      BY <2>5, <2>6
  <1>4. /\ A \in Int /\ 0 - h <= A /\ A < h /\ (IsNeg(v) <=> A < 0)
        /\ A = Natural(v) \/ A = Natural(v) - 2 * h
        /\ Natural(v) \in Int
    BY <1>1, <1>2, SignedInHalf
  <1>5. /\ C \in Int /\ 0 - h <= C /\ C < h /\ (IsNeg(s) <=> C < 0)
        /\ C = Natural(s) \/ C = Natural(s) - 2 * h
        /\ Natural(s) \in Int
    BY <1>1, <1>2, SignedInHalf
  <1>6. SignedFits(n, -A) <=> 0 - h <= -A /\ -A < h
    <2>1. -A \in Int
      BY <1>4
    <2>2. QED
      BY <1>1, <1>2, <2>1, SignedFitsHalf
  <1>7. NegChecked(v) = IF IsNeg(v) /\ IsNeg(s) THEN Panic ELSE s
    BY DEF NegChecked
  <1> HIDE DEF s, A, C
  <1>8. -A = C \/ -A = C + 2 * h \/ -A = C - 2 * h
    BY <1>3, <1>4, <1>5
  <1>9. CASE -A = C
    <2>1. SignedFits(n, -A) /\ ~(IsNeg(v) /\ IsNeg(s))
      BY <1>4, <1>5, <1>6, <1>9
    <2>2. QED
      BY <1>1, <1>7, <1>9, <2>1 DEF SignedOutcome, A, C
  <1>10. CASE -A # C
    <2>1. ~SignedFits(n, -A) /\ IsNeg(v) /\ IsNeg(s)
      BY <1>4, <1>5, <1>6, <1>8, <1>10
    <2>2. QED
      BY <1>7, <2>1 DEF SignedOutcome, A
  <1>11. QED
    BY <1>9, <1>10

\* and the unsigned checked sum,
LEMMA UnsignedAddOutcome ==
  ASSUME NEW n \in Nat \ {0}, NEW l \in WordSeq(n), NEW r \in WordSeq(n)
  PROVE  UnsignedOutcome(n, Natural(l) + Natural(r), UnsignedAddChecked(l, r))
  <1> DEFINE s == Add(l, r)
  <1>1. n \in Nat \ {0} /\ s \in WordSeq(n)
    BY AddExact
  <1>2. PICK z \in Nat \ {0} : z = Size(n)
    BY <1>1, SizeStep
  <1>3. \/ Natural(l) + Natural(r) = Natural(s)
        \/ Natural(l) + Natural(r) = Natural(s) + z
    <2>1. PICK e \in {0, 1} : Lower(l, n) + Lower(r, n) = Lower(s, n) + e * Size(n)
      BY AddExact
    <2>2. Natural(l) = Lower(l, n) /\ Natural(r) = Lower(r, n) /\ Natural(s) = Lower(s, n)
      BY <1>1, NumberFacts
    <2>3. Natural(s) \in Int
      BY <1>1, NumberFacts
    <2>4. 0 * z = 0 /\ 1 * z = z
      OBVIOUS
    <2> HIDE DEF s
    <2>5. Natural(l) + Natural(r) = Natural(s) + e * z
      BY <1>2, <2>1, <2>2
    <2>6. CASE e = 0
      BY <2>3, <2>4, <2>5, <2>6
    <2>7. CASE e = 1
      BY <2>4, <2>5, <2>7
    <2>8. QED
      BY <2>6, <2>7
  <1>4. /\ Natural(l) \in Int /\ 0 <= Natural(l) /\ Natural(l) < z
        /\ Natural(r) \in Int /\ 0 <= Natural(r) /\ Natural(r) < z
        /\ Natural(s) \in Int /\ 0 <= Natural(s) /\ Natural(s) < z
    BY <1>1, <1>2, NumberFacts
  <1>5. gray_u256_lt(s, l) <=> Natural(s) < Natural(l)
    BY <1>1, UnsignedLt
  <1>6. UnsignedAddChecked(l, r) = IF gray_u256_lt(s, l) THEN Panic ELSE s
    BY DEF UnsignedAddChecked
  <1>7. UnsignedFits(n, Natural(l) + Natural(r))
          <=> 0 <= Natural(l) + Natural(r) /\ Natural(l) + Natural(r) < z
    BY <1>2 DEF UnsignedFits
  <1> HIDE DEF s
  <1>8. CASE Natural(l) + Natural(r) = Natural(s)
    <2>1. UnsignedFits(n, Natural(l) + Natural(r)) /\ ~gray_u256_lt(s, l)
      BY <1>4, <1>5, <1>7, <1>8
    <2>2. QED
      BY <1>1, <1>6, <1>8, <2>1 DEF UnsignedOutcome
  <1>9. CASE Natural(l) + Natural(r) = Natural(s) + z
    <2>1. ~UnsignedFits(n, Natural(l) + Natural(r)) /\ gray_u256_lt(s, l)
      BY <1>4, <1>5, <1>7, <1>9
    <2>2. QED
      BY <1>6, <2>1 DEF UnsignedOutcome
  <1>10. QED
    BY <1>3, <1>8, <1>9

\* and the unsigned checked difference.
LEMMA UnsignedSubOutcome ==
  ASSUME NEW n \in Nat \ {0}, NEW l \in WordSeq(n), NEW r \in WordSeq(n)
  PROVE  UnsignedOutcome(n, Natural(l) - Natural(r), UnsignedSubChecked(l, r))
  <1> DEFINE s == Sub(l, r)
  <1>1. n \in Nat \ {0} /\ s \in WordSeq(n)
    BY SubExact
  <1>2. PICK z \in Nat \ {0} : z = Size(n)
    BY <1>1, SizeStep
  <1>3. \/ Natural(l) - Natural(r) = Natural(s)
        \/ Natural(l) - Natural(r) = Natural(s) - z
    <2>1. PICK e \in {0, 1} : Lower(l, n) - Lower(r, n) = Lower(s, n) - e * Size(n)
      BY SubExact
    <2>2. Natural(l) = Lower(l, n) /\ Natural(r) = Lower(r, n) /\ Natural(s) = Lower(s, n)
      BY <1>1, NumberFacts
    <2>3. Natural(s) \in Int
      BY <1>1, NumberFacts
    <2>4. 0 * z = 0 /\ 1 * z = z
      OBVIOUS
    <2> HIDE DEF s
    <2>5. Natural(l) - Natural(r) = Natural(s) - e * z
      BY <1>2, <2>1, <2>2
    <2>6. CASE e = 0
      BY <2>3, <2>4, <2>5, <2>6
    <2>7. CASE e = 1
      BY <2>4, <2>5, <2>7
    <2>8. QED
      BY <2>6, <2>7
  <1>4. /\ Natural(l) \in Int /\ 0 <= Natural(l) /\ Natural(l) < z
        /\ Natural(r) \in Int /\ 0 <= Natural(r) /\ Natural(r) < z
        /\ Natural(s) \in Int /\ 0 <= Natural(s) /\ Natural(s) < z
    BY <1>1, <1>2, NumberFacts
  <1>5. gray_u256_lt(l, r) <=> Natural(l) < Natural(r)
    BY <1>1, UnsignedLt
  <1>6. UnsignedSubChecked(l, r) = IF gray_u256_lt(l, r) THEN Panic ELSE s
    BY DEF UnsignedSubChecked
  <1>7. UnsignedFits(n, Natural(l) - Natural(r))
          <=> 0 <= Natural(l) - Natural(r) /\ Natural(l) - Natural(r) < z
    BY <1>2 DEF UnsignedFits
  <1> HIDE DEF s
  <1>8. CASE Natural(l) - Natural(r) = Natural(s)
    <2>1. UnsignedFits(n, Natural(l) - Natural(r)) /\ ~gray_u256_lt(l, r)
      BY <1>4, <1>5, <1>7, <1>8
    <2>2. QED
      BY <1>1, <1>6, <1>8, <2>1 DEF UnsignedOutcome
  <1>9. CASE Natural(l) - Natural(r) = Natural(s) - z
    <2>1. ~UnsignedFits(n, Natural(l) - Natural(r)) /\ gray_u256_lt(l, r)
      BY <1>4, <1>5, <1>7, <1>9
    <2>2. QED
      BY <1>6, <2>1 DEF UnsignedOutcome
  <1>10. QED
    BY <1>3, <1>8, <1>9

-----------------------------------------------------------------------------
(* Arithmetic without checks, up to a multiple of the size.                *)

\* The words x are a, but for a multiple of the size of n words.
Near(n, x, a) == a \in Int /\ \E q \in Int : a = Natural(x) + q * Size(n)

\* What words are near, they equal modulo their size.
LEMMA NearEquals ==
  ASSUME NEW n \in Nat \ {0}, NEW x \in WordSeq(n), NEW a, Near(n, x, a)
  PROVE  Equals(x, a)
  <1>1. PICK q \in Int : a = Natural(x) + q * Size(n)
    BY DEF Near
  <1>2. QED
    BY <1>1, EqualsUpTo

\* Words are near what they stand for, with and without a sign.
LEMMA NearNatural ==
  ASSUME NEW n \in Nat \ {0}, NEW x \in WordSeq(n)
  PROVE  Near(n, x, Natural(x)) /\ Near(n, x, SignedNumber(x))
  <1>1. Natural(x) \in Int /\ Size(n) \in Int
    BY NumberFacts, SizeStep
  <1>2. Natural(x) = Natural(x) + 0 * Size(n)
    BY <1>1
  <1>3. PICK e \in {0, 1} : SignedNumber(x) = Natural(x) - e * Size(n)
    BY SignedRange, Zenon
  <1>4. SignedNumber(x) \in Int
    BY SignedRange
  <1>5. Natural(x) - e * Size(n) = Natural(x) + (-e) * Size(n) /\ -e \in Int
    BY <1>1
  <1>6. Near(n, x, Natural(x))
    BY <1>1, <1>2, 0 \in Int DEF Near
  <1>7. \E q \in Int : SignedNumber(x) = Natural(x) + q * Size(n)
    BY <1>3, <1>5, Zenon
  <1>8. QED
    BY <1>4, <1>6, <1>7 DEF Near

\* The same for Number.
LEMMA NearNumber ==
  ASSUME NEW n \in Nat \ {0}, NEW x \in WordSeq(n), NEW signed \in BOOLEAN
  PROVE  Near(n, x, Number(signed, x))
  <1>1. Near(n, x, Number(TRUE, x))
    BY NumberIs, NearNatural, Zenon
  <1>2. Near(n, x, Number(FALSE, x))
    BY NumberIs, NearNatural, Zenon
  <1>3. signed = TRUE \/ signed = FALSE
    OBVIOUS
  <1>4. QED
    BY <1>1, <1>2, <1>3, Zenon

\* Sums of numbers that are near.
LEMMA SumIsNear ==
  ASSUME NEW n \in Nat \ {0}, NEW x \in WordSeq(n), NEW y, NEW w, NEW a, NEW b, NEW e \in Int,
         Near(n, y, a), Near(n, w, b), Natural(y) \in Int, Natural(w) \in Int,
         Natural(y) + Natural(w) = Natural(x) + e * Size(n)
  PROVE  Near(n, x, a + b)
  <1>1. PICK q \in Int : a = Natural(y) + q * Size(n)
    BY DEF Near
  <1>2. PICK p \in Int : b = Natural(w) + p * Size(n)
    BY DEF Near
  <1>3. Natural(x) \in Int /\ Size(n) \in Int /\ a \in Int /\ b \in Int
    BY NumberFacts, SizeStep DEF Near
  <1>4. (q + p + e) * Size(n) = q * Size(n) + p * Size(n) + e * Size(n)
    BY <1>3
  <1>5. a + b = Natural(x) + (q + p + e) * Size(n) /\ q + p + e \in Int
    BY <1>1, <1>2, <1>3, <1>4
  <1>6. QED
    BY <1>3, <1>5 DEF Near

\* x is l less r: where l is nearly a and r nearly b.
LEMMA DifferenceIsNear ==
  ASSUME NEW n \in Nat \ {0}, NEW x \in WordSeq(n), NEW y, NEW w, NEW a, NEW b, NEW e \in Int,
         Near(n, y, a), Near(n, w, b), Natural(y) \in Int, Natural(w) \in Int,
         Natural(y) - Natural(w) = Natural(x) - e * Size(n)
  PROVE  Near(n, x, a - b)
  <1>1. PICK q \in Int : a = Natural(y) + q * Size(n)
    BY DEF Near
  <1>2. PICK p \in Int : b = Natural(w) + p * Size(n)
    BY DEF Near
  <1>3. Natural(x) \in Int /\ Size(n) \in Int /\ a \in Int /\ b \in Int
    BY NumberFacts, SizeStep DEF Near
  <1>4. (q - p - e) * Size(n) = q * Size(n) - p * Size(n) - e * Size(n)
    BY <1>3
  <1>5. a - b = Natural(x) + (q - p - e) * Size(n) /\ q - p - e \in Int
    BY <1>1, <1>2, <1>3, <1>4
  <1>6. QED
    BY <1>3, <1>5 DEF Near

\* Add adds what its operands are near,
LEMMA AddNear ==
  ASSUME NEW n \in Nat \ {0}, NEW l \in WordSeq(n), NEW r \in WordSeq(n), NEW a, NEW b,
         Near(n, l, a), Near(n, r, b)
  PROVE  Near(n, Add(l, r), a + b)
  <1>1. n \in Nat \ {0} /\ Add(l, r) \in WordSeq(n)
    BY AddExact
  <1>2. PICK e \in {0, 1} : Lower(l, n) + Lower(r, n) = Lower(Add(l, r), n) + e * Size(n)
    BY AddExact
  <1>3. /\ Natural(l) = Lower(l, n) /\ Natural(r) = Lower(r, n)
        /\ Natural(Add(l, r)) = Lower(Add(l, r), n)
        /\ Natural(l) \in Int /\ Natural(r) \in Int
    BY <1>1, NumberFacts
  <1>4. e \in Int /\ Natural(l) + Natural(r) = Natural(Add(l, r)) + e * Size(n)
    BY <1>2, <1>3
  <1>5. QED
    BY <1>1, <1>3, <1>4, SumIsNear

\* Sub subtracts it,
LEMMA SubNear ==
  ASSUME NEW n \in Nat \ {0}, NEW l \in WordSeq(n), NEW r \in WordSeq(n), NEW a, NEW b,
         Near(n, l, a), Near(n, r, b)
  PROVE  Near(n, Sub(l, r), a - b)
  <1>1. n \in Nat \ {0} /\ Sub(l, r) \in WordSeq(n)
    BY SubExact
  <1>2. PICK e \in {0, 1} : Lower(l, n) - Lower(r, n) = Lower(Sub(l, r), n) - e * Size(n)
    BY SubExact
  <1>3. /\ Natural(l) = Lower(l, n) /\ Natural(r) = Lower(r, n)
        /\ Natural(Sub(l, r)) = Lower(Sub(l, r), n)
        /\ Natural(l) \in Int /\ Natural(r) \in Int
    BY <1>1, NumberFacts
  <1>4. e \in Int /\ Natural(l) - Natural(r) = Natural(Sub(l, r)) - e * Size(n)
    BY <1>2, <1>3
  <1>5. QED
    BY <1>1, <1>3, <1>4, DifferenceIsNear

\* and Neg negates it.
LEMMA NegNear ==
  ASSUME NEW n \in Nat \ {0}, NEW v \in WordSeq(n), NEW a, Near(n, v, a)
  PROVE  Near(n, Neg(v), -a)
  <1>1. n \in Nat \ {0} /\ Neg(v) \in WordSeq(n)
    BY NegExact
  <1>2. PICK e \in {0, 1} : 0 - Lower(v, n) = Lower(Neg(v), n) - e * Size(n)
    BY NegExact
  <1>3. /\ Nought(n) \in WordSeq(n) /\ Lower(Nought(n), n) = 0
    BY <1>1, LowerNought
  <1>4. Natural(Nought(n)) = 0
    BY <1>1, <1>3, NumberFacts
  <1>5. /\ Natural(v) = Lower(v, n) /\ Natural(Neg(v)) = Lower(Neg(v), n)
        /\ Natural(v) \in Int
    BY <1>1, NumberFacts
  <1>6. e \in Int /\ Natural(Nought(n)) - Natural(v) = Natural(Neg(v)) - e * Size(n)
    BY <1>2, <1>4, <1>5
  <1>7. Near(n, Nought(n), 0)
    BY <1>1, <1>3, <1>4, NearNatural
  <1>8. Near(n, Neg(v), 0 - a)
    BY <1>1, <1>4, <1>5, <1>6, <1>7, 0 \in Int, DifferenceIsNear
  <1>9. a \in Int
    BY DEF Near
  <1>10. 0 - a = -a
    BY <1>9
  <1>11. QED
    BY <1>8, <1>10

-----------------------------------------------------------------------------
(* Numbers of one word.                                                    *)

\* A number of one word.
LEMMA OneWordFacts ==
  ASSUME NEW x \in WordSeq(1)
  PROVE  /\ Natural(x) = x[1] /\ SignedNumber(x) = AsSigned(x[1]) /\ Size(1) = Radix
         /\ x[1] \in Words
  <1>1. Size(0) = 1 /\ Size(0 + 1) = Radix * Size(0) /\ 0 + 1 = 1 /\ 1 - 1 = 0
    BY SizeStep, 0 \in Nat
  <1>2. Size(1) = Radix
    BY <1>1, RadixFacts
  <1>3. x[1] \in Words /\ AreWords(x, 1) /\ 1 \in Nat \ {0} /\ Ints(x, 0)
    BY WordSeqFacts DEF Ints
  <1>4. Lower(x, 0) = 0
    BY <1>3, LowerValue, 0 \in Nat
  <1>5. Lower(x, 1) = Lower(x, 0) + x[1] * Size(0) /\ x[1] \in Int
    BY <1>1, <1>3, LowerSplit
  <1>6. Natural(x) = x[1]
    <2>1. Natural(x) = Lower(x, 1)
      BY <1>3, NumberFacts
    <2>2. QED
      BY <1>1, <1>4, <1>5, <2>1
  <1>7. SignedNumber(x) = AsSigned(x[1])
    <2>1. SignedNumber(x) = Lower(x, 0) + AsSigned(x[1]) * Size(0)
      BY <1>1, <1>3, NumberFacts DEF Signed
    <2>2. AsSigned(x[1]) \in Int
      BY <1>3, AsSignedFacts
    <2>3. QED
      BY <1>1, <1>4, <2>1, <2>2
  <1>8. QED
    BY <1>2, <1>3, <1>6, <1>7

\* The tests of runtime.h for numbers of one word.
LEMMA AddOverflows ==
  ASSUME NEW l \in Words, NEW r \in Words
  PROVE  /\ gray_add_overflows_i64(AsSigned(l), AsSigned(r))
              <=> ~SignedFits(1, AsSigned(l) + AsSigned(r))
         /\ gray_sub_overflows_i64(AsSigned(l), AsSigned(r))
              <=> ~SignedFits(1, AsSigned(l) - AsSigned(r))
  <1> DEFINE A == AsSigned(l)
             B == AsSigned(r)
  <1>1. PICK h \in Nat : Radix = 2 * h /\ Radix \div 2 = h
    BY RadixFacts
  <1>2. Size(1) = Radix
    <2>1. Size(0) = 1 /\ Size(0 + 1) = Radix * Size(0) /\ 0 + 1 = 1
      BY SizeStep, 0 \in Nat
    <2>2. QED
      BY <2>1, RadixFacts
  <1>3. h >= 2
    BY <1>1, RadixFacts
  <1>4. A \in Int /\ 0 - h <= A /\ A < h /\ B \in Int /\ 0 - h <= B /\ B < h
    BY <1>1, <1>3, RadixFacts DEF AsSigned, Words
  <1> HIDE DEF A, B
  <1>5. \A k \in Int : 0 - 2 * h <= k /\ k < 2 * h =>
           /\ AsSigned(Wrap(k)) \in Int
           /\ 0 - h <= k /\ k < h => AsSigned(Wrap(k)) = k
           /\ k >= h => AsSigned(Wrap(k)) = k - 2 * h
           /\ k < 0 - h => AsSigned(Wrap(k)) = k + 2 * h
    <2>1. SUFFICES ASSUME NEW k \in Int, 0 - 2 * h <= k, k < 2 * h
                   PROVE  /\ AsSigned(Wrap(k)) \in Int
                          /\ 0 - h <= k /\ k < h => AsSigned(Wrap(k)) = k
                          /\ k >= h => AsSigned(Wrap(k)) = k - 2 * h
                          /\ k < 0 - h => AsSigned(Wrap(k)) = k + 2 * h
      OBVIOUS
    <2>2. CASE k >= 0
      <3>1. k \in Words
        BY <1>1, <2>1, <2>2 DEF Words
      <3>2. Wrap(k) = k
        BY <3>1, WrapNear
      <3>3. QED
        BY <1>1, <1>3, <2>1, <2>2, <3>2 DEF AsSigned
    <2>3. CASE k < 0
      <3>1. k + Radix \in Words
        BY <1>1, <2>1, <2>3 DEF Words
      <3>2. Wrap((k + Radix) - Radix) = k + Radix
        BY <3>1, WrapNear
      <3>3. Wrap(k) = k + 2 * h
        BY <1>1, <3>2
      <3>4. QED
        BY <1>1, <1>3, <2>1, <2>3, <3>3 DEF AsSigned
    <2>4. QED
      BY <2>2, <2>3
  <1>6. gray_add_overflows_i64(A, B) <=> ~SignedFits(1, A + B)
    <2>1. PICK k \in Int : k = A + B
      BY <1>4
    <2>2. PICK c \in Int : /\ c = AsSigned(Wrap(k))
                           /\ 0 - h <= k /\ k < h => c = k
                           /\ k >= h => c = k - 2 * h
                           /\ k < 0 - h => c = k + 2 * h
      BY <1>4, <1>5, <2>1
    <2>3. SignedFits(1, k) <=> 0 - h <= k /\ k < h
      BY <1>1, <1>2 DEF SignedFits
    <2>4. gray_add_overflows_i64(A, B) <=> ~(A < 0 <=> c < 0) /\ ~(B < 0 <=> c < 0)
      BY <2>1, <2>2 DEF gray_add_overflows_i64
    <2>5. QED
      BY <1>3, <1>4, <2>1, <2>2, <2>3, <2>4
  <1>7. gray_sub_overflows_i64(A, B) <=> ~SignedFits(1, A - B)
    <2>1. PICK k \in Int : k = A - B
      BY <1>4
    <2>2. PICK c \in Int : /\ c = AsSigned(Wrap(k))
                           /\ 0 - h <= k /\ k < h => c = k
                           /\ k >= h => c = k - 2 * h
                           /\ k < 0 - h => c = k + 2 * h
      BY <1>4, <1>5, <2>1
    <2>3. SignedFits(1, k) <=> 0 - h <= k /\ k < h
      BY <1>1, <1>2 DEF SignedFits
    <2>4. gray_sub_overflows_i64(A, B) <=> ~(A < 0 <=> B < 0) /\ ~(A < 0 <=> c < 0)
      BY <2>1, <2>2 DEF gray_sub_overflows_i64
    <2>5. QED
      BY <1>3, <1>4, <2>1, <2>2, <2>3, <2>4
  <1>8. QED
    BY <1>6, <1>7 DEF A, B

-----------------------------------------------------------------------------
(* Products of words.                                                      *)

\* The largest product of two numbers below M.
LEMMA ProductBound ==
  ASSUME NEW M \in Nat \ {0}, NEW l \in 0 .. M - 1, NEW r \in 0 .. M - 1
  PROVE  l * r \in Nat /\ l * r <= M * M - 2 * M + 1
  <1>1. (M - 1 - l) * r >= 0 /\ (M - 1) * (M - 1 - r) >= 0
    OBVIOUS
  <1>2. (M - 1 - l) * r = M * r - r - l * r
    OBVIOUS
  <1>3. (M - 1) * (M - 1 - r) = M * M - 2 * M + 1 - M * r + r
    OBVIOUS
  <1>4. l * r \in Int /\ M * r \in Int /\ M * M \in Int /\ l * r >= 0
    OBVIOUS
  <1>5. QED
    BY <1>1, <1>2, <1>3, <1>4

\* A number below M * N over M is below N.
LEMMA QuotientBound ==
  ASSUME NEW M \in Nat \ {0}, NEW N \in Nat, NEW a \in Int, NEW q \in Int, NEW t \in 0 .. M - 1,
         a = t + M * q, a < M * N, a >= 0
  PROVE  q \in 0 .. N - 1
  <1>1. q >= 0
    <2>1. SUFFICES ASSUME q <= -1 PROVE FALSE
      OBVIOUS
    <2>2. M * q <= 0 - M
      BY <2>1
    <2>3. M * q \in Int
      OBVIOUS
    <2>4. QED
      BY <2>2, <2>3
  <1>2. q < N
    <2>1. SUFFICES ASSUME q >= N PROVE FALSE
      OBVIOUS
    <2>2. M * (q - N) >= 0
      BY <2>1
    <2>3. M * (q - N) = M * q - M * N
      OBVIOUS
    <2>4. M * q \in Int /\ M * N \in Int
      OBVIOUS
    <2>5. QED
      BY <2>2, <2>3, <2>4
  <1>3. QED
    BY <1>1, <1>2

\* The halves of words: what HighWord computes is the upper word.
LEMMA HighWordExact ==
  ASSUME NEW l \in Words, NEW r \in Words
  PROVE  HighWord(l, r) \in Words /\ l * r = Wrap(l * r) + Radix * HighWord(l, r)
  <1> DEFINE H == Half
             a0 == l % H
             a1 == l \div H
             b0 == r % H
             b1 == r \div H
             p == (a0 * b0) \div H
             q == (a0 * b0) % H
             middle == a0 * b1 + p
             md == middle \div H
             mm == middle % H
             carry == (mm + a1 * b0) \div H
             t == (mm + a1 * b0) % H
             high == a1 * b1 + md + carry
             low == q + H * t
  <1>1. H \in Nat \ {0} /\ Radix = H * H /\ l \in Int /\ r \in Int /\ H >= 2
    BY RadixFacts DEF Words
  <1>2. a0 \in 0 .. H - 1 /\ a1 \in Int /\ a0 = l - H * a1
    BY <1>1, DivMod
  <1>3. b0 \in 0 .. H - 1 /\ b1 \in Int /\ b0 = r - H * b1
    BY <1>1, DivMod
  <1>4. HighWord(l, r) = Wrap(high)
    BY DEF HighWord
  <1> HIDE DEF H, a0, a1, b0, b1
  <1>5. a0 * b0 \in Int /\ a0 * b1 \in Int /\ a1 * b0 \in Int /\ a1 * b1 \in Int
    BY <1>2, <1>3
  <1>6. q \in 0 .. H - 1 /\ p \in Int /\ q = a0 * b0 - H * p
    BY <1>1, <1>5, DivMod
  <1> HIDE DEF p, q
  <1>7. middle \in Int
    BY <1>5, <1>6
  <1>8. mm \in 0 .. H - 1 /\ md \in Int /\ mm = middle - H * md
    BY <1>1, <1>7, DivMod
  <1> HIDE DEF mm, md
  <1>9. mm + a1 * b0 \in Int
    BY <1>5, <1>8
  <1>10. t \in 0 .. H - 1 /\ carry \in Int /\ t = (mm + a1 * b0) - H * carry
    BY <1>1, <1>9, DivMod
  <1> HIDE DEF t, carry
  <1>11. l * r = low + Radix * high
    <2>1. l = a0 + H * a1 /\ r = b0 + H * b1
      BY <1>1, <1>2, <1>3
    <2>2. (a0 + H * a1) * (b0 + H * b1) = a0 * b0 + H * (a0 * b1 + a1 * b0) + H * (H * (a1 * b1))
      BY <1>1, <1>2, <1>3
    <2>3. a0 * b0 = q + H * p
      BY <1>1, <1>5, <1>6
    <2>4. a0 * b1 + p = mm + H * md
      BY <1>1, <1>5, <1>6, <1>8
    <2>5. mm + a1 * b0 = t + H * carry
      BY <1>1, <1>5, <1>8, <1>10
    <2>6. a0 * b0 + H * (a0 * b1 + a1 * b0) = q + H * (p + a0 * b1 + a1 * b0)
      BY <1>1, <1>5, <1>6, <2>3
    <2>7. p + a0 * b1 + a1 * b0 = t + H * (carry + md)
      BY <1>1, <1>5, <1>6, <1>8, <1>10, <2>4, <2>5
    <2>8. l * r = q + H * (t + H * (carry + md)) + H * (H * (a1 * b1))
      BY <2>1, <2>2, <2>6, <2>7
    <2>9. q + H * (t + H * (carry + md)) + H * (H * (a1 * b1)) = low + (H * H) * high
      BY <1>1, <1>5, <1>6, <1>8, <1>10
    <2>10. QED
      BY <1>1, <2>8, <2>9
  <1>12. low \in 0 .. Radix - 1
    <2>1. H * t >= 0 /\ H * t <= H * (H - 1) /\ H * (H - 1) = H * H - H /\ H * t \in Int
      <3>1. H * (H - 1 - t) >= 0
        BY <1>1, <1>10
      <3>2. H * (H - 1 - t) = H * (H - 1) - H * t
        BY <1>1, <1>10
      <3>3. H * t >= 0 /\ H * (H - 1) = H * H - H
        BY <1>1, <1>10
      <3>4. QED
        BY <1>1, <1>10, <3>1, <3>2, <3>3
    <2>2. QED
      BY <1>1, <1>6, <2>1
  <1>13. high \in Int
    BY <1>5, <1>8, <1>10
  <1> HIDE DEF low, high
  <1>14. Radix \in Nat \ {0} /\ l \in 0 .. Radix - 1 /\ r \in 0 .. Radix - 1 /\ Radix >= 4
    BY RadixFacts DEF Words
  <1>15. high \in 0 .. Radix - 1
    <2>1. l * r >= 0 /\ l * r < Radix * Radix /\ l * r \in Int
      <3>1. l * r \in Nat /\ l * r <= Radix * Radix - 2 * Radix + 1
        BY <1>14, ProductBound
      <3>2. Radix * Radix \in Int
        BY <1>14
      <3>3. QED
        BY <1>14, <3>1, <3>2
    <2>2. QED
      BY <1>11, <1>12, <1>13, <1>14, <2>1, QuotientBound
  <1>16. HighWord(l, r) = high
    BY <1>4, <1>15, WrapNear DEF Words
  <1>17. Wrap(l * r) = low
    <2>1. (low + high * Radix) % Radix = low
      BY <1>12, <1>13, <1>14, ModUnique
    <2>2. low + high * Radix = low + Radix * high
      BY <1>12, <1>13, <1>14
    <2>3. QED
      BY <1>11, <2>1, <2>2 DEF Wrap
  <1>18. QED
    BY <1>11, <1>15, <1>16, <1>17 DEF Words

\* One step of the inner loop: previous and the product and the carry are word
\* and the new carry, which do not wrap.
LEMMA ProductWord ==
  ASSUME NEW previous \in Words, NEW l \in Words, NEW r \in Words, NEW carry \in Words
  PROVE  LET low == Wrap(l * r)
             sum == Wrap(previous + low)
             word == Wrap(previous + low + carry)
             next == Wrap(HighWord(l, r) + (IF word < sum THEN 1 ELSE 0)
                            + IF sum < previous THEN 1 ELSE 0)
         IN  /\ word \in Words /\ next \in Words
             /\ previous + r * l + carry = word + Radix * next
  <1> DEFINE low == Wrap(l * r)
             high == HighWord(l, r)
             sum == Wrap(previous + low)
             word == Wrap(previous + low + carry)
             c1 == IF sum < previous THEN 1 ELSE 0
             c2 == IF word < sum THEN 1 ELSE 0
             next == Wrap(high + c2 + c1)
  <1>1. /\ Radix \in Nat \ {0} /\ l \in 0 .. Radix - 1 /\ r \in 0 .. Radix - 1 /\ Radix >= 4
        /\ previous \in 0 .. Radix - 1 /\ carry \in 0 .. Radix - 1
    BY RadixFacts DEF Words
  <1>2. l * r \in Int /\ l * r = r * l /\ l * r <= Radix * Radix - 2 * Radix + 1 /\ l * r >= 0
    <2>1. l * r \in Nat /\ l * r <= Radix * Radix - 2 * Radix + 1
      BY <1>1, ProductBound
    <2>2. l * r = r * l
      BY <1>1
    <2>3. QED
      BY <2>1, <2>2
  <1>3. high \in 0 .. Radix - 1 /\ l * r = low + Radix * high
    BY HighWordExact DEF Words
  <1>4. low \in 0 .. Radix - 1
    BY <1>2, WrapIsWord DEF Words
  <1> HIDE DEF low, high
  <1>5. sum \in 0 .. Radix - 1 /\ previous + low = sum + Radix * c1
    <2>1. CASE previous + low < Radix
      <3>1. previous + low \in Words
        BY <1>1, <1>4, <2>1 DEF Words
      <3>2. sum = previous + low
        BY <3>1, WrapNear
      <3>3. QED
        BY <1>1, <1>4, <2>1, <3>2
    <2>2. CASE previous + low >= Radix
      <3>1. previous + low - Radix \in Words
        BY <1>1, <1>4, <2>2 DEF Words
      <3>2. Wrap((previous + low - Radix) + Radix) = previous + low - Radix
        BY <3>1, WrapNear
      <3>3. sum = previous + low - Radix
        BY <1>1, <1>4, <3>2
      <3>4. QED
        BY <1>1, <1>4, <2>2, <3>3
    <2>3. QED
      BY <1>1, <1>4, <2>1, <2>2
  <1>6. word = Wrap(sum + carry)
    <2>1. c1 \in {0, 1}
      OBVIOUS
    <2>2. sum + carry \in Int
      BY <1>1, <1>5
    <2>3. word = (previous + low + carry) % Radix
      BY DEF Wrap
    <2> HIDE DEF sum, c1
    <2>4. previous + low + carry = (sum + carry) + Radix * c1
      BY <1>1, <1>4, <1>5, <2>1
    <2>5. PICK a \in 0 .. Radix - 1, k \in Int : sum + carry = a + k * Radix
      <3>1. (sum + carry) % Radix \in 0 .. Radix - 1 /\ (sum + carry) \div Radix \in Int
              /\ (sum + carry) % Radix = (sum + carry) - Radix * ((sum + carry) \div Radix)
        BY <1>1, <2>2, DivMod
      <3>2. sum + carry = ((sum + carry) % Radix) + ((sum + carry) \div Radix) * Radix
        BY <1>1, <2>2, <3>1
      <3>3. QED
        BY <3>1, <3>2
    <2>6. Wrap(sum + carry) = a
      BY <1>1, <2>5, ModUnique DEF Wrap
    <2>7. previous + low + carry = a + (k + c1) * Radix /\ k + c1 \in Int
      <3>1. (k + c1) * Radix = k * Radix + Radix * c1 /\ k + c1 \in Int
        BY <1>1, <2>1
      <3>2. QED
        BY <1>1, <2>1, <2>4, <2>5, <3>1
    <2>8. (a + (k + c1) * Radix) % Radix = a
      BY <1>1, <2>7, ModUnique
    <2>9. QED
      BY <2>3, <2>6, <2>7, <2>8
  <1> HIDE DEF word
  <1>7. word \in 0 .. Radix - 1 /\ sum + carry = word + Radix * c2
    <2> HIDE DEF sum
    <2>1. CASE sum + carry < Radix
      <3>1. sum + carry \in Words
        BY <1>1, <1>5, <2>1 DEF Words
      <3>2. word = sum + carry
        BY <1>6, <3>1, WrapNear
      <3>3. QED
        BY <1>1, <1>5, <2>1, <3>2
    <2>2. CASE sum + carry >= Radix
      <3>1. sum + carry - Radix \in Words
        BY <1>1, <1>5, <2>2 DEF Words
      <3>2. Wrap((sum + carry - Radix) + Radix) = sum + carry - Radix
        BY <3>1, WrapNear
      <3>3. word = sum + carry - Radix
        BY <1>1, <1>5, <1>6, <3>2
      <3>4. QED
        BY <1>1, <1>5, <2>2, <3>3
    <2>3. QED
      BY <1>1, <1>5, <2>1, <2>2
  <1>8. c1 \in {0, 1} /\ c2 \in {0, 1}
    OBVIOUS
  <1> HIDE DEF sum, c1, c2
  <1>9. previous + r * l + carry = word + Radix * (high + c2 + c1)
    <2>1. Radix * (high + c2 + c1) = Radix * high + Radix * c2 + Radix * c1
      BY <1>1, <1>3, <1>8
    <2>2. PICK x \in Int, y \in Int, z \in Int :
            x = Radix * high /\ y = Radix * c2 /\ z = Radix * c1
      BY <1>1, <1>3, <1>8
    <2>3. PICK k \in Int : k = r * l
      BY <1>1
    <2>4. k = low + x
      BY <1>2, <1>3, <2>2, <2>3
    <2>5. previous + low = sum + z /\ sum + carry = word + y
      BY <1>5, <1>7, <2>2
    <2>6. previous + k + carry = word + (x + y + z)
      BY <1>1, <1>4, <1>5, <1>7, <2>4, <2>5
    <2>7. QED
      BY <2>1, <2>2, <2>3, <2>6
  <1>10. high + c2 + c1 \in 0 .. Radix - 1
    <2>1. PICK a \in Int : a = previous + r * l + carry
      BY <1>1, <1>2
    <2>2. a >= 0 /\ a < Radix * Radix
      <3>1. Radix * Radix \in Int
        BY <1>1
      <3>2. QED
        BY <1>1, <1>2, <2>1, <3>1
    <2>3. high + c2 + c1 \in Int /\ a = word + Radix * (high + c2 + c1)
      BY <1>3, <1>8, <1>9, <2>1
    <2>4. PICK k \in Int : k = high + c2 + c1 /\ a = word + Radix * k
      BY <2>3
    <2>5. k \in 0 .. Radix - 1
      <3>1. Radix \in Nat
        BY <1>1
      <3>2. QED
        BY <1>1, <1>7, <2>2, <2>4, <3>1, QuotientBound
    <2>6. QED
      BY <2>4, <2>5
  <1>11. next = high + c2 + c1
    BY <1>10, WrapNear DEF Words
  <1>12. word \in Words /\ next \in Words /\ previous + r * l + carry = word + Radix * next
    BY <1>7, <1>9, <1>10, <1>11 DEF Words
  <1>13. QED
    BY <1>12 DEF low, high, sum, word, c1, c2

\* The words of x from the one after k.
Window(x, k, m) == [j \in 1 .. m |-> x[k + j]]

\* The sizes of two numbers multiply to the size of both together.
LEMMA SizeSum ==
  ASSUME NEW k \in Nat, NEW m \in Nat
  PROVE  Size(k + m) = Size(k) * Size(m)
  <1>1. Radix \in Int
    BY RadixFacts
  <1>2. QED
    BY <1>1, PowerSum DEF Size

\* Words are those below k and, Size(k) times, those from there on.
LEMMA LowerWindow ==
  ASSUME NEW x, NEW k \in Nat, NEW m \in Nat, Ints(x, k + m)
  PROVE  Lower(x, k + m) = Lower(x, k) + Size(k) * Lower(Window(x, k, m), m)
  <1> DEFINE w == Window(x, k, m)
             S == {j \in 0 .. m : Lower(x, k + j) = Lower(x, k) + Size(k) * Lower(w, j)}
  <1>1. Ints(w, m)
    BY DEF Ints, Window
  <1>2. Ints(x, k)
    BY DEF Ints
  <1>3. Lower(x, k) \in Int /\ Size(k) \in Int
    BY <1>2, LowerIsInt, SizeStep
  <1>4. 0 \in S
    <2>1. Ints(w, 0)
      BY DEF Ints
    <2>2. Lower(w, 0) = 0
      BY <2>1, LowerValue, 0 \in Nat
    <2>3. k + 0 = k /\ Size(k) * 0 = 0
      BY <1>3
    <2> HIDE DEF w
    <2>4. QED
      BY <1>3, <2>2, <2>3
  <1>5. ASSUME NEW j \in 1 .. m, j - 1 \in S PROVE j \in S
    <2>1. j \in Nat \ {0} /\ k + j \in Nat \ {0} /\ (k + j) - 1 = k + (j - 1) /\ j - 1 \in Nat
          /\ (k + (j - 1)) + 1 = k + j /\ (j - 1) + 1 = j /\ k + (j - 1) \in Nat
      OBVIOUS
    <2>2. Ints(x, k + j) /\ Ints(w, j)
      BY <1>1 DEF Ints
    <2>3. Lower(x, k + j) = Lower(x, k + (j - 1)) + x[k + j] * Size(k + (j - 1))
      <3>1. Ints(x, (k + (j - 1)) + 1)
        BY <2>1, <2>2
      <3>2. Lower(x, (k + (j - 1)) + 1)
              = Lower(x, k + (j - 1)) + x[(k + (j - 1)) + 1] * Size(k + (j - 1))
        BY <2>1, <3>1, LowerStep
      <3>3. QED
        BY <2>1, <3>2
    <2>4. Lower(w, j) = Lower(w, j - 1) + w[j] * Size(j - 1) /\ Lower(w, j - 1) \in Int
      <3>1. Ints(w, (j - 1) + 1)
        BY <2>1, <2>2
      <3>2. Lower(w, (j - 1) + 1) = Lower(w, j - 1) + w[(j - 1) + 1] * Size(j - 1)
              /\ Lower(w, j - 1) \in Int
        BY <2>1, <3>1, LowerStep
      <3> HIDE DEF w
      <3>3. QED
        BY <2>1, <3>2
    <2>5. w[j] = x[k + j] /\ w[j] \in Int
      BY <1>1 DEF Window, Ints
    <2>6. Size(k + (j - 1)) = Size(k) * Size(j - 1) /\ Size(j - 1) \in Int
      <3>1. PICK i \in Nat : i = j - 1
        BY <2>1
      <3>2. Size(k + i) = Size(k) * Size(i)
        BY SizeSum
      <3>3. Size(i) \in Int
        BY SizeStep
      <3>4. QED
        BY <3>1, <3>2, <3>3
    <2>7. Lower(x, k + (j - 1)) = Lower(x, k) + Size(k) * Lower(w, j - 1)
      BY <1>5
    <2> HIDE DEF w
    <2>8. PICK a \in Int, b \in Int, c \in Int, d \in Int, e \in Int :
            /\ a = Lower(x, k) /\ b = Size(k) /\ c = Lower(w, j - 1)
            /\ d = w[j] /\ e = Size(j - 1)
      BY <1>3, <2>4, <2>5, <2>6
    <2>9. Lower(x, k + j) = (a + b * c) + d * (b * e)
      BY <2>3, <2>5, <2>6, <2>7, <2>8
    <2>10. Lower(w, j) = c + d * e
      BY <2>4, <2>8
    <2>11. (a + b * c) + d * (b * e) = a + b * (c + d * e)
      OBVIOUS
    <2>12. QED
      BY <2>8, <2>9, <2>10, <2>11
  <1> HIDE DEF S
  <1>6. \A j \in 0 .. m : j \in S
    BY <1>4, <1>5, UpTo
  <1>7. m \in S
    BY <1>6
  <1>8. QED
    BY <1>7 DEF S

\* Words that are equal stand for the same number.
LEMMA LowerEqual ==
  ASSUME NEW n \in Nat, NEW x, NEW y, Ints(x, n), \A i \in 1 .. n : x[i] = y[i]
  PROVE  Lower(x, n) = Lower(y, n)
  <1> DEFINE S == {k \in 0 .. n : Lower(x, k) = Lower(y, k)}
  <1>1. Ints(y, n)
    BY DEF Ints
  <1>2. 0 \in S
    <2>1. Ints(x, 0) /\ Ints(y, 0)
      BY DEF Ints
    <2>2. Lower(x, 0) = 0 /\ Lower(y, 0) = 0
      BY <2>1, LowerValue, 0 \in Nat
    <2>3. QED
      BY <2>2
  <1>3. ASSUME NEW k \in 1 .. n, k - 1 \in S PROVE k \in S
    <2>1. k - 1 \in Nat /\ (k - 1) + 1 = k
      OBVIOUS
    <2>2. Ints(x, (k - 1) + 1) /\ Ints(y, (k - 1) + 1)
      BY <1>1, <2>1 DEF Ints
    <2>3. Lower(x, (k - 1) + 1) = Lower(x, k - 1) + x[(k - 1) + 1] * Size(k - 1)
      BY <2>1, <2>2, LowerStep
    <2>4. Lower(y, (k - 1) + 1) = Lower(y, k - 1) + y[(k - 1) + 1] * Size(k - 1)
      BY <2>1, <2>2, LowerStep
    <2>5. Lower(x, k - 1) = Lower(y, k - 1) /\ x[k] = y[k]
      BY <1>3
    <2>6. QED
      BY <2>1, <2>3, <2>4, <2>5
  <1> HIDE DEF S
  <1>4. \A k \in 0 .. n : k \in S
    BY <1>2, <1>3, UpTo
  <1>5. n \in S
    BY <1>4
  <1>6. QED
    BY <1>5 DEF S

-----------------------------------------------------------------------------
(* The inner loop of a product.                                            *)

\* What the inner loop has made of words and no carry, after j steps.
Row(n, left, right, words, i, a) ==
  /\ a[0] = [words |-> words, carry |-> 0]
  /\ \A j \in 1 .. n + 1 - i : a[j] = AddProduct(left, right, i, a[j - 1], j)

RowStates(n) == [words : WordSeq(n), carry : Words]

\* What one step of the loop writes.
RowStep(n, left, right, i, a, b, j) ==
  /\ b \in RowStates(n)
  /\ \A k \in 1 .. n : k # i + j - 1 => b.words[k] = a.words[k]
  /\ a.words[i + j - 1] + right[i] * left[j] + a.carry = b.words[i + j - 1] + Radix * b.carry

\* A step of a row changes one word, by a product and the carry.
LEMMA AddProductType ==
  ASSUME NEW n \in Nat, NEW left \in WordSeq(n), NEW right \in WordSeq(n), NEW i \in 1 .. n,
         NEW a \in RowStates(n), NEW j \in 1 .. n + 1 - i
  PROVE  RowStep(n, left, right, i, a, AddProduct(left, right, i, a, j), j)
  <1> DEFINE previous == a.words[i + j - 1]
             low == Wrap(left[j] * right[i])
             sum == Wrap(previous + low)
             word == Wrap(previous + low + a.carry)
             next == Wrap(HighWord(left[j], right[i]) + (IF word < sum THEN 1 ELSE 0)
                            + IF sum < previous THEN 1 ELSE 0)
             b == AddProduct(left, right, i, a, j)
             p == i + j - 1
  <1>1. a.words \in WordSeq(n) /\ a.carry \in Words
    BY DEF RowStates
  <1>2. j \in 1 .. n /\ p \in 1 .. n
    OBVIOUS
  <1>3. a.words \in Seq(Words) /\ Len(a.words) = n
    BY <1>1 DEF WordSeq
  <1>4. previous \in Words /\ left[j] \in Words /\ right[i] \in Words
    BY <1>1, <1>2, WordSeqFacts
  <1>5. /\ word \in Words /\ next \in Words
        /\ previous + right[i] * left[j] + a.carry = word + Radix * next
    BY <1>1, <1>4, ProductWord
  <1>6. b = [words |-> [a.words EXCEPT ![p] = word], carry |-> next]
    BY DEF AddProduct
  <1> HIDE DEF word, next, previous, b
  <1>7. [a.words EXCEPT ![p] = word] \in WordSeq(n)
    BY <1>2, <1>3, <1>5 DEF WordSeq
  <1>8. b.words = [a.words EXCEPT ![p] = word] /\ b.carry = next
    BY <1>6
  <1>9. b \in RowStates(n)
    BY <1>5, <1>6, <1>7 DEF RowStates
  <1>10. b.words[p] = word
    BY <1>2, <1>3, <1>8
  <1>11. \A k \in 1 .. n : k # p => b.words[k] = a.words[k]
    BY <1>3, <1>8
  <1>12. QED
    BY <1>5, <1>8, <1>9, <1>10, <1>11 DEF previous, b, RowStep

\* What the loop has written by step j, and what it has not touched yet.
RowUpTo(n, words, i, a, j) ==
  /\ a[j] \in RowStates(n)
  /\ \A k \in 1 .. n : k < i \/ k >= i + j => a[j].words[k] = words[k]
  /\ \A t \in 1 .. j : a[j].words[i + t - 1] = a[t].words[i + t - 1]

\* What is kept by the steps of a row: words that are not reached stay.
LEMMA RowInvariant ==
  ASSUME NEW n \in Nat, NEW left \in WordSeq(n), NEW right \in WordSeq(n), NEW words \in WordSeq(n),
         NEW i \in 1 .. n, NEW a, Row(n, left, right, words, i, a)
  PROVE  \A j \in 0 .. n + 1 - i : RowUpTo(n, words, i, a, j)
  <1> DEFINE m == n + 1 - i
             S == {j \in 0 .. m : RowUpTo(n, words, i, a, j)}
  <1>1. 0 \in S
    <2>1. 0 \in Words
      BY RadixFacts DEF Words
    <2>2. a[0] = [words |-> words, carry |-> 0]
      BY DEF Row
    <2>3. a[0] \in RowStates(n)
      BY <2>1, <2>2 DEF RowStates
    <2>4. a[0].words = words
      BY <2>2
    <2>5. 0 \in 0 .. m /\ 1 .. 0 = {}
      OBVIOUS
    <2>6. QED
      BY <2>3, <2>4, <2>5 DEF RowUpTo
  <1>2. ASSUME NEW j \in 1 .. m, j - 1 \in S PROVE j \in S
    <2>1. a[j - 1] \in RowStates(n)
      BY <1>2 DEF RowUpTo
    <2>2. \A k \in 1 .. n : k < i \/ k >= i + (j - 1) => a[j - 1].words[k] = words[k]
      BY <1>2 DEF RowUpTo
    <2>3. \A t \in 1 .. j - 1 : a[j - 1].words[i + t - 1] = a[t].words[i + t - 1]
      BY <1>2 DEF RowUpTo
    <2>4. a[j] = AddProduct(left, right, i, a[j - 1], j)
      BY DEF Row
    <2>5. /\ a[j] \in RowStates(n)
          /\ \A k \in 1 .. n : k # i + j - 1 => a[j].words[k] = a[j - 1].words[k]
      <3>1. RowStep(n, left, right, i, a[j - 1], AddProduct(left, right, i, a[j - 1], j), j)
        BY <2>1, AddProductType
      <3>2. RowStep(n, left, right, i, a[j - 1], a[j], j)
        BY <2>4, <3>1
      <3>3. QED
        BY <3>2 DEF RowStep
    <2>6. \A k \in 1 .. n : k < i \/ k >= i + j => a[j].words[k] = words[k]
      BY <2>2, <2>5
    <2>7. ASSUME NEW t \in 1 .. j PROVE a[j].words[i + t - 1] = a[t].words[i + t - 1]
      <3>1. CASE t = j
        BY <3>1
      <3>2. CASE t # j
        <4>1. t \in 1 .. j - 1 /\ i + t - 1 \in 1 .. n /\ i + t - 1 # i + j - 1
          BY <3>2
        <4>2. a[j].words[i + t - 1] = a[j - 1].words[i + t - 1]
          BY <2>5, <4>1
        <4>3. QED
          BY <2>3, <4>1, <4>2
      <3>3. QED
        BY <3>1, <3>2
    <2>8. RowUpTo(n, words, i, a, j)
      BY <2>5, <2>6, <2>7 DEF RowUpTo
    <2>9. QED
      BY <2>8
  <1> HIDE DEF S
  <1>3. m \in Nat
    OBVIOUS
  <1> HIDE DEF m
  <1>4. \A j \in 0 .. m : j \in S
    BY <1>1, <1>2, <1>3, UpTo
  <1>5. QED
    BY <1>4 DEF S, m

\* A row adds a word of right times left, at its place.
RowResult(n, left, right, words, i, out) ==
  /\ out \in WordSeq(n)
  /\ \E q \in Int : Lower(words, n) + right[i] * (Lower(left, n) * Size(i - 1))
                      = Lower(out, n) + q * Size(n)

\* A row adds one word of a factor times the other factor.
LEMMA RowExact ==
  ASSUME NEW n \in Nat, NEW left \in WordSeq(n), NEW right \in WordSeq(n), NEW words \in WordSeq(n),
         NEW i \in 1 .. n, NEW a, Row(n, left, right, words, i, a)
  PROVE  RowResult(n, left, right, words, i, a[n + 1 - i].words)
  <1> DEFINE m == n + 1 - i
             k == i - 1
             out == a[m].words
             w == Window(words, k, m)
             o == Window(out, k, m)
             c == [j \in 0 .. m |-> a[j].carry]
             r == right[i]
  <1>1. m \in Nat /\ k \in Nat /\ k + m = n /\ m <= n /\ \A j \in 1 .. m : k + j \in 1 .. n /\ k + j = i + j - 1
    OBVIOUS
  <1>2. \A j \in 0 .. m : RowUpTo(n, words, i, a, j)
    BY RowInvariant
  <1>3. \A j \in 0 .. m : a[j] \in RowStates(n)
    BY <1>2 DEF RowUpTo
  <1>4. out \in WordSeq(n)
    BY <1>1, <1>3 DEF RowStates
  <1>5. r \in Int /\ r \in Words /\ Ints(words, n) /\ Ints(left, n) /\ Ints(out, n)
    BY <1>4, WordSeqFacts
  <1>6. \A j \in 1 .. k : out[j] = words[j]
    <2>1. \A j \in 1 .. n : j < i \/ j >= i + m => out[j] = words[j]
      BY <1>1, <1>2 DEF RowUpTo
    <2>2. QED
      BY <2>1
  <1>7. ASSUME NEW j \in 1 .. m
        PROVE  /\ c[j] \in Int /\ w[j] + r * left[j] + c[j - 1] = o[j] + Radix * c[j]
               /\ w[j] \in Int /\ o[j] \in Int /\ left[j] \in Int
    <2>1. j - 1 \in 0 .. m /\ j \in 0 .. m /\ j \in 1 .. n + 1 - i
      OBVIOUS
    <2>2. a[j] = AddProduct(left, right, i, a[j - 1], j)
      BY DEF Row
    <2>3. a[j - 1].words[i + j - 1] + r * left[j] + a[j - 1].carry
            = a[j].words[i + j - 1] + Radix * a[j].carry
      <3>1. RowStep(n, left, right, i, a[j - 1], AddProduct(left, right, i, a[j - 1], j), j)
        BY <1>3, <2>1, AddProductType
      <3>2. RowStep(n, left, right, i, a[j - 1], a[j], j)
        BY <2>2, <3>1
      <3>3. QED
        BY <3>2 DEF RowStep
    <2>4. w[j] = a[j - 1].words[i + j - 1]
      <3>1. i + j - 1 \in 1 .. n /\ i + j - 1 >= i + (j - 1)
        OBVIOUS
      <3>2. a[j - 1].words[i + j - 1] = words[i + j - 1]
        BY <1>2, <2>1, <3>1 DEF RowUpTo
      <3>3. w[j] = words[k + j]
        BY DEF Window
      <3>4. QED
        BY <1>1, <3>2, <3>3
    <2>5. o[j] = a[j].words[i + j - 1]
      <3>1. a[m].words[i + j - 1] = a[j].words[i + j - 1]
        BY <1>1, <1>2 DEF RowUpTo
      <3>2. o[j] = out[k + j]
        BY DEF Window
      <3>3. QED
        BY <1>1, <3>1, <3>2
    <2>6. c[j] = a[j].carry /\ c[j - 1] = a[j - 1].carry
      BY <2>1
    <2>7. c[j] \in Int
      BY <1>3, <2>1, <2>6, RadixFacts DEF RowStates, Words
    <2>8. w[j] = words[k + j] /\ o[j] = out[k + j] /\ k + j \in 1 .. n /\ j \in 1 .. n
      BY <1>1 DEF Window
    <2>9. w[j] \in Int /\ o[j] \in Int /\ left[j] \in Int
      BY <1>5, <2>8 DEF Ints
    <2> HIDE DEF w, o, c, r
    <2>10. QED
      BY <2>3, <2>4, <2>5, <2>6, <2>7, <2>9
  <1>8. c[0] = 0 /\ c[m] \in Int
    <2>1. c[0] = 0
      BY <1>1 DEF Row
    <2>2. m \in 0 .. m
      BY <1>1
    <2>3. c[m] = a[m].carry /\ a[m] \in RowStates(n)
      BY <1>3, <2>2
    <2>4. c[m] \in Words
      BY <2>3 DEF RowStates
    <2>5. QED
      BY <2>1, <2>4, RadixFacts DEF Words
  <1> HIDE DEF m, k, out, w, o, c, r
  <1>9. Chained(m, r, w, left, c, o)
    BY <1>7, <1>8 DEF Chained
  <1>10. Ints(w, m) /\ Ints(o, m) /\ Ints(left, m)
    BY <1>7 DEF Ints
  <1>11. Lower(w, m) + r * Lower(left, m) + c[0] = Lower(o, m) + c[m] * Size(m)
    BY <1>1, <1>5, <1>9, <1>10, ChainSum
  <1>12. Lower(words, n) = Lower(words, k) + Size(k) * Lower(w, m)
    BY <1>1, <1>5, LowerWindow DEF w
  <1>13. Lower(out, n) = Lower(out, k) + Size(k) * Lower(o, m)
    BY <1>1, <1>5, LowerWindow DEF o
  <1>14. Lower(out, k) = Lower(words, k)
    <2>1. Ints(out, k)
      BY <1>1, <1>5 DEF Ints
    <2>2. QED
      BY <1>1, <1>6, <2>1, LowerEqual
  <1>15. PICK u \in Int : Lower(left, n) = Lower(left, m) + Size(m) * u
    <2>1. m + k = n
      BY <1>1
    <2>2. Lower(left, m + k) = Lower(left, m) + Size(m) * Lower(Window(left, m, k), k)
      BY <1>1, <1>5, <2>1, LowerWindow
    <2>3. Ints(Window(left, m, k), k)
      <3>1. \A j \in 1 .. k : Window(left, m, k)[j] = left[m + j] /\ m + j \in 1 .. n
        BY <1>1 DEF Window
      <3>2. QED
        BY <1>5, <3>1 DEF Ints
    <2>4. Lower(Window(left, m, k), k) \in Int
      BY <1>1, <2>3, LowerIsInt
    <2>5. QED
      BY <2>1, <2>2, <2>4
  <1>16. Size(n) = Size(k) * Size(m) /\ Size(k) \in Int /\ Size(m) \in Int
    <2>1. Size(k + m) = Size(k) * Size(m)
      BY <1>1, SizeSum
    <2>2. Size(k) \in Int /\ Size(m) \in Int
      BY <1>1, SizeStep
    <2>3. QED
      BY <1>1, <2>1, <2>2
  <1>17. /\ Lower(w, m) \in Int /\ Lower(o, m) \in Int /\ Lower(left, m) \in Int
         /\ Lower(words, k) \in Int
    <2>1. Ints(words, k)
      BY <1>1, <1>5 DEF Ints
    <2>2. QED
      BY <1>1, <1>10, <2>1, LowerIsInt
  <1>18. Lower(words, n) + r * (Lower(left, n) * Size(k)) = Lower(out, n) + (c[m] + r * u) * Size(n)
    <2>1. PICK x \in Int, y \in Int, lo \in Int, b \in Int, s \in Int, z \in Int, e \in Int :
            /\ x = Lower(w, m) /\ y = Lower(o, m) /\ lo = Lower(left, m) /\ b = Lower(words, k)
            /\ s = Size(k) /\ z = Size(m) /\ e = c[m]
      BY <1>8, <1>16, <1>17
    <2>2. x + r * lo = y + e * z
      BY <1>5, <1>8, <1>11, <2>1
    <2>3. (x + r * lo) * s = (y + e * z) * s
      BY <2>2
    <2>4. (b + s * x) + r * ((lo + z * u) * s) = (b + s * y) + (e + r * u) * (s * z)
      <3>1. r * ((lo + z * u) * s) = r * lo * s + r * u * (s * z)
        BY <1>5
      <3>2. (e + r * u) * (s * z) = e * z * s + r * u * (s * z)
        BY <1>5
      <3>3. (x + r * lo) * s = s * x + r * lo * s /\ (y + e * z) * s = s * y + e * z * s
        BY <1>5
      <3>4. /\ s * x \in Int /\ s * y \in Int /\ r * lo * s \in Int /\ e * z * s \in Int
            /\ r * u * (s * z) \in Int
        BY <1>5
      <3>5. QED
        BY <2>3, <3>1, <3>2, <3>3, <3>4
    <2>5. QED
      BY <1>12, <1>13, <1>14, <1>15, <1>16, <2>1, <2>4
  <1>19. c[m] + r * u \in Int
    BY <1>5, <1>8
  <1>20. QED
    BY <1>4, <1>18, <1>19 DEF out, m, k, r, RowResult

\* The loop computes a row.
LEMMA AddProductsRow ==
  ASSUME NEW n \in Nat, NEW left \in WordSeq(n), NEW right \in WordSeq(n), NEW words \in WordSeq(n),
         NEW i \in 1 .. n
  PROVE  RowResult(n, left, right, words, i, AddProducts(left, right, words, i))
  <1> DEFINE m == n + 1 - i
             init == [words |-> words, carry |-> 0]
             F(f) == f = [j \in 0 .. m |->
                            IF j = 0 THEN init ELSE AddProduct(left, right, i, f[j - 1], j)]
             step == [j \in 1 .. m |-> [b \in RowStates(n) |-> AddProduct(left, right, i, b, j)]]
             a == CHOOSE f : F(f)
  <1>1. m \in Nat /\ Len(left) = n
    BY WordSeqFacts
  <1>2. init \in RowStates(n)
    BY RadixFacts DEF RowStates, Words
  <1>3. \A j \in 1 .. m, b \in RowStates(n) : AddProduct(left, right, i, b, j) \in RowStates(n)
    <2>1. ASSUME NEW j \in 1 .. m, NEW b \in RowStates(n)
          PROVE  AddProduct(left, right, i, b, j) \in RowStates(n)
      <3>1. RowStep(n, left, right, i, b, AddProduct(left, right, i, b, j), j)
        BY AddProductType
      <3>2. QED
        BY <3>1 DEF RowStep
    <2>2. QED
      BY <2>1
  <1>4. \E g : Recursive(m, RowStates(n), init, step, g)
    <2>1. step \in [1 .. m -> [RowStates(n) -> RowStates(n)]]
      BY <1>3
    <2> HIDE DEF step, init, m
    <2>2. QED
      BY <1>1, <1>2, <2>1, Recursion
  <1>5. PICK g : /\ g \in [0 .. m -> RowStates(n)] /\ g[0] = init
                 /\ \A j \in 1 .. m : g[j] = AddProduct(left, right, i, g[j - 1], j)
    <2>1. PICK g : Recursive(m, RowStates(n), init, step, g)
      BY <1>4
    <2>2. \A j \in 1 .. m, b \in RowStates(n) : step[j][b] = AddProduct(left, right, i, b, j)
      OBVIOUS
    <2> HIDE DEF step, init, m
    <2>3. g \in [0 .. m -> RowStates(n)] /\ g[0] = init /\ \A j \in 1 .. m : g[j] = step[j][g[j - 1]]
      BY <2>1 DEF Recursive
    <2>4. \A j \in 1 .. m : g[j - 1] \in RowStates(n)
      BY <1>1, <2>3
    <2>5. ASSUME NEW j \in 1 .. m PROVE g[j] = AddProduct(left, right, i, g[j - 1], j)
      <3>1. g[j - 1] \in RowStates(n) /\ g[j] = step[j][g[j - 1]]
        BY <2>3, <2>4
      <3>2. step[j][g[j - 1]] = AddProduct(left, right, i, g[j - 1], j)
        BY <2>2, <3>1
      <3>3. QED
        BY <3>1, <3>2
    <2>6. QED
      BY <2>3, <2>5
  <1>6. F(g)
    <2> HIDE DEF m, init
    <2>1. g = [j \in 0 .. m |-> g[j]]
      BY <1>5
    <2>2. \A j \in 0 .. m : g[j] = IF j = 0 THEN init ELSE AddProduct(left, right, i, g[j - 1], j)
      BY <1>1, <1>5
    <2>3. QED
      BY <2>1, <2>2, Zenon
  <1>7. AddProducts(left, right, words, i) = a[m].words
    BY <1>1 DEF AddProducts
  <1> HIDE DEF F
  <1>8. F(a)
    BY <1>6, Zenon
  <1> HIDE DEF a, m, init
  <1>9. a[0] = init /\ \A j \in 1 .. m : a[j] = AddProduct(left, right, i, a[j - 1], j)
    BY <1>1, <1>8 DEF F
  <1>10. Row(n, left, right, words, i, a)
    BY <1>9 DEF Row, m, init
  <1>11. RowResult(n, left, right, words, i, a[n + 1 - i].words)
    BY <1>10, RowExact
  <1>12. QED
    BY <1>7, <1>11 DEF m

\* The product, as far as the row of word i.
Rows(n, left, right, a) ==
  /\ a[0] = Nought(n)
  /\ \A i \in 1 .. n : a[i] = AddProducts(left, right, a[i - 1], i)

Multiplies(n, l, r, s) ==
  /\ s \in WordSeq(n)
  /\ \E q \in Int : Lower(l, n) * Lower(r, n) = Lower(s, n) + q * Size(n)

\* All rows add up to the product.
LEMMA RowsExact ==
  ASSUME NEW n \in Nat, NEW left \in WordSeq(n), NEW right \in WordSeq(n), NEW a,
         Rows(n, left, right, a)
  PROVE  Multiplies(n, left, right, a[n])
  <1> DEFINE L == Lower(left, n)
             Good(i) == a[i] \in WordSeq(n)
                          /\ \E q \in Int : L * Lower(right, i) = Lower(a[i], n) + q * Size(n)
             S == {i \in 0 .. n : Good(i)}
  <1>1. Ints(left, n) /\ Ints(right, n)
    BY WordSeqFacts
  <1>2. L \in Int /\ Size(n) \in Int
    BY <1>1, LowerIsInt, SizeStep
  <1>3. 0 \in S
    <2>1. a[0] \in WordSeq(n) /\ Lower(a[0], n) = 0
      BY LowerNought DEF Rows
    <2>2. Ints(right, 0)
      BY DEF Ints
    <2>3. Lower(right, 0) = 0
      BY <2>2, LowerValue, 0 \in Nat
    <2> HIDE DEF L
    <2>4. L * Lower(right, 0) = Lower(a[0], n) + 0 * Size(n)
      BY <1>2, <2>1, <2>3
    <2>5. QED
      BY <2>1, <2>4
  <1>4. ASSUME NEW i \in 1 .. n, i - 1 \in S PROVE i \in S
    <2>1. a[i - 1] \in WordSeq(n)
      BY <1>4
    <2>2. PICK q \in Int : L * Lower(right, i - 1) = Lower(a[i - 1], n) + q * Size(n)
      BY <1>4
    <2>3. a[i] = AddProducts(left, right, a[i - 1], i)
      BY DEF Rows
    <2>4. RowResult(n, left, right, a[i - 1], i, a[i])
      BY <2>1, <2>3, AddProductsRow
    <2>5. /\ a[i] \in WordSeq(n)
          /\ \E p \in Int : Lower(a[i - 1], n) + right[i] * (Lower(left, n) * Size(i - 1))
                              = Lower(a[i], n) + p * Size(n)
      BY <2>4 DEF RowResult
    <2>6. PICK p \in Int : Lower(a[i - 1], n) + right[i] * (L * Size(i - 1))
                              = Lower(a[i], n) + p * Size(n)
      BY <2>5
    <2>7. /\ Lower(right, i) = Lower(right, i - 1) + right[i] * Size(i - 1)
          /\ Lower(right, i - 1) \in Int /\ Size(i - 1) \in Int /\ right[i] \in Int
      <3>1. AreWords(right, i) /\ i \in Nat \ {0}
        BY WordSeqFacts DEF AreWords
      <3>2. QED
        BY <3>1, LowerSplit
    <2>8. Lower(a[i], n) \in Int /\ Lower(a[i - 1], n) \in Int
      <3>1. Ints(a[i], n) /\ Ints(a[i - 1], n)
        BY <2>1, <2>5, WordSeqFacts
      <3>2. QED
        BY <3>1, LowerIsInt
    <2> HIDE DEF L
    <2>9. L * Lower(right, i) = Lower(a[i], n) + (q + p) * Size(n)
      <3>1. L * (Lower(right, i - 1) + right[i] * Size(i - 1))
              = L * Lower(right, i - 1) + right[i] * (L * Size(i - 1))
        BY <1>2, <2>7
      <3>2. (q + p) * Size(n) = q * Size(n) + p * Size(n)
        BY <1>2
      <3>3. PICK x \in Int, y \in Int, z \in Int :
              x = right[i] * (L * Size(i - 1)) /\ y = q * Size(n) /\ z = p * Size(n)
        BY <1>2, <2>7
      <3>4. PICK t \in Int, u \in Int, v \in Int :
              t = L * Lower(right, i - 1) /\ u = Lower(a[i], n) /\ v = Lower(a[i - 1], n)
        BY <1>2, <2>7, <2>8
      <3>5. L * Lower(right, i) = t + x
        BY <2>7, <3>1, <3>3, <3>4
      <3>6. t = v + y
        BY <2>2, <3>3, <3>4
      <3>7. v + x = u + z
        BY <2>6, <3>3, <3>4
      <3>8. (q + p) * Size(n) = y + z
        BY <3>2, <3>3
      <3>9. t + x = u + (y + z)
        BY <3>6, <3>7
      <3>10. QED
        BY <3>4, <3>5, <3>8, <3>9
    <2>10. q + p \in Int
      OBVIOUS
    <2>11. QED
      BY <2>5, <2>9, <2>10
  <1> HIDE DEF S
  <1>5. \A i \in 0 .. n : i \in S
    BY <1>3, <1>4, UpTo
  <1>6. n \in S
    BY <1>5
  <1>7. QED
    BY <1>6 DEF S, Multiplies

\* gray_i256_mul is the product modulo the size,
LEMMA Mul256Exact ==
  ASSUME NEW n \in Nat \ {0}, NEW left \in WordSeq(n), NEW right \in WordSeq(n)
  PROVE  Multiplies(n, left, right, gray_i256_mul(left, right))
  <1> DEFINE init == Zero(left)
             F(f) == f = [i \in 0 .. n |-> IF i = 0 THEN init ELSE AddProducts(left, right, f[i - 1], i)]
             step == [i \in 1 .. n |-> [w \in WordSeq(n) |-> AddProducts(left, right, w, i)]]
             words == CHOOSE f : F(f)
  <1>1. Len(left) = n
    BY WordSeqFacts
  <1>2. init = Nought(n) /\ init \in WordSeq(n)
    <2>1. init = Nought(n)
      BY <1>1 DEF Zero, Small, Nought
    <2>2. QED
      BY <2>1, LowerNought
  <1>3. \A i \in 1 .. n, w \in WordSeq(n) : AddProducts(left, right, w, i) \in WordSeq(n)
    <2>1. ASSUME NEW i \in 1 .. n, NEW w \in WordSeq(n)
          PROVE  AddProducts(left, right, w, i) \in WordSeq(n)
      <3>1. RowResult(n, left, right, w, i, AddProducts(left, right, w, i))
        BY AddProductsRow
      <3>2. QED
        BY <3>1 DEF RowResult
    <2>2. QED
      BY <2>1
  <1> HIDE DEF init
  <1>4. \E g : Recursive(n, WordSeq(n), init, step, g)
    <2>1. step \in [1 .. n -> [WordSeq(n) -> WordSeq(n)]]
      BY <1>3
    <2> HIDE DEF step
    <2>2. QED
      BY <1>2, <2>1, Recursion
  <1>5. PICK g : /\ g \in [0 .. n -> WordSeq(n)] /\ g[0] = init
                 /\ \A i \in 1 .. n : g[i] = AddProducts(left, right, g[i - 1], i)
    <2>1. PICK g : Recursive(n, WordSeq(n), init, step, g)
      BY <1>4
    <2>2. \A i \in 1 .. n, w \in WordSeq(n) : step[i][w] = AddProducts(left, right, w, i)
      OBVIOUS
    <2> HIDE DEF step
    <2>3. g \in [0 .. n -> WordSeq(n)] /\ g[0] = init /\ \A i \in 1 .. n : g[i] = step[i][g[i - 1]]
      BY <2>1 DEF Recursive
    <2>4. \A i \in 1 .. n : g[i - 1] \in WordSeq(n)
      BY <2>3
    <2>5. ASSUME NEW i \in 1 .. n PROVE g[i] = AddProducts(left, right, g[i - 1], i)
      <3>1. g[i - 1] \in WordSeq(n) /\ g[i] = step[i][g[i - 1]]
        BY <2>3, <2>4
      <3>2. step[i][g[i - 1]] = AddProducts(left, right, g[i - 1], i)
        BY <2>2, <3>1
      <3>3. QED
        BY <3>1, <3>2
    <2>6. QED
      BY <2>3, <2>5
  <1>6. F(g)
    <2>1. g = [i \in 0 .. n |-> g[i]]
      BY <1>5
    <2>2. \A i \in 0 .. n : g[i] = IF i = 0 THEN init ELSE AddProducts(left, right, g[i - 1], i)
      BY <1>5
    <2>3. QED
      BY <2>1, <2>2, Zenon
  <1>7. gray_i256_mul(left, right) = words[n]
    BY <1>1 DEF gray_i256_mul, init
  <1> HIDE DEF F
  <1>8. F(words)
    BY <1>6, Zenon
  <1> HIDE DEF words
  <1>9. words[0] = init /\ \A i \in 1 .. n : words[i] = AddProducts(left, right, words[i - 1], i)
    BY <1>8 DEF F
  <1>10. Rows(n, left, right, words)
    BY <1>2, <1>9 DEF Rows
  <1>11. QED
    BY <1>7, <1>10, RowsExact

\* and so is gray_i128_mul,
LEMMA Mul128Exact ==
  ASSUME NEW l \in WordSeq(2), NEW r \in WordSeq(2)
  PROVE  Multiplies(2, l, r, gray_i128_mul(l, r))
  <1> DEFINE low == Wrap(l[1] * r[1])
             high == HighWord(l[1], r[1])
             sum == high + l[1] * r[2] + l[2] * r[1]
             word == Wrap(sum)
             s == <<low, word>>
  <1>1. l[1] \in Words /\ l[2] \in Words /\ r[1] \in Words /\ r[2] \in Words
    BY WordSeqFacts, 2 \in Nat
  <1>2. l[1] \in Int /\ l[2] \in Int /\ r[1] \in Int /\ r[2] \in Int /\ Radix \in Nat \ {0}
    BY <1>1, RadixFacts DEF Words
  <1>3. gray_i128_mul(l, r) = s
    BY DEF gray_i128_mul
  <1>4. l[1] * r[1] = low + Radix * high /\ high \in Int
    <2>1. high \in Words /\ l[1] * r[1] = low + Radix * high
      BY <1>1, HighWordExact
    <2> HIDE DEF high, low
    <2>2. QED
      BY <1>2, <2>1 DEF Words
  <1>5. low \in Words /\ low \in Int
    BY <1>2, WrapIsWord DEF Words
  <1> HIDE DEF low, high
  <1>6. sum \in Int
    BY <1>2, <1>4
  <1>7. word \in Words /\ word \in Int
    BY <1>2, <1>6, WrapIsWord DEF Words
  <1>8. PICK k \in Int : sum = word + Radix * k
    <2>1. word = sum - Radix * (sum \div Radix) /\ sum \div Radix \in Int
      BY <1>2, <1>6, DivMod DEF Wrap
    <2>2. sum = word + Radix * (sum \div Radix)
      BY <1>2, <1>6, <1>7, <2>1
    <2>3. QED
      BY <2>1, <2>2
  <1>9. s \in WordSeq(2)
    BY <1>5, <1>7 DEF WordSeq
  <1>10. Size(0) = 1 /\ Size(1) = Radix /\ Size(2) = Radix * Radix
    <2>1. Size(0) = 1 /\ Size(0 + 1) = Radix * Size(0) /\ Size(1 + 1) = Radix * Size(1)
      BY SizeStep, 0 \in Nat, 1 \in Nat
    <2>2. 0 + 1 = 1 /\ 1 + 1 = 2 /\ Radix * 1 = Radix
      BY <1>2
    <2>3. QED
      BY <2>1, <2>2
  <1>11. \A x \in WordSeq(2) : Lower(x, 2) = x[1] + x[2] * Radix
    <2>1. ASSUME NEW x \in WordSeq(2) PROVE Lower(x, 2) = x[1] + x[2] * Radix
      <3>1. AreWords(x, 2) /\ AreWords(x, 1) /\ 2 \in Nat \ {0} /\ 1 \in Nat \ {0} /\ 2 - 1 = 1 /\ 1 - 1 = 0
        BY WordSeqFacts DEF AreWords
      <3>2. Lower(x, 2) = Lower(x, 1) + x[2] * Size(1)
        BY <3>1, LowerSplit
      <3>3. Lower(x, 1) = Lower(x, 0) + x[1] * Size(0) /\ x[1] \in Int
        BY <3>1, LowerSplit
      <3>4. Lower(x, 0) = 0
        <4>1. Ints(x, 0)
          BY DEF Ints
        <4>2. QED
          BY <4>1, LowerValue, 0 \in Nat
      <3>5. QED
        BY <1>10, <3>2, <3>3, <3>4
    <2>2. QED
      BY <2>1
  <1>12. Lower(l, 2) * Lower(r, 2) = Lower(s, 2) + (k + l[2] * r[2]) * Size(2)
    <2>1. s[1] = low /\ s[2] = word
      OBVIOUS
    <2>2. Lower(s, 2) = low + word * Radix
      BY <1>9, <1>11, <2>1
    <2>3. PICK a \in Int, b \in Int, c \in Int, d \in Int, R \in Int :
            a = l[1] /\ b = l[2] /\ c = r[1] /\ d = r[2] /\ R = Radix
      BY <1>2
    <2>4. Lower(l, 2) * Lower(r, 2) = (a + b * R) * (c + d * R)
      BY <1>11, <2>3
    <2>5. (a + b * R) * (c + d * R) = a * c + R * (a * d + b * c) + (b * d) * (R * R)
      OBVIOUS
    <2>6. a * c = low + R * high
      BY <1>4, <2>3
    <2>7. high + a * d + b * c = word + R * k
      BY <1>8, <2>3
    <2> HIDE DEF sum, word
    <2>8. a * c + R * (a * d + b * c) = low + R * (high + a * d + b * c)
      BY <1>4, <1>5, <2>6
    <2>9. R * (word + R * k) = word * R + k * (R * R)
      BY <1>7
    <2>10. (k + b * d) * (R * R) = k * (R * R) + (b * d) * (R * R)
      OBVIOUS
    <2>11. a * c + R * (a * d + b * c) = low + (word * R + k * (R * R))
      BY <2>7, <2>8, <2>9
    <2>12. PICK x \in Int, y \in Int, z \in Int :
             x = word * R /\ y = k * (R * R) /\ z = (b * d) * (R * R)
      BY <1>7
    <2>13. (low + (x + y)) + z = (low + x) + (y + z)
      BY <1>5
    <2>14. (a + b * R) * (c + d * R) = (low + word * R) + (k + b * d) * (R * R)
      BY <2>5, <2>10, <2>11, <2>12, <2>13
    <2>15. QED
      BY <1>10, <2>2, <2>3, <2>4, <2>14
  <1>13. k + l[2] * r[2] \in Int
    BY <1>2
  <1>14. QED
    BY <1>3, <1>9, <1>12, <1>13 DEF Multiplies

\* and Mul.
LEMMA MulExact ==
  ASSUME NEW n \in {2, 4}, NEW l \in WordSeq(n), NEW r \in WordSeq(n)
  PROVE  Multiplies(n, l, r, Mul(l, r))
  <1>1. Len(l) = n
    BY WordSeqFacts
  <1>2. CASE n = 2
    BY <1>1, <1>2, Mul128Exact DEF Mul
  <1>3. CASE n = 4
    BY <1>1, <1>3, Mul256Exact DEF Mul
  <1>4. QED
    BY <1>2, <1>3

\* Mul multiplies what its factors are near.
LEMMA MulNear ==
  ASSUME NEW n \in {2, 4}, NEW l \in WordSeq(n), NEW r \in WordSeq(n), NEW a, NEW b,
         Near(n, l, a), Near(n, r, b)
  PROVE  Mul(l, r) \in WordSeq(n) /\ Near(n, Mul(l, r), a * b)
  <1>1. Multiplies(n, l, r, Mul(l, r)) /\ n \in Nat \ {0}
    BY MulExact
  <1>2. Mul(l, r) \in WordSeq(n)
    BY <1>1 DEF Multiplies
  <1>3. PICK k \in Int : Lower(l, n) * Lower(r, n) = Lower(Mul(l, r), n) + k * Size(n)
    BY <1>1 DEF Multiplies
  <1>4. /\ Natural(l) = Lower(l, n) /\ Natural(r) = Lower(r, n)
        /\ Natural(Mul(l, r)) = Lower(Mul(l, r), n)
        /\ Natural(l) \in Int /\ Natural(r) \in Int /\ Natural(Mul(l, r)) \in Int
    BY <1>1, <1>2, NumberFacts
  <1>5. Size(n) \in Int /\ a \in Int /\ b \in Int
    BY <1>1, SizeStep DEF Near
  <1>6. PICK p \in Int : a = Natural(l) + p * Size(n)
    BY DEF Near
  <1>7. PICK q \in Int : b = Natural(r) + q * Size(n)
    BY DEF Near
  <1>8. PICK L \in Int, R \in Int, S \in Int, M \in Int :
          L = Natural(l) /\ R = Natural(r) /\ S = Size(n) /\ M = Natural(Mul(l, r))
    BY <1>4, <1>5
  <1>9. L * R = M + k * S
    BY <1>3, <1>4, <1>8
  <1>10. a * b = (L + p * S) * (R + q * S)
    BY <1>6, <1>7, <1>8
  <1>11. (L + p * S) * (R + q * S) = L * R + (p * R + q * L + p * q * S) * S
    OBVIOUS
  <1>12. (M + k * S) + (p * R + q * L + p * q * S) * S = M + (k + p * R + q * L + p * q * S) * S
    OBVIOUS
  <1>13. a * b = M + (k + p * R + q * L + p * q * S) * S
    BY <1>9, <1>10, <1>11, <1>12
  <1>14. k + p * R + q * L + p * q * S \in Int /\ a * b \in Int
    BY <1>5
  <1>15. QED
    BY <1>2, <1>8, <1>13, <1>14 DEF Near

-----------------------------------------------------------------------------
(* Bits.                                                                   *)

\* The bits of a word.
LEMMA WordBitsFacts ==
  WordBits \in Nat \ {0} /\ Radix = Power(2, WordBits)
  BY WordBitsAssumption DEF Radix

\* The bits of n words.
LEMMA PowerSize ==
  ASSUME NEW n \in Nat
  PROVE  Power(2, n * WordBits) = Size(n)
  <1> DEFINE S == {i \in Nat : Power(2, i * WordBits) = Size(i)}
  <1>1. 0 \in S
    <2>1. 0 * WordBits = 0 /\ Power(2, 0) = 1
      BY WordBitsFacts, PowerStep, 0 \in Nat, 2 \in Int
    <2>2. Size(0) = 1
      BY SizeStep
    <2>3. QED
      BY <2>1, <2>2
  <1>2. ASSUME NEW i \in S PROVE i + 1 \in S
    <2>1. PICK m \in Nat : m = i * WordBits
      BY WordBitsFacts
    <2>2. (i + 1) * WordBits = WordBits + m
      BY <2>1, WordBitsFacts
    <2>3. Power(2, WordBits + m) = Power(2, WordBits) * Power(2, m)
      BY WordBitsFacts, PowerSum, 2 \in Int
    <2>4. Size(i + 1) = Radix * Size(i) /\ Power(2, m) = Size(i)
      BY <2>1, SizeStep
    <2>5. QED
      BY <2>2, <2>3, <2>4, WordBitsFacts
  <1> HIDE DEF S
  <1>3. S \in SUBSET Nat
    BY DEF S
  <1>4. \A i \in Nat : i \in S
    BY <1>1, <1>2, <1>3, Induction
  <1>5. QED
    BY <1>4 DEF S

\* Where a bit is: bit e of the word after word k.
Place(b, k, e) ==
  /\ k \in Nat /\ e \in 0 .. WordBits - 1
  /\ b = k * WordBits + e
  /\ b \div WordBits = k /\ b % WordBits = e
  /\ Power(2, b) = Size(k) * Power(2, e)
  /\ Power(2, e) \in Nat \ {0} /\ Power(2, WordBits - e) \in Nat \ {0}
  /\ Radix = Power(2, e) * Power(2, WordBits - e)

\* The place of a bit in its word.
LEMMA PlaceIs ==
  ASSUME NEW k \in Nat, NEW e \in 0 .. WordBits - 1
  PROVE  Place(k * WordBits + e, k, e)
  <1>1. PICK W \in Nat \ {0} : W = WordBits
    BY WordBitsFacts
  <1>2. k * W + e = e + k * W /\ k * W \in Nat
    BY <1>1
  <1>3. (e + k * W) \div W = k /\ (e + k * W) % W = e
    BY <1>1, ModUnique
  <1>4. Power(2, k * W + e) = Power(2, k * W) * Power(2, e)
    BY <1>1, <1>2, PowerSum, 2 \in Int
  <1>5. Power(2, k * W) = Size(k)
    BY <1>1, PowerSize
  <1>6. Power(2, e) \in Nat \ {0} /\ Power(2, W - e) \in Nat \ {0}
    BY <1>1, PowerPositive, 2 \in Nat \ {0}
  <1>7. Power(2, e + (W - e)) = Power(2, e) * Power(2, W - e)
    BY <1>1, PowerSum, 2 \in Int
  <1>8. e + (W - e) = W
    BY <1>1
  <1>9. QED
    BY <1>1, <1>2, <1>3, <1>4, <1>5, <1>6, <1>7, <1>8, WordBitsFacts DEF Place

\* Every bit has a place.
LEMMA PlaceOf ==
  ASSUME NEW n \in Nat, NEW b \in 0 .. n * WordBits - 1
  PROVE  \E k \in 0 .. n - 1, e \in 0 .. WordBits - 1 : Place(b, k, e)
  <1>1. PICK W \in Nat \ {0} : W = WordBits
    BY WordBitsFacts
  <1>2. PICK k \in Int, e \in 0 .. W - 1 : b = e + W * k
    <2>1. b % W \in 0 .. W - 1 /\ b \div W \in Int /\ b % W = b - W * (b \div W)
      BY <1>1, DivMod
    <2>2. PICK k \in Int, e \in 0 .. W - 1 : k = b \div W /\ e = b % W
      BY <2>1
    <2>3. e = b - W * k
      BY <2>1, <2>2
    <2>4. b = e + W * k
      BY <1>1, <2>3
    <2>5. QED
      BY <2>4
  <1>3. k \in 0 .. n - 1
    <2>1. b \in Int /\ b >= 0 /\ b < W * n
      BY <1>1
    <2>2. QED
      BY <1>1, <1>2, <2>1, QuotientBound
  <1>4. k * W + e = b
    BY <1>1, <1>2
  <1>5. Place(k * W + e, k, e)
    BY <1>1, <1>3, PlaceIs
  <1>6. QED
    BY <1>1, <1>3, <1>4, <1>5

\* A number from the word after the k lowest, and above it.
LEMMA LowerWord ==
  ASSUME NEW n \in Nat, NEW x \in WordSeq(n), NEW k \in 0 .. n - 1
  PROVE  /\ x[k + 1] \in Words /\ x[k + 1] \in Int
         /\ Lower(x, k) \in 0 .. Size(k) - 1 /\ Size(k) \in Nat \ {0}
         /\ \E u \in Int : Lower(x, n) = Lower(x, k) + Size(k) * (x[k + 1] + Radix * u)
  <1>1. x[k + 1] \in Words /\ x[k + 1] \in Int /\ k \in Nat /\ k + 1 \in Nat
    BY WordSeqFacts
  <1>2. Size(k) \in Nat \ {0} /\ Size(k + 1) = Radix * Size(k)
    BY <1>1, SizeStep
  <1>3. Lower(x, k) \in 0 .. Size(k) - 1
    <2>1. AreWords(x, k)
      BY WordSeqFacts DEF AreWords
    <2>2. QED
      BY <1>1, <2>1, LowerRange
  <1>4. PICK m \in Nat : (k + 1) + m = n
    <2>1. n - (k + 1) \in Nat /\ (k + 1) + (n - (k + 1)) = n
      OBVIOUS
    <2>2. QED
      BY <2>1
  <1>5. Ints(x, n) /\ Ints(x, k + 1) /\ Ints(x, (k + 1) + m)
    BY <1>4, WordSeqFacts DEF Ints
  <1>6. Lower(x, (k + 1) + m) = Lower(x, k + 1) + Size(k + 1) * Lower(Window(x, k + 1, m), m)
    BY <1>1, <1>5, LowerWindow
  <1>7. Lower(Window(x, k + 1, m), m) \in Int
    <2>1. \A j \in 1 .. m : Window(x, k + 1, m)[j] = x[(k + 1) + j] /\ (k + 1) + j \in 1 .. n
      BY <1>4 DEF Window
    <2>2. Ints(Window(x, k + 1, m), m)
      BY <1>5, <2>1 DEF Ints
    <2>3. QED
      BY <2>2, LowerIsInt
  <1>8. Lower(x, k + 1) = Lower(x, k) + x[k + 1] * Size(k)
    BY <1>1, <1>5, LowerStep
  <1>9. PICK u \in Int, s \in Int, w \in Int, lo \in Int, R \in Int :
          /\ u = Lower(Window(x, k + 1, m), m) /\ s = Size(k) /\ w = x[k + 1]
          /\ lo = Lower(x, k) /\ R = Radix
    BY <1>1, <1>2, <1>3, <1>7, RadixFacts
  <1>10. (lo + w * s) + (R * s) * u = lo + s * (w + R * u)
    OBVIOUS
  <1>11. Lower(x, n) = Lower(x, k) + Size(k) * (x[k + 1] + Radix * u)
    BY <1>2, <1>4, <1>6, <1>8, <1>9, <1>10
  <1>12. QED
    BY <1>1, <1>2, <1>3, <1>11

\* The bits of a number from bit b.
Upper(x, b) == Natural(x) \div Power(2, b)

\* BitOf is the lowest bit of what is left above the bits below it.
LEMMA BitOfIs ==
  ASSUME NEW n \in Nat \ {0}, NEW x \in WordSeq(n), NEW b \in 0 .. n * WordBits - 1
  PROVE  /\ BitOf(x, b) \in {0, 1}
         /\ Upper(x, b + 1) \in Int
         /\ Upper(x, b) = 2 * Upper(x, b + 1) + BitOf(x, b)
  <1>1. PICK k \in 0 .. n - 1, e \in 0 .. WordBits - 1 : Place(b, k, e)
    BY PlaceOf
  <1>2. PICK A \in Nat \ {0}, C \in Nat \ {0} :
          /\ A = Power(2, e) /\ C = Power(2, WordBits - e) /\ Radix = A * C
          /\ Power(2, b) = Size(k) * A /\ b \div WordBits = k /\ b % WordBits = e
    BY <1>1 DEF Place
  <1>3. PICK B \in Int : C = 2 * B
    <2>1. WordBits - e - 1 \in Nat /\ (WordBits - e - 1) + 1 = WordBits - e
      BY WordBitsFacts
    <2>2. Power(2, (WordBits - e - 1) + 1) = 2 * Power(2, WordBits - e - 1)
          /\ Power(2, WordBits - e - 1) \in Int
      BY <2>1, PowerStep, 2 \in Int
    <2>3. QED
      BY <1>2, <2>1, <2>2
  <1>4. PICK u \in Int : /\ Lower(x, n) = Lower(x, k) + Size(k) * (x[k + 1] + Radix * u)
                         /\ x[k + 1] \in Words /\ x[k + 1] \in Int
                         /\ Lower(x, k) \in 0 .. Size(k) - 1 /\ Size(k) \in Nat \ {0}
    BY LowerWord
  <1>5. PICK s \in Nat \ {0}, lo \in Int, w \in Int :
          s = Size(k) /\ lo = Lower(x, k) /\ w = x[k + 1] /\ 0 <= lo /\ lo <= s - 1
    BY <1>4
  <1>6. PICK v \in Int, t \in 0 .. A - 1 : w = t + A * v /\ v = w \div A
    <2>1. w % A \in 0 .. A - 1 /\ w \div A \in Int /\ w % A = w - A * (w \div A)
      BY DivMod
    <2>2. PICK v \in Int, t \in 0 .. A - 1 : v = w \div A /\ t = w % A
      BY <2>1
    <2>3. t = w - A * v
      BY <2>1, <2>2
    <2>4. w = t + A * v
      BY <2>3
    <2>5. QED
      BY <2>2, <2>4
  <1>7. PICK q \in Int, bit \in {0, 1} : v = 2 * q + bit /\ bit = v % 2
    OBVIOUS
  <1>8. BitOf(x, b) = bit
    BY <1>2, <1>5, <1>6, <1>7 DEF BitOf
  <1>9. PICK rest \in 0 .. s * A - 1 : rest = lo + s * t
    <2>1. lo + s * t \in Int /\ lo + s * t >= 0
      BY <1>5
    <2>2. PICK d \in Nat : d = (A - 1) - t
      OBVIOUS
    <2>3. s * A = s * t + s * d + s
      <3>1. A = t + d + 1
        BY <2>2
      <3>2. s * (t + d + 1) = s * t + s * d + s
        OBVIOUS
      <3>3. QED
        BY <3>1, <3>2
    <2>4. s * d >= 0 /\ s * d \in Int /\ s * t \in Int
      OBVIOUS
    <2>5. lo + s * t < s * A
      BY <1>5, <2>3, <2>4
    <2>6. QED
      BY <2>1, <2>5
  <1>10. PICK M \in Nat \ {0} : M = s * A
    OBVIOUS
  <1>11. PICK D \in Int : D = Natural(x) /\ D = Lower(x, n)
    BY NumberFacts
  <1>12. PICK y \in Int : y = q + B * u
    OBVIOUS
  <1>13. D = rest + (2 * y + bit) * M
    <2>1. D = lo + s * ((t + A * (2 * q + bit)) + (A * (2 * B)) * u)
      BY <1>2, <1>3, <1>4, <1>5, <1>6, <1>7, <1>11
    <2>2. s * ((t + A * (2 * q + bit)) + (A * (2 * B)) * u)
            = s * t + (2 * (q + B * u) + bit) * (s * A)
      OBVIOUS
    <2>3. PICK p \in Int : p = s * t
      OBVIOUS
    <2>4. PICK z \in Int : z = (2 * y + bit) * M
      OBVIOUS
    <2>5. D = lo + (p + z)
      BY <1>10, <1>12, <2>1, <2>2, <2>3, <2>4
    <2>6. QED
      BY <1>9, <2>3, <2>4, <2>5
  <1>14. D \div M = 2 * y + bit
    BY <1>9, <1>10, <1>13, ModUnique, 2 * y + bit \in Int
  <1>15. D \div (2 * M) = y
    <2>1. PICK z \in Int : z = y * M
      OBVIOUS
    <2>2. (2 * y + bit) * M = 2 * z + bit * M
      BY <2>1
    <2>3. y * (2 * M) = 2 * z
      BY <2>1
    <2>4. rest + bit * M \in 0 .. 2 * M - 1 /\ 2 * M \in Nat \ {0}
      BY <1>9, <1>10
    <2>5. bit * M \in Int
      OBVIOUS
    <2>6. D = (rest + bit * M) + y * (2 * M)
      BY <1>13, <2>2, <2>3, <2>5
    <2>7. QED
      BY <2>4, <2>6, ModUnique
  <1>16. Power(2, b + 1) = 2 * M
    BY <1>2, <1>5, <1>10, PowerStep, 2 \in Int, b \in Nat
  <1>17. QED
    BY <1>2, <1>5, <1>8, <1>10, <1>11, <1>14, <1>15, <1>16 DEF Upper

-----------------------------------------------------------------------------
(* Binary long division.                                                   *)

\* A word shifted left by one bit, and the bit that is shifted out.
LEMMA ShiftWord ==
  ASSUME NEW w \in Words, NEW c \in {0, 1}
  PROVE  /\ w \div (Radix \div 2) \in {0, 1}
         /\ Wrap(2 * w) + c \in Words
         /\ w + w + c = (Wrap(2 * w) + c) + Radix * (w \div (Radix \div 2))
  <1>1. PICK h \in Nat : Radix = 2 * h /\ Radix \div 2 = h
    BY RadixFacts
  <1>2. h \in Nat \ {0} /\ Radix \in Nat \ {0} /\ w \in Int /\ 0 <= w /\ w < 2 * h
    BY <1>1, RadixFacts DEF Words
  <1>3. PICK t \in {0, 1} : w - t * h \in 0 .. h - 1
    BY <1>2
  <1>4. w \div h = t
    <2>1. w = (w - t * h) + t * h
      BY <1>2
    <2>2. QED
      BY <1>2, <1>3, <2>1, ModUnique
  <1>5. Wrap(2 * w) = 2 * w - t * Radix
    <2>1. 2 * w - t * Radix \in 0 .. Radix - 1
      BY <1>1, <1>2, <1>3
    <2>2. 2 * w = (2 * w - t * Radix) + t * Radix
      BY <1>2
    <2>3. QED
      BY <1>2, <2>1, <2>2, ModUnique DEF Wrap
  <1>6. Wrap(2 * w) + c \in 0 .. Radix - 1
    BY <1>1, <1>2, <1>3, <1>5
  <1>7. w + w + c = (Wrap(2 * w) + c) + Radix * t
    BY <1>2, <1>5
  <1>8. QED
    BY <1>1, <1>4, <1>6, <1>7 DEF Words

\* ShiftIn doubles and adds the bit.
LEMMA ShiftInIs ==
  ASSUME NEW n \in Nat \ {0}, NEW x \in WordSeq(n), NEW bit \in {0, 1},
         2 * Natural(x) + bit < Size(n)
  PROVE  /\ ShiftIn(x, bit) \in WordSeq(n)
         /\ Natural(ShiftIn(x, bit)) = 2 * Natural(x) + bit
  <1> DEFINE s == ShiftIn(x, bit)
             c == [i \in 0 .. n |-> IF i = 0 THEN bit ELSE x[i] \div (Radix \div 2)]
  <1>1. Len(x) = n /\ n \in Nat
    BY WordSeqFacts
  <1>2. \A i \in 1 .. n : s[i] = Wrap(2 * x[i]) + c[i - 1]
    BY <1>1 DEF ShiftIn
  <1>3. \A i \in 0 .. n : c[i] \in {0, 1}
    <2>1. ASSUME NEW i \in 1 .. n PROVE c[i] \in {0, 1}
      <3>1. x[i] \in Words
        BY WordSeqFacts
      <3>2. x[i] \div (Radix \div 2) \in {0, 1}
        BY <3>1, ShiftWord, 0 \in {0, 1}
      <3>3. QED
        BY <3>2
    <2>2. c[0] \in {0, 1}
      OBVIOUS
    <2> HIDE DEF c
    <2>3. QED
      BY <2>1, <2>2
  <1>4. s = [i \in 1 .. n |-> s[i]]
    BY <1>1 DEF ShiftIn
  <1>5. ASSUME NEW i \in 1 .. n
        PROVE  s[i] \in Words /\ c[i] \in Int /\ x[i] + 1 * x[i] + c[i - 1] = s[i] + Radix * c[i]
    <2>1. x[i] \in Words /\ x[i] \in Int
      BY WordSeqFacts
    <2>2. c[i - 1] \in {0, 1}
      BY <1>3
    <2>3. PICK d \in {0, 1} : d = c[i - 1]
      BY <2>2
    <2>4. /\ Wrap(2 * x[i]) + d \in Words
          /\ x[i] + x[i] + d = (Wrap(2 * x[i]) + d) + Radix * (x[i] \div (Radix \div 2))
      BY <2>1, ShiftWord
    <2>5. c[i] = x[i] \div (Radix \div 2) /\ c[i] \in Int
      BY <1>3
    <2>6. s[i] = Wrap(2 * x[i]) + d
      BY <1>2, <2>3
    <2> HIDE DEF s, c
    <2>7. 1 * x[i] = x[i]
      BY <2>1
    <2>8. QED
      BY <2>3, <2>4, <2>5, <2>6, <2>7
  <1>6. c[0] = bit
    OBVIOUS
  <1> HIDE DEF s, c
  <1>7. s \in WordSeq(n)
    BY <1>1, <1>4, <1>5, IsWordSeq DEF AreWords
  <1>8. Ints(x, n) /\ Ints(s, n)
    BY <1>7, WordSeqFacts
  <1>9. Chained(n, 1, x, x, c, s)
    BY <1>5, <1>6 DEF Chained
  <1>10. Lower(x, n) + 1 * Lower(x, n) + c[0] = Lower(s, n) + c[n] * Size(n)
    BY <1>1, <1>8, <1>9, ChainSum, 1 \in Int
  <1>11. /\ Natural(x) = Lower(x, n) /\ Natural(x) \in Int
         /\ Natural(s) = Lower(s, n) /\ 0 <= Natural(s) /\ Natural(s) \in Int
         /\ Size(n) \in Nat \ {0}
    BY <1>7, NumberFacts, SizeStep
  <1>12. PICK t \in {0, 1} : t = c[n]
    BY <1>3
  <1>13. 2 * Natural(x) + bit = Natural(s) + t * Size(n)
    BY <1>6, <1>10, <1>11, <1>12
  <1>14. t = 0
    BY <1>11, <1>13
  <1>15. QED
    BY <1>7, <1>11, <1>13, <1>14 DEF s

\* A number one word of which is another.
WordSet(n, x, i, w, y) ==
  y \in WordSeq(n) /\ Lower(y, n) = Lower(x, n) + (w - x[i]) * Size(i - 1)

\* What a change of one word does to the number.
LEMMA LowerExcept ==
  ASSUME NEW n \in Nat \ {0}, NEW x \in WordSeq(n), NEW i \in 1 .. n, NEW w \in Words
  PROVE  WordSet(n, x, i, w, [x EXCEPT ![i] = w])
  <1> DEFINE y == [x EXCEPT ![i] = w]
  <1>1. x \in Seq(Words) /\ Len(x) = n
    BY DEF WordSeq
  <1>2. y \in WordSeq(n)
    BY <1>1 DEF WordSeq
  <1>3. y[i] = w /\ \A j \in 1 .. n : j # i => y[j] = x[j]
    BY <1>1
  <1> HIDE DEF y
  <1>4. AreWords(x, n) /\ AreWords(y, n) /\ n \in Nat
    BY <1>2, WordSeqFacts
  <1>5. \A j \in 1 .. n : j > i => y[j] = x[j]
    BY <1>3
  <1>6. i \in 0 .. n /\ n \in 0 .. n
    OBVIOUS
  <1>7. \A k \in 0 .. n : k >= i => Lower(y, k) - Lower(x, k) = Lower(y, i) - Lower(x, i)
    BY <1>4, <1>5, <1>6, EqualAbove
  <1>8. Lower(y, n) - Lower(x, n) = Lower(y, i) - Lower(x, i)
    BY <1>6, <1>7
  <1>9. AreWords(x, i) /\ AreWords(y, i) /\ i \in Nat \ {0}
    BY <1>4 DEF AreWords
  <1>10. /\ Lower(x, i) = Lower(x, i - 1) + x[i] * Size(i - 1)
         /\ Size(i - 1) \in Int /\ x[i] \in Int /\ Lower(x, i - 1) \in Int
    BY <1>9, LowerSplit
  <1>11. Lower(y, i) = Lower(y, i - 1) + y[i] * Size(i - 1)
    BY <1>9, LowerSplit
  <1>12. Lower(x, i - 1) = Lower(y, i - 1)
    <2>1. i - 1 \in Nat /\ \A j \in 1 .. i - 1 : x[j] = y[j]
      BY <1>3
    <2>2. Ints(x, i - 1)
      BY WordSeqFacts DEF Ints
    <2>3. QED
      BY <2>1, <2>2, LowerEqual
  <1>13. Lower(x, n) \in Int /\ Lower(y, n) \in Int
    <2>1. Ints(x, n) /\ Ints(y, n)
      BY <1>2, WordSeqFacts
    <2>2. QED
      BY <2>1, LowerIsInt
  <1>14. w \in Int
    BY RadixFacts DEF Words
  <1>15. Lower(y, n) = Lower(x, n) + (w - x[i]) * Size(i - 1)
    <2>1. PICK s \in Int, v \in Int, lo \in Int, p \in Int, r \in Int :
            s = Size(i - 1) /\ v = x[i] /\ lo = Lower(x, i - 1) /\ p = Lower(x, n) /\ r = Lower(y, n)
      BY <1>10, <1>13
    <2>2. (w - v) * s = w * s - v * s
      BY <1>14
    <2>3. r - p = (lo + w * s) - (lo + v * s)
      BY <1>3, <1>8, <1>10, <1>11, <1>12, <2>1
    <2>4. PICK a \in Int, b \in Int : a = w * s /\ b = v * s
      BY <1>14
    <2>5. r = p + (a - b)
      BY <2>3, <2>4
    <2>6. QED
      BY <2>1, <2>2, <2>4, <2>5
  <1>16. QED
    BY <1>2, <1>15 DEF y, WordSet

\* What is left above some bits is no larger than the number.
LEMMA UpperRange ==
  ASSUME NEW n \in Nat \ {0}, NEW x \in WordSeq(n), NEW b \in Nat
  PROVE  Upper(x, b) \in Int /\ 0 <= Upper(x, b) /\ Upper(x, b) <= Natural(x)
  <1>1. PICK D \in Int : D = Natural(x) /\ D >= 0
    BY NumberFacts
  <1>2. PICK P \in Nat \ {0} : P = Power(2, b)
    BY PowerPositive, 2 \in Nat \ {0}
  <1>3. PICK v \in Int, t \in 0 .. P - 1 : v = D \div P /\ t = D - P * v
    <2>1. D % P \in 0 .. P - 1 /\ D \div P \in Int /\ D % P = D - P * (D \div P)
      BY DivMod
    <2>2. QED
      BY <2>1
  <1>4. D = t + P * v
    BY <1>3
  <1>5. v >= 0
    <2>1. SUFFICES ASSUME v <= -1 PROVE FALSE
      OBVIOUS
    <2>2. P * v <= P * (-1)
      BY <2>1
    <2>3. P * (-1) = -P /\ P * v \in Int
      OBVIOUS
    <2>4. QED
      BY <1>1, <1>4, <2>2, <2>3
  <1>6. v <= P * v
    <2>1. PICK p \in Nat, u \in Nat : P = p + 1 /\ u = v
      BY <1>5, P - 1 \in Nat
    <2>2. (p + 1) * u = p * u + u /\ p * u \in Nat
      OBVIOUS
    <2>3. QED
      BY <2>1, <2>2
  <1>7. P * v \in Int
    OBVIOUS
  <1>8. v <= D
    BY <1>4, <1>6, <1>7
  <1>9. QED
    BY <1>1, <1>2, <1>3, <1>5, <1>8 DEF Upper

\* A bit set in a number that has no bits up to it.
LEMMA SetBit ==
  ASSUME NEW n \in Nat \ {0}, NEW x \in WordSeq(n), NEW b \in 0 .. n * WordBits - 1,
         NEW q \in Int, Natural(x) = q * Power(2, b + 1),
         NEW y, y = [x EXCEPT ![b \div WordBits + 1] = @ + Power(2, b % WordBits)]
  PROVE  /\ y \in WordSeq(n)
         /\ Natural(y) = (2 * q + 1) * Power(2, b)
         /\ Natural(x) = (2 * q) * Power(2, b)
  <1>1. PICK k \in 0 .. n - 1, e \in 0 .. WordBits - 1 : Place(b, k, e)
    BY PlaceOf
  <1>2. PICK A \in Nat \ {0}, C \in Nat \ {0} :
          /\ A = Power(2, e) /\ C = Power(2, WordBits - e) /\ Radix = A * C
          /\ Power(2, b) = Size(k) * A /\ b \div WordBits = k /\ b % WordBits = e
    BY <1>1 DEF Place
  <1>3. PICK B \in Nat \ {0} : C = 2 * B
    <2>1. WordBits - e - 1 \in Nat /\ (WordBits - e - 1) + 1 = WordBits - e
      BY WordBitsFacts
    <2>2. Power(2, (WordBits - e - 1) + 1) = 2 * Power(2, WordBits - e - 1)
      BY <2>1, PowerStep, 2 \in Int
    <2>3. Power(2, WordBits - e - 1) \in Nat \ {0}
      BY <2>1, PowerPositive, 2 \in Nat \ {0}
    <2>4. QED
      BY <1>2, <2>1, <2>2, <2>3
  <1>4. PICK u \in Int : /\ Lower(x, n) = Lower(x, k) + Size(k) * (x[k + 1] + Radix * u)
                         /\ x[k + 1] \in Words /\ x[k + 1] \in Int
                         /\ Lower(x, k) \in 0 .. Size(k) - 1 /\ Size(k) \in Nat \ {0}
    BY LowerWord
  <1>5. PICK s \in Nat \ {0}, lo \in Int, w \in Int :
          s = Size(k) /\ lo = Lower(x, k) /\ w = x[k + 1] /\ 0 <= lo /\ lo <= s - 1
    BY <1>4
  <1>6. Power(2, b + 1) = 2 * (s * A)
    BY <1>2, <1>5, PowerStep, 2 \in Int, b \in Nat
  <1>7. Natural(x) = Lower(x, n) /\ Natural(x) \in Int
    BY NumberFacts
  <1>8. lo + s * (w + (A * (2 * B)) * u) = q * (2 * (s * A))
    BY <1>2, <1>3, <1>4, <1>5, <1>6, <1>7
  <1>9. PICK v \in Int : v = q - B * u
    OBVIOUS
  <1>10. lo = s * (2 * A * v - w)
    <2>1. q * (2 * (s * A)) - s * (w + (A * (2 * B)) * u) = s * (2 * A * (q - B * u) - w)
      OBVIOUS
    <2>2. PICK f \in Int, g \in Int : f = q * (2 * (s * A)) /\ g = s * (w + (A * (2 * B)) * u)
      OBVIOUS
    <2>3. lo = f - g
      BY <1>8, <2>2
    <2>4. QED
      BY <1>9, <2>1, <2>2, <2>3
  <1>11. 2 * A * v - w = 0
    <2>1. PICK k1 \in Int : k1 = 2 * A * v - w
      <3>1. 2 * A * v \in Int
        OBVIOUS
      <3>2. PICK z \in Int : z = 2 * A * v
        BY <3>1
      <3>3. z - w \in Int
        OBVIOUS
      <3>4. QED
        BY <3>2, <3>3
    <2>2. lo = k1 * s
      BY <1>10, <2>1
    <2>3. k1 * s < s /\ k1 * s > 0 - s
      BY <1>5, <2>2
    <2>4. k1 = 0
      BY <2>3, NoMultiple
    <2>5. QED
      BY <2>1, <2>4
  <1>12. w = A * (2 * v)
    BY <1>11
  <1>13. w + A \in Words
    <2>1. PICK z \in Int : z = 2 * v
      OBVIOUS
    <2>2. w = A * z /\ Radix = A * C /\ 0 <= w /\ w < Radix
      BY <1>2, <1>4, <1>5, <1>12, <2>1 DEF Words
    <2>3. z < C
      <3>1. SUFFICES ASSUME z >= C PROVE FALSE
        BY <2>1
      <3>2. PICK d \in Nat : z = C + d
        BY <3>1, z - C \in Nat
      <3>3. A * (C + d) = A * C + A * d /\ A * d >= 0 /\ A * d \in Int /\ A * C \in Int
        OBVIOUS
      <3>4. QED
        BY <2>2, <3>2, <3>3
    <2>4. z + 1 < C \/ z + 1 = C
      BY <2>3
    <2>5. z + 1 # C
      BY <1>3, <2>1
    <2>6. PICK d \in Nat : C = z + 1 + d + 1
      BY <2>4, <2>5, C - z - 2 \in Nat
    <2>7. A * (z + 1 + d + 1) = A * z + A + A * d + A
      OBVIOUS
    <2>8. A * d >= 0 /\ A * d \in Int /\ A * z \in Int
      OBVIOUS
    <2>9. w + A < Radix
      BY <2>2, <2>6, <2>7, <2>8
    <2>10. QED
      BY <2>2, <2>9 DEF Words
  <1>14. y = [x EXCEPT ![k + 1] = w + A]
    BY <1>2, <1>5
  <1>15. k + 1 \in 1 .. n /\ (k + 1) - 1 = k
    OBVIOUS
  <1>16. /\ y \in WordSeq(n)
         /\ Lower(y, n) = Lower(x, n) + ((w + A) - x[k + 1]) * Size((k + 1) - 1)
    <2>1. PICK w1 \in Words, j \in 1 .. n : w1 = w + A /\ j = k + 1
      BY <1>13, <1>15
    <2>2. WordSet(n, x, j, w1, [x EXCEPT ![j] = w1])
      BY LowerExcept
    <2>3. y = [x EXCEPT ![j] = w1]
      BY <1>14, <2>1
    <2>4. QED
      BY <2>1, <2>2, <2>3 DEF WordSet
  <1>17. Natural(y) = Lower(y, n)
    BY <1>16, NumberFacts
  <1>18. Natural(y) = Natural(x) + A * s
    <2>1. (w + A) - x[k + 1] = A
      BY <1>5
    <2>2. QED
      BY <1>5, <1>7, <1>15, <1>16, <1>17, <2>1
  <1>19. PICK M \in Int : M = s * A
    OBVIOUS
  <1>20. Power(2, b) = M /\ Power(2, b + 1) = 2 * M /\ A * s = M
    BY <1>2, <1>5, <1>6, <1>19
  <1>21. Natural(x) = q * (2 * M)
    BY <1>20
  <1>22. q * (2 * M) = (2 * q) * M /\ (2 * q + 1) * M = (2 * q) * M + M
    OBVIOUS
  <1>23. QED
    BY <1>16, <1>18, <1>20, <1>21, <1>22

DivisionStates(n) == [quotient : WordSeq(n), remainder : WordSeq(n)]

\* The bits of x from bit b, divided by d.
Dividing(n, x, d, a, b) ==
  /\ a \in DivisionStates(n)
  /\ Natural(a.remainder) < Natural(d)
  /\ \E q \in Int : /\ Natural(a.quotient) = q * Power(2, b)
                    /\ Upper(x, b) = q * Natural(d) + Natural(a.remainder)

\* The quotient does not lose a bit: so far it is at most the dividend.
LEMMA QuotientAtMost ==
  ASSUME NEW q \in Int, NEW d \in Int, NEW r \in Int, NEW v \in Int,
         v = q * d + r, 0 <= r, r < d, 0 <= v
  PROVE  0 <= r /\ r <= v
  <1>1. q >= 0
    <2>1. SUFFICES ASSUME q <= -1 PROVE FALSE
      OBVIOUS
    <2>2. PICK p \in Nat : q = -1 - p
      BY <2>1, -1 - q \in Nat
    <2>3. (-1 - p) * d = -d - p * d
      OBVIOUS
    <2>4. d \in Nat
      OBVIOUS
    <2>5. p * d >= 0 /\ p * d \in Int
      BY <2>4
    <2>6. QED
      BY <2>2, <2>3, <2>5
  <1>2. q * d >= 0 /\ q * d \in Int
    <2>1. q \in Nat /\ d \in Nat
      BY <1>1
    <2>2. QED
      BY <2>1
  <1>3. QED
    BY <1>2

\* A step of the long division takes in a bit and keeps the equation of division.
LEMMA BitStepIs ==
  ASSUME NEW n \in Nat \ {0}, NEW x \in WordSeq(n), NEW d \in WordSeq(n),
         NEW b \in 0 .. n * WordBits - 1, NEW a, Dividing(n, x, d, a, b + 1)
  PROVE  Dividing(n, x, d, BitStep(x, d, a, b), b)
  <1>1. n \in Nat \ {0} /\ b \in Nat /\ b + 1 \in Nat
    OBVIOUS
  <1>2. a.quotient \in WordSeq(n) /\ a.remainder \in WordSeq(n)
    BY DEF Dividing, DivisionStates
  <1>3. a = [quotient |-> a.quotient, remainder |-> a.remainder]
    BY DEF Dividing, DivisionStates
  <1>4. PICK q \in Int : /\ Natural(a.quotient) = q * Power(2, b + 1)
                         /\ Upper(x, b + 1) = q * Natural(d) + Natural(a.remainder)
    BY DEF Dividing
  <1>5. PICK D \in Int, N \in Int, S \in Int, R \in Int, V \in Int, U \in Int :
          /\ D = Natural(d) /\ N = Natural(x) /\ S = Size(n) /\ R = Natural(a.remainder)
          /\ V = Upper(x, b + 1) /\ U = Upper(x, b)
          /\ 0 <= D /\ D < S /\ N < S /\ 0 <= R /\ 0 <= V /\ U <= N
    <2>1. Natural(d) \in 0 .. Size(n) - 1 /\ Natural(x) \in 0 .. Size(n) - 1
          /\ Natural(a.remainder) \in 0 .. Size(n) - 1
      BY <1>1, <1>2, NumberFacts
    <2>2. Size(n) \in Int
      BY <1>1, SizeStep
    <2>3. Upper(x, b + 1) \in Int /\ 0 <= Upper(x, b + 1)
      BY <1>1, UpperRange
    <2>4. Upper(x, b) \in Int /\ Upper(x, b) <= Natural(x)
      BY <1>1, UpperRange
    <2>5. PICK S \in Int : S = Size(n)
      BY <2>2
    <2>6. PICK D \in Int, N \in Int, R \in Int :
            /\ D = Natural(d) /\ N = Natural(x) /\ R = Natural(a.remainder)
            /\ 0 <= D /\ D < S /\ N < S /\ 0 <= R
      BY <2>1, <2>5
    <2>7. PICK V \in Int, U \in Int :
            V = Upper(x, b + 1) /\ U = Upper(x, b) /\ 0 <= V /\ U <= N
      BY <2>3, <2>4, <2>6
    <2>8. QED
      BY <2>5, <2>6, <2>7, Zenon
  <1>6. R < D
    BY <1>5 DEF Dividing
  <1>7. PICK bit \in {0, 1} : bit = BitOf(x, b)
    BY <1>1, BitOfIs
  <1>8. U = 2 * V + bit
    BY <1>1, <1>5, <1>7, BitOfIs
  <1>9. V = q * D + R
    BY <1>4, <1>5
  <1>10. R <= V
    BY <1>5, <1>6, <1>9, QuotientAtMost
  <1>11. 2 * R + bit < S
    BY <1>5, <1>8, <1>10
  <1> DEFINE rem == ShiftIn(a.remainder, bit)
  <1>12. rem \in WordSeq(n) /\ Natural(rem) = 2 * R + bit
    <2>1. 2 * Natural(a.remainder) + bit < Size(n)
      BY <1>5, <1>11
    <2>2. QED
      BY <1>1, <1>2, <1>5, <2>1, ShiftInIs
  <1> HIDE DEF rem
  <1>13. gray_u256_lt(rem, d) <=> 2 * R + bit < D
    BY <1>1, <1>5, <1>12, UnsignedLt
  <1>14. PICK y : y = [a.quotient EXCEPT ![b \div WordBits + 1] = @ + Power(2, b % WordBits)]
    OBVIOUS
  <1>15. /\ y \in WordSeq(n)
         /\ Natural(y) = (2 * q + 1) * Power(2, b)
         /\ Natural(a.quotient) = (2 * q) * Power(2, b)
    BY <1>1, <1>2, <1>4, <1>14, SetBit
  <1>16. 2 * q \in Int /\ 2 * q + 1 \in Int
    OBVIOUS
  <1>17. PICK z \in Int : z = q * D
    OBVIOUS
  <1>18. (2 * q) * D = 2 * z /\ (2 * q + 1) * D = 2 * z + D
    <2>1. (2 * q) * D = 2 * (q * D) /\ (2 * q + 1) * D = 2 * (q * D) + D
      OBVIOUS
    <2>2. QED
      BY <1>17, <2>1
  <1>19. CASE 2 * R + bit < D
    <2> DEFINE c == [quotient |-> a.quotient, remainder |-> rem]
    <2>1. BitStep(x, d, a, b) = c
      <3>1. BitStep(x, d, a, b) = [a EXCEPT !.remainder = rem]
        BY <1>7, <1>13, <1>19 DEF BitStep, rem
      <3>2. [a EXCEPT !.remainder = rem] = c
        BY <1>3
      <3>3. QED
        BY <3>1, <3>2
    <2>2. c \in DivisionStates(n) /\ c.quotient = a.quotient /\ c.remainder = rem
      BY <1>2, <1>12 DEF DivisionStates
    <2> HIDE DEF c
    <2>3. U = (2 * q) * D + (2 * R + bit)
      BY <1>8, <1>9, <1>17, <1>18
    <2>4. Natural(c.remainder) = 2 * R + bit
      BY <1>12, <2>2
    <2>5. Dividing(n, x, d, c, b)
      <3>1. Natural(c.remainder) < Natural(d)
        BY <1>5, <1>19, <2>4
      <3>2. /\ Natural(c.quotient) = (2 * q) * Power(2, b)
            /\ Upper(x, b) = (2 * q) * Natural(d) + Natural(c.remainder)
        BY <1>5, <1>15, <2>2, <2>3, <2>4
      <3>3. QED
        BY <1>16, <2>2, <3>1, <3>2 DEF Dividing
    <2>6. QED
      BY <2>1, <2>5
  <1>20. CASE ~(2 * R + bit < D)
    <2> DEFINE c == [remainder |-> Sub(rem, d), quotient |-> y]
    <2>1. BitStep(x, d, a, b) = c
      BY <1>7, <1>13, <1>14, <1>20 DEF BitStep, rem
    <2>2. Sub(rem, d) \in WordSeq(n)
      BY <1>12, SubExact
    <2>3. c \in DivisionStates(n) /\ c.quotient = y /\ c.remainder = Sub(rem, d)
      BY <1>15, <2>2 DEF DivisionStates
    <2>4. Natural(Sub(rem, d)) = (2 * R + bit) - D
      <3>1. PICK e \in {0, 1} : Lower(rem, n) - Lower(d, n) = Lower(Sub(rem, d), n) - e * Size(n)
        BY <1>12, SubExact
      <3>2. /\ Natural(rem) = Lower(rem, n) /\ Natural(d) = Lower(d, n)
            /\ Natural(Sub(rem, d)) = Lower(Sub(rem, d), n)
            /\ Natural(Sub(rem, d)) \in 0 .. Size(n) - 1
        BY <1>1, <1>12, <2>2, NumberFacts
      <3>3. PICK t \in Int : t = Natural(Sub(rem, d)) /\ 0 <= t /\ t < S
        BY <1>5, <3>2
      <3>4. (2 * R + bit) - D = t - e * S
        BY <1>5, <1>12, <3>1, <3>2, <3>3
      <3>5. e = 0
        BY <1>5, <1>20, <3>3, <3>4
      <3>6. QED
        BY <3>3, <3>4, <3>5
    <2> HIDE DEF c
    <2>5. U = (2 * q + 1) * D + ((2 * R + bit) - D)
      BY <1>8, <1>9, <1>17, <1>18
    <2>6. Natural(c.remainder) = (2 * R + bit) - D
      BY <2>3, <2>4
    <2>7. Dividing(n, x, d, c, b)
      <3>1. Natural(c.remainder) < Natural(d)
        BY <1>5, <1>6, <2>6
      <3>2. /\ Natural(c.quotient) = (2 * q + 1) * Power(2, b)
            /\ Upper(x, b) = (2 * q + 1) * Natural(d) + Natural(c.remainder)
        BY <1>5, <1>15, <2>3, <2>5, <2>6
      <3>3. QED
        BY <1>16, <2>3, <3>1, <3>2 DEF Dividing
    <2>8. QED
      BY <2>1, <2>7
  <1>21. QED
    BY <1>19, <1>20

\* x divided by d.
Divides(n, x, d, a) ==
  /\ a \in DivisionStates(n)
  /\ Natural(a.remainder) < Natural(d)
  /\ Natural(x) = Natural(a.quotient) * Natural(d) + Natural(a.remainder)

\* Above all bits there is nothing, above none the number.
LEMMA UpperEnds ==
  ASSUME NEW n \in Nat \ {0}, NEW x \in WordSeq(n)
  PROVE  Upper(x, n * WordBits) = 0 /\ Upper(x, 0) = Natural(x)
  <1>1. PICK X \in Int : X = Natural(x) /\ X \in 0 .. Size(n) - 1
    BY NumberFacts
  <1>2. Power(2, n * WordBits) = Size(n) /\ Size(n) \in Nat \ {0}
    BY PowerSize, SizeStep
  <1>3. X \div Size(n) = 0
    <2>1. PICK S \in Nat \ {0} : S = Size(n)
      BY <1>2
    <2>2. X \in 0 .. S - 1 /\ X = X + 0 * S
      BY <1>1, <2>1
    <2>3. QED
      BY <2>1, <2>2, ModUnique, 0 \in Int
  <1>4. X \div 1 = X
    <2>1. 0 \in 0 .. 1 - 1 /\ X = 0 + X * 1 /\ 1 \in Nat \ {0}
      OBVIOUS
    <2>2. (0 + X * 1) \div 1 = X
      BY <2>1, ModUnique
    <2>3. QED
      BY <2>1, <2>2
  <1>5. Power(2, 0) = 1
    BY PowerStep, 2 \in Int, 0 \in Nat
  <1>6. QED
    BY <1>1, <1>2, <1>3, <1>4, <1>5 DEF Upper

\* Zero stands for zero.
LEMMA NaturalZero ==
  ASSUME NEW n \in Nat \ {0}, NEW x \in WordSeq(n)
  PROVE  Zero(x) = Nought(n) /\ Zero(x) \in WordSeq(n) /\ Natural(Zero(x)) = 0
  <1>1. Len(x) = n
    BY WordSeqFacts
  <1>2. Zero(x) = Nought(n)
    BY <1>1 DEF Zero, Small, Nought
  <1>3. Nought(n) \in WordSeq(n) /\ Lower(Nought(n), n) = 0
    BY LowerNought
  <1>4. Natural(Nought(n)) = 0
    BY <1>3, NumberFacts
  <1>5. QED
    BY <1>2, <1>3, <1>4

\* After t steps of a division the quotient and the remainder are exact.
LEMMA DivisionsExact ==
  ASSUME NEW n \in Nat \ {0}, NEW x \in WordSeq(n), NEW d \in WordSeq(n), Natural(d) # 0,
         NEW m \in Nat, m = n * WordBits, NEW a,
         a[0] = [quotient |-> Zero(x), remainder |-> Zero(x)],
         \A t \in 1 .. m : Dividing(n, x, d, a[t - 1], m - t + 1)
                             => a[t] = BitStep(x, d, a[t - 1], m - t)
  PROVE  \A t \in 0 .. m : Dividing(n, x, d, a[t], m - t)
  <1> DEFINE S == {t \in 0 .. m : Dividing(n, x, d, a[t], m - t)}
  <1>1. n \in Nat \ {0}
    OBVIOUS
  <1>2. 0 \in S
    <2>1. Zero(x) \in WordSeq(n) /\ Natural(Zero(x)) = 0
      BY <1>1, NaturalZero
    <2>2. a[0] \in DivisionStates(n) /\ a[0].quotient = Zero(x) /\ a[0].remainder = Zero(x)
      BY <2>1 DEF DivisionStates
    <2>3. Natural(d) > 0 /\ Natural(d) \in Int
      <3>1. Natural(d) \in 0 .. Size(n) - 1
        BY <1>1, NumberFacts
      <3>2. QED
        BY <3>1
    <2>4. Upper(x, m) = 0
      BY <1>1, UpperEnds
    <2>5. Power(2, m) \in Int
      BY PowerStep, 2 \in Int
    <2>6. 0 * Power(2, m) = 0 /\ 0 * Natural(d) + 0 = 0
      BY <2>3, <2>5
    <2>7. Natural(a[0].quotient) = 0 * Power(2, m)
          /\ Upper(x, m) = 0 * Natural(d) + Natural(a[0].remainder)
      BY <2>1, <2>2, <2>4, <2>6
    <2>8. Dividing(n, x, d, a[0], m)
      BY <2>1, <2>2, <2>3, <2>7, 0 \in Int DEF Dividing
    <2>9. m - 0 = m
      OBVIOUS
    <2>10. QED
      BY <2>8, <2>9
  <1>3. ASSUME NEW t \in 1 .. m, t - 1 \in S PROVE t \in S
    <2>1. m - (t - 1) = m - t + 1
      OBVIOUS
    <2>2. Dividing(n, x, d, a[t - 1], m - t + 1)
      BY <1>3, <2>1
    <2>3. a[t] = BitStep(x, d, a[t - 1], m - t)
      BY <2>2
    <2>4. PICK b \in 0 .. n * WordBits - 1 : b = m - t
      BY WordBitsFacts
    <2>5. Dividing(n, x, d, a[t - 1], b + 1)
      BY <2>2, <2>4
    <2>6. Dividing(n, x, d, BitStep(x, d, a[t - 1], b), b)
      BY <2>5, BitStepIs
    <2>7. QED
      BY <2>3, <2>4, <2>6
  <1> HIDE DEF S
  <1>4. \A t \in 0 .. m : t \in S
    BY <1>2, <1>3, UpTo
  <1>5. QED
    BY <1>4 DEF S

\* Long division is division.
LEMMA LongDivisionExact ==
  ASSUME NEW n \in Nat \ {0}, NEW x \in WordSeq(n), NEW d \in WordSeq(n), Natural(d) # 0
  PROVE  Divides(n, x, d, LongDivision(x, d))
  <1> DEFINE m == n * WordBits
             init == [quotient |-> Zero(x), remainder |-> Zero(x)]
             F(f) == f = [t \in 0 .. m |-> IF t = 0 THEN init ELSE BitStep(x, d, f[t - 1], m - t)]
             step == [t \in 1 .. m |-> [c \in DivisionStates(n) |->
                        IF Dividing(n, x, d, c, m - t + 1) THEN BitStep(x, d, c, m - t) ELSE c]]
             a == CHOOSE f : F(f)
  <1>1. n \in Nat \ {0} /\ Len(x) = n
    BY WordSeqFacts
  <1>2. m \in Nat
    BY WordBitsFacts
  <1>3. init \in DivisionStates(n)
    BY <1>1, NaturalZero DEF DivisionStates
  <1>4. ASSUME NEW t \in 1 .. m, NEW c \in DivisionStates(n)
        PROVE  (IF Dividing(n, x, d, c, m - t + 1) THEN BitStep(x, d, c, m - t) ELSE c)
                 \in DivisionStates(n)
    <2>1. PICK b \in 0 .. m - 1 : b = m - t /\ b + 1 = m - t + 1
      BY <1>2
    <2>2. ASSUME Dividing(n, x, d, c, b + 1) PROVE BitStep(x, d, c, b) \in DivisionStates(n)
      <3>1. Dividing(n, x, d, BitStep(x, d, c, b), b)
        BY <2>2, BitStepIs
      <3>2. QED
        BY <3>1 DEF Dividing
    <2>3. QED
      BY <2>1, <2>2
  <1>5. LongDivision(x, d) = a[m]
    BY <1>1 DEF LongDivision
  <1>6. PICK g : Recursive(m, DivisionStates(n), init, step, g)
    <2>1. step \in [1 .. m -> [DivisionStates(n) -> DivisionStates(n)]]
      BY <1>4
    <2> HIDE DEF step, init, m
    <2>2. QED
      BY <1>2, <1>3, <2>1, Recursion
  <1>7. \A t \in 1 .. m, c \in DivisionStates(n) :
           step[t][c] = IF Dividing(n, x, d, c, m - t + 1) THEN BitStep(x, d, c, m - t) ELSE c
    OBVIOUS
  <1> HIDE DEF step, F
  <1>8. /\ g \in [0 .. m -> DivisionStates(n)] /\ g[0] = init
        /\ \A t \in 1 .. m : g[t] = step[t][g[t - 1]]
    BY <1>6 DEF Recursive
  <1>9. ASSUME NEW t \in 1 .. m, Dividing(n, x, d, g[t - 1], m - t + 1)
        PROVE  g[t] = BitStep(x, d, g[t - 1], m - t)
    <2>1. g[t - 1] \in DivisionStates(n)
      BY <1>2, <1>8
    <2>2. step[t][g[t - 1]] = BitStep(x, d, g[t - 1], m - t)
      BY <1>7, <1>9, <2>1
    <2>3. QED
      BY <1>8, <2>2
  <1>10. \A t \in 0 .. m : Dividing(n, x, d, g[t], m - t)
    BY <1>2, <1>8, <1>9, DivisionsExact
  <1>11. \A t \in 1 .. m : g[t] = BitStep(x, d, g[t - 1], m - t)
    <2>1. ASSUME NEW t \in 1 .. m PROVE g[t] = BitStep(x, d, g[t - 1], m - t)
      <3>1. t - 1 \in 0 .. m /\ m - (t - 1) = m - t + 1
        BY <1>2
      <3>2. Dividing(n, x, d, g[t - 1], m - t + 1)
        BY <1>10, <3>1
      <3>3. QED
        BY <1>9, <3>2
    <2>2. QED
      BY <2>1
  <1>12. F(g)
    <2> HIDE DEF m, init
    <2>1. g = [t \in 0 .. m |-> g[t]]
      BY <1>8
    <2>2. \A t \in 0 .. m : g[t] = IF t = 0 THEN init ELSE BitStep(x, d, g[t - 1], m - t)
      BY <1>2, <1>8, <1>11
    <2>3. QED
      BY <2>1, <2>2, Zenon DEF F
  <1>13. F(a)
    BY <1>12, Zenon
  <1> HIDE DEF a
  <1>14. \A t \in 1 .. m : a[t] = BitStep(x, d, a[t - 1], m - t)
    <2> HIDE DEF m, init
    <2>1. QED
      BY <1>2, <1>13 DEF F
  <1>15. a[0] = init
    <2> HIDE DEF m, init
    <2>1. QED
      BY <1>2, <1>13 DEF F
  <1>16. \A t \in 0 .. m : Dividing(n, x, d, a[t], m - t)
    BY <1>2, <1>14, <1>15, DivisionsExact
  <1>17. Dividing(n, x, d, a[m], 0)
    <2>1. m \in 0 .. m /\ m - m = 0
      BY <1>2
    <2>2. QED
      BY <1>16, <2>1
  <1> HIDE DEF m
  <1>18. Divides(n, x, d, a[m])
    <2>1. a[m] \in DivisionStates(n) /\ Natural(a[m].remainder) < Natural(d)
      BY <1>17 DEF Dividing
    <2>2. PICK q \in Int : /\ Natural(a[m].quotient) = q * Power(2, 0)
                           /\ Upper(x, 0) = q * Natural(d) + Natural(a[m].remainder)
      BY <1>17 DEF Dividing
    <2>3. Power(2, 0) = 1
      BY PowerStep, 2 \in Int, 0 \in Nat
    <2>4. Natural(a[m].quotient) = q
      BY <2>2, <2>3
    <2>5. Upper(x, 0) = Natural(x)
      BY <1>1, UpperEnds
    <2>6. QED
      BY <2>1, <2>2, <2>4, <2>5 DEF Divides
  <1>19. QED
    BY <1>5, <1>18

\* A natural number has one form.
LEMMA NaturalUnique ==
  ASSUME NEW n \in Nat \ {0}, NEW l \in WordSeq(n), NEW r \in WordSeq(n), Natural(l) = Natural(r)
  PROVE  l = r
  <1>1. Natural(l) \in Int
    BY NumberFacts
  <1>2. ~gray_u256_lt(l, r)
    BY <1>1, UnsignedLt
  <1>3. ~gray_u256_lt(r, l)
    BY <1>1, UnsignedLt
  <1>4. Differ(l, r) = Differ(r, l)
    <2>1. Len(l) = n /\ Len(r) = n
      BY WordSeqFacts
    <2>2. QED
      BY <2>1 DEF Differ
  <1>5. CASE Differ(l, r) = {}
    BY <1>5, Decided
  <1>6. CASE Differ(l, r) # {}
    <2>1. PICK i : i = Max(Differ(l, r))
      OBVIOUS
    <2>2. i \in 1 .. n /\ l[i] # r[i]
      BY <1>6, <2>1, Decided
    <2>3. l[i] \in Int /\ r[i] \in Int
      BY <2>2, WordSeqFacts
    <2>4. ~(l[i] < r[i])
      BY <1>2, <1>6, <2>1 DEF gray_u256_lt
    <2>5. ~(r[i] < l[i])
      BY <1>3, <1>4, <1>6, <2>1 DEF gray_u256_lt
    <2>6. QED
      BY <2>2, <2>3, <2>4, <2>5
  <1>7. QED
    BY <1>5, <1>6

\* Different words are different signed numbers.
LEMMA SignedNumberUnique ==
  ASSUME NEW n \in Nat \ {0}, NEW l \in WordSeq(n), NEW r \in WordSeq(n),
         SignedNumber(l) = SignedNumber(r)
  PROVE  l = r
  <1>1. PICK h \in Nat \ {0} : Size(n) = 2 * h /\ Size(n) \div 2 = h
    BY HalfSize
  <1>2. /\ SignedNumber(l) = Natural(l) \/ SignedNumber(l) = Natural(l) - 2 * h
        /\ Natural(l) \in Int /\ 0 <= Natural(l) /\ Natural(l) < 2 * h
    BY <1>1, SignedInHalf
  <1>3. /\ SignedNumber(r) = Natural(r) \/ SignedNumber(r) = Natural(r) - 2 * h
        /\ Natural(r) \in Int /\ 0 <= Natural(r) /\ Natural(r) < 2 * h
    BY <1>1, SignedInHalf
  <1>4. Natural(l) = Natural(r)
    BY <1>2, <1>3
  <1>5. QED
    BY <1>4, NaturalUnique

\* Small stands for its word.
LEMMA SmallIs ==
  ASSUME NEW n \in Nat \ {0}, NEW w \in Words
  PROVE  Small(w, n) \in WordSeq(n) /\ Natural(Small(w, n)) = w
  <1> DEFINE s == Small(w, n)
             z == Nought(n)
  <1>1. 0 \in Words
    BY RadixFacts DEF Words
  <1>2. s = [i \in 1 .. n |-> IF i = 1 THEN w ELSE 0]
    BY DEF Small
  <1>3. s = [i \in 1 .. n |-> s[i]]
    BY <1>2
  <1>4. s[1] = w /\ \A i \in 1 .. n : i > 1 => s[i] = 0
    BY <1>2
  <1> HIDE DEF s
  <1>5. s \in WordSeq(n)
    <2>1. \A i \in 1 .. n : s[i] \in Words
      BY <1>1, <1>4
    <2>2. QED
      BY <1>3, <2>1, IsWordSeq DEF AreWords
  <1>6. z \in WordSeq(n) /\ Lower(z, n) = 0 /\ \A i \in 1 .. n : z[i] = 0
    BY LowerNought DEF Nought
  <1> HIDE DEF z
  <1>7. AreWords(s, n) /\ AreWords(z, n) /\ n \in Nat
    BY <1>5, <1>6, WordSeqFacts
  <1>8. \A j \in 1 .. n : j > 1 => s[j] = z[j]
    BY <1>4, <1>6
  <1>9. 1 \in 0 .. n
    OBVIOUS
  <1>10. \A k \in 0 .. n : k >= 1 => Lower(s, k) - Lower(z, k) = Lower(s, 1) - Lower(z, 1)
    BY <1>7, <1>8, <1>9, EqualAbove
  <1>11. Lower(s, n) - Lower(z, n) = Lower(s, 1) - Lower(z, 1)
    BY <1>10, n \in 0 .. n
  <1>12. Lower(s, 1) = w /\ Lower(z, 1) = 0
    <2>1. 1 - 1 = 0 /\ 1 \in Nat \ {0} /\ Size(0) = 1
      BY SizeStep
    <2>2. AreWords(s, 1) /\ AreWords(z, 1)
      BY <1>7 DEF AreWords
    <2>3. Lower(s, 1) = Lower(s, 0) + s[1] * Size(0) /\ s[1] \in Int
      BY <2>1, <2>2, LowerSplit
    <2>4. Lower(z, 1) = Lower(z, 0) + z[1] * Size(0)
      BY <2>1, <2>2, LowerSplit
    <2>5. Lower(s, 0) = 0 /\ Lower(z, 0) = 0
      <3>1. Ints(s, 0) /\ Ints(z, 0)
        BY DEF Ints
      <3>2. QED
        BY <3>1, LowerValue, 0 \in Nat
    <2>6. QED
      BY <1>4, <1>6, <2>1, <2>3, <2>4, <2>5
  <1>13. Natural(s) = Lower(s, n) /\ Natural(s) \in Int
    BY <1>5, NumberFacts
  <1>14. Natural(s) = w
    BY <1>6, <1>11, <1>12, <1>13, RadixFacts DEF Words
  <1>15. QED
    BY <1>5, <1>14 DEF s

\* A number whose upper words are zero is its lowest word.
LEMMA OneWordIs ==
  ASSUME NEW n \in Nat \ {0}, NEW x \in WordSeq(n), OneWord(x)
  PROVE  x[1] \in Words /\ Natural(x) = x[1]
  <1>1. Len(x) = n /\ x[1] \in Words /\ x = [i \in 1 .. n |-> x[i]]
    BY WordSeqFacts
  <1>2. \A i \in 1 .. n : x[i] = IF i = 1 THEN x[1] ELSE 0
    BY <1>1 DEF OneWord
  <1>3. x = Small(x[1], n)
    BY <1>1, <1>2, Zenon DEF Small
  <1>4. Natural(Small(x[1], n)) = x[1]
    BY <1>1, SmallIs
  <1>5. QED
    BY <1>1, <1>3, <1>4

PanicPair == [quotient |-> Panic, remainder |-> Panic]

\* divmod divides, or panics where the divisor is zero.
LEMMA DivmodIs ==
  ASSUME NEW n \in Nat \ {0}, NEW x \in WordSeq(n), NEW d \in WordSeq(n)
  PROVE  /\ Natural(d) = 0 => divmod(x, d) = PanicPair
         /\ Natural(d) # 0 => Divides(n, x, d, divmod(x, d))
  <1>1. n \in Nat \ {0} /\ Len(x) = n
    BY WordSeqFacts
  <1>2. Zero(d) \in WordSeq(n) /\ Natural(Zero(d)) = 0
    BY <1>1, NaturalZero
  <1>3. d = Zero(d) <=> Natural(d) = 0
    BY <1>1, <1>2, NaturalUnique
  <1>4. CASE Natural(d) = 0
    BY <1>3, <1>4 DEF divmod, PanicPair
  <1>5. CASE Natural(d) # 0 /\ OneWord(x) /\ OneWord(d)
    <2> DEFINE q == x[1] \div d[1]
               r == x[1] % d[1]
               a == [quotient |-> Small(q, n), remainder |-> Small(r, n)]
    <2>1. divmod(x, d) = a
      BY <1>1, <1>3, <1>5 DEF divmod
    <2>2. x[1] \in Words /\ Natural(x) = x[1] /\ d[1] \in Words /\ Natural(d) = d[1]
      BY <1>1, <1>5, OneWordIs
    <2>3. PICK M \in Nat \ {0}, X \in Int : M = d[1] /\ X = x[1] /\ 0 <= X /\ X < Radix /\ M < Radix
      BY <1>5, <2>2, RadixFacts DEF Words
    <2>4. PICK v \in Int, t \in 0 .. M - 1 : v = X \div M /\ t = X % M /\ t = X - M * v
      <3>1. X % M \in 0 .. M - 1 /\ X \div M \in Int /\ X % M = X - M * (X \div M)
        BY DivMod
      <3>2. QED
        BY <3>1
    <2>5. X = t + M * v /\ M * v \in Int
      BY <2>4
    <2>6. v \in 0 .. Radix - 1
      <3>1. PICK R \in Nat : R = Radix
        BY RadixFacts
      <3>2. X < M * R
        <4>1. PICK p \in Nat : M = p + 1
          BY M - 1 \in Nat
        <4>2. (p + 1) * R = p * R + R /\ p * R \in Nat
          OBVIOUS
        <4>3. QED
          BY <2>3, <3>1, <4>1, <4>2
      <3>3. QED
        BY <2>3, <2>5, <3>1, <3>2, QuotientBound
    <2>7. v \in Words /\ t \in Words /\ q = v /\ r = t
      BY <2>3, <2>4, <2>6, RadixFacts DEF Words
    <2>8. /\ Small(v, n) \in WordSeq(n) /\ Natural(Small(v, n)) = v
          /\ Small(t, n) \in WordSeq(n) /\ Natural(Small(t, n)) = t
      BY <1>1, <2>7, SmallIs
    <2> HIDE DEF q, r
    <2>9. a \in DivisionStates(n) /\ a.quotient = Small(v, n) /\ a.remainder = Small(t, n)
      BY <2>7, <2>8 DEF DivisionStates
    <2> HIDE DEF a
    <2>10. Natural(a.remainder) < Natural(d)
      BY <2>2, <2>3, <2>8, <2>9
    <2>11. v * M = M * v
      OBVIOUS
    <2>12. Natural(x) = Natural(a.quotient) * Natural(d) + Natural(a.remainder)
      BY <2>2, <2>3, <2>5, <2>8, <2>9, <2>11
    <2>13. Divides(n, x, d, a)
      BY <2>9, <2>10, <2>12 DEF Divides
    <2>14. QED
      BY <1>5, <2>1, <2>13
  <1>6. CASE Natural(d) # 0 /\ ~(OneWord(x) /\ OneWord(d))
    <2>1. divmod(x, d) = LongDivision(x, d)
      BY <1>3, <1>6 DEF divmod
    <2>2. Divides(n, x, d, LongDivision(x, d))
      BY <1>6, LongDivisionExact
    <2>3. QED
      BY <1>6, <2>1, <2>2
  <1>7. QED
    BY <1>4, <1>5, <1>6

-----------------------------------------------------------------------------
(* Division that truncates.                                                *)

\* The truncated quotient of two numbers from that of their magnitudes.
LEMMA TruncatedOf ==
  ASSUME NEW a \in Int, NEW b \in Int, NEW q \in Int, NEW t \in Int,
         Abs(a) = q * Abs(b) + t, 0 <= t, t < Abs(b)
  PROVE  Truncated(a, b) = IF a < 0 <=> b < 0 THEN q ELSE -q
  <1>1. PICK A \in Int, B \in Nat \ {0} : A = Abs(a) /\ B = Abs(b)
    BY DEF Abs
  <1>2. A = t + q * B /\ t \in 0 .. B - 1
    <2>1. q * B \in Int
      OBVIOUS
    <2>2. QED
      BY <1>1, <2>1
  <1>3. A \div B = q
    BY <1>2, ModUnique
  <1>4. Truncated(a, b) = IF a < 0 <=> b < 0 THEN A \div B ELSE -(A \div B)
    BY <1>1 DEF Truncated
  <1>5. QED
    BY <1>3, <1>4

\* Magnitude is the magnitude, of the least number too, which has no negative.
LEMMA MagnitudeIs ==
  ASSUME NEW n \in {2, 4}, NEW x \in WordSeq(n)
  PROVE  Magnitude(x) \in WordSeq(n) /\ Natural(Magnitude(x)) = Abs(SignedNumber(x))
  <1>1. n \in Nat \ {0}
    OBVIOUS
  <1>2. PICK h \in Nat \ {0} : Size(n) = 2 * h /\ Size(n) \div 2 = h
    BY <1>1, HalfSize
  <1>3. /\ SignedNumber(x) \in Int /\ 0 - h <= SignedNumber(x) /\ SignedNumber(x) < h
        /\ IsNeg(x) <=> SignedNumber(x) < 0
        /\ SignedNumber(x) = Natural(x) \/ SignedNumber(x) = Natural(x) - 2 * h
        /\ Natural(x) \in Int /\ 0 <= Natural(x) /\ Natural(x) < 2 * h
    BY <1>1, <1>2, SignedInHalf
  <1>4. CASE ~IsNeg(x)
    BY <1>3, <1>4 DEF Magnitude, Abs
  <1>5. CASE IsNeg(x)
    <2>1. Near(n, x, SignedNumber(x))
      BY <1>1, NearNatural
    <2>2. Near(n, Neg(x), -SignedNumber(x)) /\ Neg(x) \in WordSeq(n)
      BY <2>1, NegNear, NegExact
    <2>3. PICK q \in Int : -SignedNumber(x) = Natural(Neg(x)) + q * Size(n)
      BY <2>2 DEF Near
    <2>4. PICK m \in Int : m = -SignedNumber(x) /\ 0 < m /\ m <= h
      BY <1>3, <1>5
    <2>5. UnsignedFits(n, m)
      BY <1>2, <2>4 DEF UnsignedFits
    <2>6. Natural(Neg(x)) = m
      BY <1>1, <2>2, <2>3, <2>4, <2>5, UnsignedUnique
    <2>7. Magnitude(x) = Neg(x) /\ Abs(SignedNumber(x)) = m
      BY <1>3, <1>5, <2>4 DEF Magnitude, Abs
    <2>8. QED
      BY <2>2, <2>6, <2>7
  <1>6. QED
    BY <1>4, <1>5

\* The one quotient that does not fit wraps to the dividend.
SignedQuotient(n, a, b) == IF SignedFits(n, Truncated(a, b)) THEN Truncated(a, b) ELSE a

\* What the division of the magnitudes returns.
Quotients(n, l, r, a, q, t) ==
  /\ a.quotient \in WordSeq(n) /\ a.remainder \in WordSeq(n)
  /\ q = Natural(a.quotient) /\ t = Natural(a.remainder)
  /\ Abs(SignedNumber(l)) = q * Abs(SignedNumber(r)) + t
  /\ 0 <= t /\ t < Abs(SignedNumber(r)) /\ 0 <= q /\ q <= Abs(SignedNumber(l))

\* Magnitudes divide as magnitudes.
LEMMA MagnitudesDivide ==
  ASSUME NEW n \in {2, 4}, NEW l \in WordSeq(n), NEW r \in WordSeq(n), SignedNumber(r) # 0
  PROVE  \E q \in Int, t \in Int :
            Quotients(n, l, r, divmod(Magnitude(l), Magnitude(r)), q, t)
  <1> DEFINE a == divmod(Magnitude(l), Magnitude(r))
  <1>1. n \in Nat \ {0}
    OBVIOUS
  <1>2. /\ Magnitude(l) \in WordSeq(n) /\ Natural(Magnitude(l)) = Abs(SignedNumber(l))
        /\ Magnitude(r) \in WordSeq(n) /\ Natural(Magnitude(r)) = Abs(SignedNumber(r))
    BY MagnitudeIs
  <1>3. SignedNumber(l) \in Int /\ SignedNumber(r) \in Int
    BY <1>1, SignedRange
  <1>4. PICK A \in Int, B \in Nat \ {0} : A = Abs(SignedNumber(l)) /\ B = Abs(SignedNumber(r))
    BY <1>3 DEF Abs
  <1>5. Divides(n, Magnitude(l), Magnitude(r), a)
    BY <1>2, <1>4, DivmodIs
  <1> HIDE DEF a
  <1>6. a.quotient \in WordSeq(n) /\ a.remainder \in WordSeq(n)
    BY <1>5 DEF Divides, DivisionStates
  <1>7. PICK q \in Int, t \in Int : /\ q = Natural(a.quotient) /\ t = Natural(a.remainder)
                                    /\ 0 <= q /\ 0 <= t
    BY <1>1, <1>6, NumberFacts
  <1>8. A = q * B + t /\ t < B
    BY <1>2, <1>4, <1>5, <1>7 DEF Divides
  <1>9. q <= A
    <2>1. PICK p \in Nat, u \in Nat : B = p + 1 /\ u = q
      <3>1. PICK p \in Nat : B = p + 1
        BY B - 1 \in Nat
      <3>2. q \in Nat
        BY <1>7
      <3>3. QED
        BY <3>1, <3>2
    <2>2. u * (p + 1) = u * p + u /\ u * p \in Nat
      OBVIOUS
    <2>3. QED
      BY <1>7, <1>8, <2>1, <2>2
  <1>10. Quotients(n, l, r, a, q, t)
    BY <1>4, <1>6, <1>7, <1>8, <1>9 DEF Quotients
  <1>11. QED
    BY <1>10 DEF a

\* Magnitudes do not divide by zero.
LEMMA DivmodPanics ==
  ASSUME NEW n \in {2, 4}, NEW l \in WordSeq(n), NEW r \in WordSeq(n), SignedNumber(r) = 0
  PROVE  divmod(Magnitude(l), Magnitude(r)) = PanicPair
  <1>1. /\ Magnitude(l) \in WordSeq(n)
        /\ Magnitude(r) \in WordSeq(n) /\ Natural(Magnitude(r)) = Abs(SignedNumber(r))
    BY MagnitudeIs
  <1>2. Natural(Magnitude(r)) = 0
    BY <1>1 DEF Abs
  <1>3. QED
    BY <1>1, <1>2, DivmodIs

\* Signed division is truncated division, and wraps for the one quotient that does not fit.
LEMMA SignedDivIs ==
  ASSUME NEW n \in {2, 4}, NEW l \in WordSeq(n), NEW r \in WordSeq(n)
  PROVE  /\ SignedNumber(r) = 0 => SignedDiv(l, r) = Panic
         /\ SignedNumber(r) # 0 =>
              /\ SignedDiv(l, r) \in WordSeq(n)
              /\ SignedNumber(SignedDiv(l, r))
                   = SignedQuotient(n, SignedNumber(l), SignedNumber(r))
  <1> DEFINE a == divmod(Magnitude(l), Magnitude(r))
             result == SignedDiv(l, r)
  <1>1. n \in Nat \ {0}
    OBVIOUS
  <1>2. PICK h \in Nat \ {0} : Size(n) = 2 * h /\ Size(n) \div 2 = h
    BY <1>1, HalfSize
  <1>3. PICK L \in Int, R \in Int :
          /\ L = SignedNumber(l) /\ R = SignedNumber(r)
          /\ 0 - h <= L /\ L < h /\ 0 - h <= R /\ R < h
          /\ IsNeg(l) <=> L < 0
          /\ IsNeg(r) <=> R < 0
    BY <1>1, <1>2, SignedInHalf
  <1>4. CASE R = 0
    <2>1. a = PanicPair
      BY <1>3, <1>4, DivmodPanics
    <2>2. a.quotient = Panic
      BY <2>1 DEF PanicPair
    <2>3. result = Panic
      BY <2>2 DEF SignedDiv
    <2>4. QED
      BY <1>3, <1>4, <2>3
  <1>5. CASE R # 0
    <2>1. PICK q \in Int, t \in Int : Quotients(n, l, r, a, q, t)
      BY <1>3, <1>5, MagnitudesDivide
    <2>2. /\ a.quotient \in WordSeq(n) /\ q = Natural(a.quotient)
          /\ Abs(L) = q * Abs(R) + t /\ 0 <= t /\ t < Abs(R) /\ 0 <= q /\ q <= Abs(L)
      BY <1>3, <2>1 DEF Quotients
    <2>3. q <= h
      BY <1>3, <2>2 DEF Abs
    <2>4. Truncated(L, R) = IF L < 0 <=> R < 0 THEN q ELSE -q
      BY <2>2, TruncatedOf
    <2>5. a.quotient # Panic
      BY <1>1, <2>2, NotPanic
    <2>6. result = IF L < 0 <=> R < 0 THEN a.quotient ELSE Neg(a.quotient)
      <3>1. result = IF IsNeg(l) <=> IsNeg(r) THEN a.quotient ELSE Neg(a.quotient)
        BY <2>5 DEF SignedDiv, IsNeg
      <3>2. QED
        BY <1>3, <3>1
    <2> HIDE DEF a, result
    <2>7. CASE L < 0 <=> R < 0
      <3>1. /\ SignedNumber(a.quotient) = q \/ SignedNumber(a.quotient) = q - 2 * h
            /\ 0 - h <= SignedNumber(a.quotient) /\ SignedNumber(a.quotient) < h
            /\ SignedNumber(a.quotient) \in Int
        BY <1>1, <1>2, <2>2, SignedInHalf
      <3>2. SignedFits(n, q) <=> q < h
        BY <1>2, <2>2, SignedFitsHalf
      <3>3. CASE q < h
        <4>1. SignedNumber(a.quotient) = q
          BY <2>2, <3>1, <3>3
        <4>2. SignedQuotient(n, L, R) = q
          BY <2>4, <2>7, <3>2, <3>3 DEF SignedQuotient
        <4>3. QED
          BY <1>3, <1>5, <2>2, <2>6, <2>7, <4>1, <4>2 DEF result
      <3>4. CASE ~(q < h)
        <4>1. L = 0 - h
          BY <1>3, <2>2, <3>4 DEF Abs
        <4>2. SignedNumber(a.quotient) = 0 - h
          BY <2>3, <3>1, <3>4
        <4>3. SignedQuotient(n, L, R) = L
          BY <2>4, <2>7, <3>2, <3>4 DEF SignedQuotient
        <4>4. QED
          BY <1>3, <1>5, <2>2, <2>6, <2>7, <4>1, <4>2, <4>3 DEF result
      <3>5. QED
        BY <3>3, <3>4
    <2>8. CASE ~(L < 0 <=> R < 0)
      <3>1. Near(n, a.quotient, q)
        BY <1>1, <2>2, NearNatural
      <3>2. Near(n, Neg(a.quotient), -q) /\ Neg(a.quotient) \in WordSeq(n)
        BY <2>2, <3>1, NegNear, NegExact
      <3>3. PICK p \in Int : -q = Natural(Neg(a.quotient)) + p * Size(n)
        BY <3>2 DEF Near
      <3>4. SignedFits(n, -q) /\ -q \in Int
        BY <1>2, <2>2, <2>3, SignedFitsHalf
      <3>5. SignedNumber(Neg(a.quotient)) = -q
        BY <1>1, <3>2, <3>3, <3>4, SignedUnique
      <3>6. SignedQuotient(n, L, R) = -q
        BY <2>4, <2>8, <3>4 DEF SignedQuotient
      <3>7. QED
        BY <1>3, <1>5, <2>6, <2>8, <3>2, <3>5, <3>6 DEF result
    <2>9. QED
      BY <2>7, <2>8
  <1>6. QED
    BY <1>4, <1>5

\* The signed remainder is that of truncated division.
LEMMA SignedModIs ==
  ASSUME NEW n \in {2, 4}, NEW l \in WordSeq(n), NEW r \in WordSeq(n)
  PROVE  /\ SignedNumber(r) = 0 => SignedMod(l, r) = Panic
         /\ SignedNumber(r) # 0 =>
              /\ SignedMod(l, r) \in WordSeq(n)
              /\ SignedNumber(SignedMod(l, r))
                   = SignedNumber(l)
                       - Truncated(SignedNumber(l), SignedNumber(r)) * SignedNumber(r)
  <1> DEFINE a == divmod(Magnitude(l), Magnitude(r))
             result == SignedMod(l, r)
  <1>1. n \in Nat \ {0}
    OBVIOUS
  <1>2. PICK h \in Nat \ {0} : Size(n) = 2 * h /\ Size(n) \div 2 = h
    BY <1>1, HalfSize
  <1>3. PICK L \in Int, R \in Int :
          /\ L = SignedNumber(l) /\ R = SignedNumber(r)
          /\ 0 - h <= L /\ L < h /\ 0 - h <= R /\ R < h
          /\ IsNeg(l) <=> L < 0
          /\ IsNeg(r) <=> R < 0
    BY <1>1, <1>2, SignedInHalf
  <1>4. CASE R = 0
    <2>1. a = PanicPair
      BY <1>3, <1>4, DivmodPanics
    <2>2. a.remainder = Panic
      BY <2>1 DEF PanicPair
    <2>3. result = Panic
      BY <2>2 DEF SignedMod
    <2>4. QED
      BY <1>3, <1>4, <2>3
  <1>5. CASE R # 0
    <2>1. PICK q \in Int, t \in Int : Quotients(n, l, r, a, q, t)
      BY <1>3, <1>5, MagnitudesDivide
    <2>2. /\ a.remainder \in WordSeq(n) /\ t = Natural(a.remainder)
          /\ Abs(L) = q * Abs(R) + t /\ 0 <= t /\ t < Abs(R)
      BY <1>3, <2>1 DEF Quotients
    <2>3. t < h
      BY <1>3, <2>2 DEF Abs
    <2>4. Truncated(L, R) = IF L < 0 <=> R < 0 THEN q ELSE -q
      BY <2>2, TruncatedOf
    <2>5. a.remainder # Panic
      BY <1>1, <2>2, NotPanic
    <2>6. result = IF L < 0 THEN Neg(a.remainder) ELSE a.remainder
      BY <1>3, <2>5 DEF SignedMod
    <2> HIDE DEF a, result
    <2>7. L - Truncated(L, R) * R = IF L < 0 THEN -t ELSE t
      <3>1. PICK z \in Int : z = q * R
        OBVIOUS
      <3>2. (-q) * R = -z /\ q * (-R) = -z
        <4>1. (-q) * R = -(q * R) /\ q * (-R) = -(q * R)
          OBVIOUS
        <4>2. QED
          BY <3>1, <4>1
      <3>3. Abs(L) = IF L < 0 THEN -L ELSE L
        BY DEF Abs
      <3>4. q * Abs(R) = IF R < 0 THEN -z ELSE z
        BY <3>1, <3>2 DEF Abs
      <3>5. Truncated(L, R) * R = IF L < 0 <=> R < 0 THEN z ELSE -z
        BY <2>4, <3>1, <3>2
      <3>6. QED
        BY <2>2, <3>3, <3>4, <3>5
    <2>8. CASE L < 0
      <3>1. Near(n, a.remainder, t)
        BY <1>1, <2>2, NearNatural
      <3>2. Near(n, Neg(a.remainder), -t) /\ Neg(a.remainder) \in WordSeq(n)
        BY <2>2, <3>1, NegNear, NegExact
      <3>3. PICK p \in Int : -t = Natural(Neg(a.remainder)) + p * Size(n)
        BY <3>2 DEF Near
      <3>4. SignedFits(n, -t) /\ -t \in Int
        BY <1>2, <2>2, <2>3, SignedFitsHalf
      <3>5. SignedNumber(Neg(a.remainder)) = -t
        BY <1>1, <3>2, <3>3, <3>4, SignedUnique
      <3>6. QED
        BY <1>3, <1>5, <2>6, <2>7, <2>8, <3>2, <3>5 DEF result
    <2>9. CASE ~(L < 0)
      <3>1. /\ SignedNumber(a.remainder) = t \/ SignedNumber(a.remainder) = t - 2 * h
            /\ 0 - h <= SignedNumber(a.remainder)
            /\ SignedNumber(a.remainder) \in Int
        BY <1>1, <1>2, <2>2, SignedInHalf
      <3>2. SignedNumber(a.remainder) = t
        BY <2>2, <2>3, <3>1
      <3>3. QED
        BY <1>3, <1>5, <2>2, <2>6, <2>7, <2>9, <3>2 DEF result
    <2>10. QED
      BY <2>8, <2>9
  <1>6. QED
    BY <1>4, <1>5

\* A truncated quotient and its remainder.
Truncates(a, b, q, t) ==
  /\ Abs(a) = q * Abs(b) + t
  /\ 0 <= t /\ t < Abs(b) /\ 0 <= q /\ q <= Abs(a)
  /\ Truncated(a, b) = IF a < 0 <=> b < 0 THEN q ELSE -q
  /\ a - Truncated(a, b) * b = IF a < 0 THEN -t ELSE t

\* Every truncated division has a quotient and a remainder.
LEMMA TruncatedFacts ==
  ASSUME NEW a \in Int, NEW b \in Int, b # 0
  PROVE  \E q \in Int, t \in Int : Truncates(a, b, q, t)
  <1>1. PICK A \in Int, B \in Nat \ {0} : A = Abs(a) /\ B = Abs(b) /\ A >= 0
    BY DEF Abs
  <1>2. PICK q \in Int, t \in Int : t = A - B * q /\ 0 <= t /\ t < B
    <2>1. A % B \in 0 .. B - 1 /\ A \div B \in Int /\ A % B = A - B * (A \div B)
      BY DivMod
    <2>2. PICK q \in Int : q = A \div B
      BY <2>1
    <2>3. PICK t \in Int : t = A % B /\ 0 <= t /\ t < B
      BY <2>1
    <2>4. QED
      BY <2>1, <2>2, <2>3
  <1>3. PICK p \in Nat : B = p + 1
    BY B - 1 \in Nat
  <1>4. q >= 0
    <2>1. SUFFICES ASSUME q <= -1 PROVE FALSE
      OBVIOUS
    <2>2. PICK u \in Nat : q = -1 - u
      BY <2>1, -1 - q \in Nat
    <2>3. B * (-1 - u) = -B - B * u /\ B * u \in Nat
      OBVIOUS
    <2>4. QED
      BY <1>1, <1>2, <2>2, <2>3
  <1>5. A = q * B + t
    <2>1. PICK z \in Int : z = q * B
      OBVIOUS
    <2>2. B * q = z
      BY <2>1
    <2>3. QED
      BY <1>2, <2>1, <2>2
  <1>6. q <= A
    <2>1. q * (p + 1) = q * p + q
      OBVIOUS
    <2>2. q * p >= 0 /\ q * p \in Int
      <3>1. q \in Nat
        BY <1>4
      <3>2. QED
        BY <3>1
    <2>3. QED
      BY <1>2, <1>3, <1>5, <2>1, <2>2
  <1>7. Truncated(a, b) = IF a < 0 <=> b < 0 THEN q ELSE -q
    <2>1. Abs(a) = q * Abs(b) + t /\ 0 <= t /\ t < Abs(b)
      BY <1>1, <1>2, <1>5
    <2>2. QED
      BY <2>1, TruncatedOf
  <1>8. a - Truncated(a, b) * b = IF a < 0 THEN -t ELSE t
    <2>1. PICK z \in Int : z = q * b
      OBVIOUS
    <2>2. (-q) * b = -z /\ q * (-b) = -z
      <3>1. (-q) * b = -(q * b) /\ q * (-b) = -(q * b)
        OBVIOUS
      <3>2. QED
        BY <2>1, <3>1
    <2>3. A = IF a < 0 THEN -a ELSE a
      BY <1>1 DEF Abs
    <2>4. q * B = IF b < 0 THEN -z ELSE z
      BY <1>1, <2>1, <2>2 DEF Abs
    <2>5. Truncated(a, b) * b = IF a < 0 <=> b < 0 THEN z ELSE -z
      BY <1>7, <2>1, <2>2
    <2>6. QED
      BY <1>5, <2>3, <2>4, <2>5
  <1>9. Truncates(a, b, q, t)
    BY <1>1, <1>2, <1>4, <1>5, <1>6, <1>7, <1>8 DEF Truncates
  <1>10. QED
    BY <1>9

\* Unsigned division and its remainder.
LEMMA UnsignedDivIs ==
  ASSUME NEW n \in Nat \ {0}, NEW l \in WordSeq(n), NEW r \in WordSeq(n)
  PROVE  /\ Natural(r) = 0 => divmod(l, r) = PanicPair
         /\ Natural(r) # 0 =>
              /\ divmod(l, r).quotient \in WordSeq(n) /\ divmod(l, r).remainder \in WordSeq(n)
              /\ Natural(divmod(l, r).quotient) = Truncated(Natural(l), Natural(r))
              /\ Natural(divmod(l, r).remainder)
                   = Natural(l) - Truncated(Natural(l), Natural(r)) * Natural(r)
              /\ UnsignedFits(n, Truncated(Natural(l), Natural(r)))
  <1> DEFINE a == divmod(l, r)
  <1>1. Natural(r) = 0 => a = PanicPair
    BY DivmodIs
  <1>2. ASSUME Natural(r) # 0
        PROVE  /\ a.quotient \in WordSeq(n) /\ a.remainder \in WordSeq(n)
               /\ Natural(a.quotient) = Truncated(Natural(l), Natural(r))
               /\ Natural(a.remainder) = Natural(l) - Truncated(Natural(l), Natural(r)) * Natural(r)
               /\ UnsignedFits(n, Truncated(Natural(l), Natural(r)))
    <2>1. Divides(n, l, r, a) /\ n \in Nat \ {0}
      BY <1>2, DivmodIs
    <2> HIDE DEF a
    <2>2. a.quotient \in WordSeq(n) /\ a.remainder \in WordSeq(n)
      BY <2>1 DEF Divides, DivisionStates
    <2>3. PICK q \in Int, t \in Int :
            q = Natural(a.quotient) /\ t = Natural(a.remainder) /\ 0 <= t /\ 0 <= q /\ q < Size(n)
      <3>1. /\ Natural(a.quotient) \in 0 .. Size(n) - 1 /\ Natural(a.remainder) \in 0 .. Size(n) - 1
            /\ Size(n) \in Int
        BY <2>1, <2>2, NumberFacts, SizeStep
      <3>2. QED
        BY <3>1
    <2>4. PICK L \in Int, R \in Int : L = Natural(l) /\ R = Natural(r) /\ 0 <= L /\ 0 < R
      <3>1. Natural(l) \in 0 .. Size(n) - 1 /\ Natural(r) \in 0 .. Size(n) - 1
        BY <2>1, NumberFacts
      <3>2. QED
        BY <1>2, <3>1
    <2>5. L = q * R + t /\ t < R
      BY <2>1, <2>3, <2>4 DEF Divides
    <2>6. Abs(L) = L /\ Abs(R) = R
      BY <2>4 DEF Abs
    <2>7. Truncated(L, R) = q
      <3>1. Truncated(L, R) = IF L < 0 <=> R < 0 THEN q ELSE -q
        <4>1. Abs(L) = q * Abs(R) + t /\ 0 <= t /\ t < Abs(R)
          BY <2>3, <2>5, <2>6
        <4>2. QED
          BY <4>1, TruncatedOf
      <3>2. QED
        BY <2>4, <3>1
    <2>8. L - q * R = t
      <3>1. q * R \in Int
        OBVIOUS
      <3>2. QED
        BY <2>5, <3>1
    <2>9. UnsignedFits(n, q)
      BY <2>3 DEF UnsignedFits
    <2>10. QED
      BY <2>2, <2>3, <2>4, <2>7, <2>8, <2>9
  <1>3. QED
    BY <1>1, <1>2

\* Zero is the one number that is zero.
LEMMA SignedZero ==
  ASSUME NEW n \in Nat \ {0}, NEW x \in WordSeq(n)
  PROVE  /\ x = Zero(x) <=> SignedNumber(x) = 0
         /\ x = Zero(x) <=> Natural(x) = 0
  <1>1. Zero(x) \in WordSeq(n) /\ Natural(Zero(x)) = 0
    BY NaturalZero
  <1>2. SignedNumber(Zero(x)) = 0
    <2>1. PICK h \in Nat \ {0} : Size(n) = 2 * h /\ Size(n) \div 2 = h
      BY HalfSize
    <2>2. /\ SignedNumber(Zero(x)) \in Int
          /\ SignedNumber(Zero(x)) = 0 \/ SignedNumber(Zero(x)) = 0 - 2 * h
          /\ 0 - h <= SignedNumber(Zero(x))
      BY <1>1, <2>1, SignedInHalf
    <2>3. QED
      BY <2>2
  <1>3. QED
    BY <1>1, <1>2, NaturalUnique, SignedNumberUnique

\* Products that are tested by a division.
LEMMA SignedMulOutcome ==
  ASSUME NEW n \in {2, 4}, NEW l \in WordSeq(n), NEW r \in WordSeq(n)
  PROVE  IF SignedNumber(r) = -1 /\ ~SignedFits(n, -SignedNumber(l))
         THEN MulChecked(TRUE, l, r) = l
         ELSE SignedOutcome(n, SignedNumber(l) * SignedNumber(r), MulChecked(TRUE, l, r))
  <1> DEFINE s == Mul(l, r)
             v == SignedDiv(s, r)
             result == MulChecked(TRUE, l, r)
  <1>1. n \in Nat \ {0}
    OBVIOUS
  <1>2. PICK h \in Nat \ {0} : Size(n) = 2 * h /\ Size(n) \div 2 = h
    BY <1>1, HalfSize
  <1>3. PICK L \in Int, R \in Int :
          /\ L = SignedNumber(l) /\ R = SignedNumber(r)
          /\ 0 - h <= L /\ L < h /\ 0 - h <= R /\ R < h
    BY <1>1, <1>2, SignedInHalf
  <1>4. s \in WordSeq(n) /\ Near(n, s, L * R)
    <2>1. Near(n, l, L) /\ Near(n, r, R)
      BY <1>1, <1>3, NearNatural
    <2>2. QED
      BY <2>1, MulNear
  <1>5. result = IF l # Zero(l) /\ r # Zero(r) /\ v # l THEN Panic ELSE s
    BY DEF MulChecked, Div
  <1> HIDE DEF s, result
  <1>6. /\ l = Zero(l) <=> L = 0
        /\ r = Zero(r) <=> R = 0
    BY <1>1, <1>3, SignedZero
  <1>7. PICK Z \in Int : Z = L * R
    OBVIOUS
  <1>8. PICK P \in Int : P = SignedNumber(s) /\ 0 - h <= P /\ P < h
    BY <1>1, <1>2, <1>4, SignedInHalf
  <1>9. PICK k \in Int : Z = P + k * (2 * h)
    <2>1. PICK q \in Int : Z = Natural(s) + q * (2 * h)
      BY <1>2, <1>4, <1>7 DEF Near
    <2>2. PICK N \in Int : N = Natural(s) /\ (P = N \/ P = N - 2 * h)
      BY <1>1, <1>2, <1>4, <1>8, SignedInHalf
    <2>3. PICK e \in {0, 1} : P = N - e * (2 * h)
      BY <2>2
    <2>4. (q + e) * (2 * h) = q * (2 * h) + e * (2 * h)
      OBVIOUS
    <2>5. PICK y \in Int, z \in Int : y = q * (2 * h) /\ z = e * (2 * h)
      OBVIOUS
    <2>6. Z = P + (q + e) * (2 * h)
      BY <2>1, <2>2, <2>3, <2>4, <2>5
    <2>7. q + e \in Int
      OBVIOUS
    <2>8. QED
      BY <2>6, <2>7
  <1>10. \A m \in Int : SignedFits(n, m) <=> 0 - h <= m /\ m < h
    BY <1>1, <1>2, SignedFitsHalf
  <1>11. SignedFits(n, Z) => Z = P
    <2>1. SUFFICES ASSUME SignedFits(n, Z) PROVE Z = P
      OBVIOUS
    <2>2. PICK z \in Nat \ {0} : z = 2 * h
      OBVIOUS
    <2>3. k * z < z /\ k * z > 0 - z
      BY <1>8, <1>9, <1>10, <2>1, <2>2
    <2>4. k = 0
      BY <2>3, NoMultiple
    <2>5. QED
      BY <1>9, <2>4
  <1>12. CASE L = 0 \/ R = 0
    <2>1. Z = 0
      BY <1>7, <1>12
    <2>2. SignedFits(n, Z) /\ -L = 0 - L
      BY <1>10, <2>1
    <2>3. result = s
      BY <1>5, <1>6, <1>12
    <2>4. SignedOutcome(n, Z, result)
      BY <1>4, <1>8, <1>11, <2>2, <2>3 DEF SignedOutcome
    <2>5. ~(R = -1 /\ ~SignedFits(n, -L))
      <3>1. R = -1 => L = 0
        BY <1>12
      <3>2. L = 0 => SignedFits(n, -L)
        BY <1>10
      <3>3. QED
        BY <3>1, <3>2
    <2>6. QED
      BY <1>3, <1>7, <2>4, <2>5 DEF result
  <1>13. CASE L # 0 /\ R # 0
    <2>1. v \in WordSeq(n) /\ SignedNumber(v) = SignedQuotient(n, P, R)
      BY <1>3, <1>4, <1>8, <1>13, SignedDivIs
    <2>2. result = IF v # l THEN Panic ELSE s
      BY <1>5, <1>6, <1>13
    <2> HIDE DEF v
    <2>3. v = l <=> SignedQuotient(n, P, R) = L
      BY <1>1, <1>3, <2>1, SignedNumberUnique
    <2>4. PICK q \in Int, t \in Int : Truncates(P, R, q, t)
      BY <1>13, TruncatedFacts
    <2>5. PICK T \in Int :
            /\ T = Truncated(P, R)
            /\ T = IF P < 0 <=> R < 0 THEN q ELSE -q
            /\ P - T * R = IF P < 0 THEN -t ELSE t
            /\ 0 <= t /\ t < Abs(R) /\ 0 <= q /\ q <= Abs(P)
            /\ Abs(P) = q * Abs(R) + t
      BY <2>4 DEF Truncates
    <2>6. SignedQuotient(n, P, R) = IF SignedFits(n, T) THEN T ELSE P
      BY <2>5 DEF SignedQuotient
    <2>7. CASE SignedFits(n, Z)
      <3>1. P = Z
        BY <1>11, <2>7
      <3>2. T = L
        <4>1. PICK w \in Int : w = L - T
          OBVIOUS
        <4>2. (L - T) * R = L * R - T * R /\ T * R \in Int
          OBVIOUS
        <4>3. w * R = P - T * R
          BY <1>7, <3>1, <4>1, <4>2
        <4>4. PICK B \in Nat \ {0}, d \in Int : B = Abs(R) /\ (B = R \/ B = -R) /\ d = w * R
          BY <1>13 DEF Abs
        <4>5. d < B /\ d > 0 - B
          BY <2>5, <4>3, <4>4
        <4>6. w = 0
          <5>1. CASE B = R
            <6>1. w * B < B /\ w * B > 0 - B
              BY <4>4, <4>5, <5>1
            <6>2. QED
              BY <6>1, NoMultiple
          <5>2. CASE B = -R
            <6>1. (-w) * (-R) = w * R
              OBVIOUS
            <6>2. PICK w1 \in Int : w1 = -w
              OBVIOUS
            <6>3. w1 * B < B /\ w1 * B > 0 - B
              BY <4>4, <4>5, <5>2, <6>1, <6>2
            <6>4. w1 = 0
              BY <6>3, NoMultiple
            <6>5. QED
              BY <6>2, <6>4
          <5>3. QED
            BY <4>4, <5>1, <5>2
        <4>7. QED
          BY <4>1, <4>6
      <3>3. SignedFits(n, L)
        BY <1>3, <1>10
      <3>4. v = l
        BY <2>3, <2>6, <3>2, <3>3
      <3>5. SignedOutcome(n, Z, result)
        BY <1>4, <1>8, <2>2, <2>7, <3>1, <3>4 DEF SignedOutcome
      <3>6. ~(R = -1 /\ ~SignedFits(n, -L))
        <4>1. R = -1 => Z = -L
          BY <1>7
        <4>2. QED
          BY <2>7, <4>1
      <3>7. QED
        BY <1>3, <1>7, <3>5, <3>6 DEF result
    <2>8. CASE ~SignedFits(n, Z)
      <3>1. CASE R = -1 /\ ~SignedFits(n, -L)
        <4>1. L = 0 - h /\ Z = h
          <5>1. Z = -L
            BY <1>7, <3>1
          <5>2. QED
            BY <1>3, <1>10, <3>1, <5>1
        <4>2. P = 0 - h
          <5>1. PICK z \in Nat \ {0}, k1 \in Int : z = 2 * h /\ k1 = k - 1
            OBVIOUS
          <5>2. k1 * z = k * z - z
            BY <5>1
          <5>3. P + k * z = h
            BY <1>9, <4>1, <5>1
          <5>4. k * z \in Int
            OBVIOUS
          <5>5. k1 * z < z /\ k1 * z > 0 - z
            BY <1>8, <5>1, <5>2, <5>3, <5>4
          <5>6. k1 = 0
            BY <5>5, NoMultiple
          <5>7. k = 1
            BY <5>1, <5>6
          <5>8. QED
            BY <5>1, <5>3, <5>7
        <4>3. T = h
          <5>1. q * Abs(R) = q /\ Abs(R) = 1
            <6>1. Abs(R) = 1
              <7>1. R < 0 /\ R + 1 = 0
                BY <3>1
              <7>2. Abs(R) = -R
                BY <7>1 DEF Abs
              <7>3. QED
                BY <7>1, <7>2
            <6>2. QED
              BY <6>1
          <5>2. Abs(P) = h
            BY <4>2 DEF Abs
          <5>3. t = 0 /\ q = h
            BY <2>5, <5>1, <5>2
          <5>4. QED
            BY <2>5, <3>1, <4>2, <5>3
        <4>4. ~SignedFits(n, T)
          BY <1>10, <4>3
        <4>5. v = l
          BY <2>3, <2>6, <4>1, <4>2, <4>4
        <4>6. s = l
          BY <1>1, <1>3, <1>4, <1>8, <4>1, <4>2, SignedNumberUnique
        <4>7. QED
          BY <1>3, <2>2, <3>1, <4>5, <4>6 DEF result
      <3>2. CASE ~(R = -1 /\ ~SignedFits(n, -L))
        <4>1. v # l
          <5>1. SUFFICES ASSUME v = l PROVE FALSE
            OBVIOUS
          <5>2. (IF SignedFits(n, T) THEN T ELSE P) = L
            BY <2>3, <2>6, <5>1
          <5>3. CASE SignedFits(n, T)
            <6>1. T = L
              BY <5>2, <5>3
            <6>2. PICK z \in Nat \ {0}, d \in Int : z = 2 * h /\ d = P - T * R
              OBVIOUS
            <6>3. d < z /\ d > 0 - z
              <7>1. t < 2 * h
                BY <1>3, <2>5 DEF Abs
              <7>2. QED
                BY <2>5, <6>2, <7>1
            <6>4. d = P - Z
              BY <1>7, <6>1, <6>2
            <6>5. PICK k1 \in Int : k1 = -k
              OBVIOUS
            <6>6. k1 * z = -(k * z) /\ k * z \in Int
              BY <6>5
            <6>7. k1 * z = d
              BY <1>9, <6>2, <6>4, <6>6
            <6>8. k1 = 0
              BY <6>3, <6>7, NoMultiple
            <6>9. d = 0
              BY <6>7, <6>8
            <6>10. Z = P
              BY <6>4, <6>9
            <6>11. QED
              BY <1>8, <1>10, <2>8, <6>10
          <5>4. CASE ~SignedFits(n, T)
            <6>1. P = L
              BY <5>2, <5>4
            <6>2. q <= h
              BY <1>8, <2>5 DEF Abs
            <6>3. q = h /\ (P < 0 <=> R < 0)
              BY <1>10, <2>5, <5>4, <6>2
            <6>4. P = 0 - h
              BY <1>8, <2>5, <6>3 DEF Abs
            <6>5. R = -1
              <7>1. Abs(P) = h
                BY <6>4 DEF Abs
              <7>2. R < 0 /\ Abs(R) = -R
                BY <6>3, <6>4 DEF Abs
              <7>3. PICK B \in Nat : -R = B + 1
                BY <7>2, -R - 1 \in Nat
              <7>4. h = h * (B + 1) + t
                BY <2>5, <6>3, <7>1, <7>2, <7>3
              <7>5. h * (B + 1) = h * B + h /\ h * B \in Nat
                OBVIOUS
              <7>6. h * B = 0
                BY <2>5, <7>4, <7>5
              <7>7. B = 0
                <8>1. SUFFICES ASSUME B # 0 PROVE FALSE
                  OBVIOUS
                <8>2. PICK C \in Nat : B = C + 1
                  BY <8>1, B - 1 \in Nat
                <8>3. h * (C + 1) = h * C + h /\ h * C \in Nat
                  OBVIOUS
                <8>4. QED
                  BY <7>6, <8>2, <8>3
              <7>8. QED
                BY <7>3, <7>7
            <6>6. ~SignedFits(n, -L)
              BY <1>10, <6>1, <6>4
            <6>7. QED
              BY <3>2, <6>5, <6>6
          <5>5. QED
            BY <5>3, <5>4
        <4>2. SignedOutcome(n, Z, result)
          BY <2>2, <2>8, <4>1 DEF SignedOutcome
        <4>3. QED
          BY <1>3, <1>7, <3>2, <4>2 DEF result
      <3>3. QED
        BY <3>1, <3>2
    <2>9. QED
      BY <2>7, <2>8
  <1>14. QED
    BY <1>12, <1>13

\* The unsigned checked product is the product, or panics where that does not fit.
LEMMA UnsignedMulOutcome ==
  ASSUME NEW n \in {2, 4}, NEW l \in WordSeq(n), NEW r \in WordSeq(n)
  PROVE  UnsignedOutcome(n, Natural(l) * Natural(r), MulChecked(FALSE, l, r))
  <1> DEFINE s == Mul(l, r)
             v == divmod(s, r).quotient
             result == MulChecked(FALSE, l, r)
  <1>1. n \in Nat \ {0}
    OBVIOUS
  <1>2. PICK S \in Nat \ {0} : S = Size(n)
    BY <1>1, SizeStep
  <1>3. PICK L \in Int, R \in Int :
          L = Natural(l) /\ R = Natural(r) /\ 0 <= L /\ L < S /\ 0 <= R /\ R < S
    <2>1. Natural(l) \in 0 .. Size(n) - 1 /\ Natural(r) \in 0 .. Size(n) - 1
      BY <1>1, NumberFacts
    <2>2. QED
      BY <1>2, <2>1
  <1>4. s \in WordSeq(n) /\ Near(n, s, L * R)
    <2>1. Near(n, l, L) /\ Near(n, r, R)
      BY <1>1, <1>3, NearNatural
    <2>2. QED
      BY <2>1, MulNear
  <1>5. result = IF l # Zero(l) /\ r # Zero(r) /\ v # l THEN Panic ELSE s
    BY DEF MulChecked, Div
  <1> HIDE DEF s, result
  <1>6. /\ l = Zero(l) <=> L = 0
        /\ r = Zero(r) <=> R = 0
    BY <1>1, <1>3, SignedZero
  <1>7. PICK Z \in Int : Z = L * R
    OBVIOUS
  <1>8. PICK P \in Int : P = Natural(s) /\ 0 <= P /\ P < S
    <2>1. Natural(s) \in 0 .. Size(n) - 1
      BY <1>1, <1>4, NumberFacts
    <2>2. QED
      BY <1>2, <2>1
  <1>9. PICK k \in Int : Z = P + k * S
    BY <1>2, <1>4, <1>7, <1>8 DEF Near
  <1>10. \A m \in Int : UnsignedFits(n, m) <=> 0 <= m /\ m < S
    BY <1>2 DEF UnsignedFits
  <1>11. UnsignedFits(n, Z) => Z = P
    <2>1. SUFFICES ASSUME UnsignedFits(n, Z) PROVE Z = P
      OBVIOUS
    <2>2. k * S < S /\ k * S > 0 - S
      BY <1>8, <1>9, <1>10, <2>1
    <2>3. k = 0
      BY <2>2, NoMultiple
    <2>4. QED
      BY <1>9, <2>3
  <1>12. CASE L = 0 \/ R = 0
    <2>1. Z = 0
      BY <1>7, <1>12
    <2>2. UnsignedFits(n, Z)
      BY <1>10, <2>1
    <2>3. result = s
      BY <1>5, <1>6, <1>12
    <2>4. UnsignedOutcome(n, Z, result)
      BY <1>4, <1>8, <1>11, <2>2, <2>3 DEF UnsignedOutcome
    <2>5. QED
      BY <1>3, <1>7, <2>4 DEF result
  <1>13. CASE L # 0 /\ R # 0
    <2>1. PICK T \in Int :
            v \in WordSeq(n) /\ Natural(v) = T /\ T = Truncated(P, R)
      <3>1. v \in WordSeq(n) /\ Natural(v) = Truncated(P, R)
        BY <1>3, <1>4, <1>8, <1>13, UnsignedDivIs
      <3>2. Natural(v) \in Int
        BY <1>1, <3>1, NumberFacts
      <3>3. QED
        BY <3>1, <3>2
    <2>2. result = IF v # l THEN Panic ELSE s
      BY <1>5, <1>6, <1>13
    <2> HIDE DEF v
    <2>3. v = l <=> T = L
      BY <1>1, <1>3, <2>1, NaturalUnique
    <2>4. PICK q \in Int, t \in Int : Truncates(P, R, q, t)
      BY <1>13, TruncatedFacts
    <2>5. P - T * R = t /\ 0 <= t /\ t < R
      <3>1. P - T * R = (IF P < 0 THEN -t ELSE t) /\ 0 <= t /\ t < Abs(R)
        BY <2>1, <2>4 DEF Truncates
      <3>2. Abs(R) = R
        BY <1>3 DEF Abs
      <3>3. QED
        BY <1>8, <3>1, <3>2
    <2>6. CASE UnsignedFits(n, Z)
      <3>1. P = Z
        BY <1>11, <2>6
      <3>2. T = L
        <4>1. PICK w \in Int : w = L - T
          OBVIOUS
        <4>2. (L - T) * R = L * R - T * R /\ T * R \in Int
          OBVIOUS
        <4>3. w * R = t
          BY <1>7, <2>5, <3>1, <4>1, <4>2
        <4>4. PICK B \in Nat \ {0} : B = R
          BY <1>3, <1>13
        <4>5. w * B < B /\ w * B > 0 - B
          BY <2>5, <4>3, <4>4
        <4>6. w = 0
          BY <4>5, NoMultiple
        <4>7. QED
          BY <4>1, <4>6
      <3>3. UnsignedOutcome(n, Z, result)
        BY <1>4, <1>8, <2>2, <2>3, <2>6, <3>1, <3>2 DEF UnsignedOutcome
      <3>4. QED
        BY <1>3, <1>7, <3>3 DEF result
    <2>7. CASE ~UnsignedFits(n, Z)
      <3>1. T # L
        <4>1. SUFFICES ASSUME T = L PROVE FALSE
          OBVIOUS
        <4>2. P - Z = t
          BY <1>7, <2>5, <4>1
        <4>3. PICK k1 \in Int : k1 = -k
          OBVIOUS
        <4>4. k1 * S = -(k * S) /\ k * S \in Int
          BY <4>3
        <4>5. k1 * S = t
          BY <1>9, <4>2, <4>4
        <4>6. k1 * S < S /\ k1 * S > 0 - S
          BY <1>3, <2>5, <4>5
        <4>7. k1 = 0
          BY <4>6, NoMultiple
        <4>8. Z = P
          BY <4>2, <4>5, <4>7
        <4>9. QED
          BY <1>8, <1>10, <2>7, <4>8
      <3>2. UnsignedOutcome(n, Z, result)
        BY <2>2, <2>3, <2>7, <3>1 DEF UnsignedOutcome
      <3>3. QED
        BY <1>3, <1>7, <3>2 DEF result
    <2>8. QED
      BY <2>6, <2>7
  <1>14. QED
    BY <1>12, <1>13

\* Products of one word.
LEMMA Exceeds ==
  ASSUME NEW a \in Nat, NEW b \in Nat \ {0}, NEW m \in Nat, NEW q \in Int, NEW t \in Int,
         m = q * b + t, 0 <= t, t < b, 0 <= q
  PROVE  a > q <=> a * b > m
  <1>1. q \in Nat
    OBVIOUS
  <1>2. CASE a > q
    <2>1. PICK d \in Nat : a = q + 1 + d
      BY <1>2, a - q - 1 \in Nat
    <2>2. (q + 1 + d) * b = q * b + b + d * b /\ d * b \in Nat /\ q * b \in Int
      OBVIOUS
    <2>3. QED
      BY <1>2, <2>1, <2>2
  <1>3. CASE ~(a > q)
    <2>1. PICK d \in Nat : q = a + d
      BY <1>1, <1>3, q - a \in Nat
    <2>2. (a + d) * b = a * b + d * b /\ d * b \in Nat /\ a * b \in Int
      OBVIOUS
    <2>3. QED
      BY <1>3, <2>1, <2>2
  <1>4. QED
    BY <1>2, <1>3

\* The test of an unsigned product of one word tells the overflows,
LEMMA UnsignedMulOverflows ==
  ASSUME NEW l \in Words, NEW r \in Words
  PROVE  gray_mul_overflows_u64(l, r) <=> ~UnsignedFits(1, l * r)
  <1>1. PICK A \in Nat, B \in Nat, S \in Nat \ {0} :
          A = l /\ B = r /\ S = Radix /\ A < S /\ B < S
    BY RadixFacts DEF Words
  <1>2. Size(1) = S
    <2>1. Size(0) = 1 /\ Size(0 + 1) = Radix * Size(0) /\ 0 + 1 = 1
      BY SizeStep, 0 \in Nat
    <2>2. QED
      BY <1>1, <2>1
  <1>3. PICK Z \in Nat : Z = A * B
    OBVIOUS
  <1>4. UnsignedFits(1, Z) <=> Z < S
    BY <1>2 DEF UnsignedFits
  <1>5. CASE A = 0
    <2>1. Z = 0
      BY <1>3, <1>5
    <2>2. QED
      BY <1>1, <1>3, <1>4, <1>5, <2>1 DEF gray_mul_overflows_u64
  <1>6. CASE A # 0
    <2>1. PICK k \in Int, P \in Int : P = Z % S /\ P = Z - S * k /\ 0 <= P /\ P < S
      <3>1. Z % S \in 0 .. S - 1 /\ Z \div S \in Int /\ Z % S = Z - S * (Z \div S)
        BY Z \in Int, DivMod
      <3>2. QED
        BY <3>1
    <2>2. PICK v \in Int, t \in Int : v = P \div A /\ t = P - A * v /\ 0 <= t /\ t < A
      <3>1. P % A \in 0 .. A - 1 /\ P \div A \in Int /\ P % A = P - A * (P \div A)
        BY <1>6, A \in Nat \ {0}, DivMod
      <3>2. QED
        BY <3>1
    <2>3. gray_mul_overflows_u64(l, r) <=> v # B
      BY <1>1, <1>3, <1>6, <2>1, <2>2 DEF gray_mul_overflows_u64, Wrap
    <2>4. CASE Z < S
      <3>1. k = 0
        <4>1. k * S = S * k
          OBVIOUS
        <4>2. k * S < S /\ k * S > 0 - S
          BY <2>1, <2>4, <4>1
        <4>3. QED
          BY <4>2, NoMultiple
      <3>2. P = Z
        BY <2>1, <3>1
      <3>3. PICK w \in Int : w = B - v
        OBVIOUS
      <3>4. (B - v) * A = A * B - A * v /\ A * v \in Int
        OBVIOUS
      <3>5. w * A = t
        BY <1>3, <2>2, <3>2, <3>3, <3>4
      <3>6. w * A < A /\ w * A > 0 - A /\ A \in Nat \ {0}
        BY <1>6, <2>2, <3>5
      <3>7. w = 0
        BY <3>6, NoMultiple
      <3>8. v = B
        BY <3>3, <3>7
      <3>9. QED
        BY <1>1, <1>3, <1>4, <2>3, <2>4, <3>8
    <2>5. CASE ~(Z < S)
      <3>1. v # B
        <4>1. SUFFICES ASSUME v = B PROVE FALSE
          OBVIOUS
        <4>2. A * v = Z
          BY <1>3, <4>1
        <4>3. P >= Z
          BY <2>2, <4>2
        <4>4. QED
          BY <2>1, <2>5, <4>3
      <3>2. QED
        BY <1>1, <1>3, <1>4, <2>3, <2>5, <3>1
    <2>6. QED
      BY <2>4, <2>5
  <1>7. QED
    BY <1>5, <1>6

\* and so does the signed test.
LEMMA SignedMulOverflows ==
  ASSUME NEW l \in Words, NEW r \in Words
  PROVE  gray_mul_overflows_i64(AsSigned(l), AsSigned(r))
           <=> ~SignedFits(1, AsSigned(l) * AsSigned(r))
  <1>1. PICK h \in Nat : Radix = 2 * h /\ Radix \div 2 = h
    BY RadixFacts
  <1>2. Size(1) = Radix
    <2>1. Size(0) = 1 /\ Size(0 + 1) = Radix * Size(0) /\ 0 + 1 = 1
      BY SizeStep, 0 \in Nat
    <2>2. QED
      BY <2>1, RadixFacts
  <1>3. h >= 2
    BY <1>1, RadixFacts
  <1>4. PICK A \in Int, B \in Int :
          /\ A = AsSigned(l) /\ B = AsSigned(r)
          /\ 0 - h <= A /\ A < h /\ 0 - h <= B /\ B < h
    <2>1. /\ AsSigned(l) \in Int /\ 0 - h <= AsSigned(l) /\ AsSigned(l) < h
          /\ AsSigned(r) \in Int /\ 0 - h <= AsSigned(r) /\ AsSigned(r) < h
      BY <1>1, <1>3, RadixFacts DEF AsSigned, Words
    <2>2. QED
      BY <2>1
  <1>5. \A m \in Int : SignedFits(1, m) <=> 0 - h <= m /\ m < h
    BY <1>1, <1>2 DEF SignedFits
  <1>6. PICK top \in Nat, low \in Int :
          /\ top = Int64Max /\ low = Int64Min /\ top = h - 1 /\ low = 0 - h
          /\ low < 0 /\ Abs(top) = top /\ Abs(low) = h
    <2>1. Int64Max = h - 1 /\ Int64Min = 0 - h /\ h - 1 \in Nat
      BY <1>1, <1>3 DEF Int64Max, Int64Min
    <2>2. PICK top \in Nat, low \in Int : top = h - 1 /\ low = 0 - h
      BY <2>1
    <2>3. Abs(top) = top /\ Abs(low) = h /\ low < 0
      BY <1>3, <2>2 DEF Abs
    <2>4. QED
      BY <2>1, <2>2, <2>3
  <1>7. PICK Z \in Int : Z = A * B
    OBVIOUS
  <1>8. gray_mul_overflows_i64(A, B) <=>
          /\ A # 0 /\ B # 0
          /\ IF A = -1 THEN B = low
             ELSE IF B = -1 THEN A = low
             ELSE IF A > 0
             THEN IF B > 0 THEN A > Truncated(top, B) ELSE B < Truncated(low, A)
             ELSE IF B > 0 THEN A < Truncated(low, B) ELSE A < Truncated(top, B)
    BY <1>6 DEF gray_mul_overflows_i64
  <1>9. CASE A = 0 \/ B = 0
    <2>1. Z = 0
      BY <1>7, <1>9
    <2>2. SignedFits(1, Z)
      BY <1>3, <1>5, <2>1
    <2>3. QED
      BY <1>4, <1>7, <1>8, <1>9, <2>2
  <1>10. CASE A = -1 /\ B # 0
    <2>1. Z = 0 - B
      BY <1>7, <1>10
    <2>2. gray_mul_overflows_i64(A, B) <=> B = low
      <3>1. A # 0
        BY <1>10
      <3>2. QED
        BY <1>8, <1>10, <3>1
    <2>3. QED
      BY <1>4, <1>5, <1>6, <1>7, <2>1, <2>2
  <1>11. CASE B = -1 /\ A # 0 /\ A # -1
    <2>1. Z = 0 - A
      BY <1>7, <1>11
    <2>2. gray_mul_overflows_i64(A, B) <=> A = low
      <3>1. B # 0
        BY <1>11
      <3>2. QED
        BY <1>8, <1>11, <3>1
    <2>3. QED
      BY <1>4, <1>5, <1>6, <1>7, <2>1, <2>2
  <1>12. CASE A > 0 /\ B > 0
    <2>1. A # 0 /\ B # 0 /\ A # -1 /\ B # -1 /\ A \in Nat /\ B \in Nat \ {0} /\ B # 0
      BY <1>12
    <2>2. PICK q \in Int, t \in Int : Truncates(top, B, q, t)
      BY <2>1, TruncatedFacts, top \in Int
    <2>3. Abs(B) = B
      BY <1>12 DEF Abs
    <2>4. /\ top = q * B + t /\ 0 <= t /\ t < B /\ 0 <= q
          /\ Truncated(top, B) = q
      <3>1. ~(top < 0) /\ ~(B < 0)
        BY <1>12
      <3>2. QED
        BY <1>6, <2>2, <2>3, <3>1 DEF Truncates
    <2>5. A > q <=> A * B > top
      BY <2>1, <2>4, Exceeds
    <2>6. Z >= 0
      BY <1>7, <2>1
    <2>7. gray_mul_overflows_i64(A, B) <=> A > q
      BY <1>8, <1>12, <2>1, <2>4
    <2>8. QED
      BY <1>4, <1>5, <1>6, <1>7, <2>5, <2>6, <2>7
  <1>13. CASE A > 0 /\ B < 0 /\ B # -1
    <2>1. A # 0 /\ B # 0 /\ A # -1 /\ B # -1 /\ A \in Nat \ {0} /\ ~(B > 0)
      BY <1>13
    <2>2. PICK q \in Int, t \in Int : Truncates(low, A, q, t)
      BY <2>1, TruncatedFacts
    <2>3. Abs(A) = A
      BY <1>13 DEF Abs
    <2>4. /\ h = q * A + t /\ 0 <= t /\ t < A /\ 0 <= q
          /\ Truncated(low, A) = -q
      <3>1. low < 0 /\ ~(A < 0)
        BY <1>6, <1>13
      <3>2. QED
        BY <1>6, <2>2, <2>3, <3>1 DEF Truncates
    <2>5. PICK C \in Nat : C = -B
      BY <1>13
    <2>6. C > q <=> C * A > h
      BY <2>1, <2>4, <2>5, Exceeds
    <2>7. Z = -(C * A) /\ C * A \in Nat
      <3>1. A * B = -((-B) * A)
        OBVIOUS
      <3>2. C * A \in Nat
        BY <2>1
      <3>3. QED
        BY <1>7, <2>5, <3>1, <3>2
    <2>8. gray_mul_overflows_i64(A, B) <=> B < -q
      BY <1>8, <1>13, <2>1, <2>4
    <2>9. B < -q <=> C > q
      BY <2>5
    <2>10. QED
      BY <1>3, <1>4, <1>5, <1>7, <2>6, <2>7, <2>8, <2>9
  <1>14. CASE A < 0 /\ A # -1 /\ B > 0
    <2>1. A # 0 /\ B # 0 /\ A # -1 /\ B # -1 /\ B \in Nat \ {0} /\ ~(A > 0)
      BY <1>14
    <2>2. PICK q \in Int, t \in Int : Truncates(low, B, q, t)
      BY <2>1, TruncatedFacts
    <2>3. Abs(B) = B
      BY <1>14 DEF Abs
    <2>4. /\ h = q * B + t /\ 0 <= t /\ t < B /\ 0 <= q
          /\ Truncated(low, B) = -q
      <3>1. low < 0 /\ ~(B < 0)
        BY <1>6, <1>14
      <3>2. QED
        BY <1>6, <2>2, <2>3, <3>1 DEF Truncates
    <2>5. PICK C \in Nat : C = -A
      BY <1>14
    <2>6. C > q <=> C * B > h
      BY <2>1, <2>4, <2>5, Exceeds
    <2>7. Z = -(C * B) /\ C * B \in Nat
      <3>1. A * B = -((-A) * B)
        OBVIOUS
      <3>2. C * B \in Nat
        BY <2>1
      <3>3. QED
        BY <1>7, <2>5, <3>1, <3>2
    <2>8. gray_mul_overflows_i64(A, B) <=> A < -q
      BY <1>8, <1>14, <2>1, <2>4
    <2>9. A < -q <=> C > q
      BY <2>5
    <2>10. QED
      BY <1>3, <1>4, <1>5, <1>7, <2>6, <2>7, <2>8, <2>9
  <1>15. CASE A < 0 /\ A # -1 /\ B < 0 /\ B # -1
    <2>1. A # 0 /\ B # 0 /\ ~(A > 0) /\ ~(B > 0)
      BY <1>15
    <2>2. PICK q \in Int, t \in Int : Truncates(top, B, q, t)
      BY <2>1, TruncatedFacts, top \in Int
    <2>3. PICK C \in Nat, E \in Nat \ {0} : C = -A /\ E = -B /\ Abs(B) = E
      BY <1>15 DEF Abs
    <2>4. /\ top = q * E + t /\ 0 <= t /\ t < E /\ 0 <= q
          /\ Truncated(top, B) = -q
      <3>1. ~(top < 0) /\ B < 0
        BY <1>15
      <3>2. QED
        BY <1>6, <2>2, <2>3, <3>1 DEF Truncates
    <2>5. C > q <=> C * E > top
      BY <2>3, <2>4, Exceeds
    <2>6. Z = C * E /\ C * E \in Nat
      <3>1. A * B = (-A) * (-B)
        OBVIOUS
      <3>2. C * E \in Nat
        BY <2>3
      <3>3. QED
        BY <1>7, <2>3, <3>1, <3>2
    <2>7. gray_mul_overflows_i64(A, B) <=> A < -q
      BY <1>8, <1>15, <2>1, <2>4
    <2>8. A < -q <=> C > q
      BY <2>3
    <2>9. QED
      BY <1>4, <1>5, <1>6, <1>7, <2>5, <2>6, <2>7, <2>8
  <1>16. QED
    BY <1>9, <1>10, <1>11, <1>12, <1>13, <1>14, <1>15

-----------------------------------------------------------------------------
(* Shifts.                                                                 *)

\* A word times a power of two: what stays in the word and what leaves it.
LEMMA ShiftedWord ==
  ASSUME NEW A \in Nat \ {0}, NEW C \in Nat \ {0}, Radix = A * C, NEW w \in Words
  PROVE  /\ w \div C \in 0 .. A - 1
         /\ Wrap(w * A) \in Words /\ Wrap(w * A) <= Radix - A
         /\ w * A = Wrap(w * A) + Radix * (w \div C)
         /\ w % C \in 0 .. C - 1 /\ w % C = w - C * (w \div C) /\ Wrap(w * A) = A * (w % C)
  <1>1. PICK x \in Int : x = w /\ 0 <= x /\ x < A * C
    BY RadixFacts DEF Words
  <1>2. PICK v \in Int, t \in Int : v = x \div C /\ t = x % C /\ t = x - C * v /\ 0 <= t /\ t < C
    <2>1. x % C \in 0 .. C - 1 /\ x \div C \in Int /\ x % C = x - C * (x \div C)
      BY DivMod
    <2>2. QED
      BY <2>1
  <1>3. v \in 0 .. A - 1
    <2>1. x = t + C * v /\ t \in 0 .. C - 1 /\ C * A = A * C
      BY <1>2
    <2>2. QED
      BY <1>1, <2>1, QuotientBound
  <1>4. PICK y \in Int, R \in Nat \ {0} : y = A * t /\ R = Radix
    BY RadixFacts
  <1>5. 0 <= y /\ y <= R - A
    <2>1. PICK d \in Nat, t1 \in Nat : C = t + 1 + d /\ t1 = t
      <3>1. PICK d \in Nat : C = t + 1 + d
        BY <1>2, C - t - 1 \in Nat
      <3>2. t \in Nat
        BY <1>2
      <3>3. QED
        BY <3>1, <3>2
    <2>2. A * (t1 + 1 + d) = A * t1 + A + A * d /\ A * d \in Nat /\ A * t1 \in Nat
      OBVIOUS
    <2>3. QED
      BY <1>4, <2>1, <2>2
  <1>6. x * A = y + v * R
    <2>1. (t + C * v) * A = A * t + v * (A * C)
      OBVIOUS
    <2>2. x = t + C * v
      BY <1>2
    <2>3. QED
      BY <1>4, <2>1, <2>2
  <1>7. Wrap(w * A) = y
    <2>1. y \in 0 .. R - 1
      BY <1>5
    <2>2. (y + v * R) % R = y
      BY <2>1, ModUnique
    <2>3. QED
      BY <1>1, <1>4, <1>6, <2>2 DEF Wrap
  <1>8. v * R = R * v
    OBVIOUS
  <1>9. y \in Words
    BY <1>4, <1>5 DEF Words
  <1>10. QED
    BY <1>1, <1>2, <1>3, <1>4, <1>5, <1>6, <1>7, <1>8, <1>9

\* What does not fit is a multiple of the size.
LEMMA ShlNear ==
  ASSUME NEW n \in Nat \ {0}, NEW x \in WordSeq(n), NEW amount \in 0 .. n * WordBits - 1
  PROVE  /\ shift_left_words(x, amount) \in WordSeq(n)
         /\ Near(n, shift_left_words(x, amount), Natural(x) * Power(2, amount))
  <1>1. PICK by \in 0 .. n - 1, bits \in 0 .. WordBits - 1 : Place(amount, by, bits)
    BY PlaceOf
  <1>2. PICK A \in Nat \ {0}, C \in Nat \ {0} :
          /\ A = Power(2, bits) /\ C = Power(2, WordBits - bits) /\ Radix = A * C
          /\ Power(2, amount) = Size(by) * A
          /\ amount \div WordBits = by /\ amount % WordBits = bits
    BY <1>1 DEF Place
  <1> DEFINE word(i) == IF i >= 1 THEN x[i] ELSE 0
             s == [i \in 1 .. n |-> Wrap(word(i - by) * A) + word(i - by - 1) \div C]
             y == [i \in 1 .. n |-> word(i - by)]
             c == [i \in 0 .. n |-> word(i - by) \div C]
             m == n - by
  <1>3. Len(x) = n /\ n \in Nat /\ by \in Nat /\ m \in Nat /\ by + m = n /\ m + by = n
    BY WordSeqFacts
  <1>4. \A i \in Int : i <= n => word(i) \in Words
    <2>1. 0 \in Words
      BY RadixFacts DEF Words
    <2>2. \A i \in 1 .. n : x[i] \in Words
      BY WordSeqFacts
    <2>3. QED
      BY <2>1, <2>2
  <1>5. shift_left_words(x, amount) = s
    <2>1. shift_left_words(x, amount)
            = [i \in 1 .. n |-> Wrap(word(i - by) * A)
                                  + IF bits = 0 THEN 0 ELSE word(i - by - 1) \div C]
      BY <1>2, <1>3 DEF shift_left_words
    <2>2. ASSUME NEW i \in 1 .. n
          PROVE  (IF bits = 0 THEN 0 ELSE word(i - by - 1) \div C) = word(i - by - 1) \div C
      <3>1. CASE bits # 0
        BY <3>1
      <3>2. CASE bits = 0
        <4>1. A = 1
          BY <1>2, <3>2, PowerStep, 2 \in Int, 0 \in Nat
        <4>2. word(i - by - 1) \in Words
          BY <1>3, <1>4
        <4> HIDE DEF word
        <4>3. word(i - by - 1) \div C \in 0 .. A - 1
          BY <1>2, <4>2, ShiftedWord
        <4>4. QED
          BY <3>2, <4>1, <4>3
      <3>3. QED
        BY <3>1, <3>2
    <2> HIDE DEF word
    <2>3. QED
      BY <2>1, <2>2
  <1>6. s = [i \in 1 .. n |-> s[i]]
    OBVIOUS
  <1>7. ASSUME NEW i \in 1 .. n
        PROVE  /\ s[i] \in Words /\ y[i] \in Int /\ c[i] \in Int
               /\ A * y[i] + c[i - 1] = s[i] + Radix * c[i]
    <2>1. word(i - by) \in Words /\ word(i - by - 1) \in Words
      BY <1>3, <1>4
    <2>2. /\ s[i] = Wrap(word(i - by) * A) + word(i - by - 1) \div C
          /\ y[i] = word(i - by) /\ c[i] = word(i - by) \div C
          /\ c[i - 1] = word(i - 1 - by) \div C
      OBVIOUS
    <2>3. i - 1 - by = i - by - 1
      BY <1>3
    <2> HIDE DEF word, s, y, c
    <2>4. PICK w \in Words, z \in Words : w = word(i - by) /\ z = word(i - by - 1)
      BY <2>1
    <2>5. /\ w \div C \in 0 .. A - 1
          /\ Wrap(w * A) \in Words /\ Wrap(w * A) <= Radix - A
          /\ w * A = Wrap(w * A) + Radix * (w \div C)
      BY <1>2, ShiftedWord
    <2>6. z \div C \in 0 .. A - 1
      BY <1>2, ShiftedWord
    <2>7. PICK u \in Int, v \in Int, e \in Int, R \in Int :
            u = Wrap(w * A) /\ v = w \div C /\ e = z \div C /\ R = Radix
      BY <2>5, <2>6, RadixFacts DEF Words
    <2>8. 0 <= u /\ u <= R - A /\ 0 <= e /\ e <= A - 1 /\ w \in Int
      BY <2>5, <2>6, <2>7, RadixFacts DEF Words
    <2>9. s[i] = u + e /\ y[i] = w /\ c[i] = v /\ c[i - 1] = e
      BY <2>2, <2>3, <2>4, <2>7
    <2>10. w * A = u + R * v /\ w * A = A * w
      BY <2>5, <2>7, <2>8
    <2>11. s[i] \in Words
      BY <2>7, <2>8, <2>9 DEF Words
    <2>12. PICK f \in Int, g \in Int : f = A * w /\ g = R * v
      BY <2>8
    <2>13. f + e = (u + e) + g
      BY <2>10, <2>12
    <2>14. QED
      BY <2>7, <2>8, <2>9, <2>11, <2>12, <2>13
  <1>8. c[0] = 0
    <2>1. 0 - by < 1 /\ 0 \in 0 .. n
      BY <1>3
    <2>2. c[0] = 0 \div C
      BY <2>1
    <2>3. (0 + 0 * C) \div C = 0
      <3>1. 0 \in 0 .. C - 1
        OBVIOUS
      <3>2. QED
        BY <3>1, ModUnique, 0 \in Int
    <2>4. 0 + 0 * C = 0
      OBVIOUS
    <2>5. QED
      BY <2>2, <2>3, <2>4
  <1>9. \A i \in 1 .. by : y[i] = 0
    BY <1>3
  <1>10. \A j \in 1 .. m : y[by + j] = x[j]
    <2>1. \A j \in 1 .. m : by + j \in 1 .. n /\ (by + j) - by = j /\ j >= 1
      BY <1>3
    <2>2. QED
      BY <2>1
  <1> HIDE DEF word, s, y, c
  <1>11. s \in WordSeq(n)
    BY <1>3, <1>6, <1>7, IsWordSeq DEF AreWords
  <1>12. \A i \in 1 .. n : Nought(n)[i] = 0
    BY DEF Nought
  <1>13. Chained(n, A, Nought(n), y, c, s)
    <2>1. ASSUME NEW i \in 1 .. n
          PROVE  c[i] \in Int /\ Nought(n)[i] + A * y[i] + c[i - 1] = s[i] + Radix * c[i]
      <3>1. c[i] \in Int /\ A * y[i] + c[i - 1] = s[i] + Radix * c[i] /\ y[i] \in Int
        BY <1>7
      <3>2. c[i - 1] \in Int
        <4>1. CASE i = 1
          BY <1>8, <4>1
        <4>2. CASE i # 1
          <5>1. i - 1 \in 1 .. n
            BY <4>2
          <5>2. QED
            BY <1>7, <5>1
        <4>3. QED
          BY <4>1, <4>2
      <3>3. Nought(n)[i] = 0 /\ A * y[i] \in Int
        BY <1>12, <3>1
      <3>4. QED
        BY <3>1, <3>2, <3>3
    <2>2. QED
      BY <1>8, <2>1 DEF Chained
  <1>14. Ints(Nought(n), n) /\ Ints(y, n) /\ Ints(s, n) /\ Ints(x, n)
    BY <1>7, <1>11, <1>12, WordSeqFacts DEF Ints
  <1>15. Lower(Nought(n), n) + A * Lower(y, n) + c[0] = Lower(s, n) + c[n] * Size(n)
    BY <1>3, <1>13, <1>14, ChainSum, A \in Int
  <1>16. Lower(y, n) = Size(by) * Lower(x, m) /\ Lower(x, m) \in Int
    <2>1. Ints(y, by + m) /\ Ints(y, by)
      BY <1>3, <1>14 DEF Ints
    <2>2. Lower(y, by + m) = Lower(y, by) + Size(by) * Lower(Window(y, by, m), m)
      BY <1>3, <2>1, LowerWindow
    <2>3. Lower(y, by) = 0
      <3>1. \A i \in 1 .. by : y[i] = Nought(by)[i]
        BY <1>9 DEF Nought
      <3>2. Lower(y, by) = Lower(Nought(by), by)
        BY <1>3, <2>1, <3>1, LowerEqual
      <3>3. QED
        BY <1>3, <3>2, LowerNought
    <2>4. Ints(x, m)
      BY <1>3, <1>14 DEF Ints
    <2>5. \A j \in 1 .. m : x[j] = Window(y, by, m)[j]
      BY <1>10 DEF Window
    <2>6. Lower(x, m) = Lower(Window(y, by, m), m)
      BY <1>3, <2>4, <2>5, LowerEqual
    <2>7. Lower(x, m) \in Int /\ Size(by) \in Int
      BY <1>3, <2>4, LowerIsInt, SizeStep
    <2>8. Size(by) * Lower(x, m) \in Int
      BY <2>7
    <2>9. QED
      BY <1>3, <2>2, <2>3, <2>6, <2>7, <2>8
  <1>17. PICK u \in Int : Lower(x, n) = Lower(x, m) + Size(m) * u
    <2>1. Ints(x, m + by)
      BY <1>3, <1>14
    <2>2. Lower(x, m + by) = Lower(x, m) + Size(m) * Lower(Window(x, m, by), by)
      BY <1>3, <2>1, LowerWindow
    <2>3. \A j \in 1 .. by : Window(x, m, by)[j] = x[m + j] /\ m + j \in 1 .. n
      BY <1>3 DEF Window
    <2>4. Ints(Window(x, m, by), by)
      BY <1>14, <2>3 DEF Ints
    <2>5. Lower(Window(x, m, by), by) \in Int
      BY <1>3, <2>4, LowerIsInt
    <2>6. QED
      BY <1>3, <2>2, <2>5
  <1>18. Size(n) = Size(by) * Size(m)
    BY <1>3, SizeSum
  <1>19. /\ Natural(x) = Lower(x, n) /\ Natural(s) = Lower(s, n)
         /\ Natural(x) \in Int /\ Natural(s) \in Int
    BY <1>11, NumberFacts
  <1>20. c[n] \in Int /\ Lower(Nought(n), n) = 0
    BY <1>3, <1>7, LowerNought
  <1>21. PICK N \in Int, O \in Int, lo \in Int, z \in Int, sm \in Int, k \in Int :
          /\ N = Natural(x) /\ O = Natural(s) /\ lo = Lower(x, m) /\ z = Size(by)
          /\ sm = Size(m) /\ k = c[n]
    <2> HIDE DEF m
    <2>1. Size(by) \in Int /\ Size(m) \in Int
      <3>1. Size(by) \in Nat \ {0}
        BY <1>3, SizeStep
      <3>2. Size(m) \in Nat \ {0}
        BY <1>3, SizeStep
      <3>3. QED
        BY <3>1, <3>2
    <2>2. PICK N \in Int, O \in Int, k \in Int : N = Natural(x) /\ O = Natural(s) /\ k = c[n]
      <3>1. Natural(x) \in Int /\ Natural(s) \in Int
        BY <1>19
      <3>2. c[n] \in Int
        BY <1>20
      <3>3. QED
        BY <3>1, <3>2
    <2>3. PICK lo \in Int, z \in Int, sm \in Int :
            lo = Lower(x, m) /\ z = Size(by) /\ sm = Size(m)
      BY <1>16, <2>1
    <2>4. QED
      BY <2>2, <2>3
  <1>22. N = lo + sm * u
    BY <1>17, <1>19, <1>21
  <1>23. A * (z * lo) = O + k * (z * sm)
    <2>1. PICK f \in Int, g \in Int : f = A * (z * lo) /\ g = k * (z * sm)
      OBVIOUS
    <2>2. 0 + f + 0 = O + g
      BY <1>8, <1>15, <1>16, <1>18, <1>19, <1>20, <1>21, <2>1
    <2>3. QED
      BY <2>1, <2>2
  <1>24. (lo + sm * u) * (z * A) = A * (z * lo) + (A * u) * (z * sm)
    OBVIOUS
  <1>25. N * (z * A) = O + (k + A * u) * (z * sm)
    <2>1. (k + A * u) * (z * sm) = k * (z * sm) + (A * u) * (z * sm)
      OBVIOUS
    <2>2. PICK f \in Int, g \in Int : f = k * (z * sm) /\ g = (A * u) * (z * sm)
      OBVIOUS
    <2>3. N * (z * A) = (O + f) + g
      BY <1>22, <1>23, <1>24, <2>2
    <2>4. QED
      BY <2>1, <2>2, <2>3
  <1>26. k + A * u \in Int /\ N * (z * A) \in Int
    OBVIOUS
  <1>27. Near(n, s, Natural(x) * Power(2, amount))
    BY <1>2, <1>18, <1>21, <1>25, <1>26 DEF Near
  <1>28. QED
    BY <1>5, <1>11, <1>27

\* Words that are all ones.
LEMMA LowerFull ==
  ASSUME NEW n \in Nat, NEW x, \A i \in 1 .. n : x[i] = Radix - 1
  PROVE  Lower(x, n) = Size(n) - 1
  <1> DEFINE c == [i \in 0 .. n |-> 1]
             z == Nought(n)
  <1>1. PICK R \in Int : R = Radix
    BY RadixFacts
  <1>2. \A i \in 1 .. n : z[i] = 0 /\ x[i] \in Int
    BY <1>1 DEF Nought
  <1>3. \A i \in 0 .. n : c[i] = 1
    OBVIOUS
  <1> HIDE DEF c, z
  <1>4. Ints(x, n) /\ Ints(z, n)
    BY <1>2 DEF Ints
  <1>5. Chained(n, 0, x, z, c, z)
    <2>1. ASSUME NEW i \in 1 .. n
          PROVE  c[i] \in Int /\ x[i] + 0 * z[i] + c[i - 1] = z[i] + Radix * c[i]
      <3>1. c[i] = 1 /\ c[i - 1] = 1 /\ z[i] = 0 /\ x[i] = R - 1
        BY <1>1, <1>2, <1>3
      <3>2. QED
        BY <1>1, <3>1
    <2>2. c[0] \in Int
      BY <1>3
    <2>3. QED
      BY <2>1, <2>2 DEF Chained
  <1>6. Lower(x, n) + 0 * Lower(z, n) + c[0] = Lower(z, n) + c[n] * Size(n)
    BY <1>4, <1>5, ChainSum, 0 \in Int
  <1>7. Lower(z, n) = 0 /\ c[0] = 1 /\ c[n] = 1 /\ Size(n) \in Int /\ Lower(x, n) \in Int
    BY <1>3, <1>4, LowerNought, LowerIsInt, SizeStep DEF z
  <1>8. QED
    BY <1>6, <1>7

\* Words of sign bits.
LEMMA LowerFill ==
  ASSUME NEW k \in Nat, NEW e \in {0, 1}, NEW z, \A i \in 1 .. k : z[i] = IF e = 1 THEN Radix - 1 ELSE 0
  PROVE  Lower(z, k) = e * (Size(k) - 1)
  <1>1. Size(k) \in Int
    BY SizeStep
  <1>2. CASE e = 1
    <2>1. Lower(z, k) = Size(k) - 1
      BY <1>2, LowerFull
    <2>2. 1 * (Size(k) - 1) = Size(k) - 1
      BY <1>1
    <2>3. QED
      BY <1>2, <2>1, <2>2
  <1>3. CASE e = 0
    <2>1. \A j \in 1 .. k : z[j] = Nought(k)[j]
      BY <1>3 DEF Nought
    <2>2. Ints(z, k)
      BY <1>3 DEF Ints
    <2>3. Lower(z, k) = Lower(Nought(k), k)
      BY <2>1, <2>2, LowerEqual
    <2>4. Lower(Nought(k), k) = 0
      BY LowerNought
    <2>5. 0 * (Size(k) - 1) = 0
      BY <1>1
    <2>6. QED
      BY <1>3, <2>3, <2>4, <2>5
  <1>4. QED
    BY <1>2, <1>3

\* Both halves of a word that is shifted to the right.
Halves(A, C, w, u) ==
  /\ (w \div A) + Wrap(u * C) \in Words
  /\ w % A \in 0 .. A - 1 /\ u % A \in 0 .. A - 1
  /\ A * ((w \div A) + Wrap(u * C)) + (w % A) = w + Radix * (u % A)

\* Two neighbouring words, shifted right: what is left and what is shifted out.
LEMMA RightShiftedWord ==
  ASSUME NEW A \in Nat \ {0}, NEW C \in Nat \ {0}, Radix = A * C, NEW w \in Words, NEW u \in Words
  PROVE  Halves(A, C, w, u)
  <1>1. Radix = C * A
    BY A * C = C * A
  <1>2. /\ w \div A \in 0 .. C - 1 /\ w % A \in 0 .. A - 1 /\ w % A = w - A * (w \div A)
    BY <1>1, ShiftedWord
  <1>3. /\ Wrap(u * C) \in Words /\ Wrap(u * C) <= Radix - C
        /\ u % A \in 0 .. A - 1 /\ Wrap(u * C) = C * (u % A)
    BY <1>1, ShiftedWord
  <1>4. PICK v \in Int, t \in Int, e \in Int, x \in Int, y \in Int, R \in Int :
          /\ v = w \div A /\ t = w % A /\ e = u % A /\ x = w /\ y = Wrap(u * C) /\ R = Radix
          /\ 0 <= v /\ v <= C - 1 /\ 0 <= y
    <2>1. Wrap(u * C) \in Int /\ Wrap(u * C) >= 0 /\ w \in Int /\ Radix \in Int
      BY <1>3, RadixFacts DEF Words
    <2>2. QED
      BY <1>2, <1>3, <2>1
  <1>5. v + y \in Words
    BY <1>3, <1>4 DEF Words
  <1>6. A * (v + C * e) = A * v + (A * C) * e
    OBVIOUS
  <1>7. PICK f \in Int, g \in Int : f = A * v /\ g = (A * C) * e
    OBVIOUS
  <1>8. t = x - f /\ y = C * e
    BY <1>2, <1>3, <1>4, <1>7
  <1>9. A * (v + y) = f + g
    BY <1>6, <1>7, <1>8
  <1>10. A * (v + y) + t = x + g
    BY <1>8, <1>9
  <1>11. (w \div A) + Wrap(u * C) \in Words
    BY <1>4, <1>5
  <1> DEFINE Equation(v1, y1, t1, x1, e1) == A * (v1 + y1) + t1 = x1 + Radix * e1
  <1>12. Equation(v, y, t, x, e)
    <2>1. (A * C) * e = R * e
      BY <1>4
    <2>2. g = Radix * e
      BY <1>4, <1>7, <2>1
    <2>3. QED
      BY <1>10, <2>2
  <1> HIDE DEF Equation
  <1>13. Equation(w \div A, Wrap(u * C), w % A, w, u % A)
    BY <1>4, <1>12, Zenon
  <1>14. A * ((w \div A) + Wrap(u * C)) + (w % A) = w + Radix * (u % A)
    BY <1>13 DEF Equation
  <1>15. w % A \in 0 .. A - 1 /\ u % A \in 0 .. A - 1
    BY <1>2, <1>3, Zenon
  <1>16. QED
    BY <1>11, <1>14, <1>15, Zenon DEF Halves

\* The sign of an arithmetic shift.
SignOf(x, signed) == IF signed /\ IsNeg(x) THEN 1 ELSE 0

\* The words y are x less its by lowest words, extended with the sign e.
Extended(n, x, by, e, y) ==
  \A i \in 1 .. n + 1 :
    y[i] = IF i + by <= n THEN x[i + by] ELSE IF e = 1 THEN Radix - 1 ELSE 0

\* Words dropped below and filled with the sign above.
LEMMA ExtendedIs ==
  ASSUME NEW n \in Nat \ {0}, NEW x \in WordSeq(n), NEW by \in 0 .. n - 1, NEW e \in {0, 1},
         NEW y, Extended(n, x, by, e, y)
  PROVE  /\ \A i \in 1 .. n + 1 : y[i] \in Words
         /\ Lower(y, n) \in Int
         /\ Size(by) * Lower(y, n) + Lower(x, by) - e * Size(n) * Size(by)
              = Lower(x, n) - e * Size(n)
  <1> DEFINE m == n - by
  <1>1. n \in Nat /\ by \in Nat /\ m \in Nat /\ by + m = n /\ m + by = n
    OBVIOUS
  <1>2. \A i \in 1 .. n + 1 : y[i] \in Words
    <2>1. 0 \in Words /\ Radix - 1 \in Words
      BY RadixFacts DEF Words
    <2>2. \A i \in 1 .. n : x[i] \in Words
      BY WordSeqFacts
    <2>3. QED
      BY <1>1, <2>1, <2>2 DEF Extended
  <1>3. AreWords(y, n)
    BY <1>2 DEF AreWords
  <1>4. Ints(x, n) /\ Ints(y, n)
    BY <1>1, <1>3, WordSeqFacts, WordsAreInts
  <1>5. \A j \in 1 .. m : y[j] = x[by + j]
    <2>1. \A j \in 1 .. m : j \in 1 .. n + 1 /\ j + by <= n /\ j + by = by + j
      BY <1>1
    <2>2. QED
      BY <2>1 DEF Extended
  <1>6. \A j \in 1 .. by : y[m + j] = IF e = 1 THEN Radix - 1 ELSE 0
    <2>1. \A j \in 1 .. by : m + j \in 1 .. n + 1 /\ ~((m + j) + by <= n)
      BY <1>1
    <2>2. QED
      BY <2>1 DEF Extended
  <1> HIDE DEF m
  <1>7. Lower(x, n) = Lower(x, by) + Size(by) * Lower(y, m) /\ Lower(y, m) \in Int
    <2>1. Ints(x, by + m) /\ Ints(y, m)
      BY <1>1, <1>4 DEF Ints
    <2>2. Lower(x, by + m) = Lower(x, by) + Size(by) * Lower(Window(x, by, m), m)
      BY <1>1, <2>1, LowerWindow
    <2>3. \A j \in 1 .. m : y[j] = Window(x, by, m)[j]
      BY <1>5 DEF Window
    <2>4. Lower(y, m) = Lower(Window(x, by, m), m)
      BY <1>1, <2>1, <2>3, LowerEqual
    <2>5. Lower(y, m) \in Int
      BY <1>1, <2>1, LowerIsInt
    <2>6. QED
      BY <1>1, <2>2, <2>4, <2>5
  <1>8. Lower(y, n) = Lower(y, m) + Size(m) * (e * (Size(by) - 1))
    <2>1. Ints(y, m + by)
      BY <1>1, <1>4
    <2>2. Lower(y, m + by) = Lower(y, m) + Size(m) * Lower(Window(y, m, by), by)
      BY <1>1, <2>1, LowerWindow
    <2>3. \A j \in 1 .. by : Window(y, m, by)[j] = IF e = 1 THEN Radix - 1 ELSE 0
      BY <1>6 DEF Window
    <2>4. Size(by) \in Int
      BY <1>1, SizeStep
    <2>5. Lower(Window(y, m, by), by) = e * (Size(by) - 1)
      BY <1>1, <2>3, LowerFill
    <2>6. QED
      BY <1>1, <2>2, <2>5
  <1>9. Size(n) = Size(by) * Size(m)
    BY <1>1, SizeSum
  <1>10. Lower(y, n) \in Int /\ Lower(x, by) \in Int
    <2>1. Ints(x, by)
      BY <1>1, <1>4 DEF Ints
    <2>2. QED
      BY <1>1, <1>4, <2>1, LowerIsInt
  <1>11. PICK s \in Int, z \in Int, lo \in Int, hi \in Int, Y \in Int :
           /\ s = Size(by) /\ z = Size(m) /\ lo = Lower(x, by) /\ hi = Lower(y, m)
           /\ Y = Lower(y, n)
    <2>1. Size(by) \in Nat \ {0}
      BY <1>1, SizeStep
    <2>2. Size(m) \in Nat \ {0}
      BY <1>1, SizeStep
    <2>3. QED
      BY <1>7, <1>10, <2>1, <2>2
  <1>12. s * Y + lo - e * (s * z) * s = (lo + s * hi) - e * (s * z)
    <2>1. Y = hi + z * (e * (s - 1))
      BY <1>8, <1>11
    <2>2. s * (hi + z * (e * (s - 1))) = s * hi + e * (s * z) * s - e * (s * z)
      OBVIOUS
    <2>3. PICK f \in Int, g \in Int, k \in Int :
            f = s * hi /\ g = e * (s * z) * s /\ k = e * (s * z)
      OBVIOUS
    <2>4. s * Y = f + g - k
      BY <2>1, <2>2, <2>3
    <2>5. QED
      BY <2>3, <2>4
  <1>13. QED
    BY <1>2, <1>7, <1>9, <1>10, <1>11, <1>12

\* A word of sign bits only shifts into itself.
LEMMA FillShifts ==
  ASSUME NEW A \in Nat \ {0}, NEW C \in Nat \ {0}, Radix = A * C, NEW e \in {0, 1}, NEW w \in Words,
         w = IF e = 1 THEN Radix - 1 ELSE 0
  PROVE  (w \div A) + Wrap(w * C) = w /\ w % A = e * (A - 1)
  <1>1. PICK v \in Int, t \in Int, R \in Int :
          /\ v = (w \div A) + Wrap(w * C) /\ t = w % A /\ R = Radix
          /\ 0 <= t /\ t <= A - 1 /\ A * v + t = w + R * t
    <2>1. /\ (w \div A) + Wrap(w * C) \in Words
          /\ w % A \in 0 .. A - 1
          /\ A * ((w \div A) + Wrap(w * C)) + (w % A) = w + Radix * (w % A)
      <3>1. Halves(A, C, w, w)
        BY RightShiftedWord
      <3>2. QED
        BY <3>1, Zenon DEF Halves
    <2>2. PICK v \in Int, t \in Int, R \in Int :
            v = (w \div A) + Wrap(w * C) /\ t = w % A /\ R = Radix
      BY <2>1, RadixFacts DEF Words
    <2>3. A * v + t = w + R * t
      BY <2>1, <2>2, Zenon
    <2>4. QED
      BY <2>1, <2>2, <2>3
  <1>2. CASE e = 0
    <2>1. w = 0
      BY <1>2
    <2>2. (0 + 0 * A) % A = 0
      BY ModUnique, 0 \in 0 .. A - 1, 0 \in Int
    <2>3. t = 0
      BY <1>1, <2>1, <2>2
    <2>4. R * t = 0
      BY <2>3
    <2>5. A * v = 0
      BY <1>1, <2>1, <2>3, <2>4
    <2>6. v = 0
      BY <2>5
    <2>7. 0 * (A - 1) = 0
      OBVIOUS
    <2>8. QED
      BY <1>1, <1>2, <2>1, <2>3, <2>6, <2>7
  <1>3. CASE e = 1
    <2>1. w = R - 1
      BY <1>1, <1>3
    <2>2. w = (A - 1) + (C - 1) * A
      <3>1. (C - 1) * A = A * C - A
        OBVIOUS
      <3>2. R = A * C
        BY <1>1
      <3>3. QED
        BY <2>1, <3>1, <3>2
    <2>3. t = A - 1
      <3>1. A - 1 \in 0 .. A - 1 /\ C - 1 \in Int
        OBVIOUS
      <3>2. ((A - 1) + (C - 1) * A) % A = A - 1
        BY <3>1, ModUnique
      <3>3. QED
        BY <1>1, <2>2, <3>2
    <2>4. R * (A - 1) = A * R - R /\ A * (R - 1) = A * R - A
      OBVIOUS
    <2>5. A * v = A * (R - 1)
      <3>1. PICK f \in Int, g \in Int : f = A * v /\ g = A * R
        OBVIOUS
      <3>2. f + (A - 1) = (R - 1) + (g - R)
        BY <1>1, <2>1, <2>3, <2>4, <3>1
      <3>3. QED
        BY <2>4, <3>1, <3>2
    <2>6. v = R - 1
      <3>1. PICK d \in Int : d = v - (R - 1)
        OBVIOUS
      <3>2. A * d = A * v - A * (R - 1)
        BY <3>1
      <3>3. A * d = 0
        BY <2>5, <3>2
      <3>4. d = 0
        BY <3>3
      <3>5. QED
        BY <3>1, <3>4
    <2>7. 1 * (A - 1) = A - 1
      OBVIOUS
    <2>8. QED
      BY <1>1, <1>3, <2>1, <2>3, <2>6, <2>7
  <1>4. QED
    BY <1>2, <1>3

\* The words of x shifted to the right, from the words y it is extended to.
RightShifted(n, A, C, y) == [i \in 1 .. n |-> (y[i] \div A) + Wrap(y[i + 1] * C)]

DividesWords(n, A, C, e, y) ==
  \E c0 \in 0 .. A - 1 :
    A * Natural(RightShifted(n, A, C, y)) + c0 = Lower(y, n) + (e * (A - 1)) * Size(n)

\* The words of a right shift stand for the quotient.
LEMMA RightShiftedIs ==
  ASSUME NEW n \in Nat \ {0}, NEW A \in Nat \ {0}, NEW C \in Nat \ {0}, Radix = A * C,
         NEW e \in {0, 1}, NEW y, \A i \in 1 .. n + 1 : y[i] \in Words,
         y[n + 1] = IF e = 1 THEN Radix - 1 ELSE 0
  PROVE  /\ RightShifted(n, A, C, y) \in WordSeq(n)
         /\ DividesWords(n, A, C, e, y)
  <1> DEFINE s == RightShifted(n, A, C, y)
             c == [i \in 0 .. n |-> y[i + 1] % A]
             z == Nought(n)
  <1>1. ASSUME NEW i \in 1 .. n
        PROVE  /\ s[i] \in Words /\ c[i] \in Int /\ z[i] = 0 /\ y[i] \in Int
               /\ z[i] + A * s[i] + c[i - 1] = y[i] + Radix * c[i]
    <2>1. PICK w \in Words, u \in Words : w = y[i] /\ u = y[i + 1]
      OBVIOUS
    <2>2. s[i] = (w \div A) + Wrap(u * C) /\ c[i] = u % A /\ c[i - 1] = w % A /\ z[i] = 0
      BY <2>1 DEF RightShifted, Nought
    <2> HIDE DEF s, c, z
    <2>3. /\ (w \div A) + Wrap(u * C) \in Words
          /\ w % A \in 0 .. A - 1 /\ u % A \in 0 .. A - 1
          /\ A * ((w \div A) + Wrap(u * C)) + (w % A) = w + Radix * (u % A)
      <3>1. Halves(A, C, w, u)
        BY RightShiftedWord
      <3>2. QED
        BY <3>1, Zenon DEF Halves
    <2>4. s[i] \in Words /\ c[i] \in 0 .. A - 1 /\ c[i - 1] \in 0 .. A - 1
      BY <2>2, <2>3
    <2>5. A * s[i] + c[i - 1] = w + Radix * c[i]
      BY <2>2, <2>3, Zenon
    <2>6. PICK f \in Int, g \in Int : f = A * s[i] /\ g = c[i - 1]
      BY <2>4 DEF Words
    <2>7. 0 + f + g = w + Radix * c[i]
      BY <2>5, <2>6
    <2>8. w \in Int
      BY DEF Words
    <2>9. QED
      BY <2>1, <2>2, <2>4, <2>6, <2>7, <2>8
  <1>2. c[0] \in 0 .. A - 1 /\ c[0] \in Int
    <2>1. PICK w \in Words : w = y[1]
      OBVIOUS
    <2>2. w % A \in 0 .. A - 1
      <3>1. w \in Int
        BY DEF Words
      <3>2. QED
        BY <3>1, DivMod
    <2>3. c[0] = w % A
      BY <2>1
    <2>4. QED
      BY <2>2, <2>3
  <1>3. c[n] = e * (A - 1)
    <2>1. PICK w \in Words : w = y[n + 1]
      OBVIOUS
    <2>2. w = IF e = 1 THEN Radix - 1 ELSE 0
      BY <2>1
    <2>3. w % A = e * (A - 1)
      BY <2>2, FillShifts
    <2>4. c[n] = w % A
      BY <2>1
    <2>5. QED
      BY <2>3, <2>4
  <1>4. s = [i \in 1 .. n |-> s[i]]
    BY DEF RightShifted
  <1> HIDE DEF s, c, z
  <1>5. s \in WordSeq(n)
    BY <1>1, <1>4, IsWordSeq DEF AreWords
  <1>6. Ints(z, n) /\ Ints(s, n) /\ Ints(y, n)
    BY <1>1, <1>5, WordSeqFacts DEF Ints
  <1>7. Chained(n, A, z, s, c, y)
    BY <1>1, <1>2 DEF Chained
  <1>8. Lower(z, n) + A * Lower(s, n) + c[0] = Lower(y, n) + c[n] * Size(n)
    BY <1>6, <1>7, ChainSum, A \in Int
  <1>9. Lower(z, n) = 0
    BY LowerNought DEF z
  <1>10. Natural(s) = Lower(s, n) /\ Natural(s) \in Int
    BY <1>5, NumberFacts
  <1>11. A * Natural(s) + c[0] = Lower(y, n) + (e * (A - 1)) * Size(n)
    <2>1. PICK f \in Int : f = A * Natural(s)
      BY <1>10
    <2>2. 0 + f + c[0] = Lower(y, n) + (e * (A - 1)) * Size(n)
      BY <1>3, <1>8, <1>9, <1>10, <2>1
    <2>3. QED
      BY <1>2, <2>1, <2>2
  <1>12. QED
    BY <1>2, <1>5, <1>11 DEF s, DividesWords

\* What is below the words and the bits that are left is less than 2 ^ amount.
LEMMA BelowShift ==
  ASSUME NEW z \in Nat \ {0}, NEW A \in Nat \ {0}, NEW c \in 0 .. A - 1, NEW lo \in 0 .. z - 1
  PROVE  z * c + lo \in 0 .. z * A - 1
  <1>1. PICK d \in Nat, k \in Nat : A = k + 1 + d /\ k = c
    <2>1. c \in Nat /\ A - c - 1 \in Nat
      OBVIOUS
    <2>2. A = c + 1 + (A - c - 1)
      OBVIOUS
    <2>3. QED
      BY <2>1, <2>2
  <1>2. z * (k + 1 + d) = z * k + z + z * d /\ z * k \in Nat /\ z * d \in Nat
    OBVIOUS
  <1>3. PICK f \in Nat, g \in Nat : f = z * k /\ g = z * d
    BY <1>2
  <1>4. z * A = f + z + g /\ z * c = f
    BY <1>1, <1>2, <1>3
  <1>5. f + lo \in 0 .. (f + z + g) - 1
    OBVIOUS
  <1>6. QED
    BY <1>4, <1>5

\* A shift to the right divides, and rounds down.
LEMMA ShrIs ==
  ASSUME NEW n \in Nat \ {0}, NEW x \in WordSeq(n), NEW amount \in 0 .. n * WordBits - 1,
         NEW signed \in BOOLEAN, NEW e \in {0, 1}, e = SignOf(x, signed)
  PROVE  /\ shift_right_words(x, amount, signed) \in WordSeq(n)
         /\ Natural(shift_right_words(x, amount, signed)) - e * Size(n)
              = (Natural(x) - e * Size(n)) \div Power(2, amount)
  <1>1. PICK by \in 0 .. n - 1, bits \in 0 .. WordBits - 1 : Place(amount, by, bits)
    BY PlaceOf
  <1>2. PICK A \in Nat \ {0}, C \in Nat \ {0} :
          /\ A = Power(2, bits) /\ C = Power(2, WordBits - bits) /\ Radix = A * C
          /\ Power(2, amount) = Size(by) * A
          /\ amount \div WordBits = by /\ amount % WordBits = bits
    BY <1>1 DEF Place
  <1> DEFINE fill == IF e = 1 THEN Radix - 1 ELSE 0
             word(i) == IF i <= n THEN x[i] ELSE fill
             y == [i \in 1 .. n + 1 |-> IF i + by <= n THEN x[i + by] ELSE fill]
             s == RightShifted(n, A, C, y)
  <1>3. Len(x) = n /\ n \in Nat /\ by \in Nat
    BY WordSeqFacts
  <1>4. fill = IF signed /\ IsNeg(x) THEN Radix - 1 ELSE 0
    BY DEF SignOf
  <1>5. Extended(n, x, by, e, y)
    BY DEF Extended
  <1>6. /\ \A i \in 1 .. n + 1 : y[i] \in Words
        /\ Lower(y, n) \in Int
        /\ Size(by) * Lower(y, n) + Lower(x, by) - e * Size(n) * Size(by)
             = Lower(x, n) - e * Size(n)
    <2> HIDE DEF y
    <2>1. QED
      BY <1>5, ExtendedIs
  <1>7. y[n + 1] = fill
    <2>1. ~(n + 1 + by <= n) /\ n + 1 \in 1 .. n + 1
      BY <1>3
    <2> HIDE DEF fill
    <2>2. QED
      BY <2>1
  <1>8. shift_right_words(x, amount, signed) = s
    <2>1. shift_right_words(x, amount, signed)
            = [i \in 1 .. n |->
                 IF i + by > n THEN fill
                 ELSE (word(i + by) \div A)
                        + IF bits = 0 THEN 0 ELSE Wrap(word(i + by + 1) * C)]
      BY <1>2, <1>3, <1>4 DEF shift_right_words
    <2>2. s = [i \in 1 .. n |-> (y[i] \div A) + Wrap(y[i + 1] * C)]
      BY DEF RightShifted
    <2>3. ASSUME NEW i \in 1 .. n
          PROVE  (IF i + by > n THEN fill
                  ELSE (word(i + by) \div A)
                         + IF bits = 0 THEN 0 ELSE Wrap(word(i + by + 1) * C))
                   = (y[i] \div A) + Wrap(y[i + 1] * C)
      <3>1. i \in 1 .. n + 1 /\ i + 1 \in 1 .. n + 1 /\ i + by \in Int /\ i + 1 + by = i + by + 1
        BY <1>3
      <3>2. y[i] \in Words /\ y[i + 1] \in Words
        BY <1>6, <3>1
      <3>3. CASE i + by > n
        <4>1. ~(i + by <= n) /\ ~(i + 1 + by <= n)
          BY <1>3, <3>3
        <4>2. y[i] = fill /\ y[i + 1] = fill
          <5> HIDE DEF fill
          <5>1. QED
            BY <3>1, <4>1
        <4>3. PICK w \in Words : w = fill
          BY <3>2, <4>2
        <4>4. (w \div A) + Wrap(w * C) = w
          BY <1>2, <4>3, FillShifts
        <4> HIDE DEF fill, word, y
        <4>5. QED
          BY <3>3, <4>2, <4>3, <4>4
      <3>4. CASE ~(i + by > n)
        <4>1. i + by <= n
          BY <1>3, <3>4
        <4>2. y[i] = word(i + by) /\ y[i + 1] = word(i + by + 1)
          <5> HIDE DEF fill
          <5>1. QED
            BY <3>1, <4>1
        <4>3. (IF bits = 0 THEN 0 ELSE Wrap(y[i + 1] * C)) = Wrap(y[i + 1] * C)
          <5> HIDE DEF fill, word, y
          <5>1. CASE bits # 0
            BY <5>1
          <5>2. CASE bits = 0
            <6>1. A = 1
              BY <1>2, <5>2, PowerStep, 2 \in Int, 0 \in Nat
            <6>2. PICK u \in Words : u = y[i + 1]
              BY <3>2
            <6>3. Radix = C * A
              BY <1>2, A * C = C * A
            <6>4. Wrap(u * C) \in Words /\ Wrap(u * C) <= Radix - C
              BY <6>3, ShiftedWord
            <6>5. Radix = C
              BY <1>2, <6>1
            <6>6. Wrap(u * C) = 0
              BY <6>4, <6>5 DEF Words
            <6>7. QED
              BY <5>2, <6>2, <6>6
          <5>3. QED
            BY <5>1, <5>2
        <4> HIDE DEF fill, word, y
        <4>4. QED
          BY <3>4, <4>2, <4>3
      <3>5. QED
        BY <3>3, <3>4
    <2> HIDE DEF fill, word, y, s
    <2>4. QED
      BY <2>1, <2>2, <2>3
  <1> HIDE DEF fill, word, y, s
  <1>9. s \in WordSeq(n)
    BY <1>2, <1>6, <1>7, RightShiftedIs DEF s, fill
  <1>10. PICK c0 \in 0 .. A - 1 :
           A * Natural(s) + c0 = Lower(y, n) + (e * (A - 1)) * Size(n)
    <2>1. DividesWords(n, A, C, e, y)
      BY <1>2, <1>6, <1>7, RightShiftedIs DEF fill
    <2>2. QED
      BY <2>1 DEF DividesWords, s
  <1>11. PICK N \in Int, O \in Int, Y \in Int, lo \in Int, z \in Nat \ {0}, S \in Int :
           /\ N = Natural(x) /\ O = Natural(s) /\ Y = Lower(y, n) /\ lo = Lower(x, by)
           /\ z = Size(by) /\ S = Size(n) /\ lo \in 0 .. z - 1 /\ N = Lower(x, n)
    <2>1. PICK N \in Int : N = Natural(x) /\ N = Lower(x, n)
      BY NumberFacts
    <2>2. PICK O \in Int : O = Natural(s)
      BY <1>9, NumberFacts
    <2>3. PICK z \in Nat \ {0} : z = Size(by)
      BY <1>3, SizeStep
    <2>4. PICK S \in Int : S = Size(n)
      BY <1>3, SizeStep
    <2>5. PICK lo \in Int : lo = Lower(x, by) /\ lo \in 0 .. z - 1
      <3>1. AreWords(x, by)
        BY WordSeqFacts DEF AreWords
      <3>2. Lower(x, by) \in 0 .. Size(by) - 1
        BY <1>3, <3>1, LowerRange
      <3>3. QED
        BY <2>3, <3>2
    <2>6. PICK Y \in Int : Y = Lower(y, n)
      BY <1>6
    <2>7. QED
      BY <2>1, <2>2, <2>3, <2>4, <2>5, <2>6
  <1>12. z * Y + lo - e * S * z = N - e * S
    BY <1>6, <1>11
  <1>13. A * O + c0 = Y + (e * (A - 1)) * S
    BY <1>10, <1>11
  <1>14. N - e * S = (z * c0 + lo) + (O - e * S) * (z * A)
    <2>1. PICK f \in Int, g \in Int, h \in Int, k \in Int, E \in Int :
            /\ f = A * O /\ g = z * f /\ E = e * S /\ h = E * A /\ k = z * h
      OBVIOUS
    <2>2. (e * (A - 1)) * S = h - E
      <3>1. (e * (A - 1)) * S = (e * S) * A - e * S
        OBVIOUS
      <3>2. QED
        BY <2>1, <3>1
    <2>3. Y = f + c0 - h + E
      BY <1>13, <2>1, <2>2
    <2>4. z * (f + c0 - h + E) = z * f + z * c0 - z * h + z * E
      OBVIOUS
    <2>5. (O - E) * (z * A) = z * (A * O) - z * (E * A)
      OBVIOUS
    <2>6. PICK p \in Int, q \in Int : p = z * c0 /\ q = z * E
      OBVIOUS
    <2>7. E * z = q /\ e * S * z = E * z
      BY <2>1, <2>6
    <2>8. z * Y = g + p - k + q
      BY <2>1, <2>3, <2>4, <2>6
    <2>9. (O - E) * (z * A) = g - k
      BY <2>1, <2>5
    <2>10. N - E = (p + lo) + (g - k)
      BY <1>12, <2>1, <2>7, <2>8
    <2>11. QED
      BY <2>1, <2>6, <2>9, <2>10
  <1>15. z * c0 + lo \in 0 .. z * A - 1
    BY <1>11, BelowShift
  <1>16. z * A \in Nat \ {0} /\ O - e * S \in Int
    BY <1>11
  <1>17. ((z * c0 + lo) + (O - e * S) * (z * A)) \div (z * A) = O - e * S
    BY <1>15, <1>16, ModUnique
  <1>18. (N - e * S) \div (z * A) = O - e * S
    BY <1>14, <1>17
  <1>19. QED
    BY <1>2, <1>8, <1>9, <1>11, <1>18

\* A quotient that is rounded down lies where the dividend does.
LEMMA FloorFits ==
  ASSUME NEW n \in Nat \ {0}, NEW a \in Int, SignedFits(n, a), NEW M \in Nat \ {0}
  PROVE  a \div M \in Int /\ SignedFits(n, a \div M)
  <1>1. PICK h \in Nat \ {0} : Size(n) = 2 * h /\ Size(n) \div 2 = h
    BY HalfSize
  <1>2. PICK q \in Int, t \in Int : q = a \div M /\ a = t + M * q /\ 0 <= t /\ t <= M - 1
    <2>1. a % M \in 0 .. M - 1 /\ a \div M \in Int /\ a % M = a - M * (a \div M)
      BY DivMod
    <2>2. PICK q \in Int, t \in Int : q = a \div M /\ t = a % M /\ t = a - M * q
      BY <2>1
    <2>3. QED
      BY <2>1, <2>2
  <1>3. -h <= a /\ a < h
    BY <1>1 DEF SignedFits
  <1>4. PICK m \in Nat : M = m + 1
    BY M - 1 \in Nat
  <1>5. M * q = m * q + q
    BY <1>4
  <1>6. q < h
    <2>1. CASE q < 0
      BY <2>1
    <2>2. CASE q >= 0
      <3>1. q \in Nat
        BY <2>2
      <3>2. m * q \in Nat
        BY <3>1
      <3>3. q <= a
        BY <1>2, <1>5, <3>2
      <3>4. QED
        BY <1>3, <3>3
    <2>3. QED
      BY <2>1, <2>2
  <1>7. q >= -h
    <2>1. CASE q >= 0
      BY <2>1
    <2>2. CASE q < 0
      <3>1. PICK d \in Nat : q = -1 - d
        BY <2>2, -1 - q \in Nat
      <3>2. m * (-1 - d) = -m - m * d /\ m * d \in Nat
        OBVIOUS
      <3>3. PICK f \in Nat : f = m * d /\ m * q = -m - f
        BY <3>1, <3>2
      <3>4. a <= q
        BY <1>2, <1>4, <1>5, <3>3
      <3>5. QED
        BY <1>3, <3>4
    <2>3. QED
      BY <2>1, <2>2
  <1>8. QED
    BY <1>1, <1>2, <1>6, <1>7 DEF SignedFits

\* A signed shift right divides and rounds down.
LEMMA SignedShr ==
  ASSUME NEW n \in Nat \ {0}, NEW x \in WordSeq(n), NEW amount \in 0 .. n * WordBits - 1
  PROVE  SignedNumber(shift_right_words(x, amount, TRUE)) = SignedNumber(x) \div Power(2, amount)
  <1>1. PICK e \in {0, 1} : e = SignOf(x, TRUE)
    BY DEF SignOf
  <1>2. PICK s \in WordSeq(n) : s = shift_right_words(x, amount, TRUE)
    BY <1>1, ShrIs, TRUE \in BOOLEAN
  <1>3. Natural(s) - e * Size(n) = (Natural(x) - e * Size(n)) \div Power(2, amount)
    <2>1. Natural(shift_right_words(x, amount, TRUE)) - e * Size(n)
            = (Natural(x) - e * Size(n)) \div Power(2, amount)
      BY <1>1, ShrIs, TRUE \in BOOLEAN
    <2>2. QED
      BY <1>2, <2>1
  <1>4. Natural(x) \in Int /\ Natural(s) \in Int /\ Size(n) \in Int
    <2>1. Natural(x) \in Int
      BY NumberFacts
    <2>2. Natural(s) \in Int
      BY NumberFacts
    <2>3. Size(n) \in Int
      BY SizeStep
    <2>4. QED
      BY <2>1, <2>2, <2>3
  <1>5. SignedNumber(x) = Natural(x) - e * Size(n)
    <2>1. Signed(n, x)
      BY NumberFacts
    <2>2. CASE IsNeg(x)
      <3>1. e = 1 /\ SignedNumber(x) = Natural(x) - Size(n)
        BY <1>1, <2>1, <2>2 DEF SignOf, Signed
      <3>2. QED
        BY <1>4, <3>1
    <2>3. CASE ~IsNeg(x)
      <3>1. e = 0 /\ SignedNumber(x) = Natural(x)
        BY <1>1, <2>1, <2>3 DEF SignOf, Signed
      <3>2. QED
        BY <1>4, <3>1
    <2>4. QED
      BY <2>2, <2>3
  <1>6. PICK a \in Int, M \in Nat \ {0} :
          a = SignedNumber(x) /\ SignedFits(n, a) /\ M = Power(2, amount)
    <2>1. SignedNumber(x) \in Int /\ SignedFits(n, SignedNumber(x))
      BY SignedRange
    <2>2. Power(2, amount) \in Nat \ {0}
      BY PowerPositive, 2 \in Nat \ {0}, amount \in Nat
    <2>3. QED
      BY <2>1, <2>2
  <1>7. a \div M \in Int /\ SignedFits(n, a \div M)
    BY <1>6, FloorFits
  <1>8. PICK b \in Int : b = a \div M /\ SignedFits(n, b)
    BY <1>7
  <1>9. b = Natural(s) + (0 - e) * Size(n) /\ 0 - e \in Int
    <2>1. b = Natural(s) - e * Size(n)
      BY <1>3, <1>5, <1>6, <1>8
    <2>2. (0 - e) * Size(n) = 0 - e * Size(n)
      BY <1>4
    <2>3. PICK f \in Int : f = e * Size(n)
      BY <1>4
    <2>4. QED
      BY <1>4, <2>1, <2>2, <2>3
  <1>10. SignedNumber(s) = b
    BY <1>2, <1>8, <1>9, SignedUnique
  <1>11. QED
    BY <1>2, <1>6, <1>8, <1>10

\* An unsigned shift right divides.
LEMMA UnsignedShr ==
  ASSUME NEW n \in Nat \ {0}, NEW x \in WordSeq(n), NEW amount \in 0 .. n * WordBits - 1
  PROVE  Natural(shift_right_words(x, amount, FALSE)) = Natural(x) \div Power(2, amount)
  <1>1. PICK e \in {0, 1} : e = SignOf(x, FALSE) /\ e = 0
    BY DEF SignOf
  <1>2. /\ shift_right_words(x, amount, FALSE) \in WordSeq(n)
        /\ Natural(shift_right_words(x, amount, FALSE)) - e * Size(n)
            = (Natural(x) - e * Size(n)) \div Power(2, amount)
    BY <1>1, ShrIs, FALSE \in BOOLEAN
  <1>3. PICK s \in WordSeq(n) : s = shift_right_words(x, amount, FALSE)
    BY <1>2
  <1>4. Natural(x) \in Int /\ Natural(s) \in Int /\ Size(n) \in Int
    <2>1. Natural(x) \in Int
      BY NumberFacts
    <2>2. Natural(s) \in Int
      BY NumberFacts
    <2>3. Size(n) \in Int
      BY SizeStep
    <2>4. QED
      BY <2>1, <2>2, <2>3
  <1>5. Natural(s) - e * Size(n) = Natural(s) /\ Natural(x) - e * Size(n) = Natural(x)
    <2>1. e * Size(n) = 0
      <3>1. 0 * Size(n) = 0
        BY <1>4
      <3>2. e = 0
        BY <1>1
      <3>3. QED
        BY <3>1, <3>2
    <2>2. QED
      BY <1>4, <2>1
  <1>6. Natural(s) - e * Size(n) = (Natural(x) - e * Size(n)) \div Power(2, amount)
    BY <1>2, <1>3, Zenon
  <1>7. QED
    BY <1>3, <1>5, <1>6, Zenon

-----------------------------------------------------------------------------
(* What each operation returns, of signed and of unsigned numbers.         *)

\* Add is the sum modulo the size, in both types,
LEMMA AddIs ==
  ASSUME NEW n \in {2, 4}, NEW l \in WordSeq(n), NEW r \in WordSeq(n), NEW signed \in BOOLEAN
  PROVE  Equals(Add(l, r), Number(signed, l) + Number(signed, r))
  <1>1. n \in Nat \ {0}
    OBVIOUS
  <1>2. Near(n, l, Number(signed, l))
    BY <1>1, NearNumber
  <1>3. Near(n, r, Number(signed, r))
    BY <1>1, NearNumber
  <1>4. Near(n, Add(l, r), Number(signed, l) + Number(signed, r))
    BY <1>2, <1>3, AddNear
  <1>5. Add(l, r) \in WordSeq(n)
    BY AddExact
  <1>6. QED
    BY <1>1, <1>4, <1>5, NearEquals

\* Sub the difference,
LEMMA SubIs ==
  ASSUME NEW n \in {2, 4}, NEW l \in WordSeq(n), NEW r \in WordSeq(n), NEW signed \in BOOLEAN
  PROVE  Equals(Sub(l, r), Number(signed, l) - Number(signed, r))
  <1>1. n \in Nat \ {0}
    OBVIOUS
  <1>2. Near(n, l, Number(signed, l))
    BY <1>1, NearNumber
  <1>3. Near(n, r, Number(signed, r))
    BY <1>1, NearNumber
  <1>4. Near(n, Sub(l, r), Number(signed, l) - Number(signed, r))
    BY <1>2, <1>3, SubNear
  <1>5. Sub(l, r) \in WordSeq(n)
    BY SubExact
  <1>6. QED
    BY <1>1, <1>4, <1>5, NearEquals

\* Neg the negative,
LEMMA NegIs ==
  ASSUME NEW n \in {2, 4}, NEW x \in WordSeq(n), NEW signed \in BOOLEAN
  PROVE  Equals(Neg(x), -Number(signed, x))
  <1>1. n \in Nat \ {0}
    OBVIOUS
  <1>2. Near(n, x, Number(signed, x))
    BY <1>1, NearNumber
  <1>3. Near(n, Neg(x), -Number(signed, x))
    BY <1>2, NegNear
  <1>4. Neg(x) \in WordSeq(n)
    BY NegExact
  <1>5. QED
    BY <1>1, <1>3, <1>4, NearEquals

\* and Mul the product.
LEMMA MulIs ==
  ASSUME NEW n \in {2, 4}, NEW l \in WordSeq(n), NEW r \in WordSeq(n)
  PROVE  Equals(Mul(l, r), Number(TRUE, l) * Number(TRUE, r))
  <1>1. n \in Nat \ {0}
    OBVIOUS
  <1>2. Near(n, l, Number(TRUE, l))
    BY <1>1, NearNumber, TRUE \in BOOLEAN
  <1>3. Near(n, r, Number(TRUE, r))
    BY <1>1, NearNumber, TRUE \in BOOLEAN
  <1>4. Mul(l, r) \in WordSeq(n) /\ Near(n, Mul(l, r), Number(TRUE, l) * Number(TRUE, r))
    BY <1>2, <1>3, MulNear
  <1>5. QED
    BY <1>1, <1>4, NearEquals

\* Lt compares the numbers, in both types.
LEMMA LtIs ==
  ASSUME NEW n \in Nat \ {0}, NEW l \in WordSeq(n), NEW r \in WordSeq(n), NEW signed \in BOOLEAN
  PROVE  Lt(signed, l, r) <=> Number(signed, l) < Number(signed, r)
  <1>1. CASE signed = TRUE
    <2>1. gray_i256_lt(l, r) <=> SignedNumber(l) < SignedNumber(r)
      BY SignedLt
    <2>2. Number(TRUE, l) = SignedNumber(l) /\ Number(TRUE, r) = SignedNumber(r)
      BY NumberIs
    <2>3. Lt(TRUE, l, r) <=> Number(TRUE, l) < Number(TRUE, r)
      BY <2>1, <2>2, Zenon DEF Lt
    <2>4. QED
      BY <1>1, <2>3, Zenon
  <1>2. CASE signed = FALSE
    <2>1. gray_u256_lt(l, r) <=> Natural(l) < Natural(r)
      BY UnsignedLt
    <2>2. Number(FALSE, l) = Natural(l) /\ Number(FALSE, r) = Natural(r)
      BY NumberIs
    <2>3. Lt(FALSE, l, r) <=> Number(FALSE, l) < Number(FALSE, r)
      BY <2>1, <2>2, Zenon DEF Lt
    <2>4. QED
      BY <1>2, <2>3, Zenon
  <1>3. QED
    BY <1>1, <1>2, Zenon

\* A quotient, and the one that does not fit.
Divided(signed, n, l, r, result) ==
  IF Number(signed, r) = 0 THEN result = Panic
  ELSE Number(signed, result)
         = IF Fits(signed, n, Truncated(Number(signed, l), Number(signed, r)))
           THEN Truncated(Number(signed, l), Number(signed, r)) ELSE Number(signed, l)

\* Div divides the numbers, in both types,
LEMMA DivIs ==
  ASSUME NEW n \in {2, 4}, NEW l \in WordSeq(n), NEW r \in WordSeq(n), NEW signed \in BOOLEAN
  PROVE  Divided(signed, n, l, r, Div(signed, l, r))
  <1>1. CASE signed = TRUE
    <2>1. /\ SignedNumber(r) = 0 => SignedDiv(l, r) = Panic
          /\ SignedNumber(r) # 0 => SignedNumber(SignedDiv(l, r))
                                      = SignedQuotient(n, SignedNumber(l), SignedNumber(r))
      BY SignedDivIs
    <2>2. /\ Number(TRUE, l) = SignedNumber(l) /\ Number(TRUE, r) = SignedNumber(r)
          /\ Number(TRUE, SignedDiv(l, r)) = SignedNumber(SignedDiv(l, r))
      BY NumberIs
    <2>3. Fits(TRUE, n, Truncated(SignedNumber(l), SignedNumber(r)))
            <=> SignedFits(n, Truncated(SignedNumber(l), SignedNumber(r)))
      BY FitsIs
    <2>4. Div(TRUE, l, r) = SignedDiv(l, r)
      BY DEF Div
    <2>5. Divided(TRUE, n, l, r, SignedDiv(l, r))
      <3>1. CASE SignedNumber(r) = 0
        BY <2>1, <2>2, <3>1, Zenon DEF Divided
      <3>2. CASE SignedNumber(r) # 0
        <4>1. Number(TRUE, SignedDiv(l, r)) = SignedQuotient(n, Number(TRUE, l), Number(TRUE, r))
          BY <2>1, <2>2, <3>2, Zenon
        <4>2. Number(TRUE, r) # 0
          BY <2>2, <3>2, Zenon
        <4>3. Fits(TRUE, n, Truncated(Number(TRUE, l), Number(TRUE, r)))
                <=> SignedFits(n, Truncated(Number(TRUE, l), Number(TRUE, r)))
          BY FitsIs
        <4>4. QED
          BY <4>1, <4>2, <4>3, Zenon DEF Divided, SignedQuotient
      <3>3. QED
        BY <3>1, <3>2, Zenon
    <2>6. QED
      BY <1>1, <2>4, <2>5, Zenon
  <1>2. CASE signed = FALSE
    <2>1. /\ Natural(r) = 0 => divmod(l, r) = PanicPair
          /\ Natural(r) # 0 =>
               /\ Natural(divmod(l, r).quotient) = Truncated(Natural(l), Natural(r))
               /\ UnsignedFits(n, Truncated(Natural(l), Natural(r)))
      BY UnsignedDivIs
    <2>2. /\ Number(FALSE, l) = Natural(l) /\ Number(FALSE, r) = Natural(r)
          /\ Number(FALSE, divmod(l, r).quotient) = Natural(divmod(l, r).quotient)
      BY NumberIs
    <2>3. Fits(FALSE, n, Truncated(Natural(l), Natural(r)))
            <=> UnsignedFits(n, Truncated(Natural(l), Natural(r)))
      BY FitsIs
    <2>4. Div(FALSE, l, r) = divmod(l, r).quotient
      BY DEF Div
    <2>5. Divided(FALSE, n, l, r, divmod(l, r).quotient)
      <3>1. CASE Natural(r) = 0
        <4>1. divmod(l, r).quotient = Panic
          BY <2>1, <3>1 DEF PanicPair
        <4>2. QED
          BY <2>2, <3>1, <4>1, Zenon DEF Divided
      <3>2. CASE Natural(r) # 0
        <4>1. /\ Number(FALSE, divmod(l, r).quotient) = Truncated(Number(FALSE, l), Number(FALSE, r))
              /\ Number(FALSE, r) # 0
              /\ Fits(FALSE, n, Truncated(Number(FALSE, l), Number(FALSE, r)))
          BY <2>1, <2>2, <2>3, <3>2, Zenon
        <4>2. QED
          BY <4>1, Zenon DEF Divided
      <3>3. QED
        BY <3>1, <3>2, Zenon
    <2>6. QED
      BY <1>2, <2>4, <2>5, Zenon
  <1>3. QED
    BY <1>1, <1>2, Zenon

Remains(signed, l, r, result) ==
  IF Number(signed, r) = 0 THEN result = Panic
  ELSE Number(signed, result)
         = Number(signed, l)
             - Truncated(Number(signed, l), Number(signed, r)) * Number(signed, r)

\* and Mod is the remainder.
LEMMA ModIs ==
  ASSUME NEW n \in {2, 4}, NEW l \in WordSeq(n), NEW r \in WordSeq(n), NEW signed \in BOOLEAN
  PROVE  Remains(signed, l, r, Mod(signed, l, r))
  <1>1. CASE signed = TRUE
    <2>1. /\ SignedNumber(r) = 0 => SignedMod(l, r) = Panic
          /\ SignedNumber(r) # 0 =>
               SignedNumber(SignedMod(l, r))
                 = SignedNumber(l)
                     - Truncated(SignedNumber(l), SignedNumber(r)) * SignedNumber(r)
      BY SignedModIs
    <2>2. /\ Number(TRUE, l) = SignedNumber(l) /\ Number(TRUE, r) = SignedNumber(r)
          /\ Number(TRUE, SignedMod(l, r)) = SignedNumber(SignedMod(l, r))
      BY NumberIs
    <2>3. Mod(TRUE, l, r) = SignedMod(l, r)
      BY DEF Mod
    <2>4. Remains(TRUE, l, r, SignedMod(l, r))
      BY <2>1, <2>2, Zenon DEF Remains
    <2>5. QED
      BY <1>1, <2>3, <2>4, Zenon
  <1>2. CASE signed = FALSE
    <2>1. /\ Natural(r) = 0 => divmod(l, r) = PanicPair
          /\ Natural(r) # 0 =>
               Natural(divmod(l, r).remainder)
                 = Natural(l) - Truncated(Natural(l), Natural(r)) * Natural(r)
      BY UnsignedDivIs
    <2>2. /\ Number(FALSE, l) = Natural(l) /\ Number(FALSE, r) = Natural(r)
          /\ Number(FALSE, divmod(l, r).remainder) = Natural(divmod(l, r).remainder)
      BY NumberIs
    <2>3. Mod(FALSE, l, r) = divmod(l, r).remainder
      BY DEF Mod
    <2>4. Natural(r) = 0 => divmod(l, r).remainder = Panic
      BY <2>1 DEF PanicPair
    <2>5. Remains(FALSE, l, r, divmod(l, r).remainder)
      BY <2>1, <2>2, <2>4, Zenon DEF Remains
    <2>6. QED
      BY <1>2, <2>3, <2>5, Zenon
  <1>3. QED
    BY <1>1, <1>2, Zenon

\* A shift left multiplies, and drops what is shifted out.
LEMMA ShlIs ==
  ASSUME NEW n \in Nat \ {0}, NEW x \in WordSeq(n), NEW amount \in 0 .. n * WordBits - 1,
         NEW signed \in BOOLEAN
  PROVE  Equals(shift_left_words(x, amount),
                (Number(signed, x) % Power(2, n * WordBits - amount)) * Power(2, amount))
  <1>1. PICK s \in WordSeq(n) :
          s = shift_left_words(x, amount) /\ Near(n, s, Natural(x) * Power(2, amount))
    BY ShlNear
  <1>2. PICK bits \in Nat, rest \in Nat :
          bits = amount /\ rest = n * WordBits - amount /\ n * WordBits = rest + bits
    <2>1. PICK b \in Int : b = n * WordBits
      BY WordBitsFacts
    <2>2. amount \in 0 .. b - 1
      BY <2>1
    <2>3. amount \in Nat /\ b - amount \in Nat /\ b = (b - amount) + amount
      BY <2>2
    <2>4. QED
      BY <2>1, <2>3
  <1>3. PICK M \in Nat \ {0}, P \in Nat \ {0}, S \in Nat \ {0} :
          M = Power(2, rest) /\ P = Power(2, bits) /\ S = Size(n) /\ S = M * P
    <2>1. Power(2, rest) \in Nat \ {0}
      BY PowerPositive, 2 \in Nat \ {0}
    <2>2. Power(2, bits) \in Nat \ {0}
      BY PowerPositive, 2 \in Nat \ {0}
    <2>3. Power(2, rest + bits) = Power(2, rest) * Power(2, bits)
      BY PowerSum, 2 \in Int
    <2>4. Power(2, n * WordBits) = Size(n)
      BY PowerSize
    <2>5. Size(n) \in Nat \ {0}
      BY SizeStep
    <2>6. QED
      BY <1>2, <2>1, <2>2, <2>3, <2>4, <2>5
  <1>4. PICK a \in Int, N \in Int, q \in Int :
          a = Number(signed, x) /\ N = Natural(x) /\ a = N + q * S
    <2>1. Near(n, x, Number(signed, x))
      BY NearNumber
    <2>2. PICK q \in Int : Number(signed, x) = Natural(x) + q * Size(n)
      BY <2>1 DEF Near
    <2>3. Natural(x) \in Int
      BY NumberFacts
    <2>4. PICK N \in Int : N = Natural(x)
      BY <2>3
    <2>5. Number(signed, x) = N + q * S
      BY <1>3, <2>2, <2>4, Zenon
    <2>6. PICK a \in Int : a = N + q * S
      OBVIOUS
    <2>7. a = Number(signed, x)
      BY <2>5, <2>6, Zenon
    <2>8. QED
      BY <2>4, <2>6, <2>7
  <1>5. PICK O \in Int, k \in Int : O = Natural(s) /\ N * P = O + k * S
    <2>1. Natural(s) \in Int
      BY NumberFacts
    <2>2. PICK k \in Int : Natural(x) * Power(2, amount) = Natural(s) + k * Size(n)
      BY <1>1 DEF Near
    <2>3. QED
      BY <1>2, <1>3, <1>4, <2>1, <2>2
  <1>6. PICK v \in Int, t \in Int : t = a % M /\ t = a - M * v
    <2>1. a % M \in 0 .. M - 1 /\ a \div M \in Int /\ a % M = a - M * (a \div M)
      BY DivMod
    <2>2. PICK v \in Int : v = a \div M
      BY <2>1
    <2>3. PICK t \in Int : t = a % M
      BY <2>1
    <2>4. QED
      BY <2>1, <2>2, <2>3
  <1>7. t * P = O + (k + q * P - v) * S
    <2>1. t * P = (a - M * v) * P
      BY <1>6
    <2>2. (a - M * v) * P = a * P - v * (M * P)
      OBVIOUS
    <2>3. (N + q * S) * P = N * P + (q * P) * S
      OBVIOUS
    <2>4. (k + q * P - v) * S = k * S + (q * P) * S - v * S
      OBVIOUS
    <2>5. PICK f \in Int, g \in Int, h \in Int : f = k * S /\ g = (q * P) * S /\ h = v * S
      OBVIOUS
    <2>6. a * P = (O + f) + g
      BY <1>4, <1>5, <2>3, <2>5
    <2>7. v * (M * P) = h
      BY <1>3, <2>5
    <2>8. t * P = (O + f) + g - h
      BY <2>1, <2>2, <2>6, <2>7
    <2>9. QED
      BY <2>4, <2>5, <2>8
  <1>8. Near(n, s, t * P)
    <2>1. k + q * P - v \in Int /\ t * P \in Int
      OBVIOUS
    <2>2. QED
      BY <1>3, <1>5, <1>7, <2>1 DEF Near
  <1>9. Equals(s, t * P)
    BY <1>8, NearEquals
  <1>10. t * P = (Number(signed, x) % Power(2, n * WordBits - amount)) * Power(2, amount)
    BY <1>2, <1>3, <1>4, <1>6, Zenon
  <1>11. QED
    BY <1>1, <1>9, <1>10, Zenon

\* A shift right divides and rounds down, in both types.
LEMMA ShiftRightIs ==
  ASSUME NEW n \in Nat \ {0}, NEW x \in WordSeq(n), NEW amount \in 0 .. n * WordBits - 1,
         NEW signed \in BOOLEAN
  PROVE  Number(signed, shift_right_words(x, amount, signed))
           = Number(signed, x) \div Power(2, amount)
  <1>1. CASE signed = TRUE
    <2>1. SignedNumber(shift_right_words(x, amount, TRUE)) = SignedNumber(x) \div Power(2, amount)
      BY SignedShr
    <2>2. /\ Number(TRUE, x) = SignedNumber(x)
          /\ Number(TRUE, shift_right_words(x, amount, TRUE))
               = SignedNumber(shift_right_words(x, amount, TRUE))
      BY NumberIs
    <2>3. QED
      BY <1>1, <2>1, <2>2, Zenon
  <1>2. CASE signed = FALSE
    <2>1. Natural(shift_right_words(x, amount, FALSE)) = Natural(x) \div Power(2, amount)
      BY UnsignedShr
    <2>2. /\ Number(FALSE, x) = Natural(x)
          /\ Number(FALSE, shift_right_words(x, amount, FALSE))
               = Natural(shift_right_words(x, amount, FALSE))
      BY NumberIs
    <2>3. QED
      BY <1>2, <2>1, <2>2, Zenon
  <1>3. QED
    BY <1>1, <1>2, Zenon

\* A result that is exact, or a panic where no words stand for the number.
Outcome(signed, n, number, result) ==
  IF Fits(signed, n, number) THEN Len(result) = n /\ Number(signed, result) = number
  ELSE result = Panic

\* Outcome, by cases.
LEMMA OutcomeIs ==
  ASSUME NEW n \in Nat \ {0}, NEW a, NEW b, NEW result
  PROVE  /\ SignedOutcome(n, a, result) /\ a = b => Outcome(TRUE, n, b, result)
         /\ UnsignedOutcome(n, a, result) /\ a = b => Outcome(FALSE, n, b, result)
  <1>1. result \in WordSeq(n) => Len(result) = n
    BY DEF WordSeq
  <1>2. Number(TRUE, result) = SignedNumber(result) /\ Number(FALSE, result) = Natural(result)
    BY NumberIs
  <1>3. /\ Fits(TRUE, n, a) <=> SignedFits(n, a)
        /\ Fits(FALSE, n, a) <=> UnsignedFits(n, a)
    BY FitsIs
  <1>4. SignedOutcome(n, a, result) => Outcome(TRUE, n, a, result)
    BY <1>1, <1>2, <1>3, Zenon DEF SignedOutcome, Outcome
  <1>5. UnsignedOutcome(n, a, result) => Outcome(FALSE, n, a, result)
    BY <1>1, <1>2, <1>3, Zenon DEF UnsignedOutcome, Outcome
  <1>6. QED
    BY <1>4, <1>5, Zenon

\* AddChecked is the sum, or panics where that does not fit, in both types.
LEMMA AddCheckedIs ==
  ASSUME NEW n \in Nat \ {0}, NEW l \in WordSeq(n), NEW r \in WordSeq(n), NEW signed \in BOOLEAN
  PROVE  Outcome(signed, n, Number(signed, l) + Number(signed, r), AddChecked(signed, l, r))
  <1>1. n \in Nat \ {0}
    OBVIOUS
  <1>2. /\ Number(TRUE, l) = SignedNumber(l) /\ Number(FALSE, l) = Natural(l)
        /\ Number(TRUE, r) = SignedNumber(r) /\ Number(FALSE, r) = Natural(r)
    BY NumberIs
  <1>3. /\ AddChecked(TRUE, l, r) = SignedAddChecked(l, r)
        /\ AddChecked(FALSE, l, r) = UnsignedAddChecked(l, r)
    BY Zenon DEF AddChecked
  <1>4. SignedOutcome(n, SignedNumber(l) + SignedNumber(r), SignedAddChecked(l, r))
    BY SignedAddOutcome
  <1>5. UnsignedOutcome(n, Natural(l) + Natural(r), UnsignedAddChecked(l, r))
    BY UnsignedAddOutcome
  <1>6. /\ Outcome(TRUE, n, Number(TRUE, l) + Number(TRUE, r), SignedAddChecked(l, r))
        /\ Outcome(FALSE, n, Number(FALSE, l) + Number(FALSE, r), UnsignedAddChecked(l, r))
    BY <1>1, <1>2, <1>4, <1>5, OutcomeIs, Zenon
  <1>7. signed = TRUE \/ signed = FALSE
    OBVIOUS
  <1>8. QED
    BY <1>3, <1>6, <1>7, Zenon

\* SubChecked is the difference, or panics,
LEMMA SubCheckedIs ==
  ASSUME NEW n \in Nat \ {0}, NEW l \in WordSeq(n), NEW r \in WordSeq(n), NEW signed \in BOOLEAN
  PROVE  Outcome(signed, n, Number(signed, l) - Number(signed, r), SubChecked(signed, l, r))
  <1>1. n \in Nat \ {0}
    OBVIOUS
  <1>2. /\ Number(TRUE, l) = SignedNumber(l) /\ Number(FALSE, l) = Natural(l)
        /\ Number(TRUE, r) = SignedNumber(r) /\ Number(FALSE, r) = Natural(r)
    BY NumberIs
  <1>3. /\ SubChecked(TRUE, l, r) = SignedSubChecked(l, r)
        /\ SubChecked(FALSE, l, r) = UnsignedSubChecked(l, r)
    BY Zenon DEF SubChecked
  <1>4. SignedOutcome(n, SignedNumber(l) - SignedNumber(r), SignedSubChecked(l, r))
    BY SignedSubOutcome
  <1>5. UnsignedOutcome(n, Natural(l) - Natural(r), UnsignedSubChecked(l, r))
    BY UnsignedSubOutcome
  <1>6. /\ Outcome(TRUE, n, Number(TRUE, l) - Number(TRUE, r), SignedSubChecked(l, r))
        /\ Outcome(FALSE, n, Number(FALSE, l) - Number(FALSE, r), UnsignedSubChecked(l, r))
    BY <1>1, <1>2, <1>4, <1>5, OutcomeIs, Zenon
  <1>7. signed = TRUE \/ signed = FALSE
    OBVIOUS
  <1>8. QED
    BY <1>3, <1>6, <1>7, Zenon

\* and NegChecked the negative, or panics.
LEMMA NegCheckedIs ==
  ASSUME NEW n \in {2, 4}, NEW x \in WordSeq(n)
  PROVE  Outcome(TRUE, n, -Number(TRUE, x), NegChecked(x))
  <1>1. n \in Nat \ {0}
    OBVIOUS
  <1>2. Number(TRUE, x) = SignedNumber(x)
    BY NumberIs
  <1>3. SignedOutcome(n, -SignedNumber(x), NegChecked(x))
    BY NegOutcome
  <1>4. QED
    BY <1>1, <1>2, <1>3, OutcomeIs, Zenon

\* What a product is checked against.
Multiplied(signed, n, l, r) ==
  IF signed \/ Number(signed, r) = 0 \/ Number(signed, l) <= (Size(n) - 1) \div Number(signed, r)
  THEN Number(signed, l) * Number(signed, r) ELSE Size(n)

ProductOutcome(signed, n, l, r, result) ==
  IF signed /\ Number(signed, r) = -1 /\ ~Fits(TRUE, n, -Number(signed, l))
  THEN result = l ELSE Outcome(signed, n, Multiplied(signed, n, l, r), result)

\* A product fits if and only if one factor is at most the greatest number
\* divided by the other.
LEMMA ProductFits ==
  ASSUME NEW S \in Nat \ {0}, NEW a \in Nat, NEW b \in Nat \ {0}
  PROVE  a <= (S - 1) \div b <=> a * b < S
  <1>1. PICK q \in Int, t \in Int : q = (S - 1) \div b /\ S - 1 = t + b * q /\ 0 <= t /\ t < b
    <2>1. PICK D \in Int : D = S - 1
      OBVIOUS
    <2>2. D % b \in 0 .. b - 1 /\ D \div b \in Int /\ D % b = D - b * (D \div b)
      BY DivMod
    <2>3. PICK q \in Int : q = D \div b
      BY <2>2
    <2>4. PICK t \in Int : t = D % b
      BY <2>2
    <2>5. QED
      BY <2>1, <2>2, <2>3, <2>4
  <1>2. ASSUME a <= q PROVE a * b < S
    <2>1. PICK d \in Nat : q = a + d
      BY <1>2, q - a \in Nat
    <2>2. b * (a + d) = a * b + b * d /\ b * d \in Nat /\ a * b \in Nat
      OBVIOUS
    <2>3. PICK f \in Nat, g \in Nat : f = a * b /\ g = b * d
      BY <2>2
    <2>4. QED
      BY <1>1, <2>1, <2>2, <2>3
  <1>3. ASSUME ~(a <= q) PROVE ~(a * b < S)
    <2>1. PICK d \in Nat : a = q + 1 + d
      BY <1>3, a - q - 1 \in Nat
    <2>2. (q + 1 + d) * b = b * q + b + b * d /\ b * d \in Nat /\ b * q \in Int
      OBVIOUS
    <2>3. PICK f \in Int, g \in Nat : f = b * q /\ g = b * d
      BY <2>2
    <2>4. QED
      BY <1>1, <2>1, <2>2, <2>3
  <1>4. QED
    BY <1>1, <1>2, <1>3

\* MulChecked is the product, or panics, but for the least number times -1.
LEMMA MulCheckedIs ==
  ASSUME NEW n \in {2, 4}, NEW l \in WordSeq(n), NEW r \in WordSeq(n), NEW signed \in BOOLEAN
  PROVE  ProductOutcome(signed, n, l, r, MulChecked(signed, l, r))
  <1>1. n \in Nat \ {0}
    OBVIOUS
  <1>2. CASE signed = TRUE
    <2>1. IF SignedNumber(r) = -1 /\ ~SignedFits(n, -SignedNumber(l))
          THEN MulChecked(TRUE, l, r) = l
          ELSE SignedOutcome(n, SignedNumber(l) * SignedNumber(r), MulChecked(TRUE, l, r))
      BY SignedMulOutcome
    <2>2. Number(TRUE, l) = SignedNumber(l) /\ Number(TRUE, r) = SignedNumber(r)
      BY NumberIs
    <2>3. Fits(TRUE, n, -Number(TRUE, l)) <=> SignedFits(n, -Number(TRUE, l))
      BY FitsIs
    <2>4. Multiplied(TRUE, n, l, r) = Number(TRUE, l) * Number(TRUE, r)
      BY Zenon DEF Multiplied
    <2>5. CASE Number(TRUE, r) = -1 /\ ~Fits(TRUE, n, -Number(TRUE, l))
      <3>1. MulChecked(TRUE, l, r) = l
        BY <2>1, <2>2, <2>3, <2>5, Zenon
      <3>2. ProductOutcome(TRUE, n, l, r, MulChecked(TRUE, l, r))
        BY <2>5, <3>1, Zenon DEF ProductOutcome
      <3>3. QED
        BY <1>2, <3>2, Zenon
    <2>6. CASE ~(Number(TRUE, r) = -1 /\ ~Fits(TRUE, n, -Number(TRUE, l)))
      <3>1. SignedOutcome(n, SignedNumber(l) * SignedNumber(r), MulChecked(TRUE, l, r))
        BY <2>1, <2>2, <2>3, <2>6, Zenon
      <3>2. Outcome(TRUE, n, Multiplied(TRUE, n, l, r), MulChecked(TRUE, l, r))
        BY <1>1, <2>2, <2>4, <3>1, OutcomeIs, Zenon
      <3>3. ProductOutcome(TRUE, n, l, r, MulChecked(TRUE, l, r))
        BY <2>6, <3>2, Zenon DEF ProductOutcome
      <3>4. QED
        BY <1>2, <3>3, Zenon
    <2>7. QED
      BY <2>5, <2>6, Zenon
  <1>3. CASE signed = FALSE
    <2>1. UnsignedOutcome(n, Natural(l) * Natural(r), MulChecked(FALSE, l, r))
      BY UnsignedMulOutcome
    <2>2. Number(FALSE, l) = Natural(l) /\ Number(FALSE, r) = Natural(r)
      BY NumberIs
    <2>3. PICK a \in Nat, b \in Nat, S \in Nat \ {0} :
            a = Natural(l) /\ b = Natural(r) /\ S = Size(n)
      <3>1. Natural(l) \in 0 .. Size(n) - 1
        BY <1>1, NumberFacts
      <3>2. Natural(r) \in 0 .. Size(n) - 1
        BY <1>1, NumberFacts
      <3>3. Size(n) \in Nat \ {0}
        BY <1>1, SizeStep
      <3>4. QED
        BY <3>1, <3>2, <3>3
    <2>4. Multiplied(FALSE, n, l, r) = IF b = 0 \/ a <= (S - 1) \div b THEN a * b ELSE S
      BY <2>2, <2>3, Zenon DEF Multiplied
    <2>5. UnsignedOutcome(n, Multiplied(FALSE, n, l, r), MulChecked(FALSE, l, r))
      <3>1. CASE b = 0 \/ a <= (S - 1) \div b
        BY <2>1, <2>3, <2>4, <3>1, Zenon
      <3>2. CASE ~(b = 0 \/ a <= (S - 1) \div b)
        <4>1. b \in Nat \ {0} /\ ~(a <= (S - 1) \div b)
          BY <3>2
        <4>2. ~(a * b < S)
          BY <4>1, ProductFits
        <4>3. ~UnsignedFits(n, a * b) /\ ~UnsignedFits(n, S)
          BY <2>3, <4>2 DEF UnsignedFits
        <4>4. MulChecked(FALSE, l, r) = Panic
          BY <2>1, <2>3, <4>3, Zenon DEF UnsignedOutcome
        <4>5. Multiplied(FALSE, n, l, r) = S
          BY <2>4, <3>2, Zenon
        <4>6. QED
          BY <4>3, <4>4, <4>5, Zenon DEF UnsignedOutcome
      <3>3. QED
        BY <3>1, <3>2, Zenon
    <2>6. Outcome(FALSE, n, Multiplied(FALSE, n, l, r), MulChecked(FALSE, l, r))
      BY <1>1, <2>5, OutcomeIs, Zenon
    <2>7. ProductOutcome(FALSE, n, l, r, MulChecked(FALSE, l, r))
      BY <2>6, Zenon DEF ProductOutcome
    <2>8. QED
      BY <1>3, <2>7, Zenon
  <1>4. QED
    BY <1>2, <1>3, Zenon

\* One word.
LEMMA OneWordNumber ==
  ASSUME NEW x \in WordSeq(1)
  PROVE  x[1] \in Words /\ Number(TRUE, x) = AsSigned(x[1]) /\ Number(FALSE, x) = x[1]
  <1>1. x[1] \in Words /\ x[1] \in Int
    BY WordSeqFacts
  <1>2. SignedNumber(x) = AsSigned(x[1]) /\ Natural(x) = x[1]
    BY OneWordFacts
  <1>3. QED
    BY <1>1, <1>2, NumberIs, Zenon

\* The tests of numbers of one word tell what does not fit.
LEMMA OverflowsIs ==
  ASSUME NEW l \in WordSeq(1), NEW r \in WordSeq(1), NEW signed \in BOOLEAN
  PROVE  /\ Overflows("add_overflows", TRUE, l[1], r[1])
              <=> ~Fits(TRUE, 1, Number(TRUE, l) + Number(TRUE, r))
         /\ Overflows("sub_overflows", TRUE, l[1], r[1])
              <=> ~Fits(TRUE, 1, Number(TRUE, l) - Number(TRUE, r))
         /\ Overflows("mul_overflows", signed, l[1], r[1])
              <=> ~Fits(signed, 1, Number(signed, l) * Number(signed, r))
  <1>1. l[1] \in Words /\ Number(TRUE, l) = AsSigned(l[1]) /\ Number(FALSE, l) = l[1]
    BY OneWordNumber
  <1>2. r[1] \in Words /\ Number(TRUE, r) = AsSigned(r[1]) /\ Number(FALSE, r) = r[1]
    BY OneWordNumber
  <1>3. PICK a \in Words, b \in Words : a = l[1] /\ b = r[1]
    BY <1>1, <1>2
  <1>4. /\ gray_add_overflows_i64(AsSigned(a), AsSigned(b))
              <=> ~SignedFits(1, AsSigned(a) + AsSigned(b))
        /\ gray_sub_overflows_i64(AsSigned(a), AsSigned(b))
              <=> ~SignedFits(1, AsSigned(a) - AsSigned(b))
    BY AddOverflows
  <1>5. gray_mul_overflows_i64(AsSigned(a), AsSigned(b)) <=> ~SignedFits(1, AsSigned(a) * AsSigned(b))
    BY SignedMulOverflows
  <1>6. gray_mul_overflows_u64(a, b) <=> ~UnsignedFits(1, a * b)
    BY UnsignedMulOverflows
  <1>7. /\ Overflows("add_overflows", TRUE, a, b) = gray_add_overflows_i64(AsSigned(a), AsSigned(b))
        /\ Overflows("sub_overflows", TRUE, a, b) = gray_sub_overflows_i64(AsSigned(a), AsSigned(b))
        /\ Overflows("mul_overflows", TRUE, a, b) = gray_mul_overflows_i64(AsSigned(a), AsSigned(b))
        /\ Overflows("mul_overflows", FALSE, a, b) = gray_mul_overflows_u64(a, b)
    BY DEF Overflows
  <1>8. Overflows("add_overflows", TRUE, l[1], r[1])
          <=> ~Fits(TRUE, 1, Number(TRUE, l) + Number(TRUE, r))
    BY <1>1, <1>2, <1>3, <1>4, <1>7, FitsIs, Zenon
  <1>9. Overflows("sub_overflows", TRUE, l[1], r[1])
          <=> ~Fits(TRUE, 1, Number(TRUE, l) - Number(TRUE, r))
    BY <1>1, <1>2, <1>3, <1>4, <1>7, FitsIs, Zenon
  <1>10. Overflows("mul_overflows", TRUE, l[1], r[1])
           <=> ~Fits(TRUE, 1, Number(TRUE, l) * Number(TRUE, r))
    BY <1>1, <1>2, <1>3, <1>5, <1>7, FitsIs, Zenon
  <1>11. Overflows("mul_overflows", FALSE, l[1], r[1])
           <=> ~Fits(FALSE, 1, Number(FALSE, l) * Number(FALSE, r))
    BY <1>1, <1>2, <1>3, <1>6, <1>7, FitsIs, Zenon
  <1>12. signed = TRUE \/ signed = FALSE
    OBVIOUS
  <1>13. QED
    BY <1>8, <1>9, <1>10, <1>11, <1>12, Zenon

-----------------------------------------------------------------------------
(* Casts.                                                                  *)

\* A number from its words and its sign.
LEMMA NumberOfSign ==
  ASSUME NEW n \in Nat \ {0}, NEW x \in WordSeq(n), NEW signed \in BOOLEAN, NEW e \in {0, 1},
         e = SignOf(x, signed)
  PROVE  /\ Number(signed, x) = Natural(x) - e * Size(n)
         /\ e = 1 <=> signed /\ IsNeg(x)
         /\ Natural(x) \in 0 .. Size(n) - 1 /\ Size(n) \in Nat \ {0}
  <1>1. Natural(x) \in 0 .. Size(n) - 1 /\ Signed(n, x)
    BY NumberFacts
  <1>2. Size(n) \in Nat \ {0}
    BY SizeStep
  <1>3. Number(TRUE, x) = SignedNumber(x) /\ Number(FALSE, x) = Natural(x)
    BY NumberIs
  <1>4. signed = TRUE \/ signed = FALSE
    OBVIOUS
  <1>5. e = 1 <=> signed /\ IsNeg(x)
    BY DEF SignOf
  <1>6. CASE e = 1
    <2>1. 1 * Size(n) = Size(n)
      BY <1>2
    <2>2. SignedNumber(x) = Natural(x) - Size(n)
      BY <1>1, <1>5, <1>6 DEF Signed
    <2>3. signed = TRUE
      BY <1>4, <1>5, <1>6
    <2>4. Number(signed, x) = Natural(x) - e * Size(n)
      BY <1>3, <1>6, <2>1, <2>2, <2>3, Zenon
    <2>5. QED
      BY <1>1, <1>2, <1>5, <2>4
  <1>7. CASE e = 0
    <2>1. 0 * Size(n) = 0
      BY <1>2
    <2>2. Natural(x) - 0 = Natural(x)
      BY <1>1
    <2>3. Number(signed, x) = Natural(x)
      <3>1. CASE signed = TRUE
        <4>1. ~IsNeg(x)
          BY <1>5, <1>7, <3>1
        <4>2. SignedNumber(x) = Natural(x)
          BY <1>1, <4>1 DEF Signed
        <4>3. QED
          BY <1>3, <3>1, <4>2, Zenon
      <3>2. CASE signed = FALSE
        BY <1>3, <3>2, Zenon
      <3>3. QED
        BY <1>4, <3>1, <3>2
    <2>4. Number(signed, x) = Natural(x) - e * Size(n)
      BY <1>7, <2>1, <2>2, <2>3, Zenon
    <2>5. QED
      BY <1>1, <1>2, <1>5, <2>4
  <1>8. QED
    BY <1>6, <1>7

\* The words y are the words x, extended to m words with the sign e.
Widened(n, m, x, e, y) ==
  /\ y \in WordSeq(m)
  /\ \A i \in 1 .. m : y[i] = IF i <= n THEN x[i] ELSE IF e = 1 THEN Radix - 1 ELSE 0

\* Filling with the sign keeps the number.
LEMMA WidenedIs ==
  ASSUME NEW n \in Nat \ {0}, NEW m \in Nat \ {0}, n <= m, NEW x \in WordSeq(n), NEW e \in {0, 1},
         NEW y, Widened(n, m, x, e, y)
  PROVE  Natural(y) - e * Size(m) = Natural(x) - e * Size(n)
  <1>1. PICK k \in Nat : k = m - n /\ n + k = m
    BY m - n \in Nat
  <1>2. y \in WordSeq(m)
    BY DEF Widened
  <1>3. Ints(x, n) /\ Ints(y, n + k) /\ Ints(y, n)
    <2>1. Ints(x, n)
      BY WordSeqFacts
    <2>2. Ints(y, m)
      BY <1>2, WordSeqFacts
    <2>3. Ints(y, n)
      BY <1>1, <2>2 DEF Ints
    <2>4. QED
      BY <1>1, <2>1, <2>2, <2>3
  <1>4. Lower(y, n + k) = Lower(y, n) + Size(n) * Lower(Window(y, n, k), k)
    BY <1>3, LowerWindow
  <1>5. Lower(x, n) = Lower(y, n)
    <2>1. \A i \in 1 .. n : x[i] = y[i]
      BY <1>1 DEF Widened
    <2>2. QED
      BY <1>3, <2>1, LowerEqual
  <1>6. Lower(Window(y, n, k), k) = e * (Size(k) - 1)
    <2>1. \A i \in 1 .. k : Window(y, n, k)[i] = IF e = 1 THEN Radix - 1 ELSE 0
      <3>1. \A i \in 1 .. k : n + i \in 1 .. m /\ ~(n + i <= n)
        BY <1>1
      <3>2. \A i \in 1 .. k : y[n + i] = IF e = 1 THEN Radix - 1 ELSE 0
        BY <3>1 DEF Widened
      <3>3. QED
        BY <3>2 DEF Window
    <2>2. QED
      BY <2>1, LowerFill
  <1>7. Size(n + k) = Size(n) * Size(k)
    BY SizeSum
  <1>8. PICK N \in Int, s \in Int, z \in Int, O \in Int :
          N = Natural(x) /\ s = Size(n) /\ z = Size(k) /\ O = Natural(y)
    <2>1. Natural(x) \in Int
      BY NumberFacts
    <2>2. Natural(y) \in Int
      BY <1>2, NumberFacts
    <2>3. Size(n) \in Nat \ {0}
      BY SizeStep
    <2>4. Size(k) \in Nat \ {0}
      BY SizeStep
    <2>5. QED
      BY <2>1, <2>2, <2>3, <2>4
  <1>9. O = N + s * (e * (z - 1))
    <2>1. Natural(x) = Lower(x, n)
      BY NumberFacts
    <2>2. Natural(y) = Lower(y, m)
      BY <1>2, NumberFacts
    <2>3. QED
      BY <1>1, <1>4, <1>5, <1>6, <1>8, <2>1, <2>2
  <1>10. s * (e * (z - 1)) = e * (s * z) - e * s
    OBVIOUS
  <1>11. Size(m) = s * z
    BY <1>1, <1>7, <1>8
  <1>12. PICK f \in Int, g \in Int : f = e * (s * z) /\ g = e * s
    OBVIOUS
  <1>13. O - f = N - g
    BY <1>9, <1>10, <1>12
  <1>14. QED
    BY <1>8, <1>11, <1>12, <1>13

\* The bits from first on are all the sign.
AllBits(n, y, first, e) == \A bit \in first .. n * WordBits - 1 : BitOf(y, bit) = e

\* All bits from first on are equal to e just when what is above them is all zeros or all ones.
LEMMA UpperOfBits ==
  ASSUME NEW n \in Nat \ {0}, NEW y \in WordSeq(n), NEW e \in {0, 1}, NEW T \in Nat,
         T = n * WordBits, NEW first \in 0 .. T
  PROVE  AllBits(n, y, first, e) <=> Upper(y, first) = e * (Power(2, T - first) - 1)
  <1> DEFINE m == T - first
  <1>1. m \in Nat /\ first \in Nat /\ first + m = T /\ T - m = first
    OBVIOUS
  <1>2. ASSUME NEW b \in 0 .. T - 1
        PROVE  /\ BitOf(y, b) \in {0, 1}
               /\ Upper(y, b + 1) \in Int /\ Upper(y, b) \in Int
               /\ Upper(y, b) = 2 * Upper(y, b + 1) + BitOf(y, b)
    <2>1. b \in 0 .. n * WordBits - 1 /\ b \in Nat
      OBVIOUS
    <2>2. /\ BitOf(y, b) \in {0, 1}
          /\ Upper(y, b + 1) \in Int
          /\ Upper(y, b) = 2 * Upper(y, b + 1) + BitOf(y, b)
      BY <2>1, BitOfIs
    <2>3. QED
      BY <2>2
  <1>3. Upper(y, T) = 0
    BY UpperEnds
  <1>4. ASSUME NEW j \in Nat
        PROVE  Power(2, j) \in Int /\ Power(2, j + 1) = 2 * Power(2, j)
    BY PowerStep, 2 \in Int
  <1>5. Power(2, 0) = 1
    BY PowerStep, 2 \in Int, 0 \in Nat
  <1>6. ASSUME AllBits(n, y, first, e) PROVE Upper(y, first) = e * (Power(2, m) - 1)
    <2> DEFINE S == {j \in 0 .. m : Upper(y, T - j) = e * (Power(2, j) - 1)}
    <2>1. 0 \in S
      <3>1. T - 0 = T /\ 0 \in 0 .. m /\ e * (1 - 1) = 0
        BY <1>1
      <3>2. QED
        BY <1>3, <1>5, <3>1
    <2>2. ASSUME NEW i \in 1 .. m, i - 1 \in S PROVE i \in S
      <3>1. PICK j \in Nat : j = i - 1 /\ j + 1 = i
        BY <1>1
      <3>2. T - i \in 0 .. T - 1 /\ (T - i) + 1 = T - j /\ T - i \in first .. T - 1
        <4>1. i \in Int /\ 1 <= i /\ i <= m
          BY <1>1
        <4>2. T \in Int /\ first \in Int /\ 0 <= first /\ first + m = T /\ m \in Int
          BY <1>1
        <4> HIDE DEF m
        <4>3. T - i \in Int /\ 0 <= T - i /\ T - i <= T - 1 /\ first <= T - i
          BY <4>1, <4>2
        <4>4. (T - i) + 1 = T - j
          BY <3>1, <4>2
        <4>5. QED
          BY <4>3, <4>4
      <3>3. Upper(y, T - i) = 2 * Upper(y, T - j) + BitOf(y, T - i)
        BY <1>2, <3>2
      <3>4. BitOf(y, T - i) = e
        BY <1>6, <3>2 DEF AllBits
      <3>5. Upper(y, T - j) = e * (Power(2, j) - 1)
        BY <2>2, <3>1
      <3>6. PICK p \in Int : p = Power(2, j) /\ Power(2, i) = 2 * p
        BY <1>4, <3>1
      <3>7. 2 * (e * (p - 1)) + e = e * (2 * p - 1)
        OBVIOUS
      <3>8. QED
        BY <3>3, <3>4, <3>5, <3>6, <3>7
    <2> HIDE DEF S, m
    <2>3. \A i \in 0 .. m : i \in S
      BY <1>1, <2>1, <2>2, UpTo
    <2>4. m \in S
      BY <1>1, <2>3
    <2>5. QED
      BY <1>1, <2>4 DEF S
  <1>7. ASSUME Upper(y, first) = e * (Power(2, m) - 1) PROVE AllBits(n, y, first, e)
    <2> DEFINE S == {j \in 0 .. m : Upper(y, first + j) = e * (Power(2, m - j) - 1)}
    <2>1. ASSUME NEW i \in 1 .. m, i - 1 \in S
          PROVE  i \in S /\ BitOf(y, first + (i - 1)) = e
      <3>1. PICK j \in Nat, k \in Nat : j = i - 1 /\ k = m - i /\ m - j = k + 1
        <4>1. i \in Int /\ 1 <= i /\ i <= m /\ m \in Int
          BY <1>1
        <4> HIDE DEF m
        <4>2. i - 1 \in Nat /\ m - i \in Nat /\ m - (i - 1) = (m - i) + 1
          BY <4>1
        <4>3. QED
          BY <4>2
      <3>2. first + j \in 0 .. T - 1 /\ (first + j) + 1 = first + i
        BY <1>1, <3>1
      <3>3. PICK u \in Int, bit \in {0, 1} :
              /\ u = Upper(y, first + i) /\ bit = BitOf(y, first + j)
              /\ Upper(y, first + j) = 2 * u + bit
        BY <1>2, <3>2
      <3>4. PICK p \in Int : p = Power(2, k) /\ Power(2, k + 1) = 2 * p
        BY <1>4
      <3>5. Upper(y, first + j) = e * (Power(2, m - j) - 1)
        BY <2>1, <3>1
      <3>6. 2 * u + bit = e * (2 * p - 1)
        BY <3>1, <3>3, <3>4, <3>5
      <3>7. u = e * (p - 1) /\ bit = e
        BY <3>6
      <3>8. QED
        BY <3>1, <3>3, <3>4, <3>7
    <2>2. 0 \in S
      <3>1. first + 0 = first /\ m - 0 = m /\ 0 \in 0 .. m
        BY <1>1
      <3>2. QED
        BY <1>7, <3>1
    <2> HIDE DEF S, m
    <2>3. \A i \in 0 .. m : i \in S
      BY <1>1, <2>1, <2>2, UpTo
    <2>4. ASSUME NEW bit \in first .. n * WordBits - 1 PROVE BitOf(y, bit) = e
      <3>1. PICK i \in 1 .. m : first + (i - 1) = bit /\ i - 1 \in 0 .. m
        <4>1. bit - first + 1 \in 1 .. m /\ first + ((bit - first + 1) - 1) = bit
              /\ (bit - first + 1) - 1 \in 0 .. m
          BY <1>1
        <4>2. QED
          BY <4>1
      <3>2. i - 1 \in S
        BY <2>3, <3>1
      <3>3. QED
        BY <2>1, <3>1, <3>2
    <2>5. QED
      BY <2>4 DEF AllBits
  <1>8. QED
    BY <1>6, <1>7

\* The quotient by P is all the sign where a is between P and its negation.
Decides(N, P, V, e, a) == N \div P = e * (V - 1) <=> 0 - P <= a /\ a < P

\* The bits from a power of two on are the sign where the number is between that
\* power and its negation.
LEMMA BitsBound ==
  ASSUME NEW P \in Nat \ {0}, NEW V \in Nat \ {0}, NEW S \in Int, S = P * V,
         NEW N \in 0 .. S - 1, NEW e \in {0, 1}, NEW a \in Int, a = N - e * S
  PROVE  Decides(N, P, V, e, a)
  <1>1. PICK u \in Int, t \in 0 .. P - 1 : u = N \div P /\ N = t + P * u
    <2>1. N % P \in 0 .. P - 1 /\ N \div P \in Int /\ N % P = N - P * (N \div P)
      <3>1. N \in Int
        OBVIOUS
      <3>2. QED
        BY <3>1, DivMod
    <2>2. PICK u \in Int : u = N \div P
      BY <2>1
    <2>3. PICK t \in 0 .. P - 1 : t = N % P /\ t = N - P * u
      BY <2>1, <2>2
    <2>4. PICK g \in Int : g = P * u
      OBVIOUS
    <2>5. N = t + g
      BY <2>3, <2>4
    <2>6. QED
      BY <2>2, <2>4, <2>5
  <1>2. CASE e = 0
    <2>1. a = N
      BY <1>2
    <2>2. u = 0 => N < P
      BY <1>1
    <2>3. N < P => u = 0
      <3>1. ASSUME N < P PROVE u = 0
        <4>1. PICK g \in Int : g = P * u /\ g = u * P
          OBVIOUS
        <4>2. g < P /\ g > 0 - P
          BY <1>1, <3>1, <4>1
        <4>3. QED
          BY <4>1, <4>2, NoMultiple
      <3>2. QED
        BY <3>1
    <2>4. e * (V - 1) = 0
      BY <1>2
    <2>5. QED
      BY <1>1, <2>1, <2>2, <2>3, <2>4 DEF Decides
  <1>3. CASE e = 1
    <2>1. a = N - S /\ a < P
      BY <1>3
    <2>2. P * (V - 1) = S - P
      OBVIOUS
    <2>3. u = V - 1 => 0 - P <= a
      BY <1>1, <2>1, <2>2
    <2>4. ASSUME 0 - P <= a PROVE u = V - 1
      <3>1. PICK k \in Int : k = u - (V - 1) /\ u = k + (V - 1)
        OBVIOUS
      <3>2. P * u = P * k + P * (V - 1)
        BY <3>1
      <3>3. PICK g \in Int : g = P * k /\ g = k * P
        OBVIOUS
      <3>4. N = t + g + S - P
        BY <1>1, <2>2, <3>2, <3>3
      <3>5. g < P /\ g > 0 - P
        BY <2>1, <2>4, <3>4
      <3>6. k = 0
        BY <3>3, <3>5, NoMultiple
      <3>7. QED
        BY <3>1, <3>6
    <2>5. e * (V - 1) = V - 1
      BY <1>3
    <2>6. QED
      BY <1>1, <2>1, <2>3, <2>4, <2>5 DEF Decides
  <1>4. QED
    BY <1>2, <1>3 DEF Decides

\* The number a: the words x and their sign e.
SignedBy(n, x, e, a) ==
  /\ a \in Int /\ a = Natural(x) - e * Size(n)
  /\ Natural(x) \in 0 .. Size(n) - 1 /\ Size(n) \in Nat \ {0}

Within(P, a) == 0 - P <= a /\ a < P

\* A number of four words and its bits.
LEMMA BitsFit ==
  ASSUME NEW y \in WordSeq(4), NEW e \in {0, 1}, NEW a, SignedBy(4, y, e, a),
         NEW first \in 0 .. 4 * WordBits, NEW P \in Nat \ {0}, P = Power(2, first)
  PROVE  AllBits(4, y, first, e) <=> Within(P, a)
  <1>1. PICK T \in Nat, rest \in Nat : T = 4 * WordBits /\ rest = T - first /\ first + rest = T
    <2>1. PICK T \in Nat : T = 4 * WordBits
      BY WordBitsFacts
    <2>2. T - first \in Nat /\ first + (T - first) = T
      BY <2>1
    <2>3. QED
      BY <2>1, <2>2
  <1>2. first \in Nat
    BY <1>1
  <1>3. PICK V \in Nat \ {0} : V = Power(2, rest)
    <2>1. Power(2, rest) \in Nat \ {0}
      BY PowerPositive, 2 \in Nat \ {0}
    <2>2. QED
      BY <2>1
  <1>4. Size(4) = P * V
    <2>1. Power(2, first + rest) = Power(2, first) * Power(2, rest)
      BY <1>2, PowerSum, 2 \in Int
    <2>2. Power(2, 4 * WordBits) = Size(4)
      BY PowerSize, 4 \in Nat
    <2>3. QED
      BY <1>1, <1>3, <2>1, <2>2
  <1>5. AllBits(4, y, first, e) <=> Upper(y, first) = e * (Power(2, T - first) - 1)
    <2>1. 4 \in Nat \ {0} /\ first \in 0 .. T
      BY <1>1
    <2>2. QED
      BY <1>1, <2>1, UpperOfBits
  <1>6. PICK S \in Int, N \in Int : S = Size(4) /\ N = Natural(y)
    BY DEF SignedBy
  <1>7. a \in Int /\ a = N - e * S /\ N \in 0 .. S - 1
    BY <1>6 DEF SignedBy
  <1>8. Decides(N, P, V, e, a)
    <2>1. S = P * V
      BY <1>4, <1>6
    <2>2. QED
      BY <1>7, <2>1, BitsBound
  <1>9. Upper(y, first) = N \div P
    BY <1>6 DEF Upper
  <1>10. QED
    BY <1>1, <1>3, <1>5, <1>8, <1>9 DEF Decides, Within

\* The lowest words of a number of four.
LEMMA LowWords ==
  ASSUME NEW y \in WordSeq(4), NEW words \in {2, 4}, NEW e \in {0, 1}, NEW a, SignedBy(4, y, e, a)
  PROVE  /\ SubSeq(y, 1, words) \in WordSeq(words)
         /\ Near(words, SubSeq(y, 1, words), a)
  <1> DEFINE r == SubSeq(y, 1, words)
  <1>1. PICK k \in Nat : words + k = 4
    <2>1. 4 - words \in Nat /\ words + (4 - words) = 4
      OBVIOUS
    <2>2. QED
      BY <2>1
  <1>2. words \in Nat \ {0} /\ words \in 1 .. 4
    OBVIOUS
  <1>3. y \in Seq(Words) /\ Len(y) = 4
    BY DEF WordSeq
  <1>4. r \in Seq(Words) /\ Len(r) = words /\ \A i \in 1 .. words : r[i] = y[i]
    <2>1. \A i \in 1 .. words : y[i] \in Words
      <3>1. \A i \in 1 .. 4 : y[i] \in Words
        BY WordSeqFacts, 4 \in Nat
      <3>2. \A i \in 1 .. words : i \in 1 .. 4
        OBVIOUS
      <3>3. QED
        BY <3>1, <3>2
    <2>2. /\ r \in Seq(Words)
          /\ Len(r) = IF 1 <= words THEN words - 1 + 1 ELSE 0
          /\ \A i \in 1 .. words - 1 + 1 : r[i] = y[1 + i - 1]
      <3>1. 1 \in Int /\ words \in Int
        OBVIOUS
      <3>2. QED
        BY <2>1, <3>1, SubSeqProperties
    <2> HIDE DEF r
    <2>3. QED
      BY <1>2, <2>2
  <1>5. r \in WordSeq(words)
    BY <1>4 DEF WordSeq
  <1> HIDE DEF r
  <1>6. Ints(y, words + k) /\ Ints(r, words)
    <2>1. Ints(y, 4)
      BY WordSeqFacts, 4 \in Nat
    <2>2. Ints(r, words)
      BY <1>2, <1>5, WordSeqFacts
    <2>3. QED
      BY <1>1, <2>1, <2>2
  <1>7. Lower(r, words) = Lower(y, words)
    BY <1>2, <1>4, <1>6, LowerEqual
  <1>8. Lower(y, words + k) = Lower(y, words) + Size(words) * Lower(Window(y, words, k), k)
    BY <1>2, <1>6, LowerWindow
  <1>9. Lower(Window(y, words, k), k) \in Int
    <2>1. Ints(Window(y, words, k), k)
      BY <1>2, <1>6 DEF Ints, Window
    <2>2. QED
      BY <2>1, LowerIsInt
  <1>10. Size(words + k) = Size(words) * Size(k)
    BY <1>2, SizeSum
  <1>11. Natural(r) = Lower(r, words) /\ Natural(r) \in Int
    BY <1>2, <1>5, NumberFacts
  <1>12. Natural(y) = Lower(y, 4)
    BY NumberFacts, 4 \in Nat \ {0}
  <1>13. Size(words) \in Nat /\ Size(k) \in Nat
    BY <1>2, SizeStep
  <1>14. PICK s \in Int, z \in Int, u \in Int, O \in Int :
           s = Size(words) /\ z = Size(k) /\ u = Lower(Window(y, words, k), k) /\ O = Natural(r)
    BY <1>9, <1>11, <1>13
  <1>15. a = (O + s * u) - e * (s * z) /\ a \in Int
    BY <1>1, <1>7, <1>8, <1>10, <1>11, <1>12, <1>14 DEF SignedBy
  <1>16. PICK q \in Int : q = u - e * z
    OBVIOUS
  <1>17. q * s = s * u - e * (s * z)
    BY <1>16
  <1>18. a = O + q * s
    BY <1>15, <1>17
  <1>19. Near(words, r, a)
    BY <1>14, <1>15, <1>18 DEF Near
  <1>20. QED
    BY <1>5, <1>19 DEF r

\* The lowest bit a cast checks.
LEMMA FirstCheckedIs ==
  ASSUME NEW words \in {2, 4}
  PROVE  /\ FirstChecked(words, TRUE) \in 0 .. 4 * WordBits
         /\ FirstChecked(words, FALSE) \in 0 .. 4 * WordBits
         /\ Power(2, FirstChecked(words, FALSE)) = Size(words)
         /\ 2 * Power(2, FirstChecked(words, TRUE)) = Size(words)
         /\ Power(2, FirstChecked(words, TRUE)) \in Nat \ {0}
  <1>1. PICK b \in Nat : b = words * WordBits - 1 /\ b + 1 = words * WordBits /\ b + 1 <= 4 * WordBits
    <2>1. PICK w \in Nat : w = WordBits /\ w >= 1
      BY WordBitsFacts
    <2>2. words * w - 1 \in Nat /\ (words * w - 1) + 1 = words * w /\ words * w <= 4 * w
      BY <2>1
    <2>3. QED
      BY <2>1, <2>2
  <1>2. FirstChecked(words, TRUE) = b
    BY <1>1 DEF FirstChecked
  <1>3. FirstChecked(words, FALSE) = b + 1
    BY <1>1 DEF FirstChecked
  <1>4. Power(2, words * WordBits) = Size(words)
    BY PowerSize, words \in Nat
  <1>5. Power(2, b + 1) = 2 * Power(2, b)
    BY PowerStep, 2 \in Int
  <1>6. Power(2, b) \in Nat \ {0}
    BY PowerPositive, 2 \in Nat \ {0}
  <1>7. b \in 0 .. 4 * WordBits /\ b + 1 \in 0 .. 4 * WordBits
    <2>1. PICK m \in Int : m = 4 * WordBits
      BY WordBitsFacts
    <2>2. QED
      BY <1>1, <2>1
  <1>8. QED
    BY <1>1, <1>2, <1>3, <1>4, <1>5, <1>6, <1>7

\* A cast, from the sign of its source.
CastOf(x, source_signed, y, e, words, signed) ==
  IF (e = 0 \/ signed) /\ AllBits(4, y, FirstChecked(words, signed), e)
  THEN SubSeq(y, 1, words) ELSE Panic

IsCast(n, x, source_signed, e, y, words, signed) ==
  /\ Widened(n, 4, x, e, y)
  /\ gray_wide_cast_words(x, source_signed, words, signed)
       = CastOf(x, source_signed, y, e, words, signed)

\* gray_wide_cast_words extends its operand and looks at the bits above.
LEMMA CastIs ==
  ASSUME NEW n \in {2, 4}, NEW x \in WordSeq(n), NEW source_signed \in BOOLEAN,
         NEW e \in {0, 1}, e = SignOf(x, source_signed), NEW words, NEW signed
  PROVE  \E y : IsCast(n, x, source_signed, e, y, words, signed)
  <1> DEFINE negative == source_signed /\ IsNeg(x)
             out == [i \in 1 .. 4 |-> IF i <= Len(x) THEN x[i]
                                      ELSE IF negative THEN Radix - 1 ELSE 0]
  <1>1. Len(x) = n /\ n \in Nat /\ n <= 4
    BY DEF WordSeq
  <1>2. negative <=> e = 1
    BY DEF SignOf
  <1>3. (IF negative THEN 1 ELSE 0) = e
    BY <1>2
  <1>4. ~negative <=> e = 0
    BY <1>2
  <1>5. Widened(n, 4, x, e, out)
    <2>1. \A i \in 1 .. 4 : out[i] = IF i <= n THEN x[i] ELSE IF e = 1 THEN Radix - 1 ELSE 0
      BY <1>1, <1>2
    <2>2. \A i \in 1 .. n : x[i] \in Words
      BY <1>1, WordSeqFacts
    <2>3. Radix - 1 \in Words /\ 0 \in Words
      BY RadixFacts DEF Words
    <2>4. AreWords(out, 4)
      <3>1. ASSUME NEW i \in 1 .. 4 PROVE out[i] \in Words
        <4>1. CASE i <= n
          <5>1. i \in 1 .. n
            BY <1>1, <4>1
          <5>2. QED
            BY <2>1, <2>2, <4>1, <5>1
        <4>2. CASE ~(i <= n)
          BY <2>1, <2>3, <4>2
        <4>3. QED
          BY <4>1, <4>2
      <3>2. QED
        BY <3>1 DEF AreWords
    <2>5. out = [i \in 1 .. 4 |-> out[i]]
      OBVIOUS
    <2> HIDE DEF out
    <2>6. out \in WordSeq(4)
      BY <2>4, <2>5, IsWordSeq, 4 \in Nat
    <2>7. QED
      BY <2>1, <2>6 DEF Widened
  <1>6. gray_wide_cast_words(x, source_signed, words, signed)
          = IF /\ ~negative \/ signed
               /\ \A bit \in FirstChecked(words, signed) .. 4 * WordBits - 1 :
                    BitOf(out, bit) = IF negative THEN 1 ELSE 0
            THEN SubSeq(out, 1, words) ELSE Panic
    BY DEF gray_wide_cast_words
  <1>7. gray_wide_cast_words(x, source_signed, words, signed)
          = CastOf(x, source_signed, out, e, words, signed)
    <2> HIDE DEF out, negative
    <2>1. QED
      BY <1>3, <1>4, <1>6, Zenon DEF CastOf, AllBits
  <1>8. IsCast(n, x, source_signed, e, out, words, signed)
    BY <1>5, <1>7 DEF IsCast
  <1>9. QED
    BY <1>8

\* A cast to two words or four keeps the number, or panics where it does not fit.
LEMMA CastOutcome ==
  ASSUME NEW n \in {2, 4}, NEW x \in WordSeq(n), NEW source_signed \in BOOLEAN,
         NEW e \in {0, 1}, e = SignOf(x, source_signed), NEW a, SignedBy(n, x, e, a),
         NEW words \in {2, 4}
  PROVE  /\ SignedOutcome(words, a, gray_wide_cast_words(x, source_signed, words, TRUE))
         /\ UnsignedOutcome(words, a, gray_wide_cast_words(x, source_signed, words, FALSE))
  <1>1. n \in Nat \ {0} /\ words \in Nat \ {0} /\ n <= 4 /\ 4 \in Nat \ {0}
    OBVIOUS
  <1>2. ASSUME NEW y, Widened(n, 4, x, e, y)
        PROVE  y \in WordSeq(4) /\ SignedBy(4, y, e, a) /\ a \in Int
    <2>1. y \in WordSeq(4)
      BY <1>2 DEF Widened
    <2>2. Natural(y) - e * Size(4) = Natural(x) - e * Size(n)
      BY <1>1, <1>2, WidenedIs
    <2>3. Natural(y) \in 0 .. Size(4) - 1
      BY <1>1, <2>1, NumberFacts
    <2>4. Size(4) \in Nat \ {0}
      BY <1>1, SizeStep
    <2>5. QED
      BY <2>1, <2>2, <2>3, <2>4 DEF SignedBy
  <1>3. ASSUME NEW y, Widened(n, 4, x, e, y)
        PROVE  /\ SubSeq(y, 1, words) \in WordSeq(words)
               /\ \E q \in Int : a = Natural(SubSeq(y, 1, words)) + q * Size(words)
    <2>1. y \in WordSeq(4) /\ SignedBy(4, y, e, a)
      BY <1>2, <1>3
    <2>2. SubSeq(y, 1, words) \in WordSeq(words) /\ Near(words, SubSeq(y, 1, words), a)
      BY <2>1, LowWords
    <2>3. QED
      BY <2>2 DEF Near
  <1>4. SignedOutcome(words, a, gray_wide_cast_words(x, source_signed, words, TRUE))
    <2>1. PICK y : /\ Widened(n, 4, x, e, y)
                   /\ gray_wide_cast_words(x, source_signed, words, TRUE)
                        = CastOf(x, source_signed, y, e, words, TRUE)
      <3>1. \E y : IsCast(n, x, source_signed, e, y, words, TRUE)
        BY CastIs
      <3>2. QED
        BY <3>1 DEF IsCast
    <2>2. y \in WordSeq(4) /\ SignedBy(4, y, e, a) /\ a \in Int
      BY <1>2, <2>1
    <2>3. PICK first \in 0 .. 4 * WordBits, P \in Nat \ {0} :
            first = FirstChecked(words, TRUE) /\ P = Power(2, first) /\ 2 * P = Size(words)
      BY FirstCheckedIs
    <2>4. AllBits(4, y, first, e) <=> 0 - P <= a /\ a < P
      <3>1. AllBits(4, y, first, e) <=> Within(P, a)
        BY <2>2, <2>3, BitsFit
      <3>2. QED
        BY <3>1 DEF Within
    <2>5. SignedFits(words, a) <=> 0 - P <= a /\ a < P
      <3>1. PICK h \in Nat \ {0} : Size(words) = 2 * h /\ Size(words) \div 2 = h
        BY <1>1, HalfSize
      <3>2. P = h
        <4>1. 2 * P = 2 * h
          BY <2>3, <3>1
        <4>2. QED
          BY <4>1
      <3>3. words \in Nat
        BY <1>1
      <3>4. SignedFits(words, a) <=> 0 - h <= a /\ a < h
        BY <2>2, <3>1, <3>3, SignedFitsHalf
      <3>5. QED
        BY <3>2, <3>4
    <2>6. CastOf(x, source_signed, y, e, words, TRUE)
            = IF SignedFits(words, a) THEN SubSeq(y, 1, words) ELSE Panic
      BY <2>3, <2>4, <2>5 DEF CastOf
    <2>7. PICK r \in WordSeq(words), q \in Int :
            r = SubSeq(y, 1, words) /\ a = Natural(r) + q * Size(words)
      BY <1>3, <2>1
    <2>8. SignedFits(words, a) => SignedNumber(r) = a
      BY <1>1, <2>2, <2>7, SignedUnique
    <2>9. QED
      BY <2>1, <2>6, <2>7, <2>8, Zenon DEF SignedOutcome
  <1>5. UnsignedOutcome(words, a, gray_wide_cast_words(x, source_signed, words, FALSE))
    <2>1. PICK y : /\ Widened(n, 4, x, e, y)
                   /\ gray_wide_cast_words(x, source_signed, words, FALSE)
                        = CastOf(x, source_signed, y, e, words, FALSE)
      <3>1. \E y : IsCast(n, x, source_signed, e, y, words, FALSE)
        BY CastIs
      <3>2. QED
        BY <3>1 DEF IsCast
    <2>2. y \in WordSeq(4) /\ SignedBy(4, y, e, a) /\ a \in Int
      BY <1>2, <2>1
    <2>3. PICK first \in 0 .. 4 * WordBits, P \in Nat \ {0} :
            first = FirstChecked(words, FALSE) /\ P = Power(2, first) /\ P = Size(words)
      <3>1. Size(words) \in Nat \ {0}
        BY <1>1, SizeStep
      <3>2. QED
        BY <3>1, FirstCheckedIs
    <2>4. AllBits(4, y, first, e) <=> 0 - P <= a /\ a < P
      <3>1. AllBits(4, y, first, e) <=> Within(P, a)
        BY <2>2, <2>3, BitsFit
      <3>2. QED
        BY <3>1 DEF Within
    <2>5. e = 0 <=> 0 <= a
      <3>1. PICK S \in Int, N \in Int : S = Size(4) /\ N = Natural(y) /\ a = N - e * S /\ N \in 0 .. S - 1
        BY <2>2 DEF SignedBy
      <3>2. e = 0 => a = N
        BY <3>1
      <3>3. e = 1 => a = N - S
        BY <3>1
      <3>4. QED
        BY <3>1, <3>2, <3>3
    <2>6. UnsignedFits(words, a) <=> e = 0 /\ AllBits(4, y, first, e)
      <3>1. UnsignedFits(words, a) <=> 0 <= a /\ a < P
        BY <2>3 DEF UnsignedFits
      <3>2. 0 <= a => 0 - P <= a
        BY <2>2
      <3>3. QED
        BY <2>4, <2>5, <3>1, <3>2, Zenon
    <2>7. CastOf(x, source_signed, y, e, words, FALSE)
            = IF UnsignedFits(words, a) THEN SubSeq(y, 1, words) ELSE Panic
      BY <2>3, <2>6 DEF CastOf
    <2>8. PICK r \in WordSeq(words), q \in Int :
            r = SubSeq(y, 1, words) /\ a = Natural(r) + q * Size(words)
      BY <1>3, <2>1
    <2>9. UnsignedFits(words, a) => Natural(r) = a
      BY <1>1, <2>2, <2>8, UnsignedUnique
    <2>10. QED
      BY <2>1, <2>7, <2>8, <2>9, Zenon DEF UnsignedOutcome
  <1>6. QED
    BY <1>4, <1>5

\* A number is its lowest word and what its upper words stand for.
LEMMA LowestWord ==
  ASSUME NEW k \in Nat \ {0}, NEW x \in WordSeq(k + 1)
  PROVE  /\ x[1] \in Words /\ x[1] \in Int
         /\ Window(x, 1, k) \in WordSeq(k)
         /\ Natural(x) = x[1] + Radix * Natural(Window(x, 1, k))
         /\ Size(k + 1) = Radix * Size(k)
         /\ Size(k) \in Nat /\ Size(k) >= 2
  <1>1. k + 1 \in Nat \ {0} /\ 1 \in 1 .. k + 1 /\ k + 1 = 1 + k
    OBVIOUS
  <1>2. \A i \in 1 .. k + 1 : x[i] \in Words /\ x[i] \in Int
    BY <1>1, WordSeqFacts
  <1>3. x[1] \in Words /\ x[1] \in Int
    BY <1>1, <1>2
  <1>4. Window(x, 1, k) \in WordSeq(k)
    <2>1. \A j \in 1 .. k : 1 + j \in 1 .. k + 1
      OBVIOUS
    <2>2. \A j \in 1 .. k : Window(x, 1, k)[j] \in Words
      BY <1>2, <2>1 DEF Window
    <2>3. AreWords(Window(x, 1, k), k)
      BY <2>2 DEF AreWords
    <2>4. Window(x, 1, k) = [j \in 1 .. k |-> Window(x, 1, k)[j]]
      BY DEF Window
    <2>5. QED
      BY <2>3, <2>4, IsWordSeq
  <1>5. Natural(x) = Lower(x, k + 1)
    BY <1>1, NumberFacts
  <1>6. Natural(Window(x, 1, k)) = Lower(Window(x, 1, k), k)
    BY <1>4, NumberFacts
  <1>7. Lower(x, 1 + k) = Lower(x, 1) + Size(1) * Lower(Window(x, 1, k), k)
    <2>1. Ints(x, 1 + k)
      BY <1>1, <1>2 DEF Ints
    <2>2. QED
      BY <2>1, LowerWindow, 1 \in Nat
  <1>8. Size(1) = Radix /\ Size(0) = 1
    <2>1. Size(0 + 1) = Radix * Size(0) /\ Size(0) = 1
      BY SizeStep, 0 \in Nat
    <2>2. Radix * 1 = Radix
      BY RadixFacts
    <2>3. QED
      BY <2>1, <2>2
  <1>9. Lower(x, 1) = x[1]
    <2>1. Ints(x, 0 + 1)
      BY <1>1, <1>3 DEF Ints
    <2>2. Lower(x, 0) = 0 /\ Lower(x, 0 + 1) = Lower(x, 0) + x[0 + 1] * Size(0)
      BY <2>1, LowerStep, 0 \in Nat
    <2>3. x[1] * 1 = x[1] /\ 0 + x[1] = x[1]
      BY <1>3
    <2>4. QED
      BY <1>8, <2>2, <2>3
  <1>10. Natural(x) = x[1] + Radix * Natural(Window(x, 1, k))
    BY <1>1, <1>5, <1>6, <1>7, <1>8, <1>9
  <1>11. Size(k + 1) = Radix * Size(k) /\ Size(k) \in Nat
    BY SizeStep
  <1>12. Size(k) >= 2
    <2>1. PICK h \in Nat \ {0} : Size(k) = 2 * h
      BY HalfSize
    <2>2. QED
      BY <2>1
  <1>13. QED
    BY <1>3, <1>4, <1>10, <1>11, <1>12

\* The upper words all extend the sign f where they stand for it.
LEMMA UpperExtends ==
  ASSUME NEW k \in Nat \ {0}, NEW x \in WordSeq(k + 1), NEW f \in {0, 1}, NEW w,
         w = IF f = 1 THEN Radix - 1 ELSE 0
  PROVE  (\A i \in 2 .. k + 1 : x[i] = w) <=> Natural(Window(x, 1, k)) = f * (Size(k) - 1)
  <1> DEFINE fill == [j \in 1 .. k |-> w]
  <1>1. Window(x, 1, k) \in WordSeq(k)
    BY LowestWord
  <1>2. fill \in WordSeq(k)
    <2>1. w \in Words
      BY RadixFacts DEF Words
    <2>2. AreWords(fill, k)
      BY <2>1 DEF AreWords
    <2>3. QED
      BY <2>2, IsWordSeq
  <1>3. Natural(fill) = f * (Size(k) - 1)
    <2>1. Lower(fill, k) = f * (Size(k) - 1)
      <3>1. \A i \in 1 .. k : fill[i] = IF f = 1 THEN Radix - 1 ELSE 0
        OBVIOUS
      <3> HIDE DEF fill
      <3>2. QED
        BY <3>1, LowerFill
    <2> HIDE DEF fill
    <2>2. Natural(fill) = Lower(fill, k)
      BY <1>2, NumberFacts
    <2>3. QED
      BY <2>1, <2>2
  <1>4. Window(x, 1, k) = fill <=> \A i \in 2 .. k + 1 : x[i] = w
    <2>1. ASSUME \A i \in 2 .. k + 1 : x[i] = w
          PROVE  Window(x, 1, k) = fill
      <3>1. \A j \in 1 .. k : 1 + j \in 2 .. k + 1
        OBVIOUS
      <3>2. \A j \in 1 .. k : x[1 + j] = w
        BY <2>1, <3>1
      <3>3. QED
        BY <3>2 DEF Window
    <2>2. ASSUME Window(x, 1, k) = fill, NEW i \in 2 .. k + 1
          PROVE  x[i] = w
      <3>1. i - 1 \in 1 .. k /\ 1 + (i - 1) = i
        OBVIOUS
      <3>2. Window(x, 1, k)[i - 1] = x[i]
        BY <3>1 DEF Window
      <3>3. QED
        BY <2>2, <3>1, <3>2
    <2>3. QED
      BY <2>1, <2>2
  <1> HIDE DEF fill
  <1>5. Natural(Window(x, 1, k)) = Natural(fill) => Window(x, 1, k) = fill
    BY <1>1, <1>2, NaturalUnique
  <1>6. QED
    BY <1>3, <1>4, <1>5

\* The numbers of one word, in numbers of more: a number x1 + 2h * d, where d is U
\* less the size S of the upper words if the number is negative.
WordParts(h, S, x1, U, e, d, N, a) ==
  /\ h \in Nat /\ h >= 2 /\ S \in Nat /\ S >= 2 /\ x1 \in 0 .. 2 * h - 1
  /\ U \in 0 .. S - 1 /\ e \in {0, 1} /\ d \in Int /\ d = U - e * S
  /\ N \in Int /\ N = x1 + (2 * h) * U /\ a \in Int /\ a = x1 + d * (2 * h)
  /\ e = 1 => 2 * N >= (2 * h) * S

\* A number of two parts fits the lower one just when the upper one is its sign.
LEMMA WordArithmetic ==
  ASSUME NEW h \in Nat, h >= 2, NEW S \in Nat, S >= 2, NEW x1 \in 0 .. 2 * h - 1,
         NEW U \in 0 .. S - 1, NEW e \in {0, 1}, NEW d \in Int, d = U - e * S,
         NEW N \in Int, N = x1 + (2 * h) * U, NEW a \in Int, a = x1 + d * (2 * h),
         e = 1 => 2 * N >= (2 * h) * S
  PROVE  /\ d \in {-1, 0} <=> 0 - 2 * h <= a /\ a < 2 * h
         /\ d = 0 <=> 0 <= a /\ a < 2 * h
         /\ U = 0 <=> d = 0
         /\ U = S - 1 /\ e = 1 <=> d = -1
         /\ d = 0 => a = x1
         /\ d = -1 => a = x1 - 2 * h
         /\ U = S - 1 => 2 * N >= (2 * h) * S
  <1>1. e = 0 \/ e = 1
    OBVIOUS
  <1>2. PICK g \in Int : g = d * (2 * h)
    OBVIOUS
  <1>3. d >= 1 => g >= 2 * h
    <2>1. ASSUME d >= 1 PROVE g >= 2 * h
      <3>1. PICK k \in Nat : d = k + 1
        <4>1. d - 1 \in Nat /\ d = (d - 1) + 1
          BY <2>1
        <4>2. QED
          BY <4>1
      <3>2. g = k * (2 * h) + 2 * h
        BY <1>2, <3>1
      <3>3. k * (2 * h) \in Nat
        OBVIOUS
      <3>4. QED
        BY <3>2, <3>3
    <2>2. QED
      BY <2>1
  <1>4. d <= -2 => g <= 0 - 4 * h
    <2>1. ASSUME d <= -2 PROVE g <= 0 - 4 * h
      <3>1. PICK k \in Nat : d = 0 - k - 2
        <4>1. 0 - d - 2 \in Nat /\ d = 0 - (0 - d - 2) - 2
          BY <2>1
        <4>2. QED
          BY <4>1
      <3>2. g = 0 - (k * (2 * h)) - 4 * h
        BY <1>2, <3>1
      <3>3. k * (2 * h) \in Nat
        OBVIOUS
      <3>4. QED
        BY <3>2, <3>3
    <2>2. QED
      BY <2>1
  <1>5. d = 0 => g = 0
    BY <1>2
  <1>6. d = -1 => g = 0 - 2 * h
    BY <1>2
  <1>7. a = x1 + g
    BY <1>2
  <1>8. d \in {-1, 0} <=> 0 - 2 * h <= a /\ a < 2 * h
    BY <1>3, <1>4, <1>5, <1>6, <1>7
  <1>9. d = 0 <=> 0 <= a /\ a < 2 * h
    BY <1>3, <1>4, <1>5, <1>6, <1>7
  <1>10. ASSUME U = 0 PROVE e = 0
    <2>1. N = x1
      BY <1>10
    <2>2. 2 * x1 < (2 * h) * S
      <3>1. PICK j \in Nat : S = j + 2
        <4>1. S - 2 \in Nat /\ S = (S - 2) + 2
          OBVIOUS
        <4>2. QED
          BY <4>1
      <3>2. (2 * h) * S = (2 * h) * j + 4 * h
        BY <3>1
      <3>3. (2 * h) * j \in Nat
        OBVIOUS
      <3>4. QED
        BY <3>2, <3>3
    <2>3. (2 * h) * S \in Int
      OBVIOUS
    <2>4. QED
      BY <1>1, <2>1, <2>2, <2>3
  <1>11. U = 0 <=> d = 0
    <2>1. e = 0 => d = U
      OBVIOUS
    <2>2. e = 1 => d = U - S
      OBVIOUS
    <2>3. QED
      BY <1>1, <1>10, <2>1, <2>2
  <1>12. U = S - 1 /\ e = 1 <=> d = -1
    <2>1. e = 0 => d = U
      OBVIOUS
    <2>2. e = 1 => d = U - S
      OBVIOUS
    <2>3. QED
      BY <1>1, <2>1, <2>2
  <1>13. (d = 0 => a = x1) /\ (d = -1 => a = x1 - 2 * h)
    BY <1>5, <1>6, <1>7
  <1>14. ASSUME U = S - 1 PROVE 2 * N >= (2 * h) * S
    <2>1. PICK j \in Nat : S = j + 2
      <3>1. S - 2 \in Nat /\ S = (S - 2) + 2
        OBVIOUS
      <3>2. QED
        BY <3>1
    <2>2. PICK v \in Nat : v = (2 * h) * j
      OBVIOUS
    <2>3. (2 * h) * S = v + 4 * h
      BY <2>1, <2>2
    <2>4. (2 * h) * U = v + 2 * h
      BY <1>14, <2>1, <2>2
    <2>5. QED
      BY <2>3, <2>4
  <1>15. QED
    BY <1>8, <1>9, <1>11, <1>12, <1>13, <1>14

\* The parts of the number a.
LEMMA PartsOf ==
  ASSUME NEW k \in Nat \ {0}, NEW x \in WordSeq(k + 1), NEW signed \in BOOLEAN,
         NEW e \in {0, 1}, e = SignOf(x, signed), NEW a, SignedBy(k + 1, x, e, a)
  PROVE  \E h, U, d : /\ WordParts(h, Size(k), x[1], U, e, d, Natural(x), a)
                      /\ Radix = 2 * h /\ U = Natural(Window(x, 1, k))
  <1>1. PICK h \in Nat, R \in Nat : Radix = 2 * h /\ h >= 2 /\ R = Radix
    BY RadixFacts
  <1>2. PICK x1 \in Int, S \in Int, W \in WordSeq(k), N \in Int :
          /\ x1 = x[1] /\ S = Size(k) /\ W = Window(x, 1, k) /\ N = Natural(x)
          /\ x1 \in Words /\ N = x1 + Radix * Natural(W)
          /\ Size(k + 1) = Radix * S /\ S \in Nat /\ S >= 2
    <2>1. /\ x[1] \in Words /\ x[1] \in Int
          /\ Window(x, 1, k) \in WordSeq(k)
          /\ Natural(x) = x[1] + Radix * Natural(Window(x, 1, k))
          /\ Size(k + 1) = Radix * Size(k)
          /\ Size(k) \in Nat /\ Size(k) >= 2
      BY LowestWord
    <2>2. Natural(x) \in Int
      BY NumberFacts, k + 1 \in Nat \ {0}
    <2>3. QED
      BY <2>1, <2>2
  <1>3. PICK U \in 0 .. S - 1 : U = Natural(W)
    <2>1. Natural(W) \in 0 .. Size(k) - 1
      BY NumberFacts
    <2>2. QED
      BY <1>2, <2>1
  <1>4. PICK d \in Int : d = U - e * S
    OBVIOUS
  <1>5. N = x1 + (2 * h) * U /\ x1 \in 0 .. 2 * h - 1 /\ Size(k + 1) = (2 * h) * S
    BY <1>1, <1>2, <1>3 DEF Words
  <1>6. a \in Int /\ a = x1 + d * (2 * h)
    <2>1. a \in Int /\ a = N - e * ((2 * h) * S)
      BY <1>2, <1>5 DEF SignedBy
    <2>2. PICK H \in Int, u \in Int : H = 2 * h /\ u = U
      OBVIOUS
    <2>3. PICK v \in Int, w \in Int, g \in Int : v = H * u /\ w = H * S /\ g = d * H
      OBVIOUS
    <2>4. N = x1 + v /\ a = N - e * w
      BY <1>5, <2>1, <2>2, <2>3
    <2>5. ASSUME e = 0 PROVE a = x1 + g
      <3>1. d = u
        <4>1. 0 * S = 0 /\ u - 0 = u
          OBVIOUS
        <4>2. d = u - e * S
          BY <1>4, <2>2, Zenon
        <4>3. QED
          BY <2>5, <4>1, <4>2, Zenon
      <3>2. g = v /\ e * w = 0
        <4>1. 0 * w = 0 /\ u * H = H * u
          OBVIOUS
        <4>2. QED
          BY <2>3, <2>5, <3>1, <4>1, Zenon
      <3>3. QED
        BY <2>4, <3>2
    <2>6. ASSUME e = 1 PROVE a = x1 + g
      <3>1. d = u - S
        <4>1. 1 * S = S
          OBVIOUS
        <4>2. d = u - e * S
          BY <1>4, <2>2, Zenon
        <4>3. QED
          BY <2>6, <4>1, <4>2, Zenon
      <3>2. (u - S) * H = H * u - H * S
        OBVIOUS
      <3>3. g = v - w /\ e * w = w
        <4>1. 1 * w = w
          OBVIOUS
        <4>2. QED
          BY <2>3, <2>6, <3>1, <3>2, <4>1, Zenon
      <3>4. QED
        BY <2>4, <3>3
    <2>7. a = x1 + g
      BY <2>5, <2>6
    <2>8. d * (2 * h) = g
      BY <2>2, <2>3, Zenon
    <2>9. QED
      BY <2>1, <2>7, <2>8, Zenon
  <1>7. e = 1 => 2 * N >= (2 * h) * S
    <2>1. e = 1 => IsNeg(x)
      BY DEF SignOf
    <2>2. IsNeg(x) => 2 * Natural(x) >= Size(k + 1)
      BY NumberFacts, k + 1 \in Nat \ {0} DEF Signed
    <2>3. QED
      BY <1>2, <1>5, <2>1, <2>2
  <1>8. WordParts(h, Size(k), x[1], U, e, d, Natural(x), a)
    BY <1>1, <1>2, <1>3, <1>4, <1>5, <1>6, <1>7 DEF WordParts
  <1>9. QED
    BY <1>1, <1>2, <1>3, <1>8

\* A word from its number.
LEMMA WordOf ==
  ASSUME NEW w \in Words, NEW a \in Int, NEW d \in Int, a = w + d * Radix
  PROVE  /\ <<w>> \in WordSeq(1)
         /\ SignedFits(1, a) => SignedNumber(<<w>>) = a
         /\ UnsignedFits(1, a) => Natural(<<w>>) = a
  <1>1. <<w>> \in WordSeq(1)
    BY DEF WordSeq
  <1>2. Natural(<<w>>) = w /\ Size(1) = Radix
    <2>1. Natural(<<w>>) = <<w>>[1] /\ Size(1) = Radix
      BY <1>1, OneWordFacts
    <2>2. QED
      BY <2>1
  <1>3. a = Natural(<<w>>) + d * Size(1) /\ 1 \in Nat \ {0}
    BY <1>2
  <1>4. SignedFits(1, a) => SignedNumber(<<w>>) = a
    BY <1>1, <1>3, SignedUnique
  <1>5. UnsignedFits(1, a) => Natural(<<w>>) = a
    BY <1>1, <1>3, UnsignedUnique
  <1>6. QED
    BY <1>1, <1>4, <1>5

\* The numbers that fit a word.
LEMMA FitsWord ==
  ASSUME NEW h \in Nat, h >= 2, Radix = 2 * h, NEW a \in Int
  PROVE  /\ SignedFits(1, a) <=> 0 - h <= a /\ a < h
         /\ UnsignedFits(1, a) <=> 0 <= a /\ a < 2 * h
  <1>1. Size(1) = Radix
    <2>1. Size(0 + 1) = Radix * Size(0) /\ Size(0) = 1
      BY SizeStep, 0 \in Nat
    <2>2. Radix * 1 = Radix
      BY RadixFacts
    <2>3. QED
      BY <2>1, <2>2
  <1>2. UnsignedFits(1, a) <=> 0 <= a /\ a < 2 * h
    BY <1>1 DEF UnsignedFits
  <1>3. Size(1) \div 2 = h
    <2>1. PICK g \in Nat : Radix = 2 * g /\ Radix \div 2 = g
      BY RadixFacts
    <2>2. 2 * g = 2 * h
      BY <2>1
    <2>3. g = h
      BY <2>2
    <2>4. QED
      BY <1>1, <2>1, <2>3
  <1>4. SignedFits(1, a) <=> 0 - h <= a /\ a < h
    BY <1>3, SignedFitsHalf, 1 \in Nat
  <1>5. QED
    BY <1>2, <1>4

\* The upper words extend the lowest, as a signed word.
LEMMA ToSignedWord ==
  ASSUME NEW h, NEW S, NEW x1, NEW U, NEW e, NEW d, NEW N, NEW a,
         WordParts(h, S, x1, U, e, d, N, a), NEW f \in {0, 1}
  PROVE  /\ (e = 1 <=> 2 * N >= (2 * h) * S) /\ (f = 1 <=> x1 >= h)
              => (U = f * (S - 1) <=> 0 - h <= a /\ a < h)
         /\ e = 0 => (U = 0 /\ x1 < h <=> 0 - h <= a /\ a < h)
         /\ U = 0 <=> 0 <= a /\ a < 2 * h
  <1>1. /\ h \in Nat /\ h >= 2 /\ S \in Nat /\ S >= 2 /\ x1 \in 0 .. 2 * h - 1
        /\ U \in 0 .. S - 1 /\ e \in {0, 1} /\ d \in Int /\ d = U - e * S
        /\ N \in Int /\ N = x1 + (2 * h) * U /\ a \in Int /\ a = x1 + d * (2 * h)
        /\ e = 1 => 2 * N >= (2 * h) * S
    BY DEF WordParts
  <1>2. /\ d \in {-1, 0} <=> 0 - 2 * h <= a /\ a < 2 * h
        /\ d = 0 <=> 0 <= a /\ a < 2 * h
        /\ U = 0 <=> d = 0
        /\ U = S - 1 /\ e = 1 <=> d = -1
        /\ d = 0 => a = x1
        /\ d = -1 => a = x1 - 2 * h
        /\ U = S - 1 => 2 * N >= (2 * h) * S
    BY <1>1, WordArithmetic
  <1>3. ASSUME e = 1 <=> 2 * N >= (2 * h) * S, f = 1 <=> x1 >= h
        PROVE  U = f * (S - 1) <=> 0 - h <= a /\ a < h
    <2>1. CASE f = 0
      <3>1. f * (S - 1) = 0 /\ x1 < h
        BY <1>1, <1>3, <2>1
      <3>2. QED
        BY <1>1, <1>2, <3>1
    <2>2. CASE f = 1
      <3>1. f * (S - 1) = S - 1 /\ x1 >= h
        BY <1>1, <1>3, <2>2
      <3>2. U = S - 1 <=> d = -1
        BY <1>2, <1>3
      <3>3. QED
        BY <1>1, <1>2, <3>1, <3>2
    <2>3. QED
      BY <2>1, <2>2
  <1>4. ASSUME e = 0
        PROVE  U = 0 /\ x1 < h <=> 0 - h <= a /\ a < h
    <2>1. d = U
      BY <1>1, <1>4
    <2>2. QED
      BY <1>1, <1>2, <2>1
  <1>5. U = 0 <=> 0 <= a /\ a < 2 * h
    BY <1>2
  <1>6. QED
    BY <1>3, <1>4, <1>5

\* A cast to one word, from the words above it.
LEMMA ToWordIs ==
  ASSUME NEW k \in Nat \ {0}, NEW x \in WordSeq(k + 1), NEW source_signed \in BOOLEAN,
         NEW signed \in BOOLEAN, NEW f \in {0, 1},
         f = 1 <=> source_signed /\ signed /\ AsSigned(x[1]) < 0
  PROVE  ToWord(x, source_signed, signed)
           = IF /\ Natural(Window(x, 1, k)) = f * (Size(k) - 1)
                /\ signed /\ ~source_signed => AsSigned(x[1]) >= 0
             THEN <<x[1]>> ELSE Panic
  <1>1. PICK w : w = IF f = 1 THEN Radix - 1 ELSE 0
    OBVIOUS
  <1>2. (IF source_signed /\ signed /\ AsSigned(x[1]) < 0 THEN Radix - 1 ELSE 0) = w
    BY <1>1
  <1>3. Len(x) = k + 1
    BY DEF WordSeq
  <1>4. (\A i \in 2 .. k + 1 : x[i] = w) <=> Natural(Window(x, 1, k)) = f * (Size(k) - 1)
    BY <1>1, UpperExtends
  <1>5. ToWord(x, source_signed, signed)
          = IF /\ \A i \in 2 .. Len(x) : x[i] = w
               /\ signed /\ ~source_signed => AsSigned(x[1]) >= 0
            THEN <<x[1]>> ELSE Panic
    BY <1>2, Zenon DEF ToWord
  <1>6. QED
    BY <1>3, <1>4, <1>5, Zenon

\* A cast to one word keeps the number, or panics where it does not fit.
LEMMA ToWordOutcome ==
  ASSUME NEW k \in Nat \ {0}, NEW x \in WordSeq(k + 1), NEW source_signed \in BOOLEAN,
         NEW e \in {0, 1}, e = SignOf(x, source_signed), NEW a, SignedBy(k + 1, x, e, a)
  PROVE  /\ SignedOutcome(1, a, ToWord(x, source_signed, TRUE))
         /\ UnsignedOutcome(1, a, ToWord(x, source_signed, FALSE))
  <1>1. PICK h, U, d : /\ WordParts(h, Size(k), x[1], U, e, d, Natural(x), a)
                       /\ Radix = 2 * h /\ U = Natural(Window(x, 1, k))
    BY PartsOf
  <1>2. /\ h \in Nat /\ h >= 2 /\ d \in Int /\ a \in Int /\ a = x[1] + d * Radix
    BY <1>1 DEF WordParts
  <1>3. x[1] \in Words
    BY LowestWord
  <1>4. /\ <<x[1]>> \in WordSeq(1)
        /\ SignedFits(1, a) => SignedNumber(<<x[1]>>) = a
        /\ UnsignedFits(1, a) => Natural(<<x[1]>>) = a
    BY <1>2, <1>3, WordOf
  <1>5. /\ SignedFits(1, a) <=> 0 - h <= a /\ a < h
        /\ UnsignedFits(1, a) <=> 0 <= a /\ a < 2 * h
    BY <1>1, <1>2, FitsWord
  <1>6. PICK w \in Int : w = x[1] /\ (AsSigned(w) < 0 <=> w >= h) /\ (AsSigned(w) >= 0 <=> w < h)
    <2>1. AsSigned(x[1]) \in Int /\ x[1] \in Int /\ (AsSigned(x[1]) < 0 <=> 2 * x[1] >= Radix)
      BY <1>3, AsSignedFacts
    <2>2. PICK w \in Int : w = x[1]
      BY <2>1
    <2>3. AsSigned(w) \in Int /\ (AsSigned(w) < 0 <=> 2 * w >= 2 * h)
      BY <1>1, <2>1, <2>2
    <2>4. QED
      BY <1>2, <2>2, <2>3
  <1>7. ToWord(x, source_signed, TRUE) = IF SignedFits(1, a) THEN <<x[1]>> ELSE Panic
    <2>1. CASE source_signed
      <3>1. PICK f \in {0, 1} : f = 1 <=> w >= h
        OBVIOUS
      <3>2. f = 1 <=> source_signed /\ TRUE /\ AsSigned(x[1]) < 0
        BY <1>6, <2>1, <3>1
      <3>3. ToWord(x, source_signed, TRUE)
              = IF U = f * (Size(k) - 1) /\ (TRUE /\ ~source_signed => AsSigned(x[1]) >= 0)
                THEN <<x[1]>> ELSE Panic
        BY <1>1, <3>2, ToWordIs
      <3>4. e = 1 <=> 2 * Natural(x) >= (2 * h) * Size(k)
        <4>1. e = 1 <=> IsNeg(x)
          BY <2>1 DEF SignOf
        <4>2. IsNeg(x) <=> 2 * Natural(x) >= Size(k + 1)
          BY NumberFacts, k + 1 \in Nat \ {0} DEF Signed
        <4>3. Size(k + 1) = (2 * h) * Size(k)
          BY <1>1, LowestWord
        <4>4. QED
          BY <4>1, <4>2, <4>3
      <3>5. U = f * (Size(k) - 1) <=> 0 - h <= a /\ a < h
        <4>1. f = 1 <=> x[1] >= h
          BY <1>6, <3>1
        <4>2. QED
          BY <1>1, <3>4, <4>1, ToSignedWord
      <3>6. QED
        BY <1>5, <2>1, <3>3, <3>5, Zenon
    <2>2. CASE ~source_signed
      <3>1. PICK f \in {0, 1} : f = 0
        OBVIOUS
      <3>2. f = 1 <=> source_signed /\ TRUE /\ AsSigned(x[1]) < 0
        BY <2>2, <3>1
      <3>3. ToWord(x, source_signed, TRUE)
              = IF U = f * (Size(k) - 1) /\ (TRUE /\ ~source_signed => AsSigned(x[1]) >= 0)
                THEN <<x[1]>> ELSE Panic
        BY <1>1, <3>2, ToWordIs
      <3>4. f * (Size(k) - 1) = 0
        <4>1. Size(k) \in Int
          BY <1>1 DEF WordParts
        <4>2. QED
          BY <3>1, <4>1
      <3>5. e = 0
        BY <2>2 DEF SignOf
      <3>6. U = 0 /\ x[1] < h <=> 0 - h <= a /\ a < h
        BY <1>1, <3>1, <3>5, ToSignedWord
      <3>7. QED
        BY <1>5, <1>6, <2>2, <3>3, <3>4, <3>6, Zenon
    <2>3. QED
      BY <2>1, <2>2
  <1>8. ToWord(x, source_signed, FALSE) = IF UnsignedFits(1, a) THEN <<x[1]>> ELSE Panic
    <2>1. PICK f \in {0, 1} : f = 0
      OBVIOUS
    <2>2. f = 1 <=> source_signed /\ FALSE /\ AsSigned(x[1]) < 0
      BY <2>1
    <2>3. ToWord(x, source_signed, FALSE)
            = IF U = f * (Size(k) - 1) /\ (FALSE /\ ~source_signed => AsSigned(x[1]) >= 0)
              THEN <<x[1]>> ELSE Panic
      BY <1>1, <2>2, ToWordIs
    <2>4. f * (Size(k) - 1) = 0
      <3>1. Size(k) \in Int
        BY <1>1 DEF WordParts
      <3>2. QED
        BY <2>1, <3>1
    <2>5. U = 0 <=> 0 <= a /\ a < 2 * h
      BY <1>1, <2>1, ToSignedWord
    <2>6. QED
      BY <1>5, <2>3, <2>4, <2>5, Zenon
  <1>9. QED
    BY <1>4, <1>7, <1>8, Zenon DEF SignedOutcome, UnsignedOutcome

\* A number and its sign.
LEMMA SignedByIs ==
  ASSUME NEW n \in Nat \ {0}, NEW x \in WordSeq(n), NEW signed \in BOOLEAN
  PROVE  \E e, a : /\ e \in {0, 1} /\ e = SignOf(x, signed)
                   /\ SignedBy(n, x, e, a) /\ a = Number(signed, x)
  <1>1. PICK e \in {0, 1} : e = SignOf(x, signed)
    BY DEF SignOf
  <1>2. /\ Number(signed, x) = Natural(x) - e * Size(n)
        /\ Natural(x) \in 0 .. Size(n) - 1 /\ Size(n) \in Nat \ {0}
    BY <1>1, NumberOfSign
  <1>3. PICK a : a = Natural(x) - e * Size(n)
    OBVIOUS
  <1>4. a \in Int
    BY <1>2, <1>3
  <1>5. SignedBy(n, x, e, a)
    BY <1>2, <1>3, <1>4 DEF SignedBy
  <1>6. a = Number(signed, x)
    BY <1>2, <1>3, Zenon
  <1>7. QED
    BY <1>1, <1>5, <1>6, Zenon

\* A cast to two or four words keeps the number, or panics where it does not fit,
LEMMA CastsAre ==
  ASSUME NEW n \in {2, 4}, NEW x \in WordSeq(n), NEW signed \in BOOLEAN, NEW words \in {2, 4}
  PROVE  /\ Outcome(TRUE, words, Number(signed, x), gray_wide_cast_words(x, signed, words, TRUE))
         /\ Outcome(FALSE, words, Number(signed, x), gray_wide_cast_words(x, signed, words, FALSE))
  <1>1. n \in Nat \ {0} /\ words \in Nat \ {0}
    OBVIOUS
  <1>2. PICK e, a : /\ e \in {0, 1} /\ e = SignOf(x, signed)
                   /\ SignedBy(n, x, e, a) /\ a = Number(signed, x)
    BY <1>1, SignedByIs
  <1>3. /\ SignedOutcome(words, a, gray_wide_cast_words(x, signed, words, TRUE))
        /\ UnsignedOutcome(words, a, gray_wide_cast_words(x, signed, words, FALSE))
    BY <1>2, CastOutcome
  <1>4. QED
    BY <1>1, <1>2, <1>3, OutcomeIs

\* and so does a cast to one word.
LEMMA WordCastsAre ==
  ASSUME NEW n \in {2, 4}, NEW x \in WordSeq(n), NEW signed \in BOOLEAN
  PROVE  /\ Outcome(TRUE, 1, Number(signed, x), ToWord(x, signed, TRUE))
         /\ Outcome(FALSE, 1, Number(signed, x), ToWord(x, signed, FALSE))
  <1>1. PICK k \in Nat \ {0} : k + 1 = n
    <2>1. n - 1 \in Nat \ {0} /\ (n - 1) + 1 = n
      OBVIOUS
    <2>2. QED
      BY <2>1
  <1>2. n \in Nat \ {0} /\ 1 \in Nat \ {0}
    OBVIOUS
  <1>3. PICK e, a : /\ e \in {0, 1} /\ e = SignOf(x, signed)
                   /\ SignedBy(n, x, e, a) /\ a = Number(signed, x)
    BY <1>2, SignedByIs
  <1>4. /\ SignedOutcome(1, a, ToWord(x, signed, TRUE))
        /\ UnsignedOutcome(1, a, ToWord(x, signed, FALSE))
    BY <1>1, <1>3, ToWordOutcome
  <1>5. QED
    BY <1>2, <1>3, <1>4, OutcomeIs

-----------------------------------------------------------------------------
(* Digits.                                                                 *)

\* The values of the digits s, from the first on.
ValuesOf(f, s, base) ==
  /\ f \in [0 .. Len(s) -> Int] /\ f[0] = 0
  /\ \A i \in 1 .. Len(s) : f[i] = f[i - 1] * base + s[i]

\* The sum that Positional is the last element of exists.
LEMMA PositionalValue ==
  ASSUME NEW base \in Int, NEW s \in Seq(Words)
  PROVE  \E f : ValuesOf(f, s, base) /\ Positional(s, base) = f[Len(s)]
  <1> DEFINE n == Len(s)
             step == [i \in 1 .. n |-> [a \in Int |-> a * base + s[i]]]
             F(f) == f = [i \in 0 .. n |-> IF i = 0 THEN 0 ELSE f[i - 1] * base + s[i]]
             sum == CHOOSE f : F(f)
  <1>1. n \in Nat
    OBVIOUS
  <1>2. \A i \in 1 .. n : s[i] \in Int
    <2>1. \A i \in 1 .. n : s[i] \in Words
      OBVIOUS
    <2>2. QED
      BY <2>1, RadixFacts DEF Words
  <1>3. step \in [1 .. n -> [Int -> Int]] /\ 0 \in Int
    BY <1>2
  <1>4. \E g : Recursive(n, Int, 0, step, g)
    <2> HIDE DEF step, n
    <2>1. QED
      BY <1>1, <1>3, Recursion, Zenon
  <1>5. PICK g \in [0 .. n -> Int] :
          g[0] = 0 /\ \A i \in 1 .. n : g[i] = g[i - 1] * base + s[i]
    <2>1. \A i \in 1 .. n, a \in Int : step[i][a] = a * base + s[i]
      OBVIOUS
    <2>2. \A i \in 1 .. n : i - 1 \in 0 .. n
      OBVIOUS
    <2> HIDE DEF step, n
    <2>3. QED
      BY <1>4, <2>1, <2>2 DEF Recursive
  <1>6. F(g)
    <2>1. g = [i \in 0 .. n |-> g[i]]
      OBVIOUS
    <2>2. \A i \in 0 .. n : g[i] = IF i = 0 THEN 0 ELSE g[i - 1] * base + s[i]
      BY <1>1, <1>5
    <2>3. QED
      BY <2>1, <2>2, Zenon
  <1>7. Positional(s, base) = sum[n]
    BY DEF Positional
  <1> HIDE DEF F
  <1>8. F(sum)
    BY <1>6, Zenon
  <1> USE DEF F
  <1> HIDE DEF sum, n
  <1>9. sum[0] = 0 /\ \A i \in 1 .. n : sum[i] = sum[i - 1] * base + s[i]
    BY <1>1, <1>8
  <1>10. \A i \in 0 .. n : sum[i] \in Int
    <2> DEFINE S == {k \in 0 .. n : sum[k] \in Int}
    <2>1. 0 \in S
      BY <1>1, <1>9
    <2>2. ASSUME NEW i \in 1 .. n, i - 1 \in S PROVE i \in S
      <3>1. sum[i - 1] \in Int
        BY <2>2
      <3>2. sum[i] = sum[i - 1] * base + s[i]
        BY <1>9
      <3>3. QED
        BY <1>1, <1>2, <3>1, <3>2
    <2> HIDE DEF S
    <2>3. \A i \in 0 .. n : i \in S
      BY <1>1, <2>1, <2>2, UpTo
    <2>4. QED
      BY <2>3 DEF S
  <1>11. sum \in [0 .. n -> Int]
    BY <1>8, <1>10
  <1>12. ValuesOf(sum, s, base)
    BY <1>9, <1>11 DEF ValuesOf, n
  <1>13. QED
    BY <1>7, <1>12 DEF n

Prepended(d, s, t) ==
  /\ t \in Seq(Words) /\ Len(t) = Len(s) + 1
  /\ t[1] = d /\ \A i \in 1 .. Len(s) : t[i + 1] = s[i]

\* One digit more, before the others.
LEMMA PositionalFirst ==
  ASSUME NEW base \in Int, NEW s \in Seq(Words), NEW d \in Words
  PROVE  /\ Positional(s, base) \in Int
         /\ Positional(<<d>> \o s, base) = d * Power(base, Len(s)) + Positional(s, base)
         /\ Prepended(d, s, <<d>> \o s)
  <1>1. PICK n \in Nat : n = Len(s)
    OBVIOUS
  <1>2. PICK t : t = <<d>> \o s
    OBVIOUS
  <1>3. <<d>> \in Seq(Words) /\ Len(<<d>>) = 1 /\ <<d>>[1] = d
    OBVIOUS
  <1>4. /\ t \in Seq(Words) /\ Len(t) = 1 + n
        /\ \A i \in 1 .. 1 + n : t[i] = IF i <= 1 THEN <<d>>[i] ELSE s[i - 1]
    BY <1>1, <1>2, <1>3, ConcatProperties
  <1>5. t[1] = d /\ \A i \in 1 .. n : t[i + 1] = s[i]
    <2>1. t[1] = d
      BY <1>3, <1>4
    <2>2. ASSUME NEW i \in 1 .. n PROVE t[i + 1] = s[i]
      <3>1. i + 1 \in 1 .. 1 + n /\ ~(i + 1 <= 1) /\ (i + 1) - 1 = i
        OBVIOUS
      <3>2. QED
        BY <1>4, <3>1
    <2>3. QED
      BY <2>1, <2>2
  <1>6. PICK f : ValuesOf(f, s, base) /\ Positional(s, base) = f[Len(s)]
    BY PositionalValue
  <1>7. PICK g : ValuesOf(g, t, base) /\ Positional(t, base) = g[Len(t)]
    BY <1>4, PositionalValue
  <1>8. /\ f \in [0 .. n -> Int] /\ f[0] = 0
        /\ \A i \in 1 .. n : f[i] = f[i - 1] * base + s[i]
    BY <1>1, <1>6 DEF ValuesOf
  <1>9. /\ g \in [0 .. 1 + n -> Int] /\ g[0] = 0
        /\ \A i \in 1 .. 1 + n : g[i] = g[i - 1] * base + t[i]
    BY <1>4, <1>7 DEF ValuesOf
  <1>10. d \in Int
    BY RadixFacts DEF Words
  <1> DEFINE S == {i \in 0 .. n : g[i + 1] = f[i] + d * Power(base, i)}
  <1>11. 0 \in S
    <2>1. 1 \in 1 .. 1 + n /\ 1 - 1 = 0 /\ 0 + 1 = 1
      OBVIOUS
    <2>2. g[1] = g[0] * base + t[1]
      BY <1>9, <2>1
    <2>3. g[1] = d
      BY <1>5, <1>9, <1>10, <2>2
    <2>4. Power(base, 0) = 1
      BY PowerStep, 0 \in Nat
    <2>5. f[0] + d * Power(base, 0) = d
      BY <1>8, <1>10, <2>4
    <2>6. QED
      BY <2>1, <2>3, <2>5
  <1>12. ASSUME NEW i \in 1 .. n, i - 1 \in S PROVE i \in S
    <2>1. PICK j \in Nat : j = i - 1 /\ i = j + 1 /\ j \in 0 .. n
      BY <1>1
    <2>2. PICK a \in Int, p \in Int, w \in Int :
            a = f[j] /\ p = Power(base, j) /\ w = s[i]
      <3>1. Power(base, j) \in Int
        BY PowerStep
      <3>2. f[j] \in Int
        BY <1>8, <2>1
      <3>3. s[i] \in Int
        <4>1. s[i] \in Words
          BY <1>1
        <4>2. QED
          BY <4>1, RadixFacts DEF Words
      <3>4. QED
        BY <3>1, <3>2, <3>3
    <2>3. g[i] = a + d * p
      BY <1>12, <2>1, <2>2
    <2>4. g[i + 1] = g[i] * base + w
      <3>1. i + 1 \in 1 .. 1 + n /\ (i + 1) - 1 = i
        BY <1>1
      <3>2. g[i + 1] = g[i] * base + t[i + 1]
        BY <1>9, <3>1
      <3>3. QED
        BY <1>5, <2>2, <3>2
    <2>5. f[i] = a * base + w
      BY <1>8, <2>1, <2>2
    <2>6. Power(base, i) = base * p
      BY <2>1, <2>2, PowerStep
    <2>7. (a + d * p) * base + w = (a * base + w) + d * (base * p)
      BY <1>10
    <2>8. QED
      BY <2>3, <2>4, <2>5, <2>6, <2>7
  <1> HIDE DEF S
  <1>13. \A i \in 0 .. n : i \in S
    BY <1>11, <1>12, UpTo
  <1>14. g[n + 1] = f[n] + d * Power(base, n)
    <2>1. n \in S
      BY <1>13
    <2>2. QED
      BY <2>1 DEF S
  <1>15. f[n] \in Int /\ d * Power(base, n) \in Int
    <2>1. Power(base, n) \in Int
      BY PowerStep
    <2>2. QED
      BY <1>8, <1>10, <2>1
  <1>16. Positional(t, base) = d * Power(base, n) + f[n]
    BY <1>4, <1>7, <1>14, <1>15
  <1>17. Prepended(d, s, t)
    <2>1. Len(t) = Len(s) + 1
      BY <1>1, <1>4
    <2>2. QED
      BY <1>1, <1>4, <1>5, <2>1 DEF Prepended
  <1>18. Positional(t, base) = d * Power(base, Len(s)) + Positional(s, base)
    BY <1>1, <1>6, <1>16, Zenon
  <1>19. Positional(s, base) \in Int
    BY <1>1, <1>6, <1>15, Zenon
  <1>20. QED
    BY <1>2, <1>17, <1>18, <1>19, Zenon

\* What is read from the digits s is near the number they stand for.
LEMMA FromDigits ==
  ASSUME NEW n \in {2, 4}, NEW s \in Seq(Words), NEW base \in Words
  PROVE  /\ from_digits(s, base, n) \in WordSeq(n)
         /\ Near(n, from_digits(s, base, n), Positional(s, base))
  <1> DEFINE m == Len(s)
             Read(w, i) == Add(Mul(w, Small(base, n)), Small(s[i], n))
             F(f) == f = [i \in 0 .. m |-> IF i = 0 THEN Small(0, n) ELSE Read(f[i - 1], i)]
             step == [i \in 1 .. m |-> [w \in WordSeq(n) |-> Read(w, i)]]
             value == CHOOSE f : F(f)
  <1>1. m \in Nat /\ n \in Nat \ {0}
    OBVIOUS
  <1>2. Small(0, n) \in WordSeq(n) /\ Natural(Small(0, n)) = 0
    <2>1. 0 \in Words
      BY RadixFacts DEF Words
    <2>2. QED
      BY <1>1, <2>1, SmallIs
  <1>3. Small(base, n) \in WordSeq(n) /\ Near(n, Small(base, n), base)
    <2>1. Small(base, n) \in WordSeq(n) /\ Natural(Small(base, n)) = base
      BY <1>1, SmallIs
    <2>2. Near(n, Small(base, n), Natural(Small(base, n)))
      BY <1>1, <2>1, NearNatural
    <2>3. QED
      BY <2>1, <2>2
  <1>4. ASSUME NEW i \in 1 .. m
        PROVE  Small(s[i], n) \in WordSeq(n) /\ Near(n, Small(s[i], n), s[i])
    <2>1. s[i] \in Words
      OBVIOUS
    <2>2. Small(s[i], n) \in WordSeq(n) /\ Natural(Small(s[i], n)) = s[i]
      BY <1>1, <2>1, SmallIs
    <2>3. Near(n, Small(s[i], n), Natural(Small(s[i], n)))
      BY <1>1, <2>2, NearNatural
    <2>4. QED
      BY <2>2, <2>3
  <1>5. ASSUME NEW i \in 1 .. m, NEW w \in WordSeq(n)
        PROVE  Read(w, i) \in WordSeq(n) /\ \A a : Near(n, w, a) => Near(n, Read(w, i), a * base + s[i])
    <2>1. Near(n, w, Natural(w))
      BY <1>1, NearNatural
    <2>2. Mul(w, Small(base, n)) \in WordSeq(n)
      BY <1>3, <2>1, MulNear
    <2>3. Small(s[i], n) \in WordSeq(n) /\ Near(n, Small(s[i], n), s[i])
      BY <1>4
    <2>4. Read(w, i) \in WordSeq(n)
      BY <2>2, <2>3, AddExact
    <2>5. ASSUME NEW a, Near(n, w, a)
          PROVE  Near(n, Read(w, i), a * base + s[i])
      <3>1. Near(n, Mul(w, Small(base, n)), a * base)
        BY <1>3, <2>5, MulNear
      <3>2. QED
        BY <2>2, <2>3, <3>1, AddNear
    <2>6. QED
      BY <2>4, <2>5
  <1>6. \E g : Recursive(m, WordSeq(n), Small(0, n), step, g)
    <2>1. step \in [1 .. m -> [WordSeq(n) -> WordSeq(n)]]
      BY <1>5
    <2> HIDE DEF step, m
    <2>2. QED
      BY <1>1, <1>2, <2>1, Recursion
  <1>7. PICK g : /\ g \in [0 .. m -> WordSeq(n)] /\ g[0] = Small(0, n)
                 /\ \A i \in 1 .. m : g[i] = Read(g[i - 1], i)
    <2>1. PICK g : Recursive(m, WordSeq(n), Small(0, n), step, g)
      BY <1>6
    <2>2. \A i \in 1 .. m, w \in WordSeq(n) : step[i][w] = Read(w, i)
      OBVIOUS
    <2> HIDE DEF step, m, Read
    <2>3. g \in [0 .. m -> WordSeq(n)] /\ g[0] = Small(0, n) /\ \A i \in 1 .. m : g[i] = step[i][g[i - 1]]
      BY <2>1 DEF Recursive
    <2>4. \A i \in 1 .. m : g[i - 1] \in WordSeq(n)
      BY <1>1, <2>3
    <2>5. ASSUME NEW i \in 1 .. m PROVE g[i] = Read(g[i - 1], i)
      <3>1. g[i - 1] \in WordSeq(n) /\ g[i] = step[i][g[i - 1]]
        BY <2>3, <2>4
      <3>2. step[i][g[i - 1]] = Read(g[i - 1], i)
        BY <2>2, <3>1
      <3>3. QED
        BY <3>1, <3>2
    <2>6. QED
      BY <2>3, <2>5
  <1>8. F(g)
    <2> HIDE DEF m, Read
    <2>1. g = [i \in 0 .. m |-> g[i]]
      BY <1>7
    <2>2. \A i \in 0 .. m : g[i] = IF i = 0 THEN Small(0, n) ELSE Read(g[i - 1], i)
      BY <1>1, <1>7
    <2>3. QED
      BY <2>1, <2>2, Zenon
  <1>9. from_digits(s, base, n) = value[m]
    BY DEF from_digits
  <1> HIDE DEF F
  <1>10. F(value)
    BY <1>8, Zenon
  <1> HIDE DEF value
  <1>11. value[0] = Small(0, n) /\ \A i \in 1 .. m : value[i] = Read(value[i - 1], i)
    <2> HIDE DEF m, Read
    <2>1. QED
      BY <1>1, <1>10 DEF F
  <1> HIDE DEF Read
  <1>12. PICK p : ValuesOf(p, s, base) /\ Positional(s, base) = p[m]
    <2>1. base \in Int
      BY RadixFacts DEF Words
    <2>2. QED
      BY <2>1, PositionalValue
  <1>13. p[0] = 0 /\ \A i \in 1 .. m : p[i] = p[i - 1] * base + s[i]
    BY <1>12 DEF ValuesOf
  <1> HIDE DEF m
  <1> DEFINE S == {i \in 0 .. m : value[i] \in WordSeq(n) /\ Near(n, value[i], p[i])}
  <1>14. 0 \in S
    <2>1. Near(n, Small(0, n), Natural(Small(0, n)))
      BY <1>1, <1>2, NearNatural
    <2>2. QED
      BY <1>1, <1>2, <1>11, <1>13, <2>1
  <1>15. ASSUME NEW i \in 1 .. m, i - 1 \in S PROVE i \in S
    <2>1. value[i - 1] \in WordSeq(n) /\ Near(n, value[i - 1], p[i - 1])
      BY <1>15
    <2>2. Read(value[i - 1], i) \in WordSeq(n) /\ Near(n, Read(value[i - 1], i), p[i - 1] * base + s[i])
      BY <1>5, <2>1
    <2>3. value[i] = Read(value[i - 1], i) /\ p[i] = p[i - 1] * base + s[i]
      BY <1>11, <1>13
    <2>4. value[i] \in WordSeq(n) /\ Near(n, value[i], p[i])
      BY <2>2, <2>3, Zenon
    <2>5. QED
      BY <1>1, <2>4
  <1> HIDE DEF S
  <1>16. \A i \in 0 .. m : i \in S
    BY <1>1, <1>14, <1>15, UpTo
  <1>17. value[m] \in WordSeq(n) /\ Near(n, value[m], p[m])
    <2>1. m \in S
      BY <1>1, <1>16
    <2>2. QED
      BY <2>1 DEF S
  <1>18. QED
    BY <1>9, <1>12, <1>17

\* What is read is the number, if the number has n words.
LEMMA ReadBack ==
  ASSUME NEW n \in {2, 4}, NEW x \in WordSeq(n), NEW s \in Seq(Words), NEW base \in Words,
         Positional(s, base) = Natural(x)
  PROVE  from_digits(s, base, n) = x
  <1>1. n \in Nat \ {0}
    OBVIOUS
  <1>2. PICK v \in WordSeq(n) : v = from_digits(s, base, n) /\ Near(n, v, Natural(x))
    BY FromDigits
  <1>3. Natural(x) \in Int /\ UnsignedFits(n, Natural(x))
    <2>1. Natural(x) \in 0 .. Size(n) - 1
      BY <1>1, NumberFacts
    <2>2. Size(n) \in Nat
      BY <1>1, SizeStep
    <2>3. QED
      BY <2>1, <2>2 DEF UnsignedFits
  <1>4. PICK q \in Int : Natural(x) = Natural(v) + q * Size(n)
    BY <1>2 DEF Near
  <1>5. Natural(v) = Natural(x)
    BY <1>1, <1>3, <1>4, UnsignedUnique
  <1>6. QED
    BY <1>1, <1>2, <1>5, NaturalUnique

DigitStates(n) == [remaining : WordSeq(n), digits : Seq(Words)]

\* After k divisions by the base, what remains and the digits make up x.
Digits(n, x, base, a, k) ==
  /\ a \in DigitStates(n)
  /\ Natural(x) = Natural(a.remaining) * Power(base, Len(a.digits)) + Positional(a.digits, base)
  /\ \A i \in 1 .. Len(a.digits) : a.digits[i] < base
  /\ a.digits # <<>> /\ Natural(a.remaining) = 0 => a.digits[1] # 0
  /\ Natural(a.remaining) * Power(2, k) <= Natural(x)

\* A number below the size of a word is its lowest word.
LEMMA BelowRadix ==
  ASSUME NEW n \in Nat \ {0}, NEW x \in WordSeq(n), Natural(x) < Radix
  PROVE  x[1] = Natural(x) /\ x[1] \in Words
  <1> SUFFICES ASSUME n # 1
               PROVE  x[1] = Natural(x) /\ x[1] \in Words
    BY OneWordFacts
  <1>1. PICK k \in Nat \ {0} : k + 1 = n
    <2>1. n - 1 \in Nat \ {0} /\ (n - 1) + 1 = n
      OBVIOUS
    <2>2. QED
      BY <2>1
  <1>2. /\ x[1] \in Words /\ x[1] \in Int /\ Window(x, 1, k) \in WordSeq(k)
        /\ Natural(x) = x[1] + Radix * Natural(Window(x, 1, k))
    BY <1>1, LowestWord
  <1>3. PICK U \in Nat, w \in Nat, R \in Nat :
          U = Natural(Window(x, 1, k)) /\ w = x[1] /\ R = Radix /\ Natural(x) = w + R * U
    <2>1. Natural(Window(x, 1, k)) \in 0 .. Size(k) - 1
      BY <1>2, NumberFacts
    <2>2. Size(k) \in Nat
      BY SizeStep
    <2>3. Radix \in Nat
      BY RadixFacts
    <2>4. x[1] \in Nat
      BY <1>2, <2>3 DEF Words
    <2>5. Natural(Window(x, 1, k)) \in Nat
      BY <2>1, <2>2
    <2>6. QED
      BY <1>2, <2>3, <2>4, <2>5
  <1>4. U = 0
    <2>1. ASSUME U # 0 PROVE FALSE
      <3>1. PICK j \in Nat : U = j + 1
        <4>1. U - 1 \in Nat /\ U = (U - 1) + 1
          BY <2>1
        <4>2. QED
          BY <4>1
      <3>2. R * U = R * j + R /\ R * j \in Nat
        BY <3>1
      <3>3. QED
        BY <1>3, <3>2
    <2>2. QED
      BY <2>1
  <1>5. QED
    BY <1>2, <1>3, <1>4

\* What one division by the base makes of a.
TakesDigit(n, base, a, b) ==
  \E Q \in Nat, R \in Nat :
    /\ b = [remaining |-> b.remaining, digits |-> <<R>> \o a.digits]
    /\ b.remaining \in WordSeq(n) /\ Natural(b.remaining) = Q
    /\ R < base /\ R \in Words
    /\ Natural(a.remaining) = Q * base + R

\* NextDigit divides by the base and puts the remainder in front.
LEMMA NextDigitDivides ==
  ASSUME NEW n \in {2, 4}, NEW base \in Words, base >= 2, NEW a \in DigitStates(n)
  PROVE  /\ Natural(a.remaining) = 0 => NextDigit(a, base) = a
         /\ Natural(a.remaining) # 0 => TakesDigit(n, base, a, NextDigit(a, base))
  <1>1. a.remaining \in WordSeq(n) /\ a.digits \in Seq(Words) /\ n \in Nat \ {0}
    BY DEF DigitStates
  <1>2. a.remaining = Zero(a.remaining) <=> Natural(a.remaining) = 0
    BY <1>1, SignedZero
  <1>3. ASSUME Natural(a.remaining) = 0 PROVE NextDigit(a, base) = a
    BY <1>2, <1>3, Zenon DEF NextDigit
  <1>4. ASSUME Natural(a.remaining) # 0 PROVE TakesDigit(n, base, a, NextDigit(a, base))
    <2>1. Len(a.remaining) = n
      BY <1>1 DEF WordSeq
    <2>2. PICK d : d = divmod(a.remaining, Small(base, n))
      OBVIOUS
    <2>3. NextDigit(a, base) = [remaining |-> d.quotient, digits |-> <<d.remainder[1]>> \o a.digits]
      BY <1>2, <1>4, <2>1, <2>2, Zenon DEF NextDigit
    <2>4. Small(base, n) \in WordSeq(n) /\ Natural(Small(base, n)) = base
      BY <1>1, SmallIs
    <2>5. Natural(Small(base, n)) # 0
      BY <2>4
    <2>6. Divides(n, a.remaining, Small(base, n), d)
      BY <1>1, <2>2, <2>4, <2>5, DivmodIs
    <2>7. /\ d.quotient \in WordSeq(n) /\ d.remainder \in WordSeq(n)
          /\ Natural(d.remainder) < base
          /\ Natural(a.remaining) = Natural(d.quotient) * base + Natural(d.remainder)
      BY <2>4, <2>6 DEF Divides, DivisionStates
    <2>8. PICK Q \in Nat, R \in Nat : Q = Natural(d.quotient) /\ R = Natural(d.remainder)
      <3>1. Natural(d.quotient) \in 0 .. Size(n) - 1
        BY <1>1, <2>7, NumberFacts
      <3>2. Natural(d.remainder) \in 0 .. Size(n) - 1
        BY <1>1, <2>7, NumberFacts
      <3>3. Size(n) \in Nat
        BY <1>1, SizeStep
      <3>4. QED
        BY <3>1, <3>2, <3>3
    <2>9. base \in Int /\ base < Radix
      BY RadixFacts DEF Words
    <2>10. Natural(d.remainder) < Radix
      <3>1. R < base
        BY <2>7, <2>8
      <3>2. Radix \in Int
        BY RadixFacts
      <3>3. QED
        BY <2>8, <2>9, <3>1, <3>2
    <2>11. d.remainder[1] = R /\ R \in Words
      BY <2>7, <2>8, <2>10, BelowRadix
    <2>12. PICK b : b = NextDigit(a, base)
      OBVIOUS
    <2>13. b = [remaining |-> d.quotient, digits |-> <<R>> \o a.digits]
      BY <2>3, <2>11, <2>12, Zenon
    <2>14. b.remaining = d.quotient
      BY <2>13
    <2>15. R < base /\ Natural(a.remaining) = Q * base + R
      BY <2>7, <2>8
    <2>16. TakesDigit(n, base, a, b)
      BY <2>7, <2>8, <2>11, <2>13, <2>14, <2>15 DEF TakesDigit
    <2>17. QED
      BY <2>12, <2>16
  <1>5. QED
    BY <1>3, <1>4

\* A division takes a digit off what remains.
LEMMA NextDigitIs ==
  ASSUME NEW n \in {2, 4}, NEW x \in WordSeq(n), NEW base \in Words, base >= 2,
         NEW k \in Nat, NEW a, Digits(n, x, base, a, k)
  PROVE  Digits(n, x, base, NextDigit(a, base), k + 1)
  <1>1. a \in DigitStates(n)
    BY DEF Digits
  <1>2. a.remaining \in WordSeq(n) /\ a.digits \in Seq(Words) /\ n \in Nat \ {0}
    BY <1>1 DEF DigitStates
  <1>3. PICK N \in Nat, M \in Nat : N = Natural(a.remaining) /\ M = Natural(x)
    <2>1. Natural(a.remaining) \in 0 .. Size(n) - 1
      BY <1>2, NumberFacts
    <2>2. Natural(x) \in 0 .. Size(n) - 1
      BY <1>2, NumberFacts
    <2>3. Size(n) \in Nat
      BY <1>2, SizeStep
    <2>4. QED
      BY <2>1, <2>2, <2>3
  <1>4. PICK p \in Nat : p = Power(2, k) /\ Power(2, k + 1) = 2 * p
    <2>1. Power(2, k) \in Nat \ {0}
      BY PowerPositive, 2 \in Nat \ {0}
    <2>2. Power(2, k + 1) = 2 * Power(2, k)
      BY PowerStep, 2 \in Int
    <2>3. QED
      BY <2>1, <2>2
  <1>5. N * p <= M
    BY <1>3, <1>4 DEF Digits
  <1>6. CASE N = 0
    <2>1. NextDigit(a, base) = a
      BY <1>1, <1>3, <1>6, NextDigitDivides
    <2>2. Natural(a.remaining) * Power(2, k + 1) <= Natural(x)
      <3>1. 0 * (2 * p) = 0 /\ 0 <= M
        OBVIOUS
      <3>2. QED
        BY <1>3, <1>4, <1>6, <3>1
    <2>3. Digits(n, x, base, a, k + 1)
      BY <2>2 DEF Digits
    <2>4. QED
      BY <2>1, <2>3
  <1>7. CASE N # 0
    <2>1. PICK b : b = NextDigit(a, base) /\ TakesDigit(n, base, a, b)
      BY <1>1, <1>3, <1>7, NextDigitDivides
    <2>2. PICK Q \in Nat, R \in Nat :
            /\ b = [remaining |-> b.remaining, digits |-> <<R>> \o a.digits]
            /\ b.remaining \in WordSeq(n) /\ Natural(b.remaining) = Q
            /\ R < base /\ R \in Words
            /\ Natural(a.remaining) = Q * base + R
      BY <2>1 DEF TakesDigit
    <2>3. PICK s, t : s = a.digits /\ t = <<R>> \o s /\ s \in Seq(Words)
      BY <1>2
    <2>4. b.digits = t
      BY <2>2, <2>3
    <2>5. base \in Int /\ base \in Nat
      BY RadixFacts DEF Words
    <2>6. /\ Positional(s, base) \in Int
          /\ Positional(t, base) = R * Power(base, Len(s)) + Positional(s, base)
          /\ Prepended(R, s, t)
      BY <2>2, <2>3, <2>5, PositionalFirst
    <2>7. /\ t \in Seq(Words) /\ Len(t) = Len(s) + 1
          /\ t[1] = R /\ \A i \in 1 .. Len(s) : t[i + 1] = s[i]
      BY <2>6 DEF Prepended
    <2>8. b \in DigitStates(n)
      <3>1. PICK r : r = b.remaining
        OBVIOUS
      <3>2. b = [remaining |-> r, digits |-> t]
        BY <2>2, <2>3, <3>1, Zenon
      <3>3. r \in WordSeq(n) /\ t \in Seq(Words)
        BY <2>2, <2>7, <3>1
      <3>4. [remaining |-> r, digits |-> t] \in DigitStates(n)
        BY <3>3 DEF DigitStates
      <3>5. QED
        BY <3>2, <3>4, Zenon
    <2>9. PICK P \in Int, V \in Int :
            P = Power(base, Len(s)) /\ V = Positional(s, base) /\ Power(base, Len(s) + 1) = base * P
      <3>1. Len(s) \in Nat
        BY <2>3
      <3>2. Power(base, Len(s)) \in Int /\ Power(base, Len(s) + 1) = base * Power(base, Len(s))
        BY <2>5, <3>1, PowerStep
      <3>3. QED
        BY <2>6, <3>2
    <2>10. N = Q * base + R
      BY <1>3, <2>2
    <2>11. Natural(x) = Natural(b.remaining) * Power(base, Len(b.digits)) + Positional(b.digits, base)
      <3>1. M = N * P + V
        BY <1>3, <2>3, <2>9 DEF Digits
      <3>2. (Q * base + R) * P = Q * (base * P) + R * P
        BY <2>5
      <3>3. PICK g \in Int, w \in Int : g = Q * (base * P) /\ w = R * P
        BY <2>5
      <3>4. N * P = g + w
        BY <2>10, <3>2, <3>3
      <3>5. M = g + (w + V)
        BY <3>1, <3>3, <3>4
      <3>6. Positional(b.digits, base) = w + V
        BY <2>4, <2>6, <2>9, <3>3
      <3>7. Natural(b.remaining) * Power(base, Len(b.digits)) = g
        BY <2>2, <2>4, <2>7, <2>9, <3>3, Zenon
      <3>8. QED
        BY <1>3, <3>5, <3>6, <3>7
    <2>12. \A i \in 1 .. Len(b.digits) : b.digits[i] < base
      <3>1. ASSUME NEW i \in 1 .. Len(s) + 1 PROVE t[i] < base
        <4>1. CASE i = 1
          BY <2>2, <2>7, <4>1
        <4>2. CASE i # 1
          <5>1. PICK j \in 1 .. Len(s) : i = j + 1
            <6>1. Len(s) \in Nat
              BY <2>3
            <6>2. i - 1 \in 1 .. Len(s) /\ i = (i - 1) + 1
              BY <4>2, <6>1
            <6>3. QED
              BY <6>2
          <5>2. s[j] < base
            BY <2>3 DEF Digits
          <5>3. QED
            BY <2>7, <5>1, <5>2
        <4>3. QED
          BY <4>1, <4>2
      <3>2. QED
        BY <2>4, <2>7, <3>1
    <2>13. Natural(b.remaining) = 0 => b.digits[1] # 0
      <3>1. ASSUME Q = 0 PROVE R # 0
        <4>1. Q * base = 0
          BY <2>5, <3>1
        <4>2. QED
          BY <1>7, <2>10, <4>1
      <3>2. QED
        BY <2>2, <2>4, <2>7, <3>1
    <2>14. Natural(b.remaining) * Power(2, k + 1) <= Natural(x)
      <3>1. 2 * Q <= N
        <4>1. PICK j \in Nat : base = j + 2
          <5>1. base - 2 \in Nat /\ base = (base - 2) + 2
            BY <2>5
          <5>2. QED
            BY <5>1
        <4>2. Q * base = Q * j + 2 * Q /\ Q * j \in Nat
          BY <4>1
        <4>3. QED
          BY <2>10, <4>2
      <3>2. PICK j \in Nat : N = j + 2 * Q
        <4>1. N - 2 * Q \in Nat /\ N = (N - 2 * Q) + 2 * Q
          BY <3>1
        <4>2. QED
          BY <4>1
      <3>3. N * p = j * p + Q * (2 * p) /\ j * p \in Nat
        BY <3>2
      <3>4. PICK g \in Int : g = Q * (2 * p)
        OBVIOUS
      <3>5. g <= M
        BY <1>5, <3>3, <3>4
      <3>6. QED
        BY <1>3, <1>4, <2>2, <3>4, <3>5
    <2>15. Digits(n, x, base, b, k + 1)
      BY <2>8, <2>11, <2>12, <2>13, <2>14 DEF Digits
    <2>16. QED
      BY <2>1, <2>15
  <1>8. QED
    BY <1>6, <1>7

\* No digit is taken yet.
LEMMA NoDigits ==
  ASSUME NEW n \in {2, 4}, NEW x \in WordSeq(n), NEW base \in Words
  PROVE  Digits(n, x, base, [remaining |-> x, digits |-> <<>>], 0)
  <1> DEFINE a == [remaining |-> x, digits |-> <<>>]
  <1>1. a \in DigitStates(n) /\ a.remaining = x /\ a.digits = <<>> /\ Len(a.digits) = 0
    BY DEF DigitStates
  <1>2. base \in Int /\ n \in Nat \ {0}
    BY RadixFacts DEF Words
  <1>3. PICK N \in Int : N = Natural(x)
    BY <1>2, NumberFacts
  <1>4. Power(base, 0) = 1
    BY <1>2, PowerStep, 0 \in Nat
  <1>5. Power(2, 0) = 1
    BY PowerStep, 0 \in Nat, 2 \in Int
  <1>6. Positional(<<>>, base) = 0
    <2>1. <<>> \in Seq(Words) /\ Len(<<>>) = 0
      OBVIOUS
    <2>2. PICK f : ValuesOf(f, <<>>, base) /\ Positional(<<>>, base) = f[Len(<<>>)]
      BY <1>2, <2>1, PositionalValue
    <2>3. QED
      BY <2>1, <2>2 DEF ValuesOf
  <1> HIDE DEF a
  <1>7. Natural(x) = Natural(a.remaining) * Power(base, Len(a.digits)) + Positional(a.digits, base)
    <2>1. N = N * 1 + 0
      OBVIOUS
    <2>2. QED
      BY <1>1, <1>3, <1>4, <1>6, <2>1, Zenon
  <1>8. Natural(a.remaining) * Power(2, 0) <= Natural(x)
    <2>1. N * 1 <= N
      OBVIOUS
    <2>2. QED
      BY <1>1, <1>3, <1>5, <2>1, Zenon
  <1>9. \A i \in 1 .. Len(a.digits) : a.digits[i] < base
    BY <1>1
  <1>10. Digits(n, x, base, a, 0)
    BY <1>1, <1>7, <1>8, <1>9 DEF Digits
  <1>11. QED
    BY <1>10 DEF a

\* The digits s are those of x.
DigitsOf(x, base, s) ==
  /\ s \in Seq(Words) /\ Len(s) >= 1
  /\ \A i \in 1 .. Len(s) : s[i] < base
  /\ s[1] = 0 => Len(s) = 1
  /\ Positional(s, base) = Natural(x)

\* As many divisions as x has bits leave nothing.
LEMMA AllDigits ==
  ASSUME NEW n \in {2, 4}, NEW x \in WordSeq(n), NEW base \in Words, Natural(x) # 0,
         NEW a, Digits(n, x, base, a, n * WordBits)
  PROVE  DigitsOf(x, base, a.digits)
  <1>1. n \in Nat \ {0} /\ base \in Int
    BY RadixFacts DEF Words
  <1>2. a.remaining \in WordSeq(n) /\ a.digits \in Seq(Words)
    BY DEF Digits, DigitStates
  <1>3. PICK N \in Nat, M \in Nat, S \in Nat :
          N = Natural(a.remaining) /\ M = Natural(x) /\ S = Size(n) /\ M < S
    <2>1. Natural(a.remaining) \in 0 .. Size(n) - 1
      BY <1>1, <1>2, NumberFacts
    <2>2. Natural(x) \in 0 .. Size(n) - 1
      BY <1>1, NumberFacts
    <2>3. Size(n) \in Nat
      BY <1>1, SizeStep
    <2>4. QED
      BY <2>1, <2>2, <2>3
  <1>4. N * S <= M
    <2>1. Power(2, n * WordBits) = Size(n)
      BY <1>1, PowerSize
    <2>2. Natural(a.remaining) * Power(2, n * WordBits) <= Natural(x)
      BY DEF Digits
    <2>3. QED
      BY <1>3, <2>1, <2>2, Zenon
  <1>5. N = 0
    <2>1. ASSUME N # 0 PROVE FALSE
      <3>1. PICK j \in Nat : N = j + 1
        <4>1. N - 1 \in Nat /\ N = (N - 1) + 1
          BY <2>1
        <4>2. QED
          BY <4>1
      <3>2. N * S = j * S + S /\ j * S \in Nat
        BY <3>1
      <3>3. QED
        BY <1>3, <1>4, <3>2
    <2>2. QED
      BY <2>1
  <1>6. PICK s \in Seq(Words) : s = a.digits
    BY <1>2
  <1>7. Positional(s, base) = Natural(x) /\ Positional(s, base) \in Int
    <2>1. PICK P \in Int : P = Power(base, Len(s))
      <3>1. Len(s) \in Nat
        OBVIOUS
      <3>2. QED
        BY <1>1, <3>1, PowerStep
    <2>2. PICK V \in Int : V = Positional(s, base)
      <3>1. PICK f : ValuesOf(f, s, base) /\ Positional(s, base) = f[Len(s)]
        BY <1>1, PositionalValue
      <3>2. Len(s) \in 0 .. Len(s)
        OBVIOUS
      <3>3. QED
        BY <3>1, <3>2 DEF ValuesOf
    <2>3. M = N * P + V
      BY <1>3, <1>6, <2>1, <2>2, Zenon DEF Digits
    <2>4. N * P = 0
      BY <1>5
    <2>5. QED
      BY <1>3, <2>2, <2>3, <2>4
  <1>8. s # <<>>
    <2>1. ASSUME s = <<>> PROVE FALSE
      <3>1. PICK f : ValuesOf(f, s, base) /\ Positional(s, base) = f[Len(s)]
        BY <1>1, PositionalValue
      <3>2. Len(s) = 0
        BY <2>1
      <3>3. Positional(s, base) = 0
        BY <3>1, <3>2 DEF ValuesOf
      <3>4. QED
        BY <1>7, <3>3
    <2>2. QED
      BY <2>1
  <1>9. Len(s) >= 1
    BY <1>8
  <1>10. s[1] # 0
    BY <1>3, <1>5, <1>6, <1>8 DEF Digits
  <1>11. \A i \in 1 .. Len(s) : s[i] < base
    BY <1>6 DEF Digits
  <1>12. QED
    BY <1>6, <1>7, <1>9, <1>10, <1>11 DEF DigitsOf

\* to_digits writes the digits of its number.
LEMMA ToDigits ==
  ASSUME NEW n \in {2, 4}, NEW x \in WordSeq(n), NEW base \in Words, base >= 2
  PROVE  DigitsOf(x, base, to_digits(x, base))
  <1> DEFINE m == n * WordBits
             init == [remaining |-> x, digits |-> <<>>]
             F(f) == f = [k \in 0 .. m |-> IF k = 0 THEN init ELSE NextDigit(f[k - 1], base)]
             D == {c \in DigitStates(n) : \E k \in Nat : Digits(n, x, base, c, k)}
             step == [k \in 1 .. m |-> [c \in D |-> NextDigit(c, base)]]
             a == CHOOSE f : F(f)
  <1>1. Len(x) = n /\ n \in Nat \ {0} /\ m \in Nat
    BY WordBitsFacts, WordSeqFacts
  <1>2. Zero(x) \in WordSeq(n) /\ (x = Zero(x) <=> Natural(x) = 0)
    <2>1. Zero(x) \in WordSeq(n)
      BY <1>1, NaturalZero
    <2>2. QED
      BY <1>1, <2>1, SignedZero
  <1>3. CASE x = Zero(x)
    <2>1. to_digits(x, base) = <<0>>
      BY <1>3, Zenon DEF to_digits
    <2>2. 0 \in Words /\ base \in Int /\ 0 < base
      BY RadixFacts DEF Words
    <2>3. PICK s : s = <<0>>
      OBVIOUS
    <2>4. s \in Seq(Words) /\ Len(s) = 1 /\ s[1] = 0
      BY <2>2, <2>3
    <2>5. Positional(s, base) = 0
      <3>1. PICK f : ValuesOf(f, s, base) /\ Positional(s, base) = f[Len(s)]
        BY <2>2, <2>4, PositionalValue
      <3>2. 1 \in 1 .. Len(s) /\ 1 - 1 = 0
        BY <2>4
      <3>3. f[1] = f[0] * base + s[1] /\ f[0] = 0
        BY <3>1, <3>2 DEF ValuesOf
      <3>4. f[1] = 0
        BY <2>2, <2>4, <3>3
      <3>5. QED
        BY <2>4, <3>1, <3>4
    <2>6. \A i \in 1 .. Len(s) : s[i] < base
      BY <2>2, <2>4
    <2>7. DigitsOf(x, base, s)
      BY <1>2, <1>3, <2>4, <2>5, <2>6 DEF DigitsOf
    <2>8. QED
      BY <2>1, <2>3, <2>7
  <1>4. CASE x # Zero(x)
    <2>1. Digits(n, x, base, init, 0)
      BY NoDigits
    <2>2. init \in D
      BY <2>1, 0 \in Nat DEF Digits
    <2>3. \A c \in D : NextDigit(c, base) \in D
      <3>1. ASSUME NEW c \in D PROVE NextDigit(c, base) \in D
        <4>1. PICK k \in Nat : Digits(n, x, base, c, k)
          OBVIOUS
        <4>2. Digits(n, x, base, NextDigit(c, base), k + 1)
          BY <4>1, NextDigitIs
        <4>3. NextDigit(c, base) \in DigitStates(n)
          BY <4>2 DEF Digits
        <4>4. k + 1 \in Nat
          OBVIOUS
        <4>5. QED
          BY <4>2, <4>3, <4>4
      <3>2. QED
        BY <3>1
    <2> HIDE DEF init, D, m
    <2>4. \E g : Recursive(m, D, init, step, g)
      <3>1. step \in [1 .. m -> [D -> D]]
        BY <2>3
      <3> HIDE DEF step
      <3>2. QED
        BY <1>1, <2>2, <3>1, Recursion
    <2>5. PICK g : /\ g \in [0 .. m -> D] /\ g[0] = init
                   /\ \A k \in 1 .. m : g[k] = NextDigit(g[k - 1], base)
      <3>1. PICK g : Recursive(m, D, init, step, g)
        BY <2>4
      <3>2. \A k \in 1 .. m, c \in D : step[k][c] = NextDigit(c, base)
        OBVIOUS
      <3> HIDE DEF step
      <3>3. g \in [0 .. m -> D] /\ g[0] = init /\ \A k \in 1 .. m : g[k] = step[k][g[k - 1]]
        BY <3>1 DEF Recursive
      <3>4. \A k \in 1 .. m : g[k - 1] \in D
        BY <1>1, <3>3
      <3>5. ASSUME NEW k \in 1 .. m PROVE g[k] = NextDigit(g[k - 1], base)
        <4>1. g[k - 1] \in D /\ g[k] = step[k][g[k - 1]]
          BY <3>3, <3>4
        <4>2. step[k][g[k - 1]] = NextDigit(g[k - 1], base)
          BY <3>2, <4>1
        <4>3. QED
          BY <4>1, <4>2
      <3>6. QED
        BY <3>3, <3>5
    <2>6. F(g)
      <3>1. g = [k \in 0 .. m |-> g[k]]
        BY <2>5
      <3>2. \A k \in 0 .. m : g[k] = IF k = 0 THEN init ELSE NextDigit(g[k - 1], base)
        BY <1>1, <2>5
      <3>3. QED
        BY <3>1, <3>2, Zenon
    <2>7. to_digits(x, base) = a[m].digits
      BY <1>1, <1>4 DEF to_digits, m, init
    <2> HIDE DEF F
    <2>8. F(a)
      BY <2>6, Zenon
    <2> HIDE DEF a
    <2>9. a[0] = init /\ \A k \in 1 .. m : a[k] = NextDigit(a[k - 1], base)
      BY <1>1, <2>8 DEF F
    <2> DEFINE S == {k \in 0 .. m : Digits(n, x, base, a[k], k)}
    <2>10. 0 \in S
      BY <1>1, <2>1, <2>9
    <2>11. ASSUME NEW k \in 1 .. m, k - 1 \in S PROVE k \in S
      <3>1. PICK j \in Nat : j = k - 1 /\ k = j + 1
        BY <1>1
      <3>2. Digits(n, x, base, a[j], j)
        BY <2>11, <3>1
      <3>3. Digits(n, x, base, NextDigit(a[j], base), j + 1)
        BY <3>2, NextDigitIs
      <3>4. a[k] = NextDigit(a[j], base)
        BY <2>9, <3>1
      <3>5. Digits(n, x, base, a[k], k)
        BY <3>1, <3>3, <3>4, Zenon
      <3>6. QED
        BY <1>1, <3>5
    <2> HIDE DEF S
    <2>12. \A k \in 0 .. m : k \in S
      BY <1>1, <2>10, <2>11, UpTo
    <2>13. Digits(n, x, base, a[m], m)
      <3>1. m \in S
        BY <1>1, <2>12
      <3>2. QED
        BY <3>1 DEF S
    <2>14. DigitsOf(x, base, a[m].digits)
      BY <1>2, <1>4, <2>13, AllDigits DEF m
    <2>15. QED
      BY <2>7, <2>14
  <1>5. QED
    BY <1>3, <1>4

\* The bases are words.
LEMMA LargeRadix ==
  \A base \in {8, 10} : base \in Words /\ base >= 2
  <1>1. PICK k \in Nat : WordBits = 4 + k
    <2>1. WordBits - 4 \in Nat /\ WordBits = 4 + (WordBits - 4)
      BY WordBitsAssumption, BasesAssumption
    <2>2. QED
      BY <2>1
  <1>2. Power(2, 4 + k) = Power(2, 4) * Power(2, k)
    BY PowerSum, 2 \in Int, 4 \in Nat
  <1>3. PICK p \in Nat \ {0} : p = Power(2, k)
    BY PowerPositive, 2 \in Nat \ {0}
  <1>4. Power(2, 4) = 16
    <2>1. Power(2, 0) = 1 /\ Power(2, 0 + 1) = 2 * Power(2, 0)
      BY PowerStep, 2 \in Int, 0 \in Nat
    <2>2. Power(2, 1 + 1) = 2 * Power(2, 1)
      BY PowerStep, 2 \in Int, 1 \in Nat
    <2>3. Power(2, 2 + 1) = 2 * Power(2, 2)
      BY PowerStep, 2 \in Int, 2 \in Nat
    <2>4. Power(2, 3 + 1) = 2 * Power(2, 3)
      BY PowerStep, 2 \in Int, 3 \in Nat
    <2>5. Power(2, 1) = 2
      BY <2>1
    <2>6. Power(2, 2) = 4
      BY <2>2, <2>5
    <2>7. Power(2, 3) = 8
      BY <2>3, <2>6
    <2>8. QED
      BY <2>4, <2>7
  <1>5. Radix = 16 * p
    BY <1>1, <1>2, <1>3, <1>4 DEF Radix
  <1>6. QED
    BY <1>5 DEF Words

\* The digits of a number, and what is read from them.
Printed(n, x, base, s) ==
  /\ from_digits(s, base, n) = x
  /\ \A i \in 1 .. Len(s) : s[i] < base
  /\ s[1] = 0 => Len(s) = 1
  /\ Positional(s, base) = Natural(x)

\* The digits that are printed are the number's, and are read back as the number.
LEMMA DigitsAre ==
  ASSUME NEW n \in {2, 4}, NEW x \in WordSeq(n), NEW base \in {8, 10}
  PROVE  Printed(n, x, base, to_digits(x, base))
  <1>1. base \in Words /\ base >= 2
    BY LargeRadix
  <1>2. PICK s : s = to_digits(x, base)
    OBVIOUS
  <1>3. DigitsOf(x, base, s)
    BY <1>1, <1>2, ToDigits
  <1>4. s \in Seq(Words) /\ Positional(s, base) = Natural(x)
    BY <1>3 DEF DigitsOf
  <1>5. from_digits(s, base, n) = x
    BY <1>1, <1>4, ReadBack
  <1>6. QED
    BY <1>2, <1>3, <1>5 DEF DigitsOf, Printed
=============================================================================
