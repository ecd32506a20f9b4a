------------------------ MODULE AddressMapping_proof ------------------------
(***************************************************************************)
(* What AddressMapping computes, for every geometry, scheme, size of the   *)
(* memory and address.                                                     *)
(*                                                                         *)
(* Powers of two and the parts shifted off an address are functions        *)
(* defined by recursion.  That the functions exist, and what they satisfy  *)
(* for every argument, is shown by least counterexamples.                  *)
(***************************************************************************)
EXTENDS AddressScheme, WellFoundedInduction, TLAPS

-----------------------------------------------------------------------------
(* Recursion and induction on the natural numbers                          *)

LEMMA LeastElement ==
    ASSUME NEW T, T \subseteq Nat, T # {}
    PROVE  \E x \in T : \A y \in T : x <= y
<1>1. IsWellFoundedOn(OpToRel(<, Nat), Nat)
  BY NatLessThanWellFounded
<1>2. PICK x \in T : \A y \in T : ~ (<<y, x>> \in OpToRel(<, Nat))
  BY <1>1, WFMin
<1>3. ASSUME NEW y \in T PROVE x <= y
  <2>1. y \in Nat /\ x \in Nat
    OBVIOUS
  <2>2. <<y, x>> \in OpToRel(<, Nat) <=> y < x
    BY <2>1 DEF OpToRel
  <2>3. ~ (y < x)
    BY <1>2, <2>2
  <2> QED
    BY <2>1, <2>3
<1> QED
  BY <1>3

\* A set that has 0 and, with every number, the next has them all.
LEMMA Induction ==
    ASSUME NEW S, 0 \in S, \A n \in Nat : n \in S => n + 1 \in S
    PROVE  Nat \subseteq S
<1> SUFFICES ASSUME NEW m \in Nat, m \notin S PROVE FALSE
  OBVIOUS
<1> DEFINE Missing == {n \in Nat : n \notin S}
<1>1. Missing \subseteq Nat /\ Missing # {}
  OBVIOUS
<1>2. PICK k \in Missing : \A y \in Missing : k <= y
  <2> HIDE DEF Missing
  <2> QED
    BY <1>1, LeastElement
<1>3. k \in Nat /\ k \notin S /\ k # 0
  OBVIOUS
<1>4. k - 1 \in Nat /\ k - 1 \notin Missing /\ (k - 1) + 1 = k
  BY <1>2, <1>3
<1>5. k - 1 \in S
  BY <1>4
<1> QED
  BY <1>3, <1>4, <1>5

IsRecursive(f, n, first, step) ==
    \A k \in 0 .. n : f[k] = IF k = 0 THEN first ELSE step[k][f[k - 1]]

\* A function on an interval may be defined by recursion.
LEMMA FiniteRecursion ==
    ASSUME NEW V, NEW first \in V, NEW m \in Nat, NEW step \in [1 .. m -> [V -> V]]
    PROVE  \E f \in [0 .. m -> V] : IsRecursive(f, m, first, step)
<1> DEFINE Exists(n) == \E f \in [0 .. n -> V] : IsRecursive(f, n, first, step)
           S == {n \in Nat : n <= m => Exists(n)}
<1>1. Exists(0)
  <2> DEFINE g == [k \in 0 .. 0 |-> first]
  <2>1. g \in [0 .. 0 -> V] /\ IsRecursive(g, 0, first, step)
    BY DEF IsRecursive
  <2> QED
    BY <2>1
<1>2. ASSUME NEW n \in Nat, n + 1 <= m, Exists(n) PROVE Exists(n + 1)
  <2>1. PICK f \in [0 .. n -> V] : IsRecursive(f, n, first, step)
    BY <1>2
  <2> DEFINE g == [k \in 0 .. n + 1 |-> IF k = n + 1 THEN step[k][f[n]] ELSE f[k]]
  <2>2. g \in [0 .. n + 1 -> V]
    <3>1. f[n] \in V /\ n + 1 \in 1 .. m
      BY <1>2
    <3>2. step[n + 1][f[n]] \in V
      BY <3>1
    <3>3. \A k \in 0 .. n + 1 : k # n + 1 => f[k] \in V
      OBVIOUS
    <3> QED
      BY <3>2, <3>3
  <2>3. ASSUME NEW k \in 0 .. n + 1
        PROVE  g[k] = IF k = 0 THEN first ELSE step[k][g[k - 1]]
    <3>1. CASE k = 0
      BY <3>1, <2>1 DEF IsRecursive
    <3>2. CASE k = n + 1
      BY <3>2
    <3>3. CASE k # 0 /\ k # n + 1
      <4>1. k \in 0 .. n /\ k - 1 \in 0 .. n + 1 /\ k - 1 # n + 1
        BY <3>3
      <4>2. g[k] = f[k] /\ g[k - 1] = f[k - 1]
        BY <4>1, <3>3
      <4> QED
        BY <4>1, <4>2, <2>1, <3>3 DEF IsRecursive
    <3> QED
      BY <3>1, <3>2, <3>3
  <2>4. IsRecursive(g, n + 1, first, step)
    BY <2>3 DEF IsRecursive
  <2> QED
    BY <2>2, <2>4
<1>3. Nat \subseteq S
  <2>1. 0 \in S
    BY <1>1
  <2>2. \A n \in Nat : n \in S => n + 1 \in S
    <3> HIDE DEF Exists
    <3> QED
      BY <1>2
  <2> HIDE DEF S
  <2> QED
    BY <2>1, <2>2, Induction
<1>4. Exists(m)
  BY <1>3
<1> QED
  BY <1>4

\* The recursion leaves no choice.
LEMMA RecursionUnique ==
    ASSUME NEW V, NEW first, NEW step,
           NEW n \in Nat, NEW f, IsRecursive(f, n, first, step),
           NEW m \in Nat, NEW g, IsRecursive(g, m, first, step)
    PROVE  \A k \in Nat : k <= n /\ k <= m => f[k] = g[k]
<1> DEFINE S == {k \in Nat : k <= n /\ k <= m => f[k] = g[k]}
<1>1. 0 \in S
  BY DEF IsRecursive
<1>2. ASSUME NEW k \in Nat, k \in S PROVE k + 1 \in S
  <2> SUFFICES ASSUME k + 1 <= n, k + 1 <= m PROVE f[k + 1] = g[k + 1]
    OBVIOUS
  <2>1. f[k] = g[k] /\ k + 1 \in 0 .. n /\ k + 1 \in 0 .. m /\ k + 1 # 0 /\ (k + 1) - 1 = k
    BY <1>2
  <2>2. f[k + 1] = step[k + 1][f[k]] /\ g[k + 1] = step[k + 1][g[k]]
    BY <2>1 DEF IsRecursive
  <2> QED
    BY <2>1, <2>2
<1>3. Nat \subseteq S
  <2> HIDE DEF S
  <2> QED
    BY <1>1, <1>2, Induction
<1> QED
  BY <1>3

\* And so may a function on the natural numbers.
HasRecursive(V, first, step) ==
    \E f \in [Nat -> V] :
        f[0] = first /\ \A n \in Nat : n # 0 => f[n] = step[n][f[n - 1]]

LEMMA NatRecursion ==
    ASSUME NEW V, NEW first \in V, NEW step \in [Nat -> [V -> V]]
    PROVE  HasRecursive(V, first, step)
<1> DEFINE At(n) == CHOOSE f \in [0 .. n -> V] : IsRecursive(f, n, first, step)
           F == [n \in Nat |-> At(n)[n]]
<1>1. ASSUME NEW n \in Nat
      PROVE  At(n) \in [0 .. n -> V] /\ IsRecursive(At(n), n, first, step)
  <2> DEFINE part == [k \in 1 .. n |-> step[k]]
  <2>1. part \in [1 .. n -> [V -> V]]
    OBVIOUS
  <2>2. ASSUME NEW f PROVE IsRecursive(f, n, first, part) <=> IsRecursive(f, n, first, step)
    <3>1. \A k \in 0 .. n : k # 0 => part[k] = step[k]
      OBVIOUS
    <3> HIDE DEF part
    <3> QED
      BY <3>1 DEF IsRecursive
  <2>3. \E f \in [0 .. n -> V] : IsRecursive(f, n, first, part)
    <3> HIDE DEF part
    <3> QED
      BY <2>1, FiniteRecursion
  <2>4. \E f \in [0 .. n -> V] : IsRecursive(f, n, first, step)
    BY <2>2, <2>3
  <2> QED
    BY <2>4
<1> HIDE DEF At
<1>2. ASSUME NEW n \in Nat PROVE F[n] = At(n)[n] /\ F[n] \in V
  BY <1>1
<1>3. F = [n \in Nat |-> F[n]]
  OBVIOUS
<1> HIDE DEF F
<1>4. F[0] = first
  BY <1>1, <1>2 DEF IsRecursive
<1>5. ASSUME NEW n \in Nat, n # 0 PROVE F[n] = step[n][F[n - 1]]
  <2>1. n - 1 \in Nat /\ n - 1 \in 0 .. n /\ n \in 0 .. n
    BY <1>5
  <2>2. At(n)[n] = step[n][At(n)[n - 1]]
    BY <1>1, <2>1, <1>5 DEF IsRecursive
  <2>3. At(n)[n - 1] = At(n - 1)[n - 1]
    <3>1. IsRecursive(At(n), n, first, step) /\ IsRecursive(At(n - 1), n - 1, first, step)
      BY <1>1, <2>1
    <3>2. \A k \in Nat : k <= n /\ k <= n - 1 => At(n)[k] = At(n - 1)[k]
      BY <3>1, <2>1, RecursionUnique
    <3> QED
      BY <3>2, <2>1
  <2> QED
    BY <2>1, <2>2, <2>3, <1>2
<1>6. F \in [Nat -> V]
  BY <1>2, <1>3
<1> QED
  BY <1>4, <1>5, <1>6 DEF HasRecursive

-----------------------------------------------------------------------------
(* Powers of two                                                           *)

LEMMA PowerRecursion ==
    /\ PowerOf2 \in [Nat -> Int]
    /\ PowerOf2[0] = 1
    /\ \A n \in Nat : PowerOf2[n + 1] = 2 * PowerOf2[n]
<1> DEFINE step == [n \in Nat |-> [v \in Int |-> 2 * v]]
<1>1. step \in [Nat -> [Int -> Int]]
  OBVIOUS
<1>2. PICK f \in [Nat -> Int] :
             f[0] = 1 /\ \A n \in Nat : n # 0 => f[n] = step[n][f[n - 1]]
  <2> HIDE DEF step
  <2>1. 1 \in Int
    OBVIOUS
  <2>2. HasRecursive(Int, 1, step)
    BY <1>1, <2>1, NatRecursion, Zenon
  <2> QED
    BY <2>2 DEF HasRecursive
<1>3. ASSUME NEW n \in Nat, n # 0 PROVE f[n] = 2 * f[n - 1]
  <2>1. step[n][f[n - 1]] = 2 * f[n - 1]
    BY <1>3
  <2> HIDE DEF step
  <2> QED
    BY <1>2, <1>3, <2>1
<1>4. f = [n \in Nat |-> IF n = 0 THEN 1 ELSE 2 * f[n - 1]]
  <2> HIDE DEF step
  <2>1. \A n \in Nat : f[n] = IF n = 0 THEN 1 ELSE 2 * f[n - 1]
    BY <1>2, <1>3
  <2>2. f = [n \in Nat |-> f[n]]
    OBVIOUS
  <2> QED
    BY <2>1, <2>2
<1>5. PowerOf2 = CHOOSE g : g = [n \in Nat |-> IF n = 0 THEN 1 ELSE 2 * g[n - 1]]
  BY DEF PowerOf2
<1>6. PowerOf2 = [n \in Nat |-> IF n = 0 THEN 1 ELSE 2 * PowerOf2[n - 1]]
  BY <1>4, <1>5
<1> HIDE DEF step
<1>7. \A n \in Nat : PowerOf2[n] = IF n = 0 THEN 1 ELSE 2 * PowerOf2[n - 1]
  BY <1>6
<1>8. PowerOf2 \in [Nat -> Int]
  <2> DEFINE S == {n \in Nat : PowerOf2[n] \in Int}
  <2>1. 0 \in S
    BY <1>7
  <2>2. ASSUME NEW n \in Nat, n \in S PROVE n + 1 \in S
    <3>1. PowerOf2[n + 1] = 2 * PowerOf2[n]
      BY <1>7
    <3> QED
      BY <2>2, <3>1
  <2>3. Nat \subseteq S
    <3> HIDE DEF S
    <3> QED
      BY <2>1, <2>2, Induction
  <2>4. \A n \in Nat : PowerOf2[n] \in Int
    BY <2>3
  <2>5. PowerOf2 = [n \in Nat |-> PowerOf2[n]]
    BY <1>6
  <2> QED
    BY <2>4, <2>5
<1> QED
  BY <1>7, <1>8

LEMMA PowerPositive == \A n \in Nat : PowerOf2[n] \in Nat /\ PowerOf2[n] > n
<1> DEFINE S == {n \in Nat : PowerOf2[n] \in Nat /\ PowerOf2[n] > n}
<1>1. 0 \in S
  BY PowerRecursion
<1>2. ASSUME NEW n \in Nat, n \in S PROVE n + 1 \in S
  BY <1>2, PowerRecursion
<1>3. Nat \subseteq S
  <2> HIDE DEF S
  <2> QED
    BY <1>1, <1>2, Induction
<1> QED
  BY <1>3

LEMMA PowerSum ==
    ASSUME NEW m \in Nat, NEW n \in Nat
    PROVE  PowerOf2[m + n] = PowerOf2[m] * PowerOf2[n]
<1> DEFINE S == {k \in Nat : PowerOf2[m + k] = PowerOf2[m] * PowerOf2[k]}
<1>1. 0 \in S
  <2>1. m + 0 = m /\ PowerOf2[m] \in Nat
    BY PowerPositive
  <2> QED
    BY <2>1, PowerRecursion
<1>2. ASSUME NEW k \in Nat, k \in S PROVE k + 1 \in S
  <2> DEFINE a == PowerOf2[m]
             b == PowerOf2[k]
  <2>1. a \in Nat /\ b \in Nat
    BY PowerPositive
  <2>2. PowerOf2[m + (k + 1)] = 2 * PowerOf2[m + k]
    <3>1. m + (k + 1) = (m + k) + 1 /\ m + k \in Nat
      OBVIOUS
    <3> QED
      BY <3>1, PowerRecursion
  <2>3. PowerOf2[m + k] = a * b
    BY <1>2
  <2>4. PowerOf2[k + 1] = 2 * b
    BY PowerRecursion
  <2> HIDE DEF a, b
  <2>5. 2 * (a * b) = a * (2 * b)
    BY <2>1
  <2>6. PowerOf2[m + (k + 1)] = a * PowerOf2[k + 1]
    BY <2>2, <2>3, <2>4, <2>5
  <2> QED
    BY <2>6 DEF a
<1>3. Nat \subseteq S
  <2> HIDE DEF S
  <2> QED
    BY <1>1, <1>2, Induction
<1> QED
  BY <1>3

LEMMA PowerGrows ==
    ASSUME NEW m \in Nat, NEW n \in Nat
    PROVE  m < n <=> PowerOf2[m] < PowerOf2[n]
<1>1. ASSUME NEW i \in Nat, NEW j \in Nat, i < j PROVE PowerOf2[i] < PowerOf2[j]
  <2> DEFINE S == {k \in Nat : PowerOf2[i] < PowerOf2[i + (k + 1)]}
  <2>1. 0 \in S
    <3>1. i + (0 + 1) = i + 1
      OBVIOUS
    <3> QED
      BY <3>1, PowerRecursion, PowerPositive
  <2>2. ASSUME NEW k \in Nat, k \in S PROVE k + 1 \in S
    <3>1. i + ((k + 1) + 1) = (i + (k + 1)) + 1 /\ i + (k + 1) \in Nat
      OBVIOUS
    <3>2. PowerOf2[i + ((k + 1) + 1)] = 2 * PowerOf2[i + (k + 1)]
      BY <3>1, PowerRecursion
    <3>3. PowerOf2[i] < PowerOf2[i + (k + 1)]
      BY <2>2
    <3>4. PowerOf2[i] \in Nat /\ PowerOf2[i + (k + 1)] \in Nat
      BY <3>1, PowerPositive
    <3>5. PowerOf2[i] < PowerOf2[i + ((k + 1) + 1)]
      BY <3>2, <3>3, <3>4
    <3> QED
      BY <3>5
  <2>3. Nat \subseteq S
    <3> HIDE DEF S
    <3> QED
      BY <2>1, <2>2, Induction
  <2>4. j - i - 1 \in Nat /\ i + ((j - i - 1) + 1) = j
    BY <1>1
  <2>5. j - i - 1 \in S
    BY <2>3, <2>4
  <2> QED
    BY <2>4, <2>5
<1>2. CASE m < n
  BY <1>2, <1>1
<1>3. CASE n < m
  BY <1>3, <1>1, PowerPositive
<1>4. CASE m = n
  BY <1>4, PowerPositive
<1> QED
  BY <1>2, <1>3, <1>4

-----------------------------------------------------------------------------
(* Logarithms                                                              *)

LEMMA HighestBitUnique ==
    ASSUME NEW value \in Nat, NEW m \in Nat, NEW n \in Nat,
           PowerOf2[m] <= value, value < PowerOf2[m + 1],
           PowerOf2[n] <= value, value < PowerOf2[n + 1]
    PROVE  m = n
<1>1. PowerOf2[m] \in Nat /\ PowerOf2[m + 1] \in Nat
      /\ PowerOf2[n] \in Nat /\ PowerOf2[n + 1] \in Nat
  BY PowerPositive
<1>2. m < n + 1
  BY <1>1, PowerGrows
<1>3. n < m + 1
  BY <1>1, PowerGrows
<1> QED
  BY <1>2, <1>3

LEMMA HighestBitExists ==
    ASSUME NEW value \in Nat, value # 0
    PROVE  \E n \in Nat : PowerOf2[n] <= value /\ value < PowerOf2[n + 1]
<1> DEFINE Above == {n \in Nat : value < PowerOf2[n]}
<1>1. value \in Above
  BY PowerPositive
<1>2. PICK k \in Above : \A y \in Above : k <= y
  <2>1. Above \subseteq Nat /\ Above # {}
    BY <1>1
  <2> HIDE DEF Above
  <2> QED
    BY <2>1, LeastElement
<1>3. k \in Nat /\ value < PowerOf2[k]
  OBVIOUS
<1>4. k # 0
  BY <1>3, PowerRecursion
<1>5. k - 1 \in Nat /\ k - 1 \notin Above /\ (k - 1) + 1 = k
  BY <1>2, <1>3, <1>4
<1>6. PowerOf2[k - 1] \in Nat
  BY <1>5, PowerPositive
<1>7. PowerOf2[k - 1] <= value
  BY <1>5, <1>6
<1> QED
  BY <1>3, <1>5, <1>7

LEMMA HighestBitProperty ==
    ASSUME AddressAssumption, NEW value \in Nat, value < PowerOf2[2 * UINT_BITS]
    PROVE  /\ HighestBit(value) \in 0 .. 2 * UINT_BITS - 1
           /\ value = 0 => HighestBit(value) = 0
           /\ value # 0 =>
                 /\ PowerOf2[HighestBit(value)] <= value
                 /\ value < PowerOf2[HighestBit(value) + 1]
<1>1. UINT_BITS \in Nat /\ UINT_BITS >= 8
  BY DEF AddressAssumption
<1>2. CASE value = 0
  BY <1>1, <1>2 DEF HighestBit
<1>3. CASE value # 0
  <2>1. PICK n \in Nat : PowerOf2[n] <= value /\ value < PowerOf2[n + 1]
    BY <1>3, HighestBitExists
  <2>2. n < 2 * UINT_BITS
    <3>1. PowerOf2[n] \in Nat /\ PowerOf2[2 * UINT_BITS] \in Nat /\ 2 * UINT_BITS \in Nat
      BY <1>1, PowerPositive
    <3>2. PowerOf2[n] < PowerOf2[2 * UINT_BITS]
      BY <2>1, <3>1
    <3> QED
      BY <3>1, <3>2, PowerGrows
  <2>3. n \in 0 .. 2 * UINT_BITS - 1
    BY <1>1, <2>2
  <2>4. \E k \in 0 .. 2 * UINT_BITS - 1 : PowerOf2[k] <= value /\ value < PowerOf2[k + 1]
    BY <2>1, <2>3
  <2>5. HighestBit(value) =
          CHOOSE k \in 0 .. 2 * UINT_BITS - 1 : PowerOf2[k] <= value /\ value < PowerOf2[k + 1]
    BY <1>3 DEF HighestBit
  <2> QED
    BY <2>4, <2>5, <1>3
<1> QED
  BY <1>2, <1>3

LEMMA HighestBitIs ==
    ASSUME AddressAssumption, NEW value \in Nat, value < PowerOf2[2 * UINT_BITS],
           NEW n \in Nat, PowerOf2[n] <= value, value < PowerOf2[n + 1]
    PROVE  HighestBit(value) = n
<1>1. value # 0
  BY PowerPositive
<1>2. /\ HighestBit(value) \in Nat
      /\ PowerOf2[HighestBit(value)] <= value /\ value < PowerOf2[HighestBit(value) + 1]
  BY <1>1, HighestBitProperty
<1> QED
  BY <1>2, HighestBitUnique

LEMMA log2Type ==
    ASSUME AddressAssumption, NEW value \in Nat, value < PowerOf2[2 * UINT_BITS]
    PROVE  log2(value) \in Nat
<1>1. HighestBit(value) \in Nat
  BY HighestBitProperty
<1> QED
  BY <1>1 DEF log2

LEMMA log2_64Type ==
    ASSUME AddressAssumption, NEW value \in Nat, value < PowerOf2[2 * UINT_BITS]
    PROVE  log2_64(value) \in 0 .. 2 * UINT_BITS
<1>1. HighestBit(value) \in 0 .. 2 * UINT_BITS - 1 /\ UINT_BITS \in Nat
  BY HighestBitProperty DEF AddressAssumption
<1>2. log2_64(value) = HighestBit(value) + 1 \/ log2_64(value) = HighestBit(value)
  BY DEF log2_64
<1> QED
  BY <1>1, <1>2

\* The logarithm of what the parts of the geometry are: powers.
LEMMA log2OfPower ==
    ASSUME AddressAssumption, NEW n \in 0 .. UINT_BITS
    PROVE  log2(PowerOf2[n]) = n
<1>1. UINT_BITS \in Nat /\ UINT_BITS >= 8
  BY DEF AddressAssumption
<1>2. n \in Nat /\ n < 2 * UINT_BITS /\ n < n + 1 /\ 2 * UINT_BITS \in Nat
  BY <1>1
<1>3. PowerOf2[n] \in Nat /\ PowerOf2[n] < PowerOf2[2 * UINT_BITS]
      /\ PowerOf2[n] <= PowerOf2[n] /\ PowerOf2[n] < PowerOf2[n + 1]
  BY <1>2, PowerPositive, PowerGrows
<1>4. HighestBit(PowerOf2[n]) = n
  BY <1>2, <1>3, HighestBitIs
<1> QED
  BY <1>3, <1>4 DEF log2

LEMMA FieldWidths ==
    ASSUME AddressAssumption
    PROVE  /\ \A n \in {NUM_RANKS, NUM_BANKS, NUM_ROWS, NUM_COLS, NUM_CHANNELS,
                        BUS_ALIGNMENT_SIZE, CACHE_LINE_SIZE} :
                 log2(n) \in 0 .. UINT_BITS - 1 /\ n = PowerOf2[log2(n)]
           /\ colLowBitWidth \in 0 .. UINT_BITS - 1
           /\ colBitWidth - colLowBitWidth \in 0 .. UINT_BITS - 1
<1>1. UINT_BITS \in Nat /\ UINT_BITS >= 8
  BY DEF AddressAssumption
<1>2. ASSUME NEW n \in {NUM_RANKS, NUM_BANKS, NUM_ROWS, NUM_COLS, NUM_CHANNELS,
                        BUS_ALIGNMENT_SIZE, CACHE_LINE_SIZE}
      PROVE  log2(n) \in 0 .. UINT_BITS - 1 /\ n = PowerOf2[log2(n)]
  <2>1. PICK w \in 0 .. UINT_BITS - 1 : n = PowerOf2[w]
    BY <1>2 DEF AddressAssumption
  <2>2. w \in 0 .. UINT_BITS
    BY <1>1
  <2>3. log2(n) = w
    BY <2>1, <2>2, log2OfPower
  <2> QED
    BY <2>1, <2>3
<1> DEFINE b == busOffsetBitWidth
           c == cacheOffset
           m == colBitWidth
<1>3. /\ b \in 0 .. UINT_BITS - 1 /\ c \in 0 .. UINT_BITS - 1 /\ m \in 0 .. UINT_BITS - 1
      /\ BUS_ALIGNMENT_SIZE = PowerOf2[b] /\ CACHE_LINE_SIZE = PowerOf2[c]
      /\ NUM_COLS = PowerOf2[m]
  BY <1>2 DEF busOffsetBitWidth, cacheOffset, colBitWidth
<1> HIDE DEF b, c, m
<1>4. /\ b \in Nat /\ c \in Nat /\ m \in Nat
      /\ PowerOf2[b] \in Nat /\ PowerOf2[c] \in Nat /\ PowerOf2[b + m] \in Nat
      /\ b + m \in Nat
  BY <1>1, <1>3, PowerPositive
<1>5. ~ (c < b)
  <2>1. PowerOf2[b] <= PowerOf2[c]
    BY <1>3 DEF AddressAssumption
  <2> QED
    BY <1>4, <2>1, PowerGrows
<1>6. ~ (b + m < c)
  <2>1. PowerOf2[c] <= PowerOf2[b] * PowerOf2[m]
    BY <1>3 DEF AddressAssumption
  <2>2. PowerOf2[c] <= PowerOf2[b + m]
    BY <1>4, <2>1, PowerSum
  <2> QED
    BY <1>4, <2>2, PowerGrows
<1>7. colLowBitWidth = c - b /\ colBitWidth = m
  BY DEF colLowBitWidth, b, c, m
<1>8. c - b \in 0 .. UINT_BITS - 1 /\ m - (c - b) \in 0 .. UINT_BITS - 1
  BY <1>1, <1>3, <1>5, <1>6
<1> QED
  BY <1>2, <1>7, <1>8

-----------------------------------------------------------------------------
(* The parts of an address                                                 *)

LEMMA IntOperators ==
    ASSUME NEW x \in Int, NEW n \in Nat, n > 0
    PROVE  /\ x \div n \in Int /\ x % n \in 0 .. n - 1
           /\ x = n * (x \div n) + (x % n)
           /\ x \in Nat => x \div n \in Nat
           /\ x \in 0 .. n - 1 => x % n = x
OBVIOUS

LEMMA ShiftType ==
    ASSUME AddressAssumption, NEW x \in Int, NEW width \in Int
    PROVE  ShiftedRight(x, width) \in Int
<1>1. 2 * UINT_BITS \in Nat /\ 2 * UINT_BITS > 0
  BY DEF AddressAssumption
<1>2. width % (2 * UINT_BITS) \in Nat
  BY <1>1, IntOperators
<1>3. PowerOf2[width % (2 * UINT_BITS)] \in Nat /\ PowerOf2[width % (2 * UINT_BITS)] > 0
  BY <1>2, PowerPositive
<1> QED
  BY <1>3, IntOperators DEF ShiftedRight

\* What is dropped by a shift of a width that an unsigned has is as wide as the shift.
LEMMA DroppedRange ==
    ASSUME AddressAssumption, NEW x \in Int, NEW width \in 0 .. UINT_BITS - 1
    PROVE  /\ Dropped(x, width) = x % PowerOf2[width]
           /\ Dropped(x, width) \in 0 .. PowerOf2[width] - 1
<1>1. UINT_BITS \in Nat /\ UINT_BITS >= 8 /\ 2 * UINT_BITS \in Nat /\ 2 * UINT_BITS > 0
  BY DEF AddressAssumption
<1>2. width \in 0 .. 2 * UINT_BITS - 1
  BY <1>1
<1>3. width % (2 * UINT_BITS) = width
  BY <1>1, <1>2, IntOperators
<1> DEFINE n == PowerOf2[width]
           m == PowerOf2[UINT_BITS]
<1>4. n \in Nat /\ m \in Nat /\ 0 < n /\ n < m
  BY <1>1, PowerPositive, PowerGrows
<1>5. Dropped(x, width) = (x % n) % m
  BY <1>3 DEF Dropped
<1> HIDE DEF n, m
<1>6. x % n \in 0 .. n - 1
  BY <1>4, IntOperators
<1>7. x % n \in 0 .. m - 1
  BY <1>4, <1>6
<1>8. (x % n) % m = x % n
  BY <1>4, <1>7, IntOperators
<1> QED
  BY <1>5, <1>6, <1>8 DEF n

\* The size of the memory is a 64-bit number.
MemorySizeType ==
    QEMU_MEMORY_SIZE \in Nat /\ QEMU_MEMORY_SIZE < PowerOf2[2 * UINT_BITS]

PartNames == DOMAIN Widths

LEMMA WidthTypes ==
    ASSUME AddressAssumption, MemorySizeType
    PROVE  \A part \in PartNames : Widths[part] \in Int
<1>1. UINT_BITS \in Nat /\ UINT_BITS < 2 * UINT_BITS /\ 2 * UINT_BITS \in Nat
  BY DEF AddressAssumption
<1>2. /\ busOffsetBitWidth \in Nat /\ cacheOffset \in Nat /\ channelBitWidth \in Nat
      /\ rankBitWidth \in Nat /\ bankBitWidth \in Nat /\ colBitWidth \in Nat
      /\ log2(NUM_ROWS) \in Nat /\ colLowBitWidth \in Nat
      /\ colBitWidth - colLowBitWidth \in Nat
  BY FieldWidths DEF busOffsetBitWidth, cacheOffset, channelBitWidth, rankBitWidth,
     bankBitWidth, colBitWidth
<1> DEFINE m == PowerOf2[UINT_BITS]
           size == QEMU_MEMORY_SIZE % m
<1>3. m \in Nat /\ m > 0 /\ m < PowerOf2[2 * UINT_BITS] /\ PowerOf2[2 * UINT_BITS] \in Nat
  BY <1>1, PowerPositive, PowerGrows
<1>4. rowBitWidth \in Nat
  <2>1. size \in 0 .. m - 1
    <3> HIDE DEF m
    <3> QED
      BY <1>3, IntOperators DEF MemorySizeType
  <2>2. size \in Nat /\ size < PowerOf2[2 * UINT_BITS]
    <3> HIDE DEF m, size
    <3> QED
      BY <1>3, <2>1
  <2>3. log2(size) \in Nat
    <3> HIDE DEF size
    <3> QED
      BY <2>2, log2Type
  <2>4. rowBitWidth = (log2(NUM_ROWS) - (TotalBits - log2(size))) % m
    BY DEF rowBitWidth, RowBits
  <2>5. TotalBits \in Int
    BY <1>2 DEF TotalBits
  <2> HIDE DEF m, size
  <2>6. log2(NUM_ROWS) - (TotalBits - log2(size)) \in Int
    BY <1>2, <2>3, <2>5
  <2> QED
    BY <2>4, <2>6, <1>3, IntOperators
<1> QED
  BY <1>2, <1>4 DEF PartNames, Widths

IsLayout(layout) == layout \in Seq(PartNames)

\* The parts are shifted off one after the other.
LEMMA ShiftedToRecursion ==
    ASSUME AddressAssumption, MemorySizeType,
           NEW layout, IsLayout(layout), NEW address \in Int
    PROVE  /\ \A i \in DOMAIN layout : ShiftedTo(layout, i, address) \in Int
           /\ ShiftedTo(layout, 1, address) = address
           /\ \A i \in DOMAIN layout :
                 ShiftedTo(layout, i + 1, address) =
                    ShiftedRight(ShiftedTo(layout, i, address), Widths[layout[i]])
<1> DEFINE m == Len(layout)
           step == [k \in 1 .. m |-> [v \in Int |-> ShiftedRight(v, Widths[layout[k]])]]
<1>1. m \in Nat /\ DOMAIN layout = 1 .. m /\ \A k \in 1 .. m : layout[k] \in PartNames
  BY DEF IsLayout
<1>2. ASSUME NEW k \in 1 .. m, NEW v \in Int
      PROVE  ShiftedRight(v, Widths[layout[k]]) \in Int
  BY <1>1, <1>2, WidthTypes, ShiftType
<1>3. step \in [1 .. m -> [Int -> Int]]
  BY <1>2
<1>4. \A k \in 1 .. m : \A v \in Int : step[k][v] = ShiftedRight(v, Widths[layout[k]])
  OBVIOUS
<1> HIDE DEF m, step
<1>5. PICK f \in [0 .. m -> Int] : IsRecursive(f, m, address, step)
  BY <1>1, <1>3, FiniteRecursion
<1>6. ASSUME NEW k \in 0 .. m
      PROVE  f[k] = IF k = 0 THEN address
                    ELSE ShiftedRight(f[k - 1], Widths[layout[k]])
  <2>1. CASE k = 0
    BY <1>5, <2>1 DEF IsRecursive
  <2>2. CASE k # 0
    <3>1. k \in 1 .. m /\ k - 1 \in 0 .. m
      BY <1>1, <2>2
    <3>2. f[k - 1] \in Int
      BY <3>1
    <3>3. f[k] = step[k][f[k - 1]]
      BY <1>5, <2>2 DEF IsRecursive
    <3> QED
      BY <1>4, <3>1, <3>2, <3>3, <2>2
  <2> QED
    BY <2>1, <2>2
<1>7. f = [k \in 0 .. m |-> IF k = 0 THEN address
                            ELSE ShiftedRight(f[k - 1], Widths[layout[k]])]
  <2>1. f = [k \in 0 .. m |-> f[k]]
    OBVIOUS
  <2> QED
    BY <1>6, <2>1
<1> DEFINE rest == CHOOSE g : g = [k \in 0 .. m |-> IF k = 0 THEN address
                                    ELSE ShiftedRight(g[k - 1], Widths[layout[k]])]
<1>8. rest = [k \in 0 .. m |-> IF k = 0 THEN address
                               ELSE ShiftedRight(rest[k - 1], Widths[layout[k]])]
  BY <1>7
<1>9. \A i : ShiftedTo(layout, i, address) = rest[i - 1]
  BY DEF ShiftedTo, m
<1> HIDE DEF rest
<1>10. \A k \in 0 .. m : rest[k] = IF k = 0 THEN address
                                   ELSE ShiftedRight(rest[k - 1], Widths[layout[k]])
  BY <1>8
<1>11. \A k \in Nat : k <= m => rest[k] \in Int
  <2> DEFINE S == {k \in Nat : k <= m => rest[k] \in Int}
  <2>1. 0 \in S
    BY <1>1, <1>10
  <2>2. ASSUME NEW k \in Nat, k \in S PROVE k + 1 \in S
    <3> SUFFICES ASSUME k + 1 <= m PROVE rest[k + 1] \in Int
      OBVIOUS
    <3>1. k + 1 \in 1 .. m /\ k + 1 \in 0 .. m /\ (k + 1) - 1 = k /\ rest[k] \in Int
      BY <1>1, <2>2
    <3>2. rest[k + 1] = ShiftedRight(rest[k], Widths[layout[k + 1]])
      BY <1>10, <3>1
    <3> QED
      BY <1>2, <3>1, <3>2
  <2>3. Nat \subseteq S
    <3> HIDE DEF S
    <3> QED
      BY <2>1, <2>2, Induction
  <2> QED
    BY <2>3
<1>12. ASSUME NEW i \in DOMAIN layout
       PROVE  /\ ShiftedTo(layout, i, address) \in Int
              /\ ShiftedTo(layout, i + 1, address) =
                    ShiftedRight(ShiftedTo(layout, i, address), Widths[layout[i]])
  <2>1. i \in Nat /\ i \in 0 .. m /\ i # 0 /\ i - 1 \in Nat /\ i - 1 <= m /\ (i + 1) - 1 = i
    BY <1>1
  <2>2. ShiftedTo(layout, i, address) = rest[i - 1] /\ ShiftedTo(layout, i + 1, address) = rest[i]
    BY <1>9, <2>1
  <2> QED
    BY <1>10, <1>11, <2>1, <2>2
<1>13. ShiftedTo(layout, 1, address) = address
  <2>1. ShiftedTo(layout, 1, address) = rest[1 - 1] /\ 1 - 1 = 0 /\ 0 \in 0 .. m
    BY <1>1, <1>9
  <2> QED
    BY <1>10, <2>1
<1> QED
  BY <1>12, <1>13

-----------------------------------------------------------------------------
(* Every field is in range                                                 *)

\* Where each part of a layout is; the fields of a place are among them.
LEMMA LayoutParts ==
    ASSUME NEW scheme \in AddressMappingSchemes
    PROVE  LET layout == Layouts[scheme] IN
           /\ IsLayout(layout)
           /\ \A part \in {"rank", "bank", "row"} : \E i \in DOMAIN layout : layout[i] = part
           /\ \/ \E i \in DOMAIN layout : layout[i] = "col"
              \/ \E i \in DOMAIN layout : layout[i] = "colHigh"
<1>1. /\ "by" \in PartNames /\ "line" \in PartNames /\ "chan" \in PartNames
      /\ "rank" \in PartNames /\ "bank" \in PartNames /\ "row" \in PartNames
      /\ "col" \in PartNames /\ "colHigh" \in PartNames
  BY DEF PartNames, Widths
<1> DEFINE Fine(layout) ==
             /\ layout \in Seq(PartNames)
             /\ \A part \in {"rank", "bank", "row"} :
                   \E i \in DOMAIN layout : layout[i] = part
             /\ \/ \E i \in DOMAIN layout : layout[i] = "col"
                \/ \E i \in DOMAIN layout : layout[i] = "colHigh"
<1> HIDE DEF PartNames
<1>2. Fine(BK_CLH_RW_RK_CH_CLL_BY)
  BY <1>1 DEF BK_CLH_RW_RK_CH_CLL_BY
<1>3. Fine(CLH_RW_RK_BK_CH_CLL_BY)
  BY <1>1 DEF CLH_RW_RK_BK_CH_CLL_BY
<1>4. Fine(RK_BK_RW_CLH_CH_CLL_BY)
  BY <1>1 DEF RK_BK_RW_CLH_CH_CLL_BY
<1>5. Fine(RW_CH_BK_RK_CL_BY)
  BY <1>1 DEF RW_CH_BK_RK_CL_BY
<1>6. Fine(RW_BK_RK_CH_CL_BY)
  BY <1>1 DEF RW_BK_RK_CH_CL_BY
<1>7. Fine(RW_BK_RK_CLH_CH_CLL_BY)
  BY <1>1 DEF RW_BK_RK_CLH_CH_CLL_BY
<1>8. Fine(RW_CLH_BK_RK_CH_CLL_BY)
  BY <1>1 DEF RW_CLH_BK_RK_CH_CLL_BY
<1>9. Fine(CH_RW_BK_RK_CL_BY)
  BY <1>1 DEF CH_RW_BK_RK_CL_BY
<1> HIDE DEF Fine
<1>10. Fine(Layouts[scheme])
  BY <1>2, <1>3, <1>4, <1>5, <1>6, <1>7, <1>8, <1>9 DEF AddressMappingSchemes, Layouts
<1> QED
  BY <1>10 DEF Fine, IsLayout

LEMMA PartRange ==
    ASSUME AddressAssumption, MemorySizeType,
           NEW layout, IsLayout(layout), NEW address \in Int,
           NEW part \in PartNames, \E i \in DOMAIN layout : layout[i] = part,
           Widths[part] \in 0 .. UINT_BITS - 1
    PROVE  PartOf(layout, part, address) \in 0 .. PowerOf2[Widths[part]] - 1
<1> DEFINE i == CHOOSE j \in DOMAIN layout : layout[j] = part
<1>1. i \in DOMAIN layout
  OBVIOUS
<1>2. PartOf(layout, part, address) = Dropped(ShiftedTo(layout, i, address), Widths[part])
  BY DEF PartOf
<1> HIDE DEF i
<1>3. ShiftedTo(layout, i, address) \in Int
  BY <1>1, ShiftedToRecursion
<1> QED
  BY <1>2, <1>3, DroppedRange

\* The fields of an address index the arrays of channels, ranks, banks and rows.
LEMMA MappedRange ==
    ASSUME AddressAssumption, MemorySizeType,
           mappingScheme \in AddressMappingSchemes, NEW address \in Int
    PROVE  LET place == Mapped(address) IN
           /\ place.chan \in 0 .. NUM_CHANNELS - 1
           /\ place.rank \in 0 .. NUM_RANKS - 1
           /\ place.bank \in 0 .. NUM_BANKS - 1
           /\ place.col \in 0 .. NUM_COLS - 1
           /\ RowFits => place.row \in 0 .. NUM_ROWS - 1
<1> DEFINE layout == Layouts[mappingScheme]
<1>1. /\ IsLayout(layout)
      /\ \A part \in {"rank", "bank", "row"} : \E i \in DOMAIN layout : layout[i] = part
      /\ \/ \E i \in DOMAIN layout : layout[i] = "col"
         \/ \E i \in DOMAIN layout : layout[i] = "colHigh"
  BY LayoutParts
<1> HIDE DEF layout
<1>2. /\ "rank" \in PartNames /\ Widths["rank"] = rankBitWidth
      /\ "bank" \in PartNames /\ Widths["bank"] = bankBitWidth
      /\ "row" \in PartNames /\ Widths["row"] = rowBitWidth
      /\ "col" \in PartNames /\ Widths["col"] = colBitWidth
      /\ "colHigh" \in PartNames /\ Widths["colHigh"] = colBitWidth - colLowBitWidth
  BY DEF PartNames, Widths
<1>3. /\ rankBitWidth \in 0 .. UINT_BITS - 1 /\ NUM_RANKS = PowerOf2[rankBitWidth]
      /\ bankBitWidth \in 0 .. UINT_BITS - 1 /\ NUM_BANKS = PowerOf2[bankBitWidth]
      /\ colBitWidth \in 0 .. UINT_BITS - 1 /\ NUM_COLS = PowerOf2[colBitWidth]
      /\ channelBitWidth \in 0 .. UINT_BITS - 1 /\ NUM_CHANNELS = PowerOf2[channelBitWidth]
      /\ log2(NUM_ROWS) \in 0 .. UINT_BITS - 1 /\ NUM_ROWS = PowerOf2[log2(NUM_ROWS)]
      /\ colLowBitWidth \in 0 .. UINT_BITS - 1
      /\ colBitWidth - colLowBitWidth \in 0 .. UINT_BITS - 1
      /\ UINT_BITS \in Nat
  BY FieldWidths DEF rankBitWidth, bankBitWidth, colBitWidth, channelBitWidth, AddressAssumption
<1>4. PartOf(layout, "rank", address) \in 0 .. NUM_RANKS - 1
  BY <1>1, <1>2, <1>3, PartRange
<1>5. PartOf(layout, "bank", address) \in 0 .. NUM_BANKS - 1
  BY <1>1, <1>2, <1>3, PartRange
<1>6. ASSUME RowFits PROVE PartOf(layout, "row", address) \in 0 .. NUM_ROWS - 1
  <2> DEFINE w == rowBitWidth
             n == log2(NUM_ROWS)
  <2>1. w \in 0 .. n /\ n \in 0 .. UINT_BITS - 1 /\ NUM_ROWS = PowerOf2[n]
    BY <1>3, <1>6 DEF RowFits
  <2>2. w \in 0 .. UINT_BITS - 1 /\ w \in Nat /\ n \in Nat
    BY <2>1, <1>3
  <2>3. PartOf(layout, "row", address) \in 0 .. PowerOf2[w] - 1
    BY <1>1, <1>2, <2>2, PartRange
  <2> HIDE DEF w, n
  <2>4. PowerOf2[w] <= PowerOf2[n] /\ PowerOf2[w] \in Nat /\ PowerOf2[n] \in Nat
    BY <2>1, <2>2, PowerGrows, PowerPositive
  <2> QED
    BY <2>1, <2>3, <2>4
<1>7. MappedColumn(layout, address) \in 0 .. NUM_COLS - 1
  <2>1. CASE \E i \in DOMAIN layout : layout[i] = "col"
    <3>1. PartOf(layout, "col", address) \in 0 .. NUM_COLS - 1
      BY <1>1, <1>2, <1>3, <2>1, PartRange
    <3> QED
      BY <2>1, <3>1 DEF MappedColumn
  <2>2. CASE ~ \E i \in DOMAIN layout : layout[i] = "col"
    <3> DEFINE h == colBitWidth - colLowBitWidth
               l == colLowBitWidth
               part == PartOf(layout, "colHigh", address)
    <3>1. part \in 0 .. PowerOf2[h] - 1
      BY <1>1, <1>2, <1>3, <2>2, PartRange
    <3>2. h \in Nat /\ l \in Nat /\ h + l = colBitWidth
      BY <1>3
    <3>3. MappedColumn(layout, address) = part * PowerOf2[l]
      BY <2>2 DEF MappedColumn
    <3> HIDE DEF h, l, part
    <3>4. NUM_COLS = PowerOf2[h] * PowerOf2[l]
      BY <1>3, <3>2, PowerSum
    <3>5. PowerOf2[h] \in Nat /\ PowerOf2[l] \in Nat /\ PowerOf2[l] > 0
      BY <3>2, PowerPositive
    <3> DEFINE a == PowerOf2[h]
               b == PowerOf2[l]
    <3> HIDE DEF a, b
    <3>6. part \in Nat /\ part + 1 <= a /\ a \in Nat /\ b \in Nat /\ b > 0
      BY <3>1, <3>5 DEF a, b
    <3>7. (part + 1) * b <= a * b
      BY <3>6
    <3>8. part * b >= 0 /\ (part + 1) * b = (part * b) + b
      BY <3>6
    <3>9. part * b \in 0 .. (a * b) - 1
      BY <3>6, <3>7, <3>8
    <3> QED
      BY <3>3, <3>4, <3>9 DEF a, b
  <2> QED
    BY <2>1, <2>2
<1>8. FindChannelID(address) \in 0 .. NUM_CHANNELS - 1
  <2>1. channelIDOffset(mappingScheme) \in Int
    <3>1. busOffsetBitWidth \in Int /\ cacheOffset \in Int
      BY FieldWidths DEF busOffsetBitWidth, cacheOffset
    <3>2. PowerOf2[UINT_BITS] \in Nat /\ PowerOf2[UINT_BITS] > 0
      BY <1>3, PowerPositive
    <3>3. BOBRowBitWidth \in Int
      <4>0. log2_64(QEMU_MEMORY_SIZE) \in Int
        BY log2_64Type DEF MemorySizeType
      <4>1. TotalBits \in Int
        BY <1>3, <3>1 DEF TotalBits
      <4>2. log2(NUM_ROWS) - (TotalBits - log2_64(QEMU_MEMORY_SIZE)) \in Int
        BY <1>3, <4>0, <4>1
      <4> QED
        BY <4>2, <3>2, IntOperators DEF BOBRowBitWidth, RowBits
    <3>4. BOBRowBitWidth + bankBitWidth + rankBitWidth + colBitWidth + busOffsetBitWidth \in Int
      BY <1>3, <3>1, <3>3
    <3>5. (BOBRowBitWidth + bankBitWidth + rankBitWidth + colBitWidth + busOffsetBitWidth)
            % PowerOf2[UINT_BITS] \in Int
      BY <3>2, <3>4, IntOperators
    <3> QED
      BY <1>3, <3>1, <3>5 DEF channelIDOffset
  <2>2. ShiftedRight(address, channelIDOffset(mappingScheme)) \in Int
    BY <2>1, ShiftType
  <2>3. NUM_CHANNELS \in Nat /\ NUM_CHANNELS > 0
    BY <1>3, PowerPositive
  <2> QED
    BY <2>2, <2>3, IntOperators DEF FindChannelID
<1> QED
  BY <1>4, <1>5, <1>6, <1>7, <1>8 DEF Mapped, layout

-----------------------------------------------------------------------------
(* The two widths of the row                                               *)

LEMMA SameRemainder ==
    ASSUME NEW x \in Int, NEW y \in Int, NEW n \in Nat, n > 0,
           x % n = y % n, x - y < n, y - x < n
    PROVE  x = y
<1> DEFINE q == x \div n
           p == y \div n
           r == x % n
           s == y % n
<1>1. /\ q \in Int /\ p \in Int /\ r \in 0 .. n - 1 /\ r = s
      /\ x = n * q + r /\ y = n * p + s
  BY IntOperators
<1> HIDE DEF q, p, r, s
<1>2. x - y = n * (q - p)
  BY <1>1
<1>3. ~ (q - p >= 1)
  <2> SUFFICES ASSUME q - p >= 1 PROVE FALSE
    OBVIOUS
  <2>1. n * (q - p) >= n * 1
    BY <1>1
  <2> QED
    BY <1>1, <1>2, <2>1
<1>4. ~ (p - q >= 1)
  <2> SUFFICES ASSUME p - q >= 1 PROVE FALSE
    OBVIOUS
  <2>1. n * (p - q) >= n * 1
    BY <1>1
  <2>2. y - x = n * (p - q)
    BY <1>1
  <2> QED
    BY <1>1, <2>1, <2>2
<1>5. q = p
  BY <1>1, <1>3, <1>4
<1> QED
  BY <1>1, <1>5

\* The highest bit of an int.
LEMMA LastBit ==
    ASSUME UINT_BITS \in Nat, UINT_BITS >= 8
    PROVE  (UINT_BITS - 1) % UINT_BITS = UINT_BITS - 1
<1>1. UINT_BITS - 1 \in 0 .. UINT_BITS - 1 /\ UINT_BITS > 0 /\ UINT_BITS - 1 \in Int
  OBVIOUS
<1> QED
  BY <1>1, IntOperators

\* One past it the shift starts over.
LEMMA WholeMultiple ==
    ASSUME UINT_BITS \in Nat, UINT_BITS >= 8
    PROVE  UINT_BITS % UINT_BITS = 0
<1> DEFINE q == UINT_BITS \div UINT_BITS
           r == UINT_BITS % UINT_BITS
<1>1. q \in Int /\ r \in 0 .. UINT_BITS - 1 /\ UINT_BITS = (UINT_BITS * q) + r
  BY IntOperators
<1> HIDE DEF q, r
<1>2. q >= 1 \/ q <= 0
  BY <1>1
<1>3. UINT_BITS * q >= UINT_BITS * 1 \/ UINT_BITS * q <= 0
  BY <1>1, <1>2
<1>4. r = 0
  BY <1>1, <1>3
<1> QED
  BY <1>4 DEF r

\* The logarithms agree below half of what an unsigned counts, and only there: above,
\* log2_64 rounds down, and with more bits than an unsigned has the sizes differ.
LEMMA LogarithmsAgree ==
    ASSUME AddressAssumption, MemorySizeType
    PROVE  LET narrowed == QEMU_MEMORY_SIZE % PowerOf2[UINT_BITS] IN
           /\ log2(narrowed) \in 0 .. UINT_BITS
           /\ (log2_64(QEMU_MEMORY_SIZE) = log2(narrowed))
                 <=> (QEMU_MEMORY_SIZE <= PowerOf2[UINT_BITS - 1])
<1> DEFINE size == QEMU_MEMORY_SIZE
           m == PowerOf2[UINT_BITS]
           half == PowerOf2[UINT_BITS - 1]
           narrowed == size % m
           n == HighestBit(size)
           largest == PowerOf2[2 * UINT_BITS] - PowerOf2[UINT_BITS - 1]
           shifted == IF n % UINT_BITS = UINT_BITS - 1 THEN largest ELSE PowerOf2[n % UINT_BITS]
<1>1. /\ UINT_BITS \in Nat /\ UINT_BITS >= 8 /\ UINT_BITS - 1 \in Nat
      /\ (UINT_BITS - 1) + 1 = UINT_BITS
      /\ 2 * UINT_BITS \in Nat /\ UINT_BITS < 2 * UINT_BITS
  BY DEF AddressAssumption
<1>2. size \in Nat /\ size < PowerOf2[2 * UINT_BITS]
  BY DEF MemorySizeType
<1>3. /\ m \in Nat /\ m > 0 /\ half \in Nat /\ m = 2 * half
      /\ m < PowerOf2[2 * UINT_BITS] /\ PowerOf2[2 * UINT_BITS] \in Nat
      /\ largest \in Int /\ m <= largest
  <2>1. m \in Nat /\ m > 0 /\ half \in Nat /\ PowerOf2[2 * UINT_BITS] \in Nat
    BY <1>1, PowerPositive
  <2>2. m = 2 * half
    BY <1>1, PowerRecursion
  <2>3. m < PowerOf2[2 * UINT_BITS]
    BY <1>1, PowerGrows
  <2>4. 2 * m < PowerOf2[2 * UINT_BITS]
    <3>1. UINT_BITS + 1 \in Nat /\ UINT_BITS + 1 < 2 * UINT_BITS
      BY <1>1
    <3>2. PowerOf2[UINT_BITS + 1] = 2 * m
      BY <1>1, PowerRecursion
    <3>3. PowerOf2[UINT_BITS + 1] < PowerOf2[2 * UINT_BITS]
      BY <1>1, <3>1, PowerGrows
    <3> QED
      BY <3>2, <3>3
  <2>5. largest \in Int /\ m <= largest
    <3> HIDE DEF m, half
    <3>1. PowerOf2[2 * UINT_BITS] - half \in Int /\ m <= PowerOf2[2 * UINT_BITS] - half
      BY <2>1, <2>2, <2>4
    <3> QED
      BY <3>1 DEF half
  <2> QED
    BY <2>1, <2>2, <2>3, <2>5
<1>4. narrowed \in 0 .. m - 1
  <2> HIDE DEF m, size
  <2> QED
    BY <1>2, <1>3, IntOperators
<1>5. /\ n \in Nat
      /\ size = 0 => n = 0
      /\ size # 0 => PowerOf2[n] <= size /\ size < PowerOf2[n + 1]
  BY <1>2, HighestBitProperty
<1>6. log2_64(size) = IF shifted < size THEN n + 1 ELSE n
  BY DEF log2_64
<1>7. log2(narrowed) \in 0 .. UINT_BITS
  <2> DEFINE v == narrowed
             k == HighestBit(v)
  <2>1. v \in Nat /\ v < m /\ v < PowerOf2[2 * UINT_BITS]
    <3> HIDE DEF m, narrowed
    <3> QED
      BY <1>3, <1>4
  <2> HIDE DEF v
  <2>2. /\ k \in Nat
        /\ v = 0 => k = 0
        /\ v # 0 => PowerOf2[k] <= v /\ v < PowerOf2[k + 1]
    BY <2>1, HighestBitProperty
  <2>3. k < UINT_BITS
    <3>1. CASE v = 0
      BY <1>1, <2>2, <3>1
    <3>2. CASE v # 0
      <4>1. PowerOf2[k] \in Nat
        BY <2>2, PowerPositive
      <4>2. PowerOf2[k] < PowerOf2[UINT_BITS]
        <5>1. PowerOf2[k] < m
          <6> HIDE DEF m
          <6> QED
            BY <1>3, <2>1, <2>2, <3>2, <4>1
        <5> QED
          BY <5>1
      <4> QED
        BY <1>1, <2>2, <4>2, PowerGrows
    <3> QED
      BY <3>1, <3>2
  <2>4. log2(v) = k + 1 \/ log2(v) = k
    BY DEF log2
  <2>5. log2(v) \in 0 .. UINT_BITS
    BY <1>1, <2>2, <2>3, <2>4
  <2> QED
    BY <2>5 DEF v
<1>8. CASE size <= half
  <2>1. narrowed = size
    <3> HIDE DEF m, half, size
    <3>1. size \in 0 .. m - 1
      BY <1>2, <1>3, <1>8
    <3> QED
      BY <1>2, <1>3, <3>1, IntOperators
  <2>2. log2(size) = IF PowerOf2[n] < size THEN n + 1 ELSE n
    BY DEF log2
  <2>3. CASE n = UINT_BITS - 1
    <3>1. size # 0
      BY <1>1, <1>5, <2>3
    <3>2. PowerOf2[n] = half /\ shifted = largest
      BY <1>1, <2>3, LastBit
    <3>3. size = half
      <4> HIDE DEF half, size, n
      <4> QED
        BY <1>2, <1>3, <1>5, <1>8, <3>1, <3>2
    <3>4. ~ (shifted < size) /\ ~ (PowerOf2[n] < size)
      <4> HIDE DEF m, half, size, n, shifted, largest
      <4> QED
        BY <1>2, <1>3, <3>2, <3>3, <1>8
    <3> HIDE DEF n, size, shifted
    <3>5. log2_64(size) = log2(size)
      BY <1>6, <2>2, <3>4
    <3> QED
      BY <1>7, <1>8, <2>1, <3>5 DEF size
  <2>4. CASE n # UINT_BITS - 1
    <3>1. n < UINT_BITS
      <4>1. CASE size = 0
        BY <1>1, <1>5, <4>1
      <4>2. CASE size # 0
        <5>1. PowerOf2[n] \in Nat
          BY <1>5, PowerPositive
        <5>2. PowerOf2[n] < m
          <6> HIDE DEF m, half, size, n
          <6> QED
            BY <1>2, <1>3, <1>5, <1>8, <4>2, <5>1
        <5> QED
          BY <1>1, <1>5, <5>2, PowerGrows
      <4> QED
        BY <4>1, <4>2
    <3>2. n % UINT_BITS = n
      <4> HIDE DEF n
      <4>1. n \in 0 .. UINT_BITS - 1 /\ UINT_BITS > 0
        BY <1>1, <1>5, <3>1
      <4> QED
        BY <1>1, <1>5, <4>1, IntOperators
    <3>3. shifted = PowerOf2[n]
      BY <2>4, <3>2
    <3> HIDE DEF n, shifted
    <3>4. log2_64(size) = log2(size)
      BY <1>6, <2>2, <3>3
    <3> QED
      BY <1>7, <1>8, <2>1, <3>4
  <2> QED
    BY <2>3, <2>4, <1>7
<1>9. CASE half < size /\ size < m
  <2>1. narrowed = size
    <3> HIDE DEF m, half, size
    <3>1. size \in 0 .. m - 1
      BY <1>2, <1>3, <1>9
    <3> QED
      BY <1>2, <1>3, <3>1, IntOperators
  <2>2. n = UINT_BITS - 1
    <3>1. PowerOf2[UINT_BITS - 1] <= size /\ size < PowerOf2[(UINT_BITS - 1) + 1]
      BY <1>1, <1>2, <1>3, <1>9
    <3> QED
      BY <1>1, <1>2, <3>1, HighestBitIs
  <2>3. log2(size) = IF PowerOf2[n] < size THEN n + 1 ELSE n
    BY DEF log2
  <2>4. shifted = largest /\ PowerOf2[n] = half
    BY <1>1, <2>2, LastBit
  <2> HIDE DEF m, half, size, n, shifted, narrowed, largest
  <2>5. ~ (shifted < size) /\ PowerOf2[n] < size
    BY <1>2, <1>3, <1>9, <2>4
  <2>6. log2_64(size) = n /\ log2(size) = n + 1
    BY <1>6, <2>3, <2>5
  <2>7. log2_64(size) # log2(size)
    BY <1>5, <2>6
  <2>8. ~ (size <= half)
    BY <1>2, <1>3, <1>9
  <2>9. (log2_64(size) = log2(narrowed)) <=> (size <= half)
    BY <2>1, <2>7, <2>8
  <2> QED
    BY <1>7, <2>9 DEF half, narrowed, m, size
<1>10. CASE m <= size
  <2>1. size # 0
    <3> HIDE DEF m, size
    <3> QED
      BY <1>3, <1>10, <1>2
  <2>2. UINT_BITS <= n
    <3>1. PowerOf2[UINT_BITS] < PowerOf2[n + 1]
      <4> HIDE DEF n, size
      <4>1. PowerOf2[n + 1] \in Nat
        BY <1>5, PowerPositive
      <4> QED
        BY <1>2, <1>3, <1>5, <1>10, <2>1, <4>1
    <3>2. UINT_BITS < n + 1
      BY <1>1, <1>5, <3>1, PowerGrows
    <3> QED
      BY <1>1, <1>5, <3>2
  <2>3. ASSUME n % UINT_BITS = UINT_BITS - 1
        PROVE  log2_64(size) # log2(narrowed)
    <3>1. n # UINT_BITS
      <4>1. UINT_BITS % UINT_BITS = 0
        BY <1>1, WholeMultiple
      <4> QED
        BY <1>1, <2>3, <4>1
    <3> HIDE DEF n
    <3>2. UINT_BITS < n
      BY <1>1, <1>5, <2>2, <3>1
    <3>3. log2_64(size) = n + 1 \/ log2_64(size) = n
      BY <1>6
    <3> QED
      BY <1>1, <1>5, <1>7, <3>2, <3>3
  <2>4. ASSUME n % UINT_BITS # UINT_BITS - 1
        PROVE  log2_64(size) # log2(narrowed)
    <3> DEFINE k == n % UINT_BITS
    <3>1. k \in 0 .. UINT_BITS - 1
      <4> HIDE DEF n
      <4> QED
        BY <1>1, <1>5, IntOperators
    <3>2. k \in Nat /\ k < UINT_BITS
      BY <1>1, <3>1
    <3>3. shifted = PowerOf2[k]
      BY <2>4
    <3> HIDE DEF k
    <3>4. PowerOf2[k] < m /\ PowerOf2[k] \in Nat
      BY <1>1, <3>2, PowerGrows, PowerPositive
    <3> HIDE DEF m, size, shifted
    <3>5. shifted < size
      BY <1>2, <1>3, <1>10, <3>3, <3>4
    <3>6. log2_64(size) = n + 1
      BY <1>6, <3>5
    <3> HIDE DEF n
    <3> QED
      BY <1>1, <1>5, <1>7, <2>2, <3>6
  <2>6. log2_64(size) # log2(narrowed)
    BY <2>3, <2>4
  <2> HIDE DEF m, half, size, n, shifted, narrowed
  <2>7. ~ (size <= half)
    <3>1. half < m
      BY <1>3
    <3> QED
      BY <1>2, <1>3, <1>10, <3>1
  <2>8. (log2_64(size) = log2(narrowed)) <=> (size <= half)
    BY <2>6, <2>7
  <2> QED
    BY <1>7, <2>8 DEF half, narrowed, m, size
<1>11. (size <= half) \/ (half < size /\ size < m) \/ (m <= size)
  <2> HIDE DEF m, half, size
  <2> QED
    BY <1>2, <1>3
<1> QED
  BY <1>8, <1>9, <1>10, <1>11

\* So do the widths of the row, unsigned numbers though they are.
LEMMA WidthsAgree ==
    ASSUME AddressAssumption, MemorySizeType
    PROVE  (BOBRowBitWidth = rowBitWidth) <=> (QEMU_MEMORY_SIZE <= PowerOf2[UINT_BITS - 1])
<1> DEFINE m == PowerOf2[UINT_BITS]
           a == log2_64(QEMU_MEMORY_SIZE)
           b == log2(QEMU_MEMORY_SIZE % m)
           rows == log2(NUM_ROWS)
           x == rows - (TotalBits - a)
           y == rows - (TotalBits - b)
<1>1. UINT_BITS \in Nat /\ UINT_BITS >= 8 /\ UINT_BITS - 2 \in Nat
  BY DEF AddressAssumption
<1>2. m \in Nat /\ m > 2 * UINT_BITS
  <2>1. UINT_BITS - 2 \in Nat /\ UINT_BITS - 1 \in Nat
        /\ (UINT_BITS - 2) + 1 = UINT_BITS - 1 /\ (UINT_BITS - 1) + 1 = UINT_BITS
    BY <1>1
  <2>2. m = 2 * PowerOf2[UINT_BITS - 1]
    BY <2>1, PowerRecursion
  <2>3. PowerOf2[UINT_BITS - 1] = 2 * PowerOf2[UINT_BITS - 2]
    BY <2>1, PowerRecursion
  <2>4. PowerOf2[UINT_BITS - 2] \in Nat /\ PowerOf2[UINT_BITS - 2] > UINT_BITS - 2
    BY <2>1, PowerPositive
  <2> QED
    BY <1>1, <2>2, <2>3, <2>4
<1>3. a \in 0 .. 2 * UINT_BITS
  BY log2_64Type DEF MemorySizeType
<1>4. b \in 0 .. UINT_BITS /\ (a = b <=> QEMU_MEMORY_SIZE <= PowerOf2[UINT_BITS - 1])
  BY LogarithmsAgree
<1>5. TotalBits \in Int /\ rows \in Int
  <2>1. UINT_BITS \in Int
    BY <1>1
  <2> QED
    BY <2>1, FieldWidths DEF TotalBits, busOffsetBitWidth, colBitWidth, channelBitWidth,
       rankBitWidth, bankBitWidth
<1>6. BOBRowBitWidth = x % m /\ rowBitWidth = y % m
  BY DEF BOBRowBitWidth, rowBitWidth, RowBits
<1> DEFINE t == TotalBits
<1> HIDE DEF m, a, b, rows, t
<1>7. t \in Int
  BY <1>5 DEF t
<1>8. x = rows - (t - a) /\ y = rows - (t - b)
  BY DEF t
<1>9. x \in Int /\ y \in Int /\ x - y < m /\ y - x < m /\ (x = y <=> a = b)
  <2> HIDE DEF x, y
  <2> QED
    BY <1>1, <1>2, <1>3, <1>4, <1>5, <1>7, <1>8
<1> HIDE DEF x, y
<1>10. m > 0
  BY <1>1, <1>2
<1>11. x % m = y % m => x = y
  BY <1>2, <1>9, <1>10, SameRemainder
<1> QED
  BY <1>4, <1>6, <1>9, <1>11

-----------------------------------------------------------------------------
(* Slices of an address                                                    *)

LEMMA QuotientUnique ==
    ASSUME NEW n \in Nat, n > 0, NEW q \in Int, NEW r \in 0 .. n - 1
    PROVE  (n * q + r) \div n = q /\ (n * q + r) % n = r
<1> DEFINE x == n * q + r
           p == x \div n
           s == x % n
<1>1. x \in Int
  OBVIOUS
<1>2. p \in Int /\ s \in 0 .. n - 1 /\ x = n * p + s
  <2> HIDE DEF x
  <2> QED
    BY <1>1, IntOperators
<1>3. n * p + s = n * q + r
  BY <1>2
<1> HIDE DEF p, s
<1>4. n * (p - q) = r - s
  BY <1>2, <1>3
<1>5. ~ (p - q >= 1)
  <2> SUFFICES ASSUME p - q >= 1 PROVE FALSE
    OBVIOUS
  <2>1. n * (p - q) >= n * 1
    BY <1>2
  <2> QED
    BY <1>2, <1>4, <2>1
<1>6. ~ (q - p >= 1)
  <2> SUFFICES ASSUME q - p >= 1 PROVE FALSE
    OBVIOUS
  <2>1. n * (q - p) >= n * 1
    BY <1>2
  <2>2. n * (q - p) = s - r
    BY <1>2, <1>3
  <2> QED
    BY <1>2, <2>1, <2>2
<1>7. p = q
  BY <1>2, <1>5, <1>6
<1>8. s = r
  BY <1>2, <1>3, <1>7
<1> QED
  BY <1>7, <1>8 DEF p, s

LEMMA TwoShifts ==
    ASSUME NEW x \in Int, NEW i \in Nat, NEW j \in Nat
    PROVE  (x \div PowerOf2[i]) \div PowerOf2[j] = x \div PowerOf2[i + j]
<1> DEFINE m == PowerOf2[i]
           n == PowerOf2[j]
           q == x \div m
           r == x % m
           p == q \div n
           s == q % n
<1>1. m \in Nat /\ n \in Nat /\ m > 0 /\ n > 0 /\ PowerOf2[i + j] = m * n
  <2>1. PowerOf2[i + j] = m * n
    BY PowerSum
  <2> QED
    BY <2>1, PowerPositive
<1> HIDE DEF m, n
<1>2. q \in Int /\ r \in 0 .. m - 1 /\ x = m * q + r
  BY <1>1, IntOperators
<1> HIDE DEF q, r
<1>3. p \in Int /\ s \in 0 .. n - 1 /\ q = n * p + s
  BY <1>1, <1>2, IntOperators
<1> HIDE DEF p, s
<1>4. m * s + r \in 0 .. (m * n) - 1
  <2>1. m * s >= 0 /\ s + 1 <= n
    BY <1>1, <1>3
  <2>2. m * (s + 1) <= m * n
    BY <1>1, <1>3, <2>1
  <2>3. m * (s + 1) = m * s + m
    BY <1>1, <1>3
  <2>4. m * s \in Int /\ m * n \in Int
    BY <1>1, <1>3
  <2> QED
    BY <1>1, <1>2, <1>3, <2>1, <2>2, <2>3, <2>4
<1>5. x = (m * n) * p + (m * s + r)
  <2>1. m * q = m * (n * p) + m * s
    BY <1>1, <1>3
  <2>2. m * (n * p) = (m * n) * p
    BY <1>1, <1>3
  <2>3. m * s \in Int /\ (m * n) * p \in Int
    BY <1>1, <1>3
  <2> QED
    BY <1>2, <2>1, <2>2, <2>3
<1>6. m * n \in Nat /\ m * n > 0
  BY <1>1
<1> DEFINE mn == m * n
           t == m * s + r
<1> HIDE DEF mn, t
<1>7. (mn * p + t) \div mn = p
  <2>1. mn \in Nat /\ mn > 0 /\ t \in 0 .. mn - 1
    BY <1>4, <1>6 DEF mn, t
  <2> QED
    BY <2>1, <1>3, QuotientUnique
<1>8. x \div (m * n) = p
  BY <1>5, <1>7 DEF mn, t
<1> QED
  BY <1>1, <1>8 DEF p, q, m, n

\* The w bits of an address from the o-th on.
Slice(address, o, w) == (address \div PowerOf2[o]) % PowerOf2[w]

\* What is above the o-th bit, in an address cut off at the t-th.
Above(address, t, o) == (address % PowerOf2[t]) \div PowerOf2[o]

LEMMA SliceBelow ==
    ASSUME NEW address \in Int, NEW o \in Nat, NEW w \in Nat, NEW t \in Nat, o + w <= t
    PROVE  Above(address, t, o + w) * PowerOf2[w] + Slice(address, o, w)
              = Above(address, t, o)
<1> DEFINE pt == PowerOf2[t]
           po == PowerOf2[o]
           pw == PowerOf2[w]
           k == PowerOf2[t - (o + w)]
           b == address % pt
           c == b \div po
           q == address \div pt
<1>1. t - (o + w) \in Nat /\ o + w \in Nat
  OBVIOUS
<1>2. /\ pt \in Nat /\ po \in Nat /\ pw \in Nat /\ k \in Nat
      /\ pt > 0 /\ po > 0 /\ pw > 0 /\ k > 0
  BY <1>1, PowerPositive
<1>3. pt = po * (pw * k)
  <2>1. PowerOf2[o + w] = po * pw
    BY PowerSum
  <2>2. (o + w) + (t - (o + w)) = t
    OBVIOUS
  <2>3. pt = PowerOf2[o + w] * k
    BY <1>1, <2>2, PowerSum
  <2> HIDE DEF pt, po, pw, k
  <2>4. (po * pw) * k = po * (pw * k)
    BY <1>2
  <2> QED
    BY <2>1, <2>3, <2>4
<1>4. Above(address, t, o + w) = c \div pw
  <2>1. Above(address, t, o + w) = b \div PowerOf2[o + w]
    BY DEF Above
  <2>2. b \in Int
    <3> HIDE DEF pt
    <3> QED
      BY <1>2, IntOperators
  <2> HIDE DEF b
  <2>3. (b \div PowerOf2[o]) \div PowerOf2[w] = b \div PowerOf2[o + w]
    BY <2>2, TwoShifts
  <2> QED
    BY <2>1, <2>3
<1>5. Above(address, t, o) = c /\ Slice(address, o, w) = (address \div po) % pw
  BY DEF Above, Slice
<1> HIDE DEF pt, po, pw, k
<1>6. b \in Nat /\ q \in Int /\ address = pt * q + b
  BY <1>2, IntOperators
<1> HIDE DEF b, q
<1> DEFINE r == b % po
<1>7. c \in Int /\ r \in 0 .. po - 1 /\ b = po * c + r
  BY <1>2, <1>6, IntOperators
<1> HIDE DEF c, r
<1>8. address \div po = (pw * k) * q + c
  <2> DEFINE d == (pw * k) * q + c
  <2>1. d \in Int
    BY <1>2, <1>6, <1>7
  <2>2. pt * q = po * ((pw * k) * q)
    <3> DEFINE e == pw * k
    <3>1. e \in Int /\ pt = po * e
      BY <1>2, <1>3
    <3> HIDE DEF e
    <3>2. (po * e) * q = po * (e * q)
      BY <1>2, <1>6, <3>1
    <3> QED
      BY <3>1, <3>2 DEF e
  <2>3. address = po * d + r
    <3> DEFINE e == (pw * k) * q
    <3>1. e \in Int
      BY <1>2, <1>6
    <3>2. pt * q = po * e
      BY <2>2
    <3> HIDE DEF e
    <3>3. po * (e + c) = po * e + po * c
      BY <1>2, <1>7, <3>1
    <3>4. po * e \in Int /\ po * c \in Int
      BY <1>2, <1>7, <3>1
    <3>5. address = (po * e) + ((po * c) + r)
      BY <1>6, <1>7, <3>2
    <3>6. address = po * (e + c) + r
      BY <1>7, <3>3, <3>4, <3>5
    <3> QED
      BY <3>6 DEF e
  <2> HIDE DEF d
  <2>4. (po * d + r) \div po = d
    BY <1>2, <1>7, <2>1, QuotientUnique
  <2> QED
    BY <2>3, <2>4 DEF d
<1> DEFINE u == c \div pw
           v == c % pw
<1>9. u \in Int /\ v \in 0 .. pw - 1 /\ c = pw * u + v
  BY <1>2, <1>7, IntOperators
<1> HIDE DEF u, v
<1>10. ((pw * k) * q + c) % pw = v
  <2> DEFINE f == k * q + u
  <2>1. f \in Int
    BY <1>2, <1>6, <1>9
  <2>2. (pw * k) * q = pw * (k * q)
    BY <1>2, <1>6
  <2>3. pw * f = pw * (k * q) + pw * u
    BY <1>2, <1>6, <1>9
  <2>4. (pw * k) * q + c = pw * f + v
    <3>1. pw * (k * q) \in Int /\ pw * u \in Int
      BY <1>2, <1>6, <1>9
    <3> HIDE DEF f
    <3> QED
      BY <1>9, <2>2, <2>3, <3>1
  <2> HIDE DEF f
  <2>5. (pw * f + v) % pw = v
    BY <1>2, <1>9, <2>1, QuotientUnique
  <2> QED
    BY <2>4, <2>5
<1>11. (c \div pw) * pw + ((address \div po) % pw) = c
  <2>1. c \div pw = u
    BY DEF u
  <2>2. (address \div po) % pw = v
    BY <1>8, <1>10
  <2>3. u * pw = pw * u
    BY <1>2, <1>9
  <2> QED
    BY <1>9, <2>1, <2>2, <2>3
<1>12. Above(address, t, o + w) * pw + Slice(address, o, w) = Above(address, t, o)
  BY <1>4, <1>5, <1>11, Zenon
<1> QED
  BY <1>12, Zenon DEF pw

-----------------------------------------------------------------------------
(* The bits of an address                                                  *)

\* A row that fits takes what the other fields leave of the memory's bits.
AddressBits == TotalBits - log2(NUM_ROWS) + rowBitWidth

LEMMA BitsFit ==
    ASSUME AddressAssumption, MemorySizeType, RowFits
    PROVE  AddressBits \in 0 .. UINT_BITS
<1> DEFINE m == PowerOf2[UINT_BITS]
           b == log2(QEMU_MEMORY_SIZE % m)
           rows == log2(NUM_ROWS)
           t == TotalBits
           row == rowBitWidth
           x == rows - (t - b)
<1>1. UINT_BITS \in Nat /\ UINT_BITS >= 8
  BY DEF AddressAssumption
<1>2. m \in Nat /\ m > 0 /\ m >= 8 * (UINT_BITS - 2)
  <2>1. /\ UINT_BITS - 3 \in Nat /\ UINT_BITS - 2 \in Nat /\ UINT_BITS - 1 \in Nat
        /\ (UINT_BITS - 3) + 1 = UINT_BITS - 2
        /\ (UINT_BITS - 2) + 1 = UINT_BITS - 1 /\ (UINT_BITS - 1) + 1 = UINT_BITS
    BY <1>1
  <2>2. m = 2 * PowerOf2[UINT_BITS - 1]
    BY <2>1, PowerRecursion
  <2>3. PowerOf2[UINT_BITS - 1] = 2 * PowerOf2[UINT_BITS - 2]
    BY <2>1, PowerRecursion
  <2>4. PowerOf2[UINT_BITS - 2] = 2 * PowerOf2[UINT_BITS - 3]
    BY <2>1, PowerRecursion
  <2>5. PowerOf2[UINT_BITS - 3] \in Nat /\ PowerOf2[UINT_BITS - 3] > UINT_BITS - 3
    BY <2>1, PowerPositive
  <2> HIDE DEF m
  <2> QED
    BY <1>1, <2>2, <2>3, <2>4, <2>5
<1>3. b \in 0 .. UINT_BITS
  BY LogarithmsAgree
<1>4. rows \in 0 .. UINT_BITS - 1 /\ t \in Int /\ rows <= t /\ t <= 6 * (UINT_BITS - 1)
  BY <1>1, FieldWidths DEF TotalBits, busOffsetBitWidth, colBitWidth, channelBitWidth,
     rankBitWidth, bankBitWidth
<1>5. row = x % m
  BY DEF rowBitWidth, RowBits
<1>6. row \in 0 .. rows
  BY DEF RowFits
<1>7. AddressBits = t - rows + row
  BY DEF AddressBits
<1> HIDE DEF m, b, rows, t, row
<1>8. x \in Int /\ row \in Int /\ x - row < m /\ row - x < m
  BY <1>1, <1>2, <1>3, <1>4, <1>6
<1>9. row % m = row
  <2>1. row \in 0 .. m - 1
    BY <1>1, <1>2, <1>4, <1>6
  <2> QED
    BY <1>2, <2>1, IntOperators
<1>10. x = row
  <2> HIDE DEF x
  <2> QED
    BY <1>2, <1>5, <1>8, <1>9, SameRemainder
<1> QED
  BY <1>3, <1>4, <1>6, <1>7, <1>10

LEMMA WidthsFit ==
    ASSUME AddressAssumption, RowFits
    PROVE  \A part \in PartNames : Widths[part] \in 0 .. UINT_BITS - 1
<1>1. rowBitWidth \in 0 .. UINT_BITS - 1
  <2> DEFINE rows == log2(NUM_ROWS)
             row == rowBitWidth
  <2>1. rows \in 0 .. UINT_BITS - 1 /\ row \in 0 .. rows /\ UINT_BITS \in Nat
    BY FieldWidths DEF RowFits, AddressAssumption
  <2> HIDE DEF rows, row
  <2> QED
    BY <2>1 DEF row
<1>2. /\ busOffsetBitWidth \in 0 .. UINT_BITS - 1 /\ cacheOffset \in 0 .. UINT_BITS - 1
      /\ channelBitWidth \in 0 .. UINT_BITS - 1 /\ rankBitWidth \in 0 .. UINT_BITS - 1
      /\ bankBitWidth \in 0 .. UINT_BITS - 1 /\ colBitWidth \in 0 .. UINT_BITS - 1
      /\ colLowBitWidth \in 0 .. UINT_BITS - 1
      /\ colBitWidth - colLowBitWidth \in 0 .. UINT_BITS - 1
  BY FieldWidths DEF busOffsetBitWidth, cacheOffset, channelBitWidth, rankBitWidth,
     bankBitWidth, colBitWidth
<1> QED
  BY <1>1, <1>2 DEF PartNames, Widths

\* The parts lie one after the other, the first at the lowest bit.
Ascending(layout, at) ==
    /\ at[layout[1]] = 0
    /\ \A i \in 1 .. Len(layout) - 1 : at[layout[i + 1]] = at[layout[i]] + Widths[layout[i]]

\* A part is the slice of the address where it lies.
LEMMA PartIsSlice ==
    ASSUME AddressAssumption, MemorySizeType, RowFits,
           NEW layout, IsLayout(layout), NEW address \in Int,
           NEW at \in [PartNames -> Nat], Ascending(layout, at),
           NEW part, \E i \in DOMAIN layout : layout[i] = part
    PROVE  PartOf(layout, part, address) = Slice(address, at[part], Widths[part])
<1>1. /\ Len(layout) \in Nat /\ DOMAIN layout = 1 .. Len(layout)
      /\ \A i \in DOMAIN layout : layout[i] \in PartNames
  BY DEF IsLayout
<1>2. UINT_BITS \in Nat /\ UINT_BITS < 2 * UINT_BITS /\ 2 * UINT_BITS \in Nat
  BY DEF AddressAssumption
<1> DEFINE Here(i) == ShiftedTo(layout, i, address) = address \div PowerOf2[at[layout[i]]]
           S == {n \in Nat : n + 1 \in DOMAIN layout => Here(n + 1)}
<1>3. ASSUME 1 \in DOMAIN layout PROVE Here(1)
  <2>1. address \div 1 = address
    OBVIOUS
  <2>2. ShiftedTo(layout, 1, address) = address
    BY ShiftedToRecursion
  <2>3. PowerOf2[at[layout[1]]] = 1
    BY PowerRecursion DEF Ascending
  <2> QED
    BY <2>1, <2>2, <2>3
<1>4. ASSUME NEW i \in DOMAIN layout, i + 1 \in DOMAIN layout, Here(i) PROVE Here(i + 1)
  <2> DEFINE w == Widths[layout[i]]
             o == at[layout[i]]
  <2>1. w \in 0 .. UINT_BITS - 1 /\ o \in Nat
    BY <1>1, <1>4, WidthsFit
  <2>2. w % (2 * UINT_BITS) = w
    <3>1. w \in 0 .. (2 * UINT_BITS) - 1 /\ 2 * UINT_BITS > 0 /\ w \in Int
      <4> HIDE DEF w
      <4> QED
        BY <1>2, <2>1
    <3> HIDE DEF w
    <3> QED
      BY <1>2, <3>1, IntOperators
  <2>3. ShiftedTo(layout, i + 1, address) = ShiftedRight(ShiftedTo(layout, i, address), w)
    BY <1>4, ShiftedToRecursion
  <2>4. ShiftedTo(layout, i + 1, address) = (address \div PowerOf2[o]) \div PowerOf2[w]
    BY <1>4, <2>2, <2>3 DEF ShiftedRight
  <2>5. at[layout[i + 1]] = o + w
    <3>1. i \in 1 .. Len(layout) - 1
      BY <1>1, <1>4
    <3> QED
      BY <3>1 DEF Ascending
  <2> HIDE DEF o, w
  <2>6. (address \div PowerOf2[o]) \div PowerOf2[w] = address \div PowerOf2[o + w]
    <3>1. w \in Nat
      BY <1>2, <2>1
    <3> QED
      BY <2>1, <3>1, TwoShifts
  <2> QED
    BY <2>4, <2>5, <2>6
<1> HIDE DEF Here
<1>5. Nat \subseteq S
  <2>1. 0 \in S
    BY <1>3
  <2>2. ASSUME NEW n \in Nat, n \in S PROVE n + 1 \in S
    <3> SUFFICES ASSUME (n + 1) + 1 \in DOMAIN layout PROVE Here((n + 1) + 1)
      OBVIOUS
    <3>1. n + 1 \in DOMAIN layout
      BY <1>1
    <3>2. Here(n + 1)
      BY <2>2, <3>1
    <3> QED
      BY <1>4, <3>1, <3>2
  <2> HIDE DEF S
  <2> QED
    BY <2>1, <2>2, Induction
<1> DEFINE j == CHOOSE i \in DOMAIN layout : layout[i] = part
<1>6. j \in DOMAIN layout /\ layout[j] = part
  OBVIOUS
<1>7. PartOf(layout, part, address) = Dropped(ShiftedTo(layout, j, address), Widths[part])
  BY DEF PartOf
<1> HIDE DEF j
<1>8. Here(j)
  <2>1. j - 1 \in Nat /\ (j - 1) + 1 = j
    BY <1>1, <1>6
  <2>2. j - 1 \in S
    BY <1>5, <2>1
  <2> QED
    BY <1>6, <2>1, <2>2
<1>9. part \in PartNames /\ Widths[part] \in 0 .. UINT_BITS - 1
  BY <1>1, <1>6, WidthsFit
<1>10. ShiftedTo(layout, j, address) = address \div PowerOf2[at[part]]
  BY <1>6, <1>8 DEF Here
<1>11. ShiftedTo(layout, j, address) \in Int
  BY <1>6, ShiftedToRecursion
<1>12. Dropped(ShiftedTo(layout, j, address), Widths[part])
         = ShiftedTo(layout, j, address) % PowerOf2[Widths[part]]
  BY <1>9, <1>11, DroppedRange
<1> QED
  BY <1>7, <1>10, <1>12 DEF Slice

\* Read from the highest to the lowest, the parts make up all bits of an address.
Descending(name, at) ==
    /\ Len(name) \in Nat \ {0}
    /\ at[name[1]] + Widths[name[1]] = AddressBits
    /\ \A k \in 1 .. Len(name) - 1 : at[name[k]] = at[name[k + 1]] + Widths[name[k + 1]]
    /\ at[name[Len(name)]] = 0
    /\ \A k \in 1 .. Len(name) : at[name[k]] + Widths[name[k]] <= AddressBits

\* Put together again, the slices are the address, cut off after its last bit.
LEMMA SlicesComposed ==
    ASSUME AddressAssumption, MemorySizeType, RowFits,
           NEW name, IsLayout(name), NEW address \in Int,
           NEW at \in [PartNames -> Nat], Descending(name, at),
           NEW fields,
           \A k \in DOMAIN name : fields[name[k]] = Slice(address, at[name[k]], Widths[name[k]])
    PROVE  Composed(name, fields) = address % PowerOf2[AddressBits]
<1> DEFINE m == Len(name)
           t == AddressBits
           value == [k \in 1 .. m |-> Slice(address, at[name[k]], Widths[name[k]])]
           scale == [k \in 1 .. m |-> PowerOf2[Widths[name[k]]]]
           step == [k \in 1 .. m |-> [v \in Int |-> v * scale[k] + value[k]]]
<1>1. /\ m \in Nat /\ m # 0 /\ DOMAIN name = 1 .. m
      /\ \A k \in 1 .. m : name[k] \in PartNames /\ fields[name[k]] = value[k]
  BY DEF IsLayout, Descending
<1>2. UINT_BITS \in Nat /\ t \in Nat
  BY BitsFit DEF AddressAssumption
<1>3. ASSUME NEW k \in 1 .. m
      PROVE  /\ at[name[k]] \in Nat /\ Widths[name[k]] \in Nat
             /\ scale[k] = PowerOf2[Widths[name[k]]] /\ scale[k] \in Int
             /\ value[k] = Slice(address, at[name[k]], Widths[name[k]]) /\ value[k] \in Int
  <2> DEFINE o == at[name[k]]
             w == Widths[name[k]]
  <2>1. o \in Nat /\ w \in Nat
    BY <1>1, <1>2, WidthsFit
  <2>2. value[k] = Slice(address, o, w) /\ scale[k] = PowerOf2[w]
    OBVIOUS
  <2> HIDE DEF o, w, value, scale
  <2>3. PowerOf2[o] \in Nat /\ PowerOf2[w] \in Nat /\ PowerOf2[o] > 0 /\ PowerOf2[w] > 0
    BY <2>1, PowerPositive
  <2>4. address \div PowerOf2[o] \in Int
    BY <2>3, IntOperators
  <2>5. Slice(address, o, w) \in Int
    BY <2>3, <2>4, IntOperators DEF Slice
  <2> QED
    BY <2>1, <2>2, <2>3, <2>5 DEF o, w
<1> HIDE DEF m, t, value, scale
<1>4. step \in [1 .. m -> [Int -> Int]]
  <2>1. ASSUME NEW k \in 1 .. m, NEW v \in Int PROVE v * scale[k] + value[k] \in Int
    BY <1>3
  <2> QED
    BY <2>1
<1>5. \A k \in 1 .. m : \A v \in Int : step[k][v] = v * scale[k] + value[k]
  OBVIOUS
<1> HIDE DEF step
<1>6. PICK f \in [0 .. m -> Int] : IsRecursive(f, m, 0, step)
  <2>1. 0 \in Int
    OBVIOUS
  <2> QED
    BY <1>1, <1>4, <2>1, FiniteRecursion
<1> DEFINE Next(h, k) == IF k = 0 THEN 0
                         ELSE h[k - 1] * PowerOf2[Widths[name[k]]] + fields[name[k]]
<1>7. ASSUME NEW k \in 0 .. m PROVE f[k] = Next(f, k)
  <2>1. CASE k = 0
    BY <1>6, <2>1 DEF IsRecursive
  <2>2. CASE k # 0
    <3>1. k \in 1 .. m /\ k - 1 \in 0 .. m
      BY <1>1, <2>2
    <3>2. f[k - 1] \in Int
      BY <3>1
    <3>3. f[k] = step[k][f[k - 1]]
      BY <1>6, <2>2 DEF IsRecursive
    <3>4. f[k] = f[k - 1] * scale[k] + value[k]
      BY <1>5, <3>1, <3>2, <3>3
    <3> QED
      BY <1>1, <1>3, <3>1, <3>4, <2>2
  <2> QED
    BY <2>1, <2>2
<1>8. f = [k \in 0 .. m |-> Next(f, k)]
  <2>1. f = [k \in 0 .. m |-> f[k]]
    OBVIOUS
  <2> HIDE DEF Next
  <2> QED
    BY <1>7, <2>1
<1> DEFINE high == CHOOSE h : h = [k \in 0 .. m |-> Next(h, k)]
<1>9. high = [k \in 0 .. m |-> Next(high, k)]
  BY <1>8
<1>10. Composed(name, fields) = high[m]
  BY DEF Composed, m
<1> HIDE DEF high
<1>11. \A k \in 0 .. m : high[k] = Next(high, k)
  <2> HIDE DEF Next
  <2> QED
    BY <1>9
<1> DEFINE S == {n \in Nat : n + 1 <= m =>
                    high[n + 1] = Above(address, t, at[name[n + 1]])}
<1>12. 0 \in S
  <2>1. 1 \in 1 .. m /\ 1 \in 0 .. m /\ 0 \in 0 .. m /\ 1 - 1 = 0 /\ 0 + 1 = 1
    BY <1>1
  <2> DEFINE o == at[name[1]]
             w == Widths[name[1]]
  <2>2. high[1] = 0 * PowerOf2[w] + Slice(address, o, w)
    <3>1. high[0] = 0
      BY <1>11, <2>1
    <3>2. high[1] = high[0] * PowerOf2[w] + fields[name[1]]
      BY <1>11, <2>1
    <3> QED
      BY <1>1, <1>3, <2>1, <3>1, <3>2
  <2>3. o \in Nat /\ w \in Nat /\ o + w = t
    BY <1>3, <2>1 DEF Descending, t
  <2> HIDE DEF o, w
  <2>4. Above(address, t, o + w) = 0
    <3> DEFINE n == PowerOf2[t]
               b == address % n
    <3>1. n \in Nat /\ n > 0
      BY <1>2, PowerPositive
    <3>2. Above(address, t, o + w) = b \div n
      BY <2>3 DEF Above
    <3> HIDE DEF n
    <3>3. b \in 0 .. n - 1
      BY <3>1, IntOperators
    <3> HIDE DEF b
    <3>4. (n * 0 + b) \div n = 0
      BY <3>1, <3>3, QuotientUnique
    <3>5. n * 0 + b = b
      BY <3>1, <3>3
    <3> QED
      BY <3>2, <3>4, <3>5
  <2>5. Above(address, t, o + w) * PowerOf2[w] + Slice(address, o, w) = Above(address, t, o)
    BY <1>2, <2>3, SliceBelow
  <2>6. high[1] = Above(address, t, o)
    BY <2>2, <2>4, <2>5
  <2> QED
    BY <2>1, <2>6 DEF o
<1>13. ASSUME NEW n \in Nat, n \in S PROVE n + 1 \in S
  <2> SUFFICES ASSUME (n + 1) + 1 <= m
               PROVE  high[(n + 1) + 1] = Above(address, t, at[name[(n + 1) + 1]])
    OBVIOUS
  <2> DEFINE k == n + 2
             o == at[name[k]]
             w == Widths[name[k]]
  <2>1. /\ (n + 1) + 1 = k /\ k - 1 = n + 1 /\ k # 0 /\ k \in 0 .. m /\ k \in 1 .. m
        /\ k - 1 \in 1 .. m /\ n + 1 <= m /\ k - 1 \in 1 .. m - 1
    BY <1>1
  <2>2. high[k] = high[n + 1] * PowerOf2[w] + Slice(address, o, w)
    <3>1. high[k] = high[n + 1] * PowerOf2[w] + fields[name[k]]
      BY <1>11, <2>1
    <3>2. fields[name[k]] = Slice(address, o, w)
      BY <1>1, <1>3, <2>1
    <3> QED
      BY <3>1, <3>2
  <2>3. high[n + 1] = Above(address, t, at[name[k - 1]])
    BY <1>13, <2>1
  <2>4. at[name[k - 1]] = o + w
    <3>1. (k - 1) + 1 = k
      OBVIOUS
    <3>2. at[name[k - 1]] = at[name[(k - 1) + 1]] + Widths[name[(k - 1) + 1]]
      BY <2>1 DEF Descending, m
    <3> QED
      BY <3>1, <3>2
  <2>5. o \in Nat /\ w \in Nat /\ o + w <= t
    BY <1>3, <2>1 DEF Descending, t, m
  <2> HIDE DEF k, o, w
  <2>6. Above(address, t, o + w) * PowerOf2[w] + Slice(address, o, w) = Above(address, t, o)
    BY <1>2, <2>5, SliceBelow
  <2>7. high[k] = Above(address, t, o)
    BY <2>2, <2>3, <2>4, <2>6
  <2> QED
    BY <2>1, <2>7 DEF o
<1>14. high[m] = Above(address, t, 0)
  <2>1. m - 1 \in Nat /\ (m - 1) + 1 = m
    BY <1>1
  <2>2. m - 1 \in S
    <3> HIDE DEF S
    <3>1. Nat \subseteq S
      BY <1>12, <1>13, Induction
    <3> QED
      BY <2>1, <3>1
  <2>3. high[m] = Above(address, t, at[name[m]])
    BY <2>1, <2>2
  <2> QED
    BY <2>3 DEF Descending, m
<1>15. Above(address, t, 0) = address % PowerOf2[t]
  <2> DEFINE b == address % PowerOf2[t]
  <2>1. b \in Int
    BY <1>2, PowerPositive, IntOperators
  <2>2. Above(address, t, 0) = b \div 1
    BY PowerRecursion DEF Above
  <2> HIDE DEF b
  <2> QED
    BY <2>1, <2>2 DEF b
<1> QED
  BY <1>10, <1>14, <1>15 DEF t

-----------------------------------------------------------------------------
(* Where the parts lie, scheme by scheme                                   *)

\* The code takes the parts off an address, and the name puts them, at these offsets.
Offsets(scheme, at) ==
    LET layout == Layouts[scheme]
        name == Names[scheme]
    IN /\ at \in [PartNames -> Nat]
       /\ IsLayout(layout) /\ IsLayout(name)
       /\ Ascending(layout, at)
       /\ Descending(name, at)
       /\ (BOBRowBitWidth = rowBitWidth) => channelIDOffset(scheme) = at["chan"]
       /\ at["chan"] <= AddressBits
       /\ at["by"] = 0 /\ at["colLow"] = busOffsetBitWidth
       /\ \/ /\ \E i \in DOMAIN layout : layout[i] = "col"
             /\ at["col"] = busOffsetBitWidth
             /\ \A k \in DOMAIN name : name[k] \in {"chan", "rank", "bank", "row", "col", "by"}
          \/ /\ \A i \in DOMAIN layout : layout[i] # "col"
             /\ \E i \in DOMAIN layout : layout[i] = "colHigh"
             /\ \A part \in {"rank", "bank", "row", "colHigh"} :
                   at[part] >= cacheOffset + channelBitWidth
             /\ \A k \in DOMAIN name :
                   name[k] \in {"chan", "rank", "bank", "row", "colHigh", "colLow", "by"}
       /\ \A part \in {"rank", "bank", "row"} : \E i \in DOMAIN layout : layout[i] = part

\* The widths, as numbers of which only this is known.
LEMMA WidthsSum ==
    ASSUME AddressAssumption, MemorySizeType, RowFits
    PROVE  /\ \A part \in PartNames : Widths[part] \in Nat
           /\ Widths["by"] = busOffsetBitWidth
           /\ Widths["line"] = Widths["by"] + Widths["colLow"]
           /\ Widths["col"] = Widths["colLow"] + Widths["colHigh"]
           /\ AddressBits = Widths["by"] + Widths["colLow"] + Widths["colHigh"]
                 + Widths["chan"] + Widths["rank"] + Widths["bank"] + Widths["row"]
           /\ cacheOffset = Widths["line"] /\ colBitWidth = Widths["col"]
           /\ channelBitWidth = Widths["chan"]
           /\ rankBitWidth = Widths["rank"] /\ bankBitWidth = Widths["bank"]
           /\ rowBitWidth = Widths["row"]
<1>1. UINT_BITS \in Nat
  BY DEF AddressAssumption
<1>2. \A part \in PartNames : Widths[part] \in Nat
  BY <1>1, WidthsFit
<1>3. /\ Widths["by"] = busOffsetBitWidth /\ Widths["line"] = cacheOffset
      /\ Widths["chan"] = channelBitWidth /\ Widths["rank"] = rankBitWidth
      /\ Widths["bank"] = bankBitWidth /\ Widths["row"] = rowBitWidth
      /\ Widths["col"] = colBitWidth /\ Widths["colLow"] = cacheOffset - busOffsetBitWidth
      /\ Widths["colHigh"] = colBitWidth - Widths["colLow"]
  BY DEF Widths, colLowBitWidth
<1>4. /\ "by" \in PartNames /\ "line" \in PartNames /\ "chan" \in PartNames
      /\ "rank" \in PartNames /\ "bank" \in PartNames /\ "row" \in PartNames
      /\ "col" \in PartNames /\ "colLow" \in PartNames /\ "colHigh" \in PartNames
  BY DEF PartNames, Widths
<1>5. /\ busOffsetBitWidth \in Nat /\ cacheOffset \in Nat /\ channelBitWidth \in Nat
      /\ rankBitWidth \in Nat /\ bankBitWidth \in Nat /\ rowBitWidth \in Nat
      /\ colBitWidth \in Nat
  BY <1>2, <1>3, <1>4
<1>6. log2(NUM_ROWS) \in Nat
  BY FieldWidths
<1>7. AddressBits = busOffsetBitWidth + colBitWidth + channelBitWidth + rankBitWidth
                    + bankBitWidth + rowBitWidth
  BY <1>5, <1>6 DEF AddressBits, TotalBits
<1> QED
  BY <1>2, <1>3, <1>5, <1>7

LEMMA At_RW_BK_RK_CH_CL_BY ==
    ASSUME AddressAssumption, MemorySizeType, RowFits
    PROVE  \E at : Offsets("RW_BK_RK_CH_CL_BY", at)
<1> DEFINE W(part) == Widths[part]
           at == [by |-> 0,
                  line |-> 0,
                  colLow |-> W("by"),
                  col |-> W("by"),
                  colHigh |-> 0,
                  chan |-> W("by") + W("col"),
                  rank |-> W("by") + W("col") + W("chan"),
                  bank |-> W("by") + W("col") + W("chan") + W("rank"),
                  row |-> W("by") + W("col") + W("chan") + W("rank") + W("bank")]
           layout == RW_BK_RK_CH_CL_BY
           name == Names["RW_BK_RK_CH_CL_BY"]
<1>1. PartNames = {"by", "line", "chan", "rank", "bank", "row", "col", "colLow", "colHigh"}
  BY DEF PartNames, Widths
<1>2. at \in [PartNames -> Nat]
  BY <1>1, WidthsSum
<1>3. Layouts["RW_BK_RK_CH_CL_BY"] = layout
  BY DEF Layouts
<1>4. name = <<"row", "bank", "rank", "chan", "col", "by">>
  BY DEF Names
<1>5. IsLayout(layout) /\ IsLayout(name)
  BY <1>1, <1>4 DEF IsLayout, RW_BK_RK_CH_CL_BY
<1>6. Ascending(layout, at)
  BY <1>1, WidthsSum DEF Ascending, RW_BK_RK_CH_CL_BY
<1>7. Descending(name, at)
  BY <1>1, <1>4, WidthsSum DEF Descending
<1>8. channelIDOffset("RW_BK_RK_CH_CL_BY") = at["chan"]
  BY <1>1, WidthsSum DEF channelIDOffset
<1>9. at["chan"] <= AddressBits /\ at["by"] = 0 /\ at["colLow"] = busOffsetBitWidth
  BY <1>1, WidthsSum
<1>10. /\ \E i \in DOMAIN layout : layout[i] = "col"
       /\ at["col"] = busOffsetBitWidth
       /\ \A k \in DOMAIN name : name[k] \in {"chan", "rank", "bank", "row", "col", "by"}
  BY <1>4, WidthsSum DEF RW_BK_RK_CH_CL_BY
<1>11. \A part \in {"rank", "bank", "row"} : \E i \in DOMAIN layout : layout[i] = part
  BY DEF RW_BK_RK_CH_CL_BY
<1> QED
  BY <1>2, <1>3, <1>5, <1>6, <1>7, <1>8, <1>9, <1>10, <1>11 DEF Offsets

LEMMA At_RW_CH_BK_RK_CL_BY ==
    ASSUME AddressAssumption, MemorySizeType, RowFits
    PROVE  \E at : Offsets("RW_CH_BK_RK_CL_BY", at)
<1> DEFINE W(part) == Widths[part]
           at == [by |-> 0,
                  line |-> 0,
                  colLow |-> W("by"),
                  col |-> W("by"),
                  colHigh |-> 0,
                  chan |-> W("by") + W("col") + W("rank") + W("bank"),
                  rank |-> W("by") + W("col"),
                  bank |-> W("by") + W("col") + W("rank"),
                  row |-> W("by") + W("col") + W("rank") + W("bank") + W("chan")]
           layout == RW_CH_BK_RK_CL_BY
           name == Names["RW_CH_BK_RK_CL_BY"]
<1>1. PartNames = {"by", "line", "chan", "rank", "bank", "row", "col", "colLow", "colHigh"}
  BY DEF PartNames, Widths
<1>2. at \in [PartNames -> Nat]
  BY <1>1, WidthsSum
<1>3. Layouts["RW_CH_BK_RK_CL_BY"] = layout
  BY DEF Layouts
<1>4. name = <<"row", "chan", "bank", "rank", "col", "by">>
  BY DEF Names
<1>5. IsLayout(layout) /\ IsLayout(name)
  BY <1>1, <1>4 DEF IsLayout, RW_CH_BK_RK_CL_BY
<1>6. Ascending(layout, at)
  BY <1>1, WidthsSum DEF Ascending, RW_CH_BK_RK_CL_BY
<1>7. Descending(name, at)
  BY <1>1, <1>4, WidthsSum DEF Descending
<1>8. channelIDOffset("RW_CH_BK_RK_CL_BY") = at["chan"]
  BY <1>1, WidthsSum DEF channelIDOffset
<1>9. at["chan"] <= AddressBits /\ at["by"] = 0 /\ at["colLow"] = busOffsetBitWidth
  BY <1>1, WidthsSum
<1>10. /\ \E i \in DOMAIN layout : layout[i] = "col"
       /\ at["col"] = busOffsetBitWidth
       /\ \A k \in DOMAIN name : name[k] \in {"chan", "rank", "bank", "row", "col", "by"}
  BY <1>4, WidthsSum DEF RW_CH_BK_RK_CL_BY
<1>11. \A part \in {"rank", "bank", "row"} : \E i \in DOMAIN layout : layout[i] = part
  BY DEF RW_CH_BK_RK_CL_BY
<1> QED
  BY <1>2, <1>3, <1>5, <1>6, <1>7, <1>8, <1>9, <1>10, <1>11 DEF Offsets

LEMMA At_RW_BK_RK_CLH_CH_CLL_BY ==
    ASSUME AddressAssumption, MemorySizeType, RowFits
    PROVE  \E at : Offsets("RW_BK_RK_CLH_CH_CLL_BY", at)
<1> DEFINE W(part) == Widths[part]
           at == [by |-> 0,
                  line |-> 0,
                  colLow |-> W("by"),
                  col |-> W("by"),
                  colHigh |-> W("by") + W("colLow") + W("chan"),
                  chan |-> W("by") + W("colLow"),
                  rank |-> W("by") + W("colLow") + W("chan") + W("colHigh"),
                  bank |-> W("by") + W("colLow") + W("chan") + W("colHigh") + W("rank"),
                  row |-> W("by") + W("colLow") + W("chan") + W("colHigh") + W("rank") + W("bank")]
           layout == RW_BK_RK_CLH_CH_CLL_BY
           name == Names["RW_BK_RK_CLH_CH_CLL_BY"]
<1>1. PartNames = {"by", "line", "chan", "rank", "bank", "row", "col", "colLow", "colHigh"}
  BY DEF PartNames, Widths
<1>2. at \in [PartNames -> Nat]
  BY <1>1, WidthsSum
<1>3. Layouts["RW_BK_RK_CLH_CH_CLL_BY"] = layout
  BY DEF Layouts
<1>4. name = <<"row", "bank", "rank", "colHigh", "chan", "colLow", "by">>
  BY DEF Names
<1>5. IsLayout(layout) /\ IsLayout(name)
  BY <1>1, <1>4 DEF IsLayout, RW_BK_RK_CLH_CH_CLL_BY
<1>6. Ascending(layout, at)
  BY <1>1, WidthsSum DEF Ascending, RW_BK_RK_CLH_CH_CLL_BY
<1>7. Descending(name, at)
  BY <1>1, <1>4, WidthsSum DEF Descending
<1>8. channelIDOffset("RW_BK_RK_CLH_CH_CLL_BY") = at["chan"]
  BY <1>1, WidthsSum DEF channelIDOffset
<1>9. at["chan"] <= AddressBits /\ at["by"] = 0 /\ at["colLow"] = busOffsetBitWidth
  BY <1>1, WidthsSum
<1>10. /\ \A i \in DOMAIN layout : layout[i] # "col"
       /\ \E i \in DOMAIN layout : layout[i] = "colHigh"
       /\ \A part \in {"rank", "bank", "row", "colHigh"} :
             at[part] >= cacheOffset + channelBitWidth
       /\ \A k \in DOMAIN name :
             name[k] \in {"chan", "rank", "bank", "row", "colHigh", "colLow", "by"}
  BY <1>1, <1>4, WidthsSum DEF RW_BK_RK_CLH_CH_CLL_BY
<1>11. \A part \in {"rank", "bank", "row"} : \E i \in DOMAIN layout : layout[i] = part
  BY DEF RW_BK_RK_CLH_CH_CLL_BY
<1> QED
  BY <1>2, <1>3, <1>5, <1>6, <1>7, <1>8, <1>9, <1>10, <1>11 DEF Offsets

LEMMA At_RW_CLH_BK_RK_CH_CLL_BY ==
    ASSUME AddressAssumption, MemorySizeType, RowFits
    PROVE  \E at : Offsets("RW_CLH_BK_RK_CH_CLL_BY", at)
<1> DEFINE W(part) == Widths[part]
           at == [by |-> 0,
                  line |-> 0,
                  colLow |-> W("by"),
                  col |-> W("by"),
                  colHigh |-> W("by") + W("colLow") + W("chan") + W("rank") + W("bank"),
                  chan |-> W("by") + W("colLow"),
                  rank |-> W("by") + W("colLow") + W("chan"),
                  bank |-> W("by") + W("colLow") + W("chan") + W("rank"),
                  row |-> W("by") + W("colLow") + W("chan") + W("rank") + W("bank") + W("colHigh")]
           layout == RW_CLH_BK_RK_CH_CLL_BY
           name == Names["RW_CLH_BK_RK_CH_CLL_BY"]
<1>1. PartNames = {"by", "line", "chan", "rank", "bank", "row", "col", "colLow", "colHigh"}
  BY DEF PartNames, Widths
<1>2. at \in [PartNames -> Nat]
  BY <1>1, WidthsSum
<1>3. Layouts["RW_CLH_BK_RK_CH_CLL_BY"] = layout
  BY DEF Layouts
<1>4. name = <<"row", "colHigh", "bank", "rank", "chan", "colLow", "by">>
  BY DEF Names
<1>5. IsLayout(layout) /\ IsLayout(name)
  BY <1>1, <1>4 DEF IsLayout, RW_CLH_BK_RK_CH_CLL_BY
<1>6. Ascending(layout, at)
  BY <1>1, WidthsSum DEF Ascending, RW_CLH_BK_RK_CH_CLL_BY
<1>7. Descending(name, at)
  BY <1>1, <1>4, WidthsSum DEF Descending
<1>8. channelIDOffset("RW_CLH_BK_RK_CH_CLL_BY") = at["chan"]
  BY <1>1, WidthsSum DEF channelIDOffset
<1>9. at["chan"] <= AddressBits /\ at["by"] = 0 /\ at["colLow"] = busOffsetBitWidth
  BY <1>1, WidthsSum
<1>10. /\ \A i \in DOMAIN layout : layout[i] # "col"
       /\ \E i \in DOMAIN layout : layout[i] = "colHigh"
       /\ \A part \in {"rank", "bank", "row", "colHigh"} :
             at[part] >= cacheOffset + channelBitWidth
       /\ \A k \in DOMAIN name :
             name[k] \in {"chan", "rank", "bank", "row", "colHigh", "colLow", "by"}
  BY <1>1, <1>4, WidthsSum DEF RW_CLH_BK_RK_CH_CLL_BY
<1>11. \A part \in {"rank", "bank", "row"} : \E i \in DOMAIN layout : layout[i] = part
  BY DEF RW_CLH_BK_RK_CH_CLL_BY
<1> QED
  BY <1>2, <1>3, <1>5, <1>6, <1>7, <1>8, <1>9, <1>10, <1>11 DEF Offsets

LEMMA At_CH_RW_BK_RK_CL_BY ==
    ASSUME AddressAssumption, MemorySizeType, RowFits
    PROVE  \E at : Offsets("CH_RW_BK_RK_CL_BY", at)
<1> DEFINE W(part) == Widths[part]
           at == [by |-> 0,
                  line |-> 0,
                  colLow |-> W("by"),
                  col |-> W("by"),
                  colHigh |-> 0,
                  chan |-> W("by") + W("col") + W("rank") + W("bank") + W("row"),
                  rank |-> W("by") + W("col"),
                  bank |-> W("by") + W("col") + W("rank"),
                  row |-> W("by") + W("col") + W("rank") + W("bank")]
           layout == CH_RW_BK_RK_CL_BY
           name == Names["CH_RW_BK_RK_CL_BY"]
<1>1. PartNames = {"by", "line", "chan", "rank", "bank", "row", "col", "colLow", "colHigh"}
  BY DEF PartNames, Widths
<1>2. at \in [PartNames -> Nat]
  BY <1>1, WidthsSum
<1>3. Layouts["CH_RW_BK_RK_CL_BY"] = layout
  BY DEF Layouts
<1>4. name = <<"chan", "row", "bank", "rank", "col", "by">>
  BY DEF Names
<1>5. IsLayout(layout) /\ IsLayout(name)
  BY <1>1, <1>4 DEF IsLayout, CH_RW_BK_RK_CL_BY
<1>6. Ascending(layout, at)
  BY <1>1, WidthsSum DEF Ascending, CH_RW_BK_RK_CL_BY
<1>7. Descending(name, at)
  BY <1>1, <1>4, WidthsSum DEF Descending
<1>8. ASSUME BOBRowBitWidth = rowBitWidth
      PROVE  channelIDOffset("CH_RW_BK_RK_CL_BY") = at["chan"]
  <2> DEFINE sum == BOBRowBitWidth + bankBitWidth + rankBitWidth + colBitWidth
                    + busOffsetBitWidth
             m == PowerOf2[UINT_BITS]
  <2>1. sum = at["chan"] /\ sum \in Nat /\ sum <= AddressBits
    BY <1>1, <1>8, WidthsSum
  <2>2. sum \in 0 .. m - 1 /\ m \in Nat /\ m > 0
    <3>1. UINT_BITS \in Nat /\ AddressBits <= UINT_BITS /\ AddressBits \in Nat
      BY BitsFit DEF AddressAssumption
    <3>2. m \in Nat /\ m > UINT_BITS
      BY <3>1, PowerPositive
    <3> HIDE DEF sum, m
    <3> QED
      BY <2>1, <3>1, <3>2
  <2>3. channelIDOffset("CH_RW_BK_RK_CL_BY") = sum % m
    BY DEF channelIDOffset
  <2> HIDE DEF sum, m
  <2>4. sum % m = sum
    BY <2>1, <2>2, IntOperators
  <2> QED
    BY <2>1, <2>3, <2>4
<1>9. at["chan"] <= AddressBits /\ at["by"] = 0 /\ at["colLow"] = busOffsetBitWidth
  BY <1>1, WidthsSum
<1>10. /\ \E i \in DOMAIN layout : layout[i] = "col"
       /\ at["col"] = busOffsetBitWidth
       /\ \A k \in DOMAIN name : name[k] \in {"chan", "rank", "bank", "row", "col", "by"}
  BY <1>4, WidthsSum DEF CH_RW_BK_RK_CL_BY
<1>11. \A part \in {"rank", "bank", "row"} : \E i \in DOMAIN layout : layout[i] = part
  BY DEF CH_RW_BK_RK_CL_BY
<1> QED
  BY <1>2, <1>3, <1>5, <1>6, <1>7, <1>8, <1>9, <1>10, <1>11 DEF Offsets

LEMMA At_RK_BK_RW_CLH_CH_CLL_BY ==
    ASSUME AddressAssumption, MemorySizeType, RowFits
    PROVE  \E at : Offsets("RK_BK_RW_CLH_CH_CLL_BY", at)
<1> DEFINE W(part) == Widths[part]
           at == [by |-> 0,
                  line |-> 0,
                  colLow |-> W("by"),
                  col |-> W("by"),
                  colHigh |-> W("by") + W("colLow") + W("chan"),
                  chan |-> W("by") + W("colLow"),
                  rank |-> W("by") + W("colLow") + W("chan") + W("colHigh") + W("row") + W("bank"),
                  bank |-> W("by") + W("colLow") + W("chan") + W("colHigh") + W("row"),
                  row |-> W("by") + W("colLow") + W("chan") + W("colHigh")]
           layout == RK_BK_RW_CLH_CH_CLL_BY
           name == Names["RK_BK_RW_CLH_CH_CLL_BY"]
<1>1. PartNames = {"by", "line", "chan", "rank", "bank", "row", "col", "colLow", "colHigh"}
  BY DEF PartNames, Widths
<1>2. at \in [PartNames -> Nat]
  BY <1>1, WidthsSum
<1>3. Layouts["RK_BK_RW_CLH_CH_CLL_BY"] = layout
  BY DEF Layouts
<1>4. name = <<"rank", "bank", "row", "colHigh", "chan", "colLow", "by">>
  BY DEF Names
<1>5. IsLayout(layout) /\ IsLayout(name)
  BY <1>1, <1>4 DEF IsLayout, RK_BK_RW_CLH_CH_CLL_BY
<1>6. Ascending(layout, at)
  BY <1>1, WidthsSum DEF Ascending, RK_BK_RW_CLH_CH_CLL_BY
<1>7. Descending(name, at)
  BY <1>1, <1>4, WidthsSum DEF Descending
<1>8. channelIDOffset("RK_BK_RW_CLH_CH_CLL_BY") = at["chan"]
  BY <1>1, WidthsSum DEF channelIDOffset
<1>9. at["chan"] <= AddressBits /\ at["by"] = 0 /\ at["colLow"] = busOffsetBitWidth
  BY <1>1, WidthsSum
<1>10. /\ \A i \in DOMAIN layout : layout[i] # "col"
       /\ \E i \in DOMAIN layout : layout[i] = "colHigh"
       /\ \A part \in {"rank", "bank", "row", "colHigh"} :
             at[part] >= cacheOffset + channelBitWidth
       /\ \A k \in DOMAIN name :
             name[k] \in {"chan", "rank", "bank", "row", "colHigh", "colLow", "by"}
  BY <1>1, <1>4, WidthsSum DEF RK_BK_RW_CLH_CH_CLL_BY
<1>11. \A part \in {"rank", "bank", "row"} : \E i \in DOMAIN layout : layout[i] = part
  BY DEF RK_BK_RW_CLH_CH_CLL_BY
<1> QED
  BY <1>2, <1>3, <1>5, <1>6, <1>7, <1>8, <1>9, <1>10, <1>11 DEF Offsets

LEMMA At_CLH_RW_RK_BK_CH_CLL_BY ==
    ASSUME AddressAssumption, MemorySizeType, RowFits
    PROVE  \E at : Offsets("CLH_RW_RK_BK_CH_CLL_BY", at)
<1> DEFINE W(part) == Widths[part]
           at == [by |-> 0,
                  line |-> 0,
                  colLow |-> W("by"),
                  col |-> W("by"),
                  colHigh |-> W("by") + W("colLow") + W("chan") + W("bank") + W("rank") + W("row"),
                  chan |-> W("by") + W("colLow"),
                  rank |-> W("by") + W("colLow") + W("chan") + W("bank"),
                  bank |-> W("by") + W("colLow") + W("chan"),
                  row |-> W("by") + W("colLow") + W("chan") + W("bank") + W("rank")]
           layout == CLH_RW_RK_BK_CH_CLL_BY
           name == Names["CLH_RW_RK_BK_CH_CLL_BY"]
<1>1. PartNames = {"by", "line", "chan", "rank", "bank", "row", "col", "colLow", "colHigh"}
  BY DEF PartNames, Widths
<1>2. at \in [PartNames -> Nat]
  BY <1>1, WidthsSum
<1>3. Layouts["CLH_RW_RK_BK_CH_CLL_BY"] = layout
  BY DEF Layouts
<1>4. name = <<"colHigh", "row", "rank", "bank", "chan", "colLow", "by">>
  BY DEF Names
<1>5. IsLayout(layout) /\ IsLayout(name)
  BY <1>1, <1>4 DEF IsLayout, CLH_RW_RK_BK_CH_CLL_BY
<1>6. Ascending(layout, at)
  BY <1>1, WidthsSum DEF Ascending, CLH_RW_RK_BK_CH_CLL_BY
<1>7. Descending(name, at)
  BY <1>1, <1>4, WidthsSum DEF Descending
<1>8. channelIDOffset("CLH_RW_RK_BK_CH_CLL_BY") = at["chan"]
  BY <1>1, WidthsSum DEF channelIDOffset
<1>9. at["chan"] <= AddressBits /\ at["by"] = 0 /\ at["colLow"] = busOffsetBitWidth
  BY <1>1, WidthsSum
<1>10. /\ \A i \in DOMAIN layout : layout[i] # "col"
       /\ \E i \in DOMAIN layout : layout[i] = "colHigh"
       /\ \A part \in {"rank", "bank", "row", "colHigh"} :
             at[part] >= cacheOffset + channelBitWidth
       /\ \A k \in DOMAIN name :
             name[k] \in {"chan", "rank", "bank", "row", "colHigh", "colLow", "by"}
  BY <1>1, <1>4, WidthsSum DEF CLH_RW_RK_BK_CH_CLL_BY
<1>11. \A part \in {"rank", "bank", "row"} : \E i \in DOMAIN layout : layout[i] = part
  BY DEF CLH_RW_RK_BK_CH_CLL_BY
<1> QED
  BY <1>2, <1>3, <1>5, <1>6, <1>7, <1>8, <1>9, <1>10, <1>11 DEF Offsets

LEMMA At_BK_CLH_RW_RK_CH_CLL_BY ==
    ASSUME AddressAssumption, MemorySizeType, RowFits
    PROVE  \E at : Offsets("BK_CLH_RW_RK_CH_CLL_BY", at)
<1> DEFINE W(part) == Widths[part]
           at == [by |-> 0,
                  line |-> 0,
                  colLow |-> W("by"),
                  col |-> W("by"),
                  colHigh |-> W("by") + W("colLow") + W("chan") + W("rank") + W("row"),
                  chan |-> W("by") + W("colLow"),
                  rank |-> W("by") + W("colLow") + W("chan"),
                  bank |-> W("by") + W("colLow") + W("chan") + W("rank") + W("row") + W("colHigh"),
                  row |-> W("by") + W("colLow") + W("chan") + W("rank")]
           layout == BK_CLH_RW_RK_CH_CLL_BY
           name == Names["BK_CLH_RW_RK_CH_CLL_BY"]
<1>1. PartNames = {"by", "line", "chan", "rank", "bank", "row", "col", "colLow", "colHigh"}
  BY DEF PartNames, Widths
<1>2. at \in [PartNames -> Nat]
  BY <1>1, WidthsSum
<1>3. Layouts["BK_CLH_RW_RK_CH_CLL_BY"] = layout
  BY DEF Layouts
<1>4. name = <<"bank", "colHigh", "row", "rank", "chan", "colLow", "by">>
  BY DEF Names
<1>5. IsLayout(layout) /\ IsLayout(name)
  BY <1>1, <1>4 DEF IsLayout, BK_CLH_RW_RK_CH_CLL_BY
<1>6. Ascending(layout, at)
  BY <1>1, WidthsSum DEF Ascending, BK_CLH_RW_RK_CH_CLL_BY
<1>7. Descending(name, at)
  BY <1>1, <1>4, WidthsSum DEF Descending
<1>8. channelIDOffset("BK_CLH_RW_RK_CH_CLL_BY") = at["chan"]
  BY <1>1, WidthsSum DEF channelIDOffset
<1>9. at["chan"] <= AddressBits /\ at["by"] = 0 /\ at["colLow"] = busOffsetBitWidth
  BY <1>1, WidthsSum
<1>10. /\ \A i \in DOMAIN layout : layout[i] # "col"
       /\ \E i \in DOMAIN layout : layout[i] = "colHigh"
       /\ \A part \in {"rank", "bank", "row", "colHigh"} :
             at[part] >= cacheOffset + channelBitWidth
       /\ \A k \in DOMAIN name :
             name[k] \in {"chan", "rank", "bank", "row", "colHigh", "colLow", "by"}
  BY <1>1, <1>4, WidthsSum DEF BK_CLH_RW_RK_CH_CLL_BY
<1>11. \A part \in {"rank", "bank", "row"} : \E i \in DOMAIN layout : layout[i] = part
  BY DEF BK_CLH_RW_RK_CH_CLL_BY
<1> QED
  BY <1>2, <1>3, <1>5, <1>6, <1>7, <1>8, <1>9, <1>10, <1>11 DEF Offsets

LEMMA OffsetsExist ==
    ASSUME AddressAssumption, MemorySizeType, RowFits,
           NEW scheme \in AddressMappingSchemes
    PROVE  \E at : Offsets(scheme, at)
BY At_RW_BK_RK_CH_CL_BY, At_RW_CH_BK_RK_CL_BY, At_RW_BK_RK_CLH_CH_CLL_BY,
   At_RW_CLH_BK_RK_CH_CLL_BY, At_CH_RW_BK_RK_CL_BY, At_RK_BK_RW_CLH_CH_CLL_BY,
   At_CLH_RW_RK_BK_CH_CLL_BY, At_BK_CLH_RW_RK_CH_CLL_BY
   DEF AddressMappingSchemes, Layouts

-----------------------------------------------------------------------------
(* The place of an address                                                 *)

\* A multiple of n bits' worth has no bits below the n-th.
LEMMA AlignedSlices ==
    ASSUME NEW address \in Int, NEW m \in Nat, NEW n \in Nat,
           address % PowerOf2[m + n] = 0
    PROVE  Slice(address, 0, m) = 0 /\ Slice(address, m, n) = 0
<1> DEFINE a == PowerOf2[m]
           b == PowerOf2[n]
           q == address \div PowerOf2[m + n]
<1>1. a \in Nat /\ b \in Nat /\ a > 0 /\ b > 0
  BY PowerPositive
<1>2. PowerOf2[m + n] = a * b
  BY PowerSum
<1>3. q \in Int /\ address = (a * b) * q
  <2> DEFINE d == PowerOf2[m + n]
  <2>1. d \in Nat /\ d > 0
    <3>1. m + n \in Nat
      OBVIOUS
    <3> QED
      BY <3>1, PowerPositive
  <2>2. address % d = 0 /\ d = a * b
    BY <1>2
  <2> HIDE DEF d, a, b
  <2>3. address \div d \in Int /\ address = d * (address \div d) + (address % d)
    BY <2>1, IntOperators
  <2>4. address = d * (address \div d)
    BY <2>1, <2>2, <2>3
  <2> QED
    BY <2>2, <2>3, <2>4 DEF d
<1> HIDE DEF a, b, q
<1>4. address = a * (b * q) /\ b * q \in Int
  BY <1>1, <1>3
<1> DEFINE c == b * q
<1> HIDE DEF c
<1>5. (a * c + 0) \div a = c /\ (a * c + 0) % a = 0 /\ c \in Int /\ a * c + 0 = a * c
  <2>1. 0 \in 0 .. a - 1 /\ c \in Int
    BY <1>1, <1>4 DEF c
  <2>2. (a * c + 0) \div a = c /\ (a * c + 0) % a = 0
    BY <1>1, <2>1, QuotientUnique
  <2>3. a * c + 0 = a * c
    BY <1>1, <2>1
  <2> QED
    BY <2>1, <2>2, <2>3
<1>6. address \div a = c /\ address % a = 0
  BY <1>4, <1>5 DEF c
<1>7. c % b = 0
  <2>1. 0 \in 0 .. b - 1
    BY <1>1
  <2>2. (b * q + 0) % b = 0
    BY <1>1, <1>3, <2>1, QuotientUnique
  <2>3. b * q + 0 = c
    BY <1>4 DEF c
  <2> QED
    BY <2>2, <2>3
<1>8. Slice(address, m, n) = 0
  BY <1>6, <1>7 DEF Slice, a, b
<1>9. Slice(address, 0, m) = 0
  <2>1. address \div 1 = address
    OBVIOUS
  <2>2. Slice(address, 0, m) = (address \div 1) % a
    BY PowerRecursion DEF Slice, a
  <2> QED
    BY <1>6, <2>1, <2>2
<1> QED
  BY <1>8, <1>9

\* What the main controller takes for the channel is the slice the channel skips.
LEMMA ChannelIsSlice ==
    ASSUME AddressAssumption, MemorySizeType, RowFits, NEW address \in Int,
           NEW at \in [PartNames -> Nat],
           channelIDOffset(mappingScheme) = at["chan"], at["chan"] <= AddressBits
    PROVE  FindChannelID(address) = Slice(address, at["chan"], Widths["chan"])
<1> DEFINE o == at["chan"]
<1>1. o \in Nat
  BY DEF PartNames, Widths
<1>2. UINT_BITS \in Nat /\ UINT_BITS >= 8 /\ o <= UINT_BITS
  BY <1>1, BitsFit DEF AddressAssumption
<1>3. o % (2 * UINT_BITS) = o
  <2>1. o \in 0 .. (2 * UINT_BITS) - 1 /\ 2 * UINT_BITS \in Nat /\ 2 * UINT_BITS > 0 /\ o \in Int
    <3> HIDE DEF o
    <3> QED
      BY <1>1, <1>2
  <2> HIDE DEF o
  <2> QED
    BY <2>1, IntOperators
<1>4. FindChannelID(address) = (address \div PowerOf2[o]) % NUM_CHANNELS
  BY <1>3 DEF FindChannelID, ShiftedRight
<1>5. NUM_CHANNELS = PowerOf2[Widths["chan"]]
  BY FieldWidths DEF Widths, channelBitWidth
<1> QED
  BY <1>4, <1>5 DEF Slice

\* The fields of the place of a cache line, put where the scheme's name says, make up
\* the line's address: the place is the line's alone.
LEMMA MappedIsAddress ==
    ASSUME AddressAssumption, MemorySizeType, RowFits, BOBRowBitWidth = rowBitWidth,
           mappingScheme \in AddressMappingSchemes,
           NEW address \in Int, address % CACHE_LINE_SIZE = 0
    PROVE  AddressAt(Mapped(address)) = address % Capacity
<1> DEFINE layout == Layouts[mappingScheme]
           name == Names[mappingScheme]
           place == Mapped(address)
           low == PowerOf2[colLowBitWidth]
           fields == [chan |-> place.chan, rank |-> place.rank, bank |-> place.bank,
                      row |-> place.row, col |-> place.col, by |-> 0,
                      colHigh |-> place.col \div PowerOf2[colLowBitWidth],
                      colLow |-> place.col % PowerOf2[colLowBitWidth]]
<1>1. PICK at : Offsets(mappingScheme, at)
  BY OffsetsExist
<1>2. /\ at \in [PartNames -> Nat] /\ IsLayout(layout) /\ IsLayout(name)
      /\ Ascending(layout, at) /\ Descending(name, at)
      /\ channelIDOffset(mappingScheme) = at["chan"] /\ at["chan"] <= AddressBits
      /\ at["by"] = 0 /\ at["colLow"] = busOffsetBitWidth
      /\ \A part \in {"rank", "bank", "row"} : \E i \in DOMAIN layout : layout[i] = part
  BY <1>1 DEF Offsets
<1>3. \/ /\ \E i \in DOMAIN layout : layout[i] = "col"
         /\ \A k \in DOMAIN name : name[k] \in {"chan", "rank", "bank", "row", "col", "by"}
      \/ /\ \A i \in DOMAIN layout : layout[i] # "col"
         /\ \E i \in DOMAIN layout : layout[i] = "colHigh"
         /\ \A k \in DOMAIN name :
               name[k] \in {"chan", "rank", "bank", "row", "colHigh", "colLow", "by"}
  BY <1>1 DEF Offsets
<1> DEFINE S(part) == Slice(address, at[part], Widths[part])
<1>4. AddressAt(place) = Composed(name, fields)
  BY DEF AddressAt
<1>5. /\ place.chan = FindChannelID(address)
      /\ place.rank = PartOf(layout, "rank", address)
      /\ place.bank = PartOf(layout, "bank", address)
      /\ place.row = PartOf(layout, "row", address)
      /\ place.col = MappedColumn(layout, address)
  BY DEF Mapped
<1>6. /\ fields["chan"] = place.chan /\ fields["rank"] = place.rank
      /\ fields["bank"] = place.bank /\ fields["row"] = place.row
      /\ fields["col"] = place.col /\ fields["by"] = 0
      /\ fields["colHigh"] = place.col \div low /\ fields["colLow"] = place.col % low
  OBVIOUS
<1> HIDE DEF layout, name, place, fields, low
<1>7. fields["chan"] = S("chan")
  BY <1>2, <1>5, <1>6, ChannelIsSlice
<1>8. fields["rank"] = S("rank") /\ fields["bank"] = S("bank") /\ fields["row"] = S("row")
  BY <1>2, <1>5, <1>6, PartIsSlice
<1>9. S("by") = 0 /\ Slice(address, busOffsetBitWidth, Widths["colLow"]) = 0
  <2>1. /\ CACHE_LINE_SIZE = PowerOf2[cacheOffset]
        /\ cacheOffset = busOffsetBitWidth + Widths["colLow"]
        /\ busOffsetBitWidth \in Nat /\ Widths["colLow"] \in Nat
        /\ Widths["by"] = busOffsetBitWidth
    BY FieldWidths, WidthsSum DEF cacheOffset, PartNames, Widths
  <2> DEFINE b == busOffsetBitWidth
             l == Widths["colLow"]
  <2>2. address % PowerOf2[b + l] = 0 /\ b \in Nat /\ l \in Nat
    BY <2>1
  <2> HIDE DEF b, l
  <2>3. Slice(address, 0, b) = 0 /\ Slice(address, b, l) = 0
    BY <2>2, AlignedSlices
  <2> QED
    BY <1>2, <2>1, <2>3 DEF b, l
<1>10. fields["by"] = S("by") /\ S("colLow") = 0
  BY <1>2, <1>6, <1>9
<1>11. CASE \E i \in DOMAIN layout : layout[i] = "col"
  <2>1. place.col = PartOf(layout, "col", address)
    BY <1>5, <1>11 DEF MappedColumn
  <2>2. fields["col"] = S("col")
    BY <1>2, <1>6, <1>11, <2>1, PartIsSlice
  <2>3. \A k \in DOMAIN name : name[k] \in {"chan", "rank", "bank", "row", "col", "by"}
    BY <1>3, <1>11
  <2>4. \A k \in DOMAIN name : fields[name[k]] = S(name[k])
    BY <1>7, <1>8, <1>10, <2>2, <2>3
  <2>5. Composed(name, fields) = address % PowerOf2[AddressBits]
    BY <1>2, <2>4, SlicesComposed
  <2> QED
    BY <1>4, <2>5 DEF Capacity, AddressBits, place
<1>12. CASE \A i \in DOMAIN layout : layout[i] # "col"
  <2> DEFINE high == PartOf(layout, "colHigh", address)
  <2>1. \E i \in DOMAIN layout : layout[i] = "colHigh"
    BY <1>3, <1>12
  <2>2. place.col = high * low
    BY <1>5, <1>12 DEF MappedColumn, low
  <2>3. high = S("colHigh")
    BY <1>2, <2>1, PartIsSlice
  <2>4. low \in Nat /\ low > 0 /\ high \in Int
    <3>1. colLowBitWidth \in 0 .. UINT_BITS - 1 /\ UINT_BITS \in Nat
      BY FieldWidths DEF AddressAssumption
    <3>2. "colHigh" \in PartNames /\ Widths["colHigh"] \in 0 .. UINT_BITS - 1
      BY WidthsFit DEF PartNames, Widths
    <3>3. high \in 0 .. PowerOf2[Widths["colHigh"]] - 1
      BY <1>2, <2>1, <3>2, PartRange
    <3>4. colLowBitWidth \in Nat
      BY <3>1
    <3> QED
      BY <3>3, <3>4, PowerPositive DEF low
  <2> HIDE DEF high
  <2>5. (low * high + 0) \div low = high /\ (low * high + 0) % low = 0
    <3>1. 0 \in 0 .. low - 1
      BY <2>4
    <3> QED
      BY <2>4, <3>1, QuotientUnique
  <2>6. place.col = low * high + 0
    BY <2>2, <2>4
  <2>7. fields["colHigh"] = S("colHigh") /\ fields["colLow"] = S("colLow")
    BY <1>6, <1>10, <2>3, <2>5, <2>6
  <2>8. \A k \in DOMAIN name :
           name[k] \in {"chan", "rank", "bank", "row", "colHigh", "colLow", "by"}
    BY <1>3, <1>12
  <2>9. \A k \in DOMAIN name : fields[name[k]] = S(name[k])
    BY <1>7, <1>8, <1>10, <2>7, <2>8
  <2>10. Composed(name, fields) = address % PowerOf2[AddressBits]
    BY <1>2, <2>9, SlicesComposed
  <2> QED
    BY <1>4, <2>10 DEF Capacity, AddressBits, place
<1> QED
  BY <1>3, <1>11, <1>12

-----------------------------------------------------------------------------
(* The stride of the logic layer                                           *)

\* Adding a bit that is not set changes the slices that hold it, and none above it.
LEMMA BitAdded ==
    ASSUME NEW address \in Int, NEW e \in Nat, (address \div PowerOf2[e]) % 2 = 0,
           NEW o \in Nat, NEW w \in Nat
    PROVE  /\ e < o => Slice(address + PowerOf2[e], o, w) = Slice(address, o, w)
           /\ (o <= e /\ e < o + w) =>
                 Slice(address + PowerOf2[e], o, w) # Slice(address, o, w)
<1> DEFINE bit == PowerOf2[e]
           x == address \div bit
           r == address % bit
           y == x \div 2
<1>1. bit \in Nat /\ bit > 0
  BY PowerPositive
<1>2. address + bit \in Int
  BY <1>1
<1> HIDE DEF bit
<1>3. x \in Int /\ r \in 0 .. bit - 1 /\ address = bit * x + r
  BY <1>1, IntOperators
<1>4. y \in Int /\ x = 2 * y + 0
  <2>1. x % 2 = 0
    BY DEF bit
  <2> HIDE DEF x
  <2>2. y \in Int /\ x = 2 * y + (x % 2)
    BY <1>3, IntOperators
  <2> QED
    BY <2>1, <2>2
<1> HIDE DEF x, r, y
<1>5. (address + bit) \div bit = x + 1
  <2>1. address + bit = bit * (x + 1) + r
    BY <1>1, <1>3
  <2>2. (bit * (x + 1) + r) \div bit = x + 1
    <3>1. x + 1 \in Int
      BY <1>3
    <3> QED
      BY <1>1, <1>3, <3>1, QuotientUnique
  <2> QED
    BY <2>1, <2>2
<1>6. x \div 2 = y /\ (x + 1) \div 2 = y
  <2>1. (2 * y + 0) \div 2 = y /\ (2 * y + 1) \div 2 = y
    BY <1>4, QuotientUnique
  <2>2. x + 1 = 2 * y + 1
    BY <1>4
  <2> QED
    BY <1>4, <2>1, <2>2
<1>7. ASSUME e < o PROVE Slice(address + bit, o, w) = Slice(address, o, w)
  <2> DEFINE d == o - (e + 1)
  <2>1. d \in Nat /\ e + 1 \in Nat /\ (e + 1) + d = o /\ 1 \in Nat
    BY <1>7
  <2>2. PowerOf2[1] = 2
    <3>1. 0 + 1 = 1
      OBVIOUS
    <3>2. PowerOf2[0 + 1] = 2 * PowerOf2[0]
      BY PowerRecursion
    <3> QED
      BY <3>1, <3>2, PowerRecursion
  <2> HIDE DEF d
  <2>3. ASSUME NEW a \in Int, (a \div bit) \div 2 = y
        PROVE  a \div PowerOf2[o] = y \div PowerOf2[d]
    <3>1. (a \div PowerOf2[e]) \div PowerOf2[1] = a \div PowerOf2[e + 1]
      BY <2>1, TwoShifts
    <3>2. a \div PowerOf2[e + 1] = y
      BY <2>2, <2>3, <3>1 DEF bit
    <3>3. (a \div PowerOf2[e + 1]) \div PowerOf2[d] = a \div PowerOf2[(e + 1) + d]
      BY <2>1, TwoShifts
    <3> QED
      BY <2>1, <3>2, <3>3
  <2>4. address \div PowerOf2[o] = y \div PowerOf2[d]
    BY <1>6, <2>3 DEF x
  <2>5. (address + bit) \div PowerOf2[o] = y \div PowerOf2[d]
    BY <1>2, <1>5, <1>6, <2>3
  <2> QED
    BY <2>4, <2>5 DEF Slice
<1>8. ASSUME o <= e, e < o + w PROVE Slice(address + bit, o, w) # Slice(address, o, w)
  <2> DEFINE n == PowerOf2[o]
             d == PowerOf2[e - o]
             m == PowerOf2[w]
             u == address \div n
             s == address % n
  <2>1. e - o \in Nat /\ e - o < w /\ o + (e - o) = e
    BY <1>8
  <2>2. n \in Nat /\ n > 0 /\ d \in Nat /\ d > 0 /\ m \in Nat /\ m > 0 /\ d < m
    BY <2>1, PowerPositive, PowerGrows
  <2>3. bit = n * d
    BY <2>1, PowerSum DEF bit
  <2>4. Slice(address, o, w) = u % m /\ Slice(address + bit, o, w) = ((address + bit) \div n) % m
    BY DEF Slice
  <2> HIDE DEF n, d, m
  <2>5. u \in Int /\ s \in 0 .. n - 1 /\ address = n * u + s
    BY <2>2, IntOperators
  <2> HIDE DEF u, s
  <2>6. (address + bit) \div n = u + d
    <3>1. n * (u + d) = n * u + n * d /\ n * u \in Int /\ n * d \in Int
      BY <2>2, <2>5
    <3>2. address + bit = n * (u + d) + s
      BY <2>3, <2>5, <3>1
    <3>3. (n * (u + d) + s) \div n = u + d
      <4>1. u + d \in Int
        BY <2>2, <2>5
      <4> QED
        BY <2>2, <2>5, <4>1, QuotientUnique
    <3> QED
      BY <3>2, <3>3
  <2>7. (u + d) % m # u % m
    <3> SUFFICES ASSUME (u + d) % m = u % m PROVE FALSE
      OBVIOUS
    <3>1. u + d \in Int /\ (u + d) - u < m /\ u - (u + d) < m
      BY <2>2, <2>5
    <3>2. u + d = u
      BY <2>2, <2>5, <3>1, SameRemainder
    <3> QED
      BY <2>2, <2>5, <3>2
  <2> QED
    BY <2>4, <2>6, <2>7
<1> QED
  BY <1>7, <1>8 DEF bit

\* The bit of the stride is not set in the address of a line whose channel bits, counted
\* in strides, are 0.
LEMMA StrideBitClear ==
    ASSUME NEW address \in Int, NEW b \in Nat, NEW c \in Nat, NEW l \in Nat, l > 0,
           address % PowerOf2[b + l] = 0,
           (address \div PowerOf2[b + c]) % PowerOf2[c] = 0
    PROVE  (address \div PowerOf2[b + c]) % 2 = 0
<1>1. ASSUME NEW x \in Int, NEW n \in Nat, n > 0, x % PowerOf2[n] = 0
      PROVE  x % 2 = 0
  <2> DEFINE p == PowerOf2[n]
             h == PowerOf2[n - 1]
             q == x \div p
  <2>1. n - 1 \in Nat /\ (n - 1) + 1 = n
    BY <1>1
  <2>2. p \in Nat /\ p > 0 /\ h \in Nat /\ p = 2 * h
    <3>1. p = 2 * h
      BY <2>1, PowerRecursion
    <3> QED
      BY <2>1, <3>1, PowerPositive
  <2>3. x % p = 0
    BY <1>1
  <2> HIDE DEF p, h
  <2>4. q \in Int /\ x = p * q + (x % p)
    BY <2>2, IntOperators
  <2> HIDE DEF q
  <2>5. x = 2 * (h * q) + 0 /\ h * q \in Int
    BY <2>2, <2>3, <2>4
  <2> DEFINE k == h * q
  <2> HIDE DEF k
  <2>6. k \in Int /\ x = 2 * k + 0
    BY <2>5 DEF k
  <2>7. (2 * k + 0) % 2 = 0
    BY <2>6, QuotientUnique
  <2> QED
    BY <2>6, <2>7
<1>2. address \div PowerOf2[b + c] \in Int
  <2>1. b + c \in Nat
    OBVIOUS
  <2> QED
    BY <2>1, PowerPositive, IntOperators
<1>3. CASE c > 0
  BY <1>1, <1>2, <1>3
<1>4. CASE c = 0
  <2>1. Slice(address, b, l) = 0
    BY AlignedSlices
  <2>2. b + c = b
    BY <1>4
  <2> QED
    BY <1>1, <1>2, <2>1, <2>2 DEF Slice
<1> QED
  BY <1>3, <1>4

LEMMA ColumnSchemes ==
    ASSUME NEW scheme \in AddressMappingSchemes
    PROVE  (\E i \in DOMAIN Layouts[scheme] : Layouts[scheme][i] = "col")
              <=> scheme \in {"RW_BK_RK_CH_CL_BY", "RW_CH_BK_RK_CL_BY", "CH_RW_BK_RK_CL_BY"}
BY DEF AddressMappingSchemes, Layouts, BK_CLH_RW_RK_CH_CLL_BY, CLH_RW_RK_BK_CH_CLL_BY,
   RK_BK_RW_CLH_CH_CLL_BY, RW_CH_BK_RK_CL_BY, RW_BK_RK_CH_CL_BY, RW_BK_RK_CLH_CH_CLL_BY,
   RW_CLH_BK_RK_CH_CLL_BY, CH_RW_BK_RK_CL_BY

\* A stride is shorter than a row of columns, and longer than the bytes of a column.
StrideAssumption == BUS_ALIGNMENT_SIZE < CACHE_LINE_SIZE /\ NUM_CHANNELS < NUM_COLS

LEMMA StrideBit ==
    ASSUME AddressAssumption, MemorySizeType, RowFits, StrideAssumption,
           NEW address \in Int, address % CACHE_LINE_SIZE = 0,
           (address \div LogicStride) % NUM_CHANNELS = 0
    PROVE  /\ LogicStride = PowerOf2[busOffsetBitWidth + channelBitWidth]
           /\ (address \div LogicStride) % 2 = 0
           /\ busOffsetBitWidth \in Nat /\ channelBitWidth \in Nat
           /\ channelBitWidth < Widths["col"] /\ Widths["col"] \in Nat
           /\ busOffsetBitWidth < cacheOffset /\ cacheOffset \in Nat
<1> DEFINE b == busOffsetBitWidth
           c == channelBitWidth
           k == cacheOffset
           m == colBitWidth
<1>1. /\ b \in Nat /\ c \in Nat /\ k \in Nat /\ m \in Nat
      /\ BUS_ALIGNMENT_SIZE = PowerOf2[b] /\ CACHE_LINE_SIZE = PowerOf2[k]
      /\ NUM_COLS = PowerOf2[m] /\ NUM_CHANNELS = PowerOf2[c]
  BY FieldWidths DEF busOffsetBitWidth, channelBitWidth, cacheOffset, colBitWidth
<1>2. LogicStride = PowerOf2[b + c]
  BY DEF LogicStride, busOffsetBitWidth, channelBitWidth
<1>3. Widths["col"] = m
  BY DEF Widths
<1> HIDE DEF b, c, k, m
<1>4. b < k /\ c < m
  BY <1>1, PowerGrows DEF StrideAssumption
<1>5. k - b \in Nat /\ k - b > 0 /\ b + (k - b) = k
  BY <1>1, <1>4
<1>6. (address \div PowerOf2[b + c]) % 2 = 0
  BY <1>1, <1>2, <1>5, StrideBitClear
<1> QED
  BY <1>1, <1>2, <1>3, <1>4, <1>6 DEF b, c, k, m

\* A stride further on is another place of the channel exactly if the scheme keeps the
\* column below the channel.
LEMMA StrideMoves ==
    ASSUME AddressAssumption, MemorySizeType, RowFits, StrideAssumption,
           mappingScheme \in AddressMappingSchemes,
           NEW address \in Int, address % CACHE_LINE_SIZE = 0,
           (address \div LogicStride) % NUM_CHANNELS = 0
    PROVE  Mapped(address) # [Mapped(address + LogicStride) EXCEPT !.chan = Mapped(address).chan]
              <=> mappingScheme \in {"RW_BK_RK_CH_CL_BY", "RW_CH_BK_RK_CL_BY",
                                     "CH_RW_BK_RK_CL_BY"}
<1> DEFINE layout == Layouts[mappingScheme]
           far == address + LogicStride
           here == Mapped(address)
           there == Mapped(far)
           e == busOffsetBitWidth + channelBitWidth
<1>1. PICK at : Offsets(mappingScheme, at)
  BY OffsetsExist
<1>2. /\ at \in [PartNames -> Nat] /\ IsLayout(layout) /\ Ascending(layout, at)
      /\ \A part \in {"rank", "bank", "row"} : \E i \in DOMAIN layout : layout[i] = part
  BY <1>1 DEF Offsets
<1>3. \/ /\ \E i \in DOMAIN layout : layout[i] = "col"
         /\ at["col"] = busOffsetBitWidth
      \/ /\ \A i \in DOMAIN layout : layout[i] # "col"
         /\ \E i \in DOMAIN layout : layout[i] = "colHigh"
         /\ \A part \in {"rank", "bank", "row", "colHigh"} :
               at[part] >= cacheOffset + channelBitWidth
  BY <1>1 DEF Offsets
<1>4. /\ LogicStride = PowerOf2[e] /\ (address \div PowerOf2[e]) % 2 = 0
      /\ busOffsetBitWidth \in Nat /\ channelBitWidth \in Nat
      /\ channelBitWidth < Widths["col"] /\ Widths["col"] \in Nat
      /\ busOffsetBitWidth < cacheOffset /\ cacheOffset \in Nat
  BY StrideBit
<1>5. e \in Nat /\ far = address + PowerOf2[e] /\ far \in Int
  BY <1>4, PowerPositive
<1>6. here # [there EXCEPT !.chan = here.chan]
         <=> \/ PartOf(layout, "rank", address) # PartOf(layout, "rank", far)
             \/ PartOf(layout, "bank", address) # PartOf(layout, "bank", far)
             \/ PartOf(layout, "row", address) # PartOf(layout, "row", far)
             \/ MappedColumn(layout, address) # MappedColumn(layout, far)
  BY DEF Mapped
<1>7. \A part \in PartNames : Widths[part] \in Nat
  BY WidthsFit DEF AddressAssumption
<1> HIDE DEF layout, far, here, there, e
<1>8. ASSUME NEW part \in PartNames, \E i \in DOMAIN layout : layout[i] = part
      PROVE  /\ PartOf(layout, part, address) = Slice(address, at[part], Widths[part])
             /\ PartOf(layout, part, far) = Slice(far, at[part], Widths[part])
  BY <1>2, <1>5, <1>8, PartIsSlice
<1>9. ASSUME \E i \in DOMAIN layout : layout[i] = "col", at["col"] = busOffsetBitWidth
      PROVE  MappedColumn(layout, address) # MappedColumn(layout, far)
  <2>1. "col" \in PartNames
    BY DEF PartNames, Widths
  <2>2. /\ MappedColumn(layout, address) = Slice(address, at["col"], Widths["col"])
        /\ MappedColumn(layout, far) = Slice(far, at["col"], Widths["col"])
    BY <1>8, <1>9, <2>1 DEF MappedColumn
  <2>3. at["col"] \in Nat /\ at["col"] <= e /\ e < at["col"] + Widths["col"]
    BY <1>4, <1>9 DEF e
  <2> QED
    BY <1>4, <1>5, <2>2, <2>3, BitAdded
<1>10. ASSUME \A i \in DOMAIN layout : layout[i] # "col",
              \E i \in DOMAIN layout : layout[i] = "colHigh",
              \A part \in {"rank", "bank", "row", "colHigh"} :
                 at[part] >= cacheOffset + channelBitWidth
       PROVE  /\ PartOf(layout, "rank", address) = PartOf(layout, "rank", far)
              /\ PartOf(layout, "bank", address) = PartOf(layout, "bank", far)
              /\ PartOf(layout, "row", address) = PartOf(layout, "row", far)
              /\ MappedColumn(layout, address) = MappedColumn(layout, far)
  <2>1. ASSUME NEW part \in {"rank", "bank", "row", "colHigh"}
        PROVE  PartOf(layout, part, address) = PartOf(layout, part, far)
    <3>1. part \in PartNames /\ \E i \in DOMAIN layout : layout[i] = part
      BY <1>2, <1>10 DEF PartNames, Widths
    <3>2. at[part] \in Nat /\ e < at[part]
      <4> DEFINE o == at[part]
      <4>1. o \in Nat /\ o >= cacheOffset + channelBitWidth
        BY <1>2, <1>10, <3>1
      <4> HIDE DEF o
      <4>2. o \in Nat /\ e < o
        BY <1>4, <4>1 DEF e
      <4> QED
        BY <4>2 DEF o
    <3>3. Slice(far, at[part], Widths[part]) = Slice(address, at[part], Widths[part])
      BY <1>4, <1>5, <1>7, <3>1, <3>2, BitAdded
    <3> QED
      BY <1>8, <3>1, <3>3
  <2>2. MappedColumn(layout, address) = MappedColumn(layout, far)
    BY <1>10, <2>1 DEF MappedColumn
  <2> QED
    BY <2>1, <2>2
<1>11. (\E i \in DOMAIN layout : layout[i] = "col")
          <=> mappingScheme \in {"RW_BK_RK_CH_CL_BY", "RW_CH_BK_RK_CL_BY", "CH_RW_BK_RK_CL_BY"}
  BY ColumnSchemes DEF layout
<1>12. here # [there EXCEPT !.chan = here.chan] <=> \E i \in DOMAIN layout : layout[i] = "col"
  BY <1>3, <1>6, <1>9, <1>10
<1> QED
  BY <1>11, <1>12 DEF here, there, far

=============================================================================
