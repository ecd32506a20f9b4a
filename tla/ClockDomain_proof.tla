------------------------- MODULE ClockDomain_proof --------------------------
(***************************************************************************)
(* NoDrift for every pair of periods.  The invariant counts the ticks, the *)
(* cycles in which the channels may be updated: after n of them A - 1 of   *)
(* every A have updated the channels, and the counter is what remains.     *)
(***************************************************************************)
EXTENDS ClockDomain, TLAPS

R == DRAM_CPU_CLK_RATIO
A == DRAM_CPU_CLK_ADJUSTMENT

\* n ticks have passed; the n-th was in cycle n * R.
TicksPassed(n) ==
    /\ n > 0 => n * R < currentClockCycle
    /\ currentClockCycle <= n * R + R

\* What n ticks have done.
Updated(n) ==
    IF A = 0
    THEN dramClockCycle = n /\ clockCycleAdjustmentCounter = 0
    ELSE /\ A * dramClockCycle = (A - 1) * n + clockCycleAdjustmentCounter
         /\ n > 0 => clockCycleAdjustmentCounter \in 1 .. A
         /\ n = 0 => clockCycleAdjustmentCounter = 0

IInv == ClockTypeOK /\ \E n \in Nat : TicksPassed(n) /\ Updated(n)

-----------------------------------------------------------------------------

\* Division with remainder, stated without quotients.
LEMMA MultipleHasNoRemainder ==
    ASSUME NEW r \in Nat \ {0}, NEW m \in Nat PROVE (m * r) % r = 0
  OBVIOUS

\* After the n-th multiple of r the next number with no remainder is the next one.
LEMMA NextMultiple ==
    ASSUME NEW r \in Nat \ {0}, NEW n \in Nat, NEW k \in Nat,
           k % r = 0, n * r < k
    PROVE  n * r + r <= k
<1>. DEFINE q == k \div r
<1>1. q \in Int /\ k = r * q
  OBVIOUS
<1>2. n < q
  BY <1>1
<1>3. QED
  BY <1>1, <1>2


-----------------------------------------------------------------------------

\* What the two divisions leave: R whole CPU cycles and the remainder make a DRAM
\* cycle, and so do A remainders and the lost fraction.  A remainder is less than half
\* of tCK, so A is never 1.
LEMMA RatiosDivide ==
    ASSUME ClockAssumption
    PROVE  /\ tCK \in Nat \ {0} /\ CPU_CLK_PERIOD \in Nat \ {0}
           /\ R \in Nat \ {0} /\ Remainder \in Nat
           /\ CPU_CLK_PERIOD * R + Remainder = tCK
           /\ A = 0 => Remainder = 0 /\ LostFraction = 0
           /\ A # 0 => /\ A \in Nat /\ A > 1
                       /\ LostFraction \in Nat
                       /\ A * Remainder + LostFraction = tCK
<1>. DEFINE T == tCK
            P == CPU_CLK_PERIOD
            m == Remainder
<1>1. P \in Nat /\ P > 0 /\ T \in Nat /\ P <= T
  BY DEF ClockAssumption
<1>2. R \in Int /\ m \in Int /\ 0 <= m /\ m < P /\ T = P * R + m
  BY <1>1 DEF R, DRAM_CPU_CLK_RATIO, Remainder
<1>3. R > 0
  <2>1. SUFFICES ASSUME R <= 0 PROVE FALSE
    BY <1>2
  <2>2. P * R <= 0
    BY <1>1, <1>2, <2>1
  <2>3. QED
    BY <1>1, <1>2, <2>2
<1>4. CASE m = 0
  BY <1>1, <1>2, <1>3, <1>4 DEF A, DRAM_CPU_CLK_ADJUSTMENT, LostFraction
<1>5. CASE m # 0
  <2>1. A \in Int /\ LostFraction \in Int /\ 0 <= LostFraction /\ LostFraction < m
        /\ T = m * A + LostFraction
    BY <1>1, <1>2, <1>5 DEF A, DRAM_CPU_CLK_ADJUSTMENT, LostFraction
  <2>2. A > 1
    <3>1. SUFFICES ASSUME A <= 1 PROVE FALSE
      BY <2>1
    <3>2. m * A <= m
      BY <1>2, <2>1, <3>1
    <3>3. P <= P * R
      BY <1>1, <1>2, <1>3
    <3>4. QED
      BY <1>1, <1>2, <2>1, <3>2, <3>3
  <2>3. A * m = m * A
    BY <1>2, <2>1
  <2>4. QED
    BY <1>1, <1>2, <1>3, <2>1, <2>2, <2>3
<1>6. QED
  BY <1>4, <1>5

LEMMA InitIInv == ASSUME ClockAssumption, ClockInit PROVE IInv
<1>1. ClockInit /\ R \in Nat \ {0}
  BY RatiosDivide
<1>2. TicksPassed(0) /\ Updated(0)
  <2>1. 0 * R = 0 /\ currentClockCycle = 0
    BY <1>1 DEF ClockInit
  <2>2. TicksPassed(0)
    BY <1>1, <2>1 DEF TicksPassed
  <2>3. A = 0 \/ A * 0 = (A - 1) * 0 + 0
    BY RatiosDivide
  <2>4. Updated(0)
    BY <1>1, <2>3 DEF ClockInit, Updated
  <2>5. QED
    BY <2>2, <2>4
<1>3. ClockTypeOK
  BY <1>1 DEF ClockInit, ClockTypeOK
<1>4. QED
  BY <1>2, <1>3 DEF IInv

\* A tick is the one after the n-th, and no other cycle is.
LEMMA TickIsNext ==
    ASSUME ClockAssumption, ClockTypeOK, NEW n \in Nat, TicksPassed(n)
    PROVE  IsTick <=> currentClockCycle = n * R + R
<1>. DEFINE k == currentClockCycle
<1>1. R \in Nat \ {0} /\ k \in Nat /\ n * R \in Nat
  BY RatiosDivide DEF ClockTypeOK
<1>2. k <= n * R + R
  BY DEF TicksPassed
<1>3. ASSUME IsTick PROVE k = n * R + R
  <2>1. k > 0 /\ k % R = 0
    BY <1>3 DEF IsTick, R
  <2>2. n * R < k
    <3>1. CASE n = 0
      BY <1>1, <2>1, <3>1
    <3>2. CASE n # 0
      BY <3>2 DEF TicksPassed
    <3>3. QED
      BY <3>1, <3>2
  <2>3. n * R + R <= k
    BY <1>1, <2>1, <2>2, NextMultiple
  <2>4. QED
    BY <1>1, <1>2, <2>3
<1>4. ASSUME k = n * R + R PROVE IsTick
  <2>1. k = (n + 1) * R
    BY <1>1, <1>4
  <2>2. k % R = 0
    BY <1>1, <2>1, MultipleHasNoRemainder
  <2>3. QED
    BY <1>1, <1>4, <2>2 DEF IsTick, R
<1>5. QED
  BY <1>3, <1>4

\* Passing a tick.
LEMMA TickPasses ==
    ASSUME ClockAssumption, ClockTypeOK, NEW n \in Nat, TicksPassed(n), IsTick,
           currentClockCycle' = currentClockCycle + 1
    PROVE  TicksPassed(n + 1)'
<1>1. currentClockCycle = n * R + R
  BY TickIsNext
<1>2. (n + 1) * R = n * R + R /\ R > 0
  BY RatiosDivide
<1>3. QED
  BY <1>1, <1>2, RatiosDivide DEF TicksPassed, ClockTypeOK

LEMMA NextIInv == ASSUME ClockAssumption, IInv, [ClockNext]_clockVars PROVE IInv'
<1>1. IInv /\ [ClockNext]_clockVars
  OBVIOUS
<1>2. ClockTypeOK
  BY <1>1 DEF IInv
<1>3. PICK n \in Nat : TicksPassed(n) /\ Updated(n)
  BY <1>1 DEF IInv
<1>4. ClockTypeOK'
  BY <1>1, <1>2 DEF ClockTypeOK, ClockNext, UpdateBetweenTicks, UpdateChannels, SkipChannels,
     clockVars
<1>5. CASE UpdateBetweenTicks
  <2>1. currentClockCycle # n * R + R
    BY <1>2, <1>3, <1>5, TickIsNext DEF UpdateBetweenTicks
  <2>2. TicksPassed(n)'
    BY <1>2, <1>3, <1>5, <2>1, RatiosDivide DEF UpdateBetweenTicks, TicksPassed, ClockTypeOK
  <2>3. Updated(n)'
    BY <1>3, <1>5 DEF UpdateBetweenTicks, Updated, A
  <2>4. QED
    BY <1>4, <2>2, <2>3 DEF IInv
<1>6. CASE UpdateChannels
  <2>1. TicksPassed(n + 1)'
    BY <1>2, <1>3, <1>6, TickPasses DEF UpdateChannels
  <2>2. Updated(n + 1)'
    <3>1. CASE A = 0
      BY <1>2, <1>3, <1>6, <3>1 DEF UpdateChannels, Updated, ClockTypeOK, A
    <3>2. CASE A # 0
      <4>1. A \in Nat /\ A > 1
          BY <3>2, RatiosDivide
      <4>2. A * (dramClockCycle + 1) = (A - 1) * (n + 1) + (clockCycleAdjustmentCounter + 1)
        BY <1>2, <1>3, <3>2, <4>1 DEF Updated, ClockTypeOK
      <4>3. dramClockCycle' = dramClockCycle + 1
            /\ clockCycleAdjustmentCounter' = clockCycleAdjustmentCounter + 1
            /\ clockCycleAdjustmentCounter < A
        BY <1>6, <4>1 DEF UpdateChannels, A
      <4>4. QED
        BY <1>2, <3>2, <4>1, <4>2, <4>3 DEF Updated, ClockTypeOK
    <3>3. QED
      BY <3>1, <3>2
  <2>3. QED
    BY <1>4, <2>1, <2>2 DEF IInv
<1>7. CASE SkipChannels
  <2>1. TicksPassed(n + 1)'
    BY <1>2, <1>3, <1>7, TickPasses DEF SkipChannels
  <2>2. A \in Nat /\ A > 1
    BY <1>7, RatiosDivide DEF SkipChannels, A
  <2>3. clockCycleAdjustmentCounter = A
    BY <1>2, <1>3, <1>7, <2>2 DEF SkipChannels, Updated, ClockTypeOK, A
  <2>4. A * dramClockCycle = (A - 1) * (n + 1) + 1
    BY <1>2, <1>3, <2>2, <2>3 DEF Updated, ClockTypeOK
  <2>5. Updated(n + 1)'
    BY <1>7, <2>2, <2>4 DEF SkipChannels, Updated
  <2>6. QED
    BY <1>4, <2>1, <2>5 DEF IInv
<1>8. CASE UNCHANGED clockVars
  <2>1. TicksPassed(n)' /\ Updated(n)'
    BY <1>3, <1>8 DEF TicksPassed, Updated, clockVars, R, A
  <2>2. QED
    BY <1>4, <2>1 DEF IInv
<1>9. QED
  BY <1>1, <1>5, <1>6, <1>7, <1>8 DEF ClockNext

\* The quotient that counts the ticks.
LEMMA TicksAreCounted ==
    ASSUME NEW r \in Nat \ {0}, NEW n \in Nat, NEW k \in Nat,
           n * r < k, k <= n * r + r
    PROVE  (k - 1) \div r = n
<1>. DEFINE q == (k - 1) \div r
            j == (k - 1) % r
<1>1. q \in Int /\ j \in Int /\ 0 <= j /\ j < r /\ k - 1 = r * q + j
  OBVIOUS
<1>2. n * r = r * n
  OBVIOUS
<1>3. q < n + 1
  <2>1. SUFFICES ASSUME n + 1 <= q PROVE FALSE
    BY <1>1
  <2>2. r * (n + 1) <= r * q
    BY <1>1, <2>1
  <2>3. r * (n + 1) = r * n + r
    OBVIOUS
  <2>4. QED
    BY <1>1, <1>2, <2>2, <2>3
<1>4. n < q + 1
  <2>1. SUFFICES ASSUME q + 1 <= n PROVE FALSE
    BY <1>1
  <2>2. r * (q + 1) <= r * n
    BY <1>1, <2>1
  <2>3. r * (q + 1) = r * q + r
    BY <1>1
  <2>4. QED
    BY <1>1, <1>2, <2>2, <2>3
<1>5. QED
  BY <1>1, <1>3, <1>4

LEMMA IInvNoDrift == ASSUME ClockAssumption, IInv PROVE NoDrift
<1>. DEFINE k == currentClockCycle
            u == dramClockCycle
            c == clockCycleAdjustmentCounter
            T == tCK
            P == CPU_CLK_PERIOD
            m == Remainder
            e == LostFraction
<1>1. k \in Nat /\ u \in Nat /\ c \in Nat /\ R \in Nat /\ R > 0 /\ T \in Nat /\ P \in Nat
      /\ m \in Nat /\ P * R + m = T
  BY RatiosDivide DEF IInv, ClockTypeOK
<1>2. PICK n \in Nat : TicksPassed(n) /\ Updated(n)
  BY DEF IInv
<1>3. n * R <= k /\ k <= n * R + R /\ n * R \in Nat
  BY <1>1, <1>2 DEF TicksPassed
<1>4. UpdatesLeftOut = n - u
  <2>1. CASE k = 0
    <3>1. n = 0
      BY <1>1, <1>2, <2>1 DEF TicksPassed
    <3>2. QED
      BY <2>1, <3>1 DEF UpdatesLeftOut
  <2>2. CASE k # 0
    <3>1. n * R < k
      BY <1>1, <1>2, <2>2 DEF TicksPassed
    <3>2. (k - 1) \div R = n
      BY <1>1, <1>3, <3>1, TicksAreCounted
    <3>3. QED
      BY <2>2, <3>2 DEF UpdatesLeftOut, R
  <2>3. QED
    BY <2>1, <2>2
<1>5. P * (n * R) <= P * k /\ P * k <= P * (n * R) + P * R
  <2>1. P * (n * R) <= P * k
    BY <1>1, <1>3
  <2>2. P * k <= P * (n * R + R)
    BY <1>1, <1>3
  <2>3. QED
    BY <1>1, <1>3, <2>1, <2>2
<1>6. P * (n * R) = (T - m) * n
  <2>1. P * (n * R) = (P * R) * n
    BY <1>1
  <2>2. QED
    BY <1>1, <2>1
<1>7. P * R <= T
  BY <1>1
<1>8. PICK gap \in Nat : gap <= T /\ T * u + e * (n - u) = (T - m) * n + gap
  <2>1. CASE A = 0
    <3>1. m = 0 /\ e = 0 /\ u = n
      BY <1>2, <2>1, RatiosDivide DEF Updated
    <3>2. T * u + e * (n - u) = (T - m) * n + 0
      BY <1>1, <3>1
    <3>3. QED
      BY <1>1, <3>2
  <2>2. CASE A # 0
    <3>1. A \in Nat /\ e \in Nat /\ A * m + e = T
      BY <2>2, RatiosDivide
    <3>2. A * u = (A - 1) * n + c /\ c <= A
      BY <1>1, <1>2, <2>2, <3>1 DEF Updated
    <3>3. T * u = m * (A * u) + e * u
      BY <1>1, <3>1
    <3>4. m * ((A - 1) * n + c) = (A * m - m) * n + m * c
      BY <1>1, <3>1
    <3>5. T * u + e * (n - u) = (A * m - m) * n + m * c + e * n
      BY <1>1, <3>1, <3>2, <3>3, <3>4
    <3>6. (T - m) * n = (A * m - m) * n + e * n
      BY <1>1, <3>1
    <3>7. m * c \in Nat /\ m * c <= m * A /\ m * A = A * m
      BY <1>1, <3>1, <3>2
    <3>8. T * u + e * (n - u) = (T - m) * n + m * c
      BY <1>1, <3>1, <3>5, <3>6, <3>7
    <3>9. m * c <= T
      BY <1>1, <3>1, <3>7
    <3>10. QED
      BY <3>7, <3>8, <3>9
  <2>3. QED
    BY <2>1, <2>2
<1>9. DRAMTime = T * u /\ CPUTime = P * k
  BY DEF DRAMTime, CPUTime
<1>10. P * (n * R) \in Int /\ P * k \in Int /\ P * R \in Int
  BY <1>1, <1>3
<1>11. PICK x \in Int, y \in Int, z \in Int : x = P * (n * R) /\ y = P * k /\ z = P * R
  BY <1>10
<1>12. DRAMTime + LostFraction * UpdatesLeftOut = x + gap
  <2>1. DRAMTime + LostFraction * UpdatesLeftOut = T * u + e * (n - u)
    BY <1>4, <1>9
  <2>2. T * u + e * (n - u) = x + gap
    BY <1>6, <1>8, <1>11
  <2>3. QED
    BY <2>1, <2>2, Zenon
<1>13. x <= y /\ y <= x + z /\ z <= T
  BY <1>5, <1>7, <1>11
<1>14. CPUTime = y
  BY <1>9, <1>11
<1>15. (x + gap) - y <= T /\ - ((x + gap) - y) <= T
  BY <1>1, <1>8, <1>13
<1>16. (DRAMTime + LostFraction * UpdatesLeftOut) - CPUTime = (x + gap) - y
  BY <1>12, <1>14
<1>17. QED
  BY <1>15, <1>16 DEF NoDrift

\* For any two periods, however long the simulation runs: but for the fraction lost by
\* the truncation of the adjustment (BOB.cpp:97), once for every update left out, the
\* DRAM clock and the CPU clock show the same time to within one DRAM cycle; the updates
\* left out (BOB.cpp:744-756) make up for the truncation of the ratio (BOB.cpp:95).
THEOREM ClocksAgree == ASSUME ClockAssumption PROVE ClockSpec => []NoDrift
<1>1. ClockInit => IInv
  BY InitIInv
<1>2. IInv /\ [ClockNext]_clockVars => IInv'
  BY NextIInv
<1>3. IInv => NoDrift
  BY IInvNoDrift
<1>4. QED
  BY <1>1, <1>2, <1>3, PTL DEF ClockSpec

WithinOneCycle == DRAMTime - CPUTime <= tCK /\ CPUTime - DRAMTime <= tCK

LEMMA NothingLost ==
    ASSUME ClockAssumption, LostFraction = 0, IInv PROVE WithinOneCycle
<1>1. tCK \in Nat /\ DRAMTime \in Int /\ CPUTime \in Int
  BY DEF ClockAssumption, IInv, ClockTypeOK, DRAMTime, CPUTime
<1>2. UpdatesLeftOut \in Int
  <2>1. DRAM_CPU_CLK_RATIO \in Nat \ {0}
    BY RatiosDivide DEF R
  <2>2. QED
    BY <2>1 DEF UpdatesLeftOut, IInv, ClockTypeOK
<1>3. LostFraction * UpdatesLeftOut = 0
  BY <1>2
<1>4. NoDrift
  BY IInvNoDrift
<1>5. QED
  BY <1>1, <1>3, <1>4 DEF NoDrift, WithinOneCycle

\* For the CPU period and the three devices of Globals.h (5/16 ns; 20/16, 24/16 and
\* 30/16 ns) nothing is lost: the clocks never part by more than a DRAM cycle.
THEOREM ConfiguredClocksAgree ==
    ASSUME CPU_CLK_PERIOD = 5, tCK \in {20, 24, 30}
    PROVE  ClockSpec => []WithinOneCycle
<1>1. ClockAssumption
  BY DEF ClockAssumption
<1>2. LostFraction = 0
  <2>1. 20 % 5 = 0 /\ 24 % 5 = 4 /\ 30 % 5 = 0 /\ 24 % 4 = 0
    OBVIOUS
  <2>2. QED
    BY <2>1 DEF LostFraction, Remainder
<1>3. ClockInit => IInv
  BY <1>1, InitIInv
<1>4. IInv /\ [ClockNext]_clockVars => IInv'
  BY <1>1, NextIInv
<1>5. IInv => WithinOneCycle
  BY <1>1, <1>2, NothingLost
<1>6. QED
  BY <1>3, <1>4, <1>5, PTL DEF ClockSpec

=============================================================================
