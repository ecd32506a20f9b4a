---------------------------- MODULE ClockDomain -----------------------------
(***************************************************************************)
(* The two clocks of the simulator (BOB.cpp:93-98, 739-771).  BOB::Update  *)
(* runs in every CPU cycle; the channels are updated in every              *)
(* DRAM_CPU_CLK_RATIO-th one, the whole part of tCK / CPU_CLK_PERIOD.  When*)
(* tCK is no multiple of the CPU's period that is too often, by the        *)
(* fraction the division loses, and one update in DRAM_CPU_CLK_ADJUSTMENT  *)
(* is left out; this too is the whole part of a quotient.                  *)
(***************************************************************************)
EXTENDS Integers

\* Both periods in one unit, of which they are multiples: 1/16 ns for those of Globals.h,
\* where the code's doubles are exact.
CONSTANTS
    tCK,                       \* of the DRAM clock
    CPU_CLK_PERIOD             \* of the CPU clock, not the longer one

ClockAssumption ==
    /\ CPU_CLK_PERIOD \in Nat \ {0}
    /\ tCK \in Nat
    /\ CPU_CLK_PERIOD <= tCK

DRAM_CPU_CLK_RATIO == tCK \div CPU_CLK_PERIOD

\* fmod(tCK, CPU_CLK_PERIOD)
Remainder == tCK % CPU_CLK_PERIOD

\* Without a remainder the quotient is infinite, and the unsigned taken to be 0.
DRAM_CPU_CLK_ADJUSTMENT == IF Remainder = 0 THEN 0 ELSE tCK \div Remainder

VARIABLES
    currentClockCycle,            \* of BOB: CPU cycles
    clockCycleAdjustmentCounter,
    dramClockCycle                \* of every channel: DRAM cycles

clockVars == <<currentClockCycle, clockCycleAdjustmentCounter, dramClockCycle>>

ClockTypeOK ==
    /\ currentClockCycle \in Nat
    /\ clockCycleAdjustmentCounter \in Nat
    /\ dramClockCycle \in Nat

ClockInit ==
    /\ currentClockCycle = 0
    /\ clockCycleAdjustmentCounter = 0
    /\ dramClockCycle = 0

\* The cycles in which the channels may be updated.
IsTick == currentClockCycle > 0 /\ currentClockCycle % DRAM_CPU_CLK_RATIO = 0

\* A CPU cycle in which the channels are not concerned.
UpdateBetweenTicks ==
    /\ ~ IsTick
    /\ currentClockCycle' = currentClockCycle + 1
    /\ UNCHANGED <<clockCycleAdjustmentCounter, dramClockCycle>>

\* The channels are updated.
UpdateChannels ==
    /\ IsTick
    /\ \/ DRAM_CPU_CLK_ADJUSTMENT = 0
       \/ clockCycleAdjustmentCounter < DRAM_CPU_CLK_ADJUSTMENT
    /\ dramClockCycle' = dramClockCycle + 1
    /\ clockCycleAdjustmentCounter' = IF DRAM_CPU_CLK_ADJUSTMENT > 0
                                      THEN clockCycleAdjustmentCounter + 1
                                      ELSE clockCycleAdjustmentCounter
    /\ currentClockCycle' = currentClockCycle + 1

\* Bug: the cycle that is left out is not counted.
SkipChannelsUncounted ==
    /\ IsTick
    /\ DRAM_CPU_CLK_ADJUSTMENT > 0
    /\ clockCycleAdjustmentCounter >= DRAM_CPU_CLK_ADJUSTMENT
    /\ clockCycleAdjustmentCounter' = 0
    /\ currentClockCycle' = currentClockCycle + 1
    /\ UNCHANGED dramClockCycle

\* The channels are left out, and the counter starts again.
SkipChannels ==
    /\ IsTick
    /\ DRAM_CPU_CLK_ADJUSTMENT > 0
    /\ clockCycleAdjustmentCounter >= DRAM_CPU_CLK_ADJUSTMENT
    /\ clockCycleAdjustmentCounter' = 1
    /\ currentClockCycle' = currentClockCycle + 1
    /\ UNCHANGED dramClockCycle

ClockNext == UpdateBetweenTicks \/ UpdateChannels \/ SkipChannels

ClockSpec == ClockInit /\ [][ClockNext]_clockVars

-----------------------------------------------------------------------------
(* What the simulator prints of its clocks (BOB.cpp:1050-1052).            *)

CPUTime == CPU_CLK_PERIOD * currentClockCycle
DRAMTime == tCK * dramClockCycle

\* The ticks that did not update the channels.
UpdatesLeftOut ==
    (IF currentClockCycle = 0 THEN 0 ELSE (currentClockCycle - 1) \div DRAM_CPU_CLK_RATIO)
    - dramClockCycle

\* What a second truncation loses, that of tCK / fmod(tCK, CPU_CLK_PERIOD) (BOB.cpp:97):
\* nothing for the three devices of Globals.h.
LostFraction == IF Remainder = 0 THEN 0 ELSE tCK % Remainder

\* However long the simulation runs, the two clocks show the same point in time to
\* within one DRAM cycle (README:190, "Used to ensure everyone is at the same point
\* in time"), as far as the adjustment is a whole number: what the truncated ratio
\* gains, the updates left out give back, each but the fraction the adjustment loses.
NoDrift ==
    LET ahead == (DRAMTime + LostFraction * UpdatesLeftOut) - CPUTime
    IN ahead <= tCK /\ - ahead <= tCK

=============================================================================
