------------------------- MODULE DRAMChannel_proof --------------------------
(***************************************************************************)
(* Theorems about DRAMChannel, for every geometry, timing and queue size   *)
(* that its assumptions admit: its types, the return queue                 *)
(* (ReturnQueueBounded) and the work queue (WorkQueueAccounted,            *)
(* OpenBankAwaitsItsCAS, SameBankInOrder).                                 *)
(***************************************************************************)
EXTENDS DRAMChannel, SequenceTheorems, FiniteSetTheorems, TLAPS

-----------------------------------------------------------------------------
(* The constants                                                           *)

LEMMA TimingTypes ==
    /\ tRCD \in Nat /\ tRP \in Nat /\ tRC \in Nat /\ tCL \in Nat /\ tCWL \in Nat
    /\ tRRD \in Nat /\ tFAW \in Nat /\ tWR \in Nat /\ tWTR \in Nat /\ tRTP \in Nat
    /\ tRTPc \in Nat /\ tCCD \in Nat /\ tRFC \in Nat /\ tCMDS \in Nat
    /\ tRTRS \in Nat /\ BURST \in Nat /\ UINT_MAX \in Nat /\ REFRESH_PERIOD \in Nat
  BY TimingAssumption, QueueAssumption

LEMMA CounterTypes ==
    ASSUME NEW m \in Nat, NEW n \in Nat
    PROVE  Larger(m, n) \in Nat /\ Decremented(n) \in Nat /\ OneLess(n) \in Nat
  BY TimingTypes DEF Larger, Decremented, OneLess

-----------------------------------------------------------------------------
(* Queues                                                                  *)

\* An interval from 1 has one length.
LEMMA SameInterval ==
    ASSUME NEW m \in Nat, NEW n \in Nat, 1 .. m = 1 .. n
    PROVE  m = n
<1>1. ASSUME m < n PROVE FALSE
  <2>1. n \in 1 .. n /\ n \notin 1 .. m
    BY <1>1
  <2>2. QED
    BY <2>1
<1>2. ASSUME n < m PROVE FALSE
  <2>1. m \in 1 .. m /\ m \notin 1 .. n
    BY <1>2
  <2>2. QED
    BY <2>1
<1>3. QED
  BY <1>1, <1>2

LEMMA CountDownType ==
    ASSUME NEW queue \in Seq(Burst)
    PROVE  CountDown(queue) \in Seq(Burst) /\ Len(CountDown(queue)) = Len(queue)
<1>1. ASSUME NEW i \in 1 .. Len(queue)
      PROVE  [queue[i] EXCEPT !.countdown = Decremented(@)] \in Burst
  <2>1. queue[i] \in Burst
    BY ElementOfSeq
  <2>2. queue[i].countdown \in Nat
    BY <2>1 DEF Burst
  <2>3. QED
    BY <2>1, <2>2, CounterTypes DEF Burst
<1>2. CountDown(queue) = [i \in 1 .. Len(queue) |->
                            [queue[i] EXCEPT !.countdown = Decremented(@)]]
  BY LenProperties DEF CountDown
<1>3. QED
  BY <1>1, <1>2, LenProperties, SeqDef

LEMMA AfterCountDownType ==
    ASSUME NEW queue \in Seq(Burst)
    PROVE  AfterCountDown(queue) \in Seq(Burst)
<1>1. CASE HeadIsDue(queue)
  <2>1. CountDown(queue) # << >>
    BY <1>1, CountDownType, EmptySeq DEF HeadIsDue
  <2>2. Tail(CountDown(queue)) \in Seq(Burst)
    BY <2>1, CountDownType, HeadTailProperties
  <2>3. QED
    BY <1>1, <2>2 DEF AfterCountDown
<1>2. CASE ~ HeadIsDue(queue)
  BY <1>2, CountDownType DEF AfterCountDown
<1>3. QED
  BY <1>1, <1>2

LEMMA DueHeadType ==
    ASSUME NEW queue \in Seq(Burst), HeadIsDue(queue)
    PROVE  Head(queue).packet \in BusPacket
<1>1. Head(queue) \in Burst
  BY HeadTailProperties DEF HeadIsDue
<1>2. QED
  BY <1>1 DEF Burst

LEMMA WithoutType ==
    ASSUME NEW S, NEW queue \in Seq(S), NEW i \in 1 .. Len(queue)
    PROVE  /\ Without(queue, i) \in Seq(S)
           /\ Len(Without(queue, i)) = Len(queue) - 1
<1>1. Len(queue) \in Nat /\ Len(queue) - 1 \in Nat
  BY LenProperties
<1>2. ASSUME NEW j \in 1 .. Len(queue) - 1
      PROVE  (IF j < i THEN queue[j] ELSE queue[j + 1]) \in S
  BY <1>1, ElementOfSeq
<1>3. QED
  BY <1>1, <1>2, SeqDef DEF Without

LEMMA WindowAfterType ==
    ASSUME NEW window \in Seq(Nat)
    PROVE  WindowAfter(window) \in Seq(Nat)
<1>1. Len(window) \in Nat
  BY LenProperties
<1>2. ASSUME NEW i \in 1 .. Len(window) PROVE window[i] \in Nat /\ Decremented(window[i]) \in Nat
  BY ElementOfSeq, CounterTypes
<1>3. CASE window # << >> /\ Head(window) = 1
  <2>1. Len(window) - 1 \in Nat
    BY <1>1, <1>3, EmptySeq
  <2>2. ASSUME NEW i \in 1 .. Len(window) - 1
        PROVE  (IF i = 1 THEN window[2] ELSE Decremented(window[i + 1])) \in Nat
    BY <1>1, <1>2, <2>1
  <2>3. QED
    BY <1>3, <2>1, <2>2, SeqDef DEF WindowAfter
<1>4. CASE ~ (window # << >> /\ Head(window) = 1)
  <2>1. WindowAfter(window) = [i \in 1 .. Len(window) |-> Decremented(window[i])]
    BY <1>4 DEF WindowAfter
  <2>2. QED
    BY <1>1, <1>2, <2>1, SeqDef
<1>5. QED
  BY <1>3, <1>4

-----------------------------------------------------------------------------
(* Banks                                                                   *)

LEMMA BankNames ==
    /\ {"IDLE", "ROW_ACTIVE", "PRECHARGING", "REFRESHING"} \subseteq CurrentBankStates
    /\ {"NONE", "ACTIVATE", "READ_P", "WRITE_P", "PRECHARGE", "REFRESH"} \subseteq LastCommands
  BY DEF CurrentBankStates, LastCommands

LEMMA BankTypes ==
    ASSUME NEW bank \in BankStates
    PROVE  /\ UpdateStateChange(bank) \in BankStates
           /\ Elapse(bank) \in BankStates
           /\ Refreshing(bank) \in BankStates
<1>. USE BankNames, TimingTypes
<1>1. UpdateStateChange(bank) \in BankStates
  <2>1. CASE bank.stateChangeCountdown = 0
    BY <2>1 DEF UpdateStateChange
  <2>2. CASE bank.stateChangeCountdown > 1
    <3>1. UpdateStateChange(bank) = [bank EXCEPT !.stateChangeCountdown = @ - 1]
      BY <2>2 DEF UpdateStateChange
    <3>2. QED
      BY <2>2, <3>1 DEF BankStates
  <2>3. CASE bank.stateChangeCountdown = 1
    <3>1. CASE bank.lastCommand \in {"READ_P", "WRITE_P"}
      <4>1. UpdateStateChange(bank) =
              [bank EXCEPT !.currentBankState = "PRECHARGING",
                           !.lastCommand = "PRECHARGE",
                           !.stateChangeCountdown = tRP]
        BY <2>3, <3>1 DEF UpdateStateChange
      <4>2. QED
        BY <4>1 DEF BankStates
    <3>2. CASE bank.lastCommand \notin {"READ_P", "WRITE_P"}
      <4>1. UpdateStateChange(bank) =
              [bank EXCEPT !.currentBankState = "IDLE", !.stateChangeCountdown = 0]
        BY <2>3, <3>2 DEF UpdateStateChange
      <4>2. PICK zero \in Nat : zero = 0
        OBVIOUS
      <4>3. UpdateStateChange(bank) =
              [bank EXCEPT !.currentBankState = "IDLE", !.stateChangeCountdown = zero]
        BY <4>1, <4>2
      <4>4. QED
        BY <4>3 DEF BankStates
    <3>3. QED
      BY <3>1, <3>2
  <2>4. bank.stateChangeCountdown \in Nat
    BY DEF BankStates
  <2>5. QED
    BY <2>1, <2>2, <2>3, <2>4
<1>2. Elapse(bank) \in BankStates
  BY CounterTypes DEF Elapse, BankStates
<1>3. Refreshing(bank) \in BankStates
  BY DEF Refreshing, BankStates
<1>4. QED
  BY <1>1, <1>2, <1>3

LEMMA IdleBankType == IdleBank \in BankStates
<1>1. (CHOOSE row \in Rows : TRUE) \in Rows
  BY GeometryAssumption
<1>2. QED
  BY <1>1, BankNames DEF IdleBank, BankStates

LEMMA BanksNowType ==
    ASSUME ControllerTypeOK, NEW r \in Ranks, NEW b \in Banks
    PROVE  BanksNow[r][b] \in BankStates
  BY BankTypes DEF ControllerTypeOK, BanksNow

LEMMA TickBanksType ==
    ASSUME NEW banks \in [Ranks -> [Banks -> BankStates]]
    PROVE  TickBanks(banks) \in [Ranks -> [Banks -> BankStates]]
  BY BankTypes DEF TickBanks

\* The bookkeeping of every command the controller may send.
LEMMA BanksAfterTypes ==
    ASSUME ControllerTypeOK, NEW p \in BusPacket
    PROVE  /\ BanksAfterRead(p) \in [Ranks -> [Banks -> BankStates]]
           /\ BanksAfterWrite(p) \in [Ranks -> [Banks -> BankStates]]
           /\ BanksAfterActivateCommand(p) \in [Ranks -> [Banks -> BankStates]]
           /\ \A r \in Ranks : BanksAfterRefresh(r) \in [Ranks -> [Banks -> BankStates]]
           /\ BanksNow \in [Ranks -> [Banks -> BankStates]]
<1>1. BanksNow \in [Ranks -> [Banks -> BankStates]]
  BY BankTypes DEF ControllerTypeOK, BanksNow
<1>2. ASSUME NEW bank \in BankStates, NEW m \in Nat, NEW n \in Nat
      PROVE  /\ Closing(bank, "READ_P", m, n) \in BankStates
             /\ Closing(bank, "WRITE_P", m, n) \in BankStates
             /\ Postponed(bank, m, n) \in BankStates
  BY BankNames, CounterTypes DEF Closing, Postponed, BankStates, Larger
<1>3. /\ SameKindAgain(TRUE) \in Nat /\ SameKindAgain(FALSE) \in Nat
      /\ tCL + BURST + tRTRS - tCWL \in Nat
      /\ tCWL + BURST + tWTR \in Nat
      /\ tCWL + BURST + (tRTRS - tCL) \in Nat
      /\ tCWL + BURST + tWR \in Nat /\ tCWL + BURST + tWR + tRP \in Nat
  <2>1. SameKindAgain(TRUE) \in Nat /\ SameKindAgain(FALSE) \in Nat
    BY TimingTypes, CounterTypes DEF SameKindAgain
  <2>2. tCWL <= tCL + BURST + tRTRS /\ tCL <= tCWL + BURST + tRTRS
    BY TimingAssumption
  <2>3. tCL + BURST + tRTRS - tCWL \in Nat
    BY <2>2, TimingTypes
  <2>4. tCWL + BURST + (tRTRS - tCL) \in Nat
    BY <2>2, TimingTypes
  <2>5. /\ tCWL + BURST + tWTR \in Nat
        /\ tCWL + BURST + tWR \in Nat /\ tCWL + BURST + tWR + tRP \in Nat
    BY TimingTypes
  <2>6. QED
    BY <2>1, <2>3, <2>4, <2>5, Zenon
<1>4. BanksAfterRead(p) \in [Ranks -> [Banks -> BankStates]]
  <2>1. ASSUME NEW q \in Ranks, NEW b \in Banks
        PROVE  BanksAfterRead(p)[q][b] \in BankStates
    <3>1. BanksNow[q][b] \in BankStates
      BY <1>1
    <3>2. ActivateAfterRead(BanksNow[q][b]) \in Nat
      BY <3>1, TimingTypes DEF ActivateAfterRead, Larger, BankStates
    <3>3. SameKindAgain(q = p.rank) \in Nat
      BY <1>3
    <3>4. QED
      BY <1>2, <1>3, <3>1, <3>2, <3>3, TimingTypes DEF BanksAfterRead
  <2>2. QED
    BY <2>1 DEF BanksAfterRead
<1>5. BanksAfterWrite(p) \in [Ranks -> [Banks -> BankStates]]
  <2>1. ASSUME NEW q \in Ranks, NEW b \in Banks
        PROVE  BanksAfterWrite(p)[q][b] \in BankStates
    <3>1. BanksNow[q][b] \in BankStates
      BY <1>1
    <3>2. /\ SameKindAgain(q = p.rank) \in Nat
          /\ tCWL + BURST + (IF q = p.rank THEN tWTR ELSE tRTRS - tCL) \in Nat
      BY <1>3
    <3>3. QED
      BY <1>2, <1>3, <3>1, <3>2, TimingTypes DEF BanksAfterWrite
  <2>2. QED
    BY <2>1 DEF BanksAfterWrite
<1>6. BanksAfterActivateCommand(p) \in [Ranks -> [Banks -> BankStates]]
  <2>1. ASSUME NEW q \in Ranks, NEW b \in Banks
        PROVE  BanksAfterActivateCommand(p)[q][b] \in BankStates
    <3>1. BanksNow[q][b] \in BankStates
      BY <1>1
    <3>2. p.row \in Rows
      BY DEF BusPacket
    <3>3. QED
      BY <3>1, <3>2, BankNames, TimingTypes
         DEF BanksAfterActivateCommand, BankStates, Larger
  <2>2. QED
    BY <2>1 DEF BanksAfterActivateCommand
<1>7. ASSUME NEW r \in Ranks
      PROVE  BanksAfterRefresh(r) \in [Ranks -> [Banks -> BankStates]]
  BY <1>1, BankTypes DEF BanksAfterRefresh
<1>8. QED
  BY <1>1, <1>4, <1>5, <1>6, <1>7

-----------------------------------------------------------------------------
(* Ranks                                                                   *)

LEMMA AsTypeType ==
    ASSUME NEW p \in BusPacket, NEW type \in BusPacketTypes
    PROVE  AsType(p, type) \in BusPacket
  BY DEF AsType, BusPacket

LEMMA NewRankType == NewRank \in RankStates
  BY IdleBankType, EmptySeq DEF NewRank, RankStates

LEMMA ReceiveFromBusType ==
    ASSUME NEW rank \in RankStates, NEW p \in BusPacket
    PROVE  ReceiveFromBus(rank, p) \in RankStates
<1>. DEFINE banks == rank.bankStates
<1>1. banks \in [Banks -> BankStates] /\ rank.readReturnQueue \in Seq(Burst)
  BY DEF RankStates
<1>2. p.row \in Rows /\ p.bank \in Banks /\ p.busPacketType \in BusPacketTypes
  BY DEF BusPacket
<1>3. ASSUME NEW busy \in Nat, NEW until \in Nat, IsCAS(p)
      PROVE  BanksAfterCAS(banks, p, busy, until) \in [Banks -> BankStates]
  <2>1. ASSUME NEW b \in Banks
        PROVE  BanksAfterCAS(banks, p, busy, until)[b] \in BankStates
    <3>1. banks[b] \in BankStates /\ until + tRP \in Nat
      BY <1>1, TimingTypes
    <3>2. Larger(banks[b].nextRead, tCCD) \in Nat /\ Larger(banks[b].nextWrite, tCCD) \in Nat
      BY <3>1, CounterTypes, TimingTypes DEF BankStates
    <3>3. CASE b = p.bank
      <4>1. BanksAfterCAS(banks, p, busy, until)[b] =
              [banks[b] EXCEPT !.lastCommand = p.busPacketType,
                               !.stateChangeCountdown = busy,
                               !.nextActivate = until + tRP,
                               !.nextRead = until + tRP,
                               !.nextWrite = until + tRP]
        BY <3>3 DEF BanksAfterCAS
      <4>2. QED
        BY <1>3, <3>1, <4>1, BankNames DEF IsCAS, BankStates
    <3>4. CASE b # p.bank
      <4>1. BanksAfterCAS(banks, p, busy, until)[b] =
              [banks[b] EXCEPT !.nextRead = Larger(@, tCCD),
                               !.nextWrite = Larger(@, tCCD)]
        BY <3>4 DEF BanksAfterCAS
      <4>2. QED
        BY <3>1, <3>2, <4>1 DEF BankStates
    <3>5. QED
      BY <3>3, <3>4
  <2>2. QED
    BY <2>1 DEF BanksAfterCAS
<1>4. BanksAfterActivate(banks, p) \in [Banks -> BankStates]
  <2>1. ASSUME NEW b \in Banks
        PROVE  BanksAfterActivate(banks, p)[b] \in BankStates
    <3>1. banks[b] \in BankStates
      BY <1>1
    <3>2. Larger(banks[b].nextActivate, tRRD) \in Nat
      BY <3>1, CounterTypes, TimingTypes DEF BankStates
    <3>3. QED
      BY <1>2, <3>1, <3>2, BankNames, TimingTypes DEF BanksAfterActivate, BankStates
  <2>2. QED
    BY <2>1 DEF BanksAfterActivate
<1>5. CASE p.busPacketType = "REFRESH"
  BY <1>1, <1>5, BankTypes DEF ReceiveFromBus, RankStates
<1>6. CASE p.busPacketType = "READ_P"
  <2>1. [packet |-> AsType(p, "READ_DATA"), countdown |-> tCL] \in Burst
    BY AsTypeType, TimingTypes DEF Burst, BusPacketTypes
  <2>2. BanksAfterCAS(banks, p, tRTP, tRTP) \in [Banks -> BankStates]
    BY <1>3, <1>6, TimingTypes DEF IsCAS
  <2>3. QED
    BY <1>1, <1>6, <2>1, <2>2, AppendProperties DEF ReceiveFromBus, RankStates
<1>7. CASE p.busPacketType = "WRITE_P"
  <2>1. tCWL + BURST + tWR \in Nat
    BY TimingTypes
  <2>2. BanksAfterCAS(banks, p, tCWL + BURST + tWR, tCWL + BURST + tWR)
            \in [Banks -> BankStates]
    BY <1>3, <1>7, <2>1 DEF IsCAS
  <2>3. QED
    BY <1>1, <1>7, <2>2 DEF ReceiveFromBus, RankStates
<1>8. CASE p.busPacketType = "ACTIVATE"
  BY <1>1, <1>4, <1>8 DEF ReceiveFromBus, RankStates
<1>9. CASE p.busPacketType = "WRITE_DATA"
  <2>1. [banks[p.bank] EXCEPT !.stateChangeCountdown = tWR, !.nextActivate = tWR + tRP]
            \in BankStates
    <3>1. banks[p.bank] \in BankStates /\ tWR + tRP \in Nat
      BY <1>1, <1>2, TimingTypes
    <3>2. QED
      BY <3>1, TimingTypes DEF BankStates
  <2>2. ReceiveFromBus(rank, p) =
          [rank EXCEPT !.bankStates =
             [banks EXCEPT ![p.bank] = [banks[p.bank] EXCEPT !.stateChangeCountdown = tWR,
                                                             !.nextActivate = tWR + tRP]]]
    BY <1>1, <1>2, <1>9 DEF ReceiveFromBus, RankStates, BankStates
  <2>3. QED
    BY <1>1, <1>2, <2>1, <2>2 DEF RankStates
<1>10. CASE p.busPacketType = "READ_DATA"
  BY <1>10 DEF ReceiveFromBus
<1>11. QED
  BY <1>2, <1>5, <1>6, <1>7, <1>8, <1>9, <1>10 DEF BusPacketTypes

LEMMA UpdateRankType ==
    ASSUME NEW rank \in RankStates
    PROVE  UpdateRank(rank) \in RankStates
<1>1. rank.bankStates \in [Banks -> BankStates] /\ rank.readReturnQueue \in Seq(Burst)
  BY DEF RankStates
<1>2. ASSUME NEW b \in Banks
      PROVE  Elapse(UpdateStateChange(rank.bankStates[b])) \in BankStates
  BY <1>1, BankTypes
<1>3. QED
  BY <1>1, <1>2, AfterCountDownType DEF UpdateRank, RankStates

-----------------------------------------------------------------------------
(* Type correctness                                                        *)

LEMMA CommandsOfType ==
    ASSUME NEW t \in Transaction
    PROVE  CommandsOf(t) \in Seq(BusPacket) /\ Len(CommandsOf(t)) = 2
<1>1. ASSUME NEW type \in BusPacketTypes PROVE PacketOf(t, type) \in BusPacket
  BY GeometryAssumption DEF PacketOf, Transaction, BusPacket
<1>2. {"ACTIVATE", "READ_P", "WRITE_P"} \subseteq BusPacketTypes
  BY DEF BusPacketTypes
<1>3. QED
  BY <1>1, <1>2 DEF CommandsOf

LEMMA RefreshPacketType ==
    ASSUME NEW r \in Ranks PROVE RefreshPacket(r) \in BusPacket
<1>1. (CHOOSE b \in Banks : TRUE) \in Banks /\ (CHOOSE row \in Rows : TRUE) \in Rows
  BY GeometryAssumption
<1>2. QED
  BY <1>1 DEF RefreshPacket, BusPacket, BusPacketTypes

\* What an Update computes before the controller decides.
LEMMA NowTypes ==
    ASSUME TypeOK
    PROVE  /\ RanksAfterCommand \in [Ranks -> RankStates]
           /\ RanksNow \in [Ranks -> RankStates]
           /\ ReturnQueueNow \in Seq(BusPacket)
           /\ OutstandingNow \in Nat
           /\ WindowNow \in [Ranks -> Seq(Nat)]
           /\ RefreshNow \in [Ranks -> Nat]
<1>1. RanksAfterCommand \in [Ranks -> RankStates]
  <2>1. ASSUME NEW r \in Ranks, CommandArrives
        PROVE  ReceiveFromBus(ranks[r], inFlightCommandPacket) \in RankStates
    BY <2>1, ReceiveFromBusType DEF TypeOK, CommandArrives
  <2>2. QED
    BY <2>1 DEF RanksAfterCommand, TypeOK
<1>2. RanksNow \in [Ranks -> RankStates]
  <2>1. ASSUME NEW r \in Ranks, WriteArrives
        PROVE  ReceiveFromBus(RanksAfterCommand[r], inFlightDataPacket) \in RankStates
    BY <1>1, <2>1, ReceiveFromBusType DEF TypeOK, WriteArrives, DataArrives
  <2>2. QED
    BY <1>1, <2>1 DEF RanksNow
<1>3. ReturnQueueNow \in Seq(BusPacket)
  <2>1. CASE ReadReturns
    <3>1. inFlightDataPacket \in BusPacket
      BY <2>1 DEF TypeOK, ReadReturns, DataArrives
    <3>2. QED
      BY <2>1, <3>1, AppendProperties DEF TypeOK, ReturnQueueNow
  <2>2. CASE ~ ReadReturns
    BY <2>2 DEF TypeOK, ReturnQueueNow
  <2>3. QED
    BY <2>1, <2>2
<1>4. OutstandingNow \in Nat
  BY CounterTypes DEF TypeOK, OutstandingNow
<1>5. WindowNow \in [Ranks -> Seq(Nat)]
  BY WindowAfterType DEF TypeOK, ControllerTypeOK, WindowNow
<1>6. RefreshNow \in [Ranks -> Nat]
  BY CounterTypes DEF TypeOK, ControllerTypeOK, RefreshNow
<1>7. QED
  BY <1>1, <1>2, <1>3, <1>4, <1>5, <1>6

LEMMA ReturnedPacketType ==
    ASSUME TypeOK, NEW r \in ReturningRanks
    PROVE  ReturnedPacket(RanksNow[r]) \in BusPacket
<1>1. r \in Ranks /\ HeadIsDue(RanksNow[r].readReturnQueue)
  BY DEF ReturningRanks, ReturnIsDue
<1>2. RanksNow[r].readReturnQueue \in Seq(Burst)
  BY <1>1, NowTypes DEF RankStates
<1>3. QED
  BY <1>1, <1>2, DueHeadType DEF ReturnedPacket

LEMMA CycleType ==
    ASSUME TypeOK, NEW sendsCommand, NEW sendsCAS, Cycle(sendsCommand, sendsCAS)
    PROVE  /\ ranks' \in [Ranks -> RankStates]
           /\ inFlightDataPacket' \in BusPacket \union {NULL}
           /\ inFlightDataCountdown' \in Nat
           /\ readReturnQueue' \in Seq(BusPacket)
           /\ error' \in Errors
<1>1. ranks' \in [Ranks -> RankStates]
  BY NowTypes, UpdateRankType DEF Cycle
<1>2. inFlightDataPacket' \in BusPacket \union {NULL} /\ inFlightDataCountdown' \in Nat
  <2>1. ASSUME NEW p \in BusPacket, DataStarts(p)
        PROVE  inFlightDataPacket' \in BusPacket /\ inFlightDataCountdown' \in Nat
    BY <2>1, TimingTypes DEF DataStarts
  <2>2. CASE WriteIsDue
    <3>1. DueWrite \in BusPacket
      BY <2>2, DueHeadType DEF TypeOK, ControllerTypeOK, WriteIsDue, DueWrite
    <3>2. DataStarts(DueWrite)
      BY <2>2 DEF Cycle, DataBusAdvances
    <3>3. QED
      BY <2>1, <3>1, <3>2
  <2>3. CASE ~ WriteIsDue /\ ReturningRanks # {}
    <3>1. PICK r \in ReturningRanks : r = CHOOSE x \in ReturningRanks : TRUE
      BY <2>3
    <3>2. DataStarts(ReturnedPacket(RanksNow[r]))
      BY <2>3, <3>1 DEF Cycle, DataBusAdvances
    <3>3. ReturnedPacket(RanksNow[r]) \in BusPacket
      BY ReturnedPacketType
    <3>4. QED
      BY <2>1, <3>2, <3>3
  <2>4. CASE ~ WriteIsDue /\ ReturningRanks = {}
    BY <2>4, CounterTypes DEF Cycle, DataBusAdvances, TypeOK
  <2>5. QED
    BY <2>2, <2>3, <2>4
<1>3. readReturnQueue' \in Seq(BusPacket)
  BY NowTypes DEF Cycle
<1>4. error' \in Errors
  BY DEF Cycle, Errors
<1>5. QED
  BY <1>1, <1>2, <1>3, <1>4

LEMMA InitTypeOK == Init => TypeOK
<1>1. SUFFICES ASSUME Init PROVE TypeOK
  OBVIOUS
<1>2. ControllerTypeOK
  <2>1. (REFRESH_PERIOD \div NUM_RANKS) \in Nat
    BY GeometryAssumption, TimingAssumption
  <2>2. ASSUME NEW r \in Ranks PROVE (REFRESH_PERIOD \div NUM_RANKS) * (r + 1) \in Nat
    BY <2>1, GeometryAssumption DEF Ranks
  <2>3. QED
    BY <1>1, <2>2, IdleBankType, EmptySeq DEF Init, ControllerInit, ControllerTypeOK
<1>3. QED
  BY <1>1, <1>2, NewRankType, EmptySeq DEF Init, TypeOK, Errors

\* The controller's part of the state after each decision.
LEMMA ControllerStepType ==
    ASSUME TypeOK, NEW i \in DOMAIN commandQueue,
           NEW queued, NEW outstanding,
           \/ ControllerRead(i, queued, outstanding)
           \/ ControllerWrite(i, queued, outstanding)
           \/ ControllerActivate(i, queued, outstanding)
    PROVE  ControllerTypeOK' /\ commandQueue[i] \in BusPacket
<1>. DEFINE p == commandQueue[i]
<1>1. i \in 1 .. Len(commandQueue) /\ p \in BusPacket
  BY LenProperties, ElementOfSeq DEF TypeOK, ControllerTypeOK
<1>2. Without(commandQueue, i) \in Seq(BusPacket)
  BY <1>1, WithoutType DEF TypeOK, ControllerTypeOK
<1>3. /\ TickBanks(BanksAfterRead(p)) \in [Ranks -> [Banks -> BankStates]]
      /\ TickBanks(BanksAfterWrite(p)) \in [Ranks -> [Banks -> BankStates]]
      /\ TickBanks(BanksAfterActivateCommand(p)) \in [Ranks -> [Banks -> BankStates]]
  BY <1>1, BanksAfterTypes, TickBanksType DEF TypeOK
<1>4. AfterCountDown(writeBurstQueue) \in Seq(Burst)
  BY AfterCountDownType DEF TypeOK, ControllerTypeOK
<1>5. CASE ControllerRead(i, queued, outstanding)
  BY <1>1, <1>2, <1>3, <1>4, <1>5, NowTypes DEF ControllerRead, TypeOK, ControllerTypeOK
<1>6. CASE ControllerWrite(i, queued, outstanding)
  <2>1. [packet |-> AsType(p, "WRITE_DATA"), countdown |-> tCWL] \in Burst
    BY <1>1, AsTypeType, TimingTypes DEF Burst, BusPacketTypes
  <2>2. writeBurstQueue' \in Seq(Burst)
    BY <1>4, <1>6, <2>1, AppendProperties DEF ControllerWrite
  <2>3. QED
    BY <1>1, <1>2, <1>3, <1>6, <2>2, NowTypes DEF ControllerWrite, TypeOK, ControllerTypeOK
<1>7. CASE ControllerActivate(i, queued, outstanding)
  <2>1. p.rank \in Ranks
    BY <1>1 DEF BusPacket
  <2>2. Append(WindowNow[p.rank], tFAW) \in Seq(Nat)
    BY <2>1, NowTypes, TimingTypes, AppendProperties
  <2>3. tFAWWindow' \in [Ranks -> Seq(Nat)]
    BY <1>7, <2>2, NowTypes DEF ControllerActivate
  <2>4. QED
    BY <1>1, <1>2, <1>3, <1>4, <1>7, <2>3, NowTypes
       DEF ControllerActivate, TypeOK, ControllerTypeOK
<1>8. QED
  BY <1>1, <1>5, <1>6, <1>7

LEMMA NextTypeOK == TypeOK /\ [Next]_vars => TypeOK'
<1>1. SUFFICES ASSUME TypeOK, [Next]_vars PROVE TypeOK'
  OBVIOUS
<1>2. ASSUME NEW t \in Transaction, AddTransaction(t) PROVE TypeOK'
  <2>1. commandQueue' \in Seq(BusPacket)
    BY <1>1, <1>2, CommandsOfType, ConcatProperties
       DEF AddTransaction, EnqueueCommands, TypeOK, ControllerTypeOK
  <2>2. waitingACTS' \in Int
    BY <1>1, <1>2 DEF AddTransaction, EnqueueCommands, TypeOK, ControllerTypeOK
  <2>3. QED
    BY <1>1, <1>2, <2>1, <2>2
       DEF AddTransaction, EnqueueCommands, TypeOK, ControllerTypeOK, busVars
<1>3. CASE TakeReturn
  <2>1. readReturnQueue' \in Seq(BusPacket)
    BY <1>1, <1>3, HeadTailProperties DEF TakeReturn, TypeOK
  <2>2. QED
    BY <1>1, <1>3, <2>1 DEF TakeReturn, TypeOK, ControllerTypeOK, controllerVars, busVars
<1>4. ASSUME NEW r \in Ranks, IssueRefresh(r) PROVE TypeOK'
  <2>1. bankStates' \in [Ranks -> [Banks -> BankStates]]
    <3>1. PICK p \in BusPacket : TRUE
      BY <1>4, RefreshPacketType
    <3>2. BanksAfterRefresh(r) \in [Ranks -> [Banks -> BankStates]]
      BY <1>1, BanksAfterTypes DEF TypeOK
    <3>3. QED
      BY <1>4, <3>2, TickBanksType DEF IssueRefresh, ControllerRefresh
  <2>2. writeBurstQueue' \in Seq(Burst)
    BY <1>1, <1>4, AfterCountDownType
       DEF IssueRefresh, ControllerRefresh, TypeOK, ControllerTypeOK
  <2>3. refreshCounters' \in [Ranks -> Nat] /\ tFAWWindow' \in [Ranks -> Seq(Nat)]
    BY <1>1, <1>4, NowTypes, TimingTypes DEF IssueRefresh, ControllerRefresh
  <2>4. ControllerTypeOK'
    BY <1>1, <1>4, <2>1, <2>2, <2>3
       DEF IssueRefresh, ControllerRefresh, TypeOK, ControllerTypeOK
  <2>5. inFlightCommandPacket' \in BusPacket /\ inFlightCommandCountdown' \in Nat
    BY <1>4, RefreshPacketType, TimingTypes DEF IssueRefresh, CommandStarts
  <2>6. outstandingReads' \in Nat
    BY <1>1, <1>4, NowTypes DEF IssueRefresh
  <2>7. QED
    BY <1>1, <1>4, <2>4, <2>5, <2>6, CycleType DEF IssueRefresh, TypeOK
<1>5. ASSUME NEW i \in DOMAIN commandQueue, IssueRead(i) \/ IssueWrite(i) \/ IssueActivate(i)
      PROVE  TypeOK'
  <2>1. ControllerTypeOK' /\ commandQueue[i] \in BusPacket
    BY <1>1, <1>5, ControllerStepType DEF IssueRead, IssueWrite, IssueActivate
  <2>2. inFlightCommandPacket' \in BusPacket /\ inFlightCommandCountdown' \in Nat
    BY <1>5, <2>1, TimingTypes DEF IssueRead, IssueWrite, IssueActivate, CommandStarts
  <2>3. outstandingReads' \in Nat
    <3>1. OutstandingNow \in Nat
      BY <1>1, NowTypes
    <3>2. outstandingReads' = OutstandingNow \/ outstandingReads' = OutstandingNow + 1
      BY <1>5, Zenon DEF IssueRead, IssueWrite, IssueActivate
    <3>3. QED
      BY <3>1, <3>2
  <2>4. QED
    BY <1>1, <1>5, <2>1, <2>2, <2>3, CycleType
       DEF IssueRead, IssueWrite, IssueActivate, TypeOK
<1>6. CASE IssueNothing
  <2>1. bankStates' \in [Ranks -> [Banks -> BankStates]]
    <3>1. BanksNow \in [Ranks -> [Banks -> BankStates]]
      BY <1>1, BankTypes DEF TypeOK, ControllerTypeOK, BanksNow
    <3>2. QED
      BY <1>6, <3>1, TickBanksType DEF IssueNothing, ControllerIdle
  <2>2. writeBurstQueue' \in Seq(Burst)
    BY <1>1, <1>6, AfterCountDownType
       DEF IssueNothing, ControllerIdle, TypeOK, ControllerTypeOK
  <2>3. ControllerTypeOK'
    BY <1>1, <1>6, <2>1, <2>2, NowTypes
       DEF IssueNothing, ControllerIdle, TypeOK, ControllerTypeOK
  <2>4. /\ inFlightCommandPacket' \in BusPacket \union {NULL}
        /\ inFlightCommandCountdown' \in Nat
    BY <1>1, <1>6, CounterTypes DEF IssueNothing, NoCommandStarts, TypeOK
  <2>5. outstandingReads' \in Nat
    BY <1>1, <1>6, NowTypes DEF IssueNothing
  <2>6. QED
    BY <1>1, <1>6, <2>3, <2>4, <2>5, CycleType DEF IssueNothing, TypeOK
<1>7. CASE UNCHANGED vars
  BY <1>1, <1>7 DEF TypeOK, ControllerTypeOK, vars, controllerVars, busVars
<1>8. QED
  BY <1>1, <1>2, <1>3, <1>4, <1>5, <1>6, <1>7 DEF Next, Update

\* The channel is type correct, for every device and every size of its queues: no
\* counter becomes negative except, possibly, waitingACTS, and a queue never holds
\* anything but packets.
THEOREM TypeCorrect == Spec => []TypeOK
<1>1. Init => TypeOK
  BY InitTypeOK
<1>2. TypeOK /\ [Next]_vars => TypeOK'
  BY NextTypeOK
<1>3. QED
  BY <1>1, <1>2, PTL DEF Spec

-----------------------------------------------------------------------------
(***************************************************************************)
(* The return queue: ReturnQueueBounded.                                   *)
(*                                                                         *)
(* The bound is not inductive alone: it holds when a read returns because  *)
(* the read had been counted in outstandingReads, and was counted once.    *)
(* So the invariant says that outstandingReads is at least the number of   *)
(* reads on their way, and, to count them, that every read is in one place *)
(* only: the command queue, the command bus, a rank or the data bus.       *)
(***************************************************************************)

(* Where the reads are                                                     *)

\* The reads a rank has to return.
BurstIDs(queue) == {queue[i].packet.transactionID : i \in DOMAIN queue}

RankIDs(r) == BurstIDs(ranks[r].readReturnQueue)

PacketIDs(p, type) ==
    IF p # NULL /\ p.busPacketType = type THEN {p.transactionID} ELSE {}

CommandIDs == PacketIDs(inFlightCommandPacket, "READ_P")
DataIDs == PacketIDs(inFlightDataPacket, "READ_DATA")

ReadPositions(queue) == {i \in DOMAIN queue : queue[i].busPacketType = "READ_P"}

QueueIDs(queue) == {queue[i].transactionID : i \in ReadPositions(queue)}

\* The reads on their way.
FlightIDs == CommandIDs \union DataIDs \union UNION {RankIDs(r) : r \in Ranks}

\* No two places of a queue hold the same read.
DistinctBursts(queue) ==
    \A i, j \in DOMAIN queue :
        queue[i].packet.transactionID = queue[j].packet.transactionID => i = j

DistinctReads(queue) ==
    \A i, j \in ReadPositions(queue) :
        queue[i].transactionID = queue[j].transactionID => i = j

\* Every read is in one place.
Separate ==
    /\ DistinctReads(commandQueue)
    /\ \A r \in Ranks : DistinctBursts(ranks[r].readReturnQueue)
    /\ \A r, s \in Ranks : r # s => RankIDs(r) \intersect RankIDs(s) = {}
    /\ \A r \in Ranks :
          RankIDs(r) \intersect (CommandIDs \union DataIDs \union QueueIDs(commandQueue)) = {}
    /\ CommandIDs \intersect DataIDs = {}
    /\ (CommandIDs \union DataIDs) \intersect QueueIDs(commandQueue) = {}

\* Every read on its way is counted.
ReadsCounted ==
    IsFiniteSet(FlightIDs) /\ Cardinality(FlightIDs) <= outstandingReads

\* The data that leaves the controller is not a read.
WritesAreWrites ==
    \A i \in DOMAIN writeBurstQueue :
        writeBurstQueue[i].packet.busPacketType = "WRITE_DATA"

IInv == TypeOK /\ Separate /\ WritesAreWrites /\ ReadsCounted /\ ReturnQueueBounded

-----------------------------------------------------------------------------
(* Queues of bursts                                                        *)

LEMMA CountDownPacket ==
    ASSUME NEW queue \in Seq(Burst), NEW i \in DOMAIN queue
    PROVE  CountDown(queue)[i].packet = queue[i].packet
<1>1. queue[i] \in Burst
  BY LenProperties, ElementOfSeq
<1>2. CountDown(queue)[i] = [queue[i] EXCEPT !.countdown = Decremented(@)]
  BY DEF CountDown
<1>3. QED
  BY <1>1, <1>2 DEF Burst

\* A packet of the queue after a cycle was in the queue, one place behind if the
\* head has left.
LEMMA AfterCountDownPacket ==
    ASSUME NEW queue \in Seq(Burst), NEW i \in DOMAIN AfterCountDown(queue)
    PROVE  IF HeadIsDue(queue)
           THEN i + 1 \in DOMAIN queue /\ AfterCountDown(queue)[i].packet = queue[i + 1].packet
           ELSE i \in DOMAIN queue /\ AfterCountDown(queue)[i].packet = queue[i].packet
<1>1. CountDown(queue) \in Seq(Burst) /\ Len(CountDown(queue)) = Len(queue)
  BY CountDownType
<1>2. DOMAIN queue = 1 .. Len(queue) /\ Len(queue) \in Nat
  BY LenProperties
<1>3. CASE HeadIsDue(queue)
  <2>1. CountDown(queue) # << >>
    BY <1>1, <1>3, EmptySeq DEF HeadIsDue
  <2>2. /\ Tail(CountDown(queue)) \in Seq(Burst)
        /\ Len(Tail(CountDown(queue))) = Len(queue) - 1
        /\ \A j \in 1 .. Len(Tail(CountDown(queue))) :
              Tail(CountDown(queue))[j] = CountDown(queue)[j + 1]
    BY <1>1, <2>1, HeadTailProperties
  <2>3. AfterCountDown(queue) = Tail(CountDown(queue))
    BY <1>3 DEF AfterCountDown
  <2>4. i \in 1 .. Len(queue) - 1
    BY <2>2, <2>3, LenProperties
  <2>5. i + 1 \in DOMAIN queue
    BY <1>2, <2>4
  <2>6. AfterCountDown(queue)[i] = CountDown(queue)[i + 1]
    BY <2>2, <2>3, <2>4
  <2>7. QED
    BY <1>3, <2>5, <2>6, CountDownPacket
<1>4. CASE ~ HeadIsDue(queue)
  <2>1. AfterCountDown(queue) = CountDown(queue) /\ i \in DOMAIN queue
    BY <1>1, <1>2, <1>4, LenProperties DEF AfterCountDown
  <2>2. QED
    BY <1>4, <2>1, CountDownPacket
<1>5. QED
  BY <1>3, <1>4

\* The head that is sent is in the queue no more, and the others stay distinct.
LEMMA BurstsAfterCountDown ==
    ASSUME NEW queue \in Seq(Burst), DistinctBursts(queue)
    PROVE  /\ DistinctBursts(AfterCountDown(queue))
           /\ BurstIDs(AfterCountDown(queue)) \subseteq BurstIDs(queue)
           /\ HeadIsDue(queue) =>
                 /\ Head(queue).packet.transactionID \in BurstIDs(queue)
                 /\ Head(queue).packet.transactionID \notin BurstIDs(AfterCountDown(queue))
<1>. DEFINE after == AfterCountDown(queue)
<1>1. DOMAIN queue = 1 .. Len(queue) /\ Len(queue) \in Nat
  BY LenProperties
<1>2. DOMAIN after \subseteq Nat \ {0}
  BY AfterCountDownType, LenProperties
<1>3. DistinctBursts(after)
  <2>1. SUFFICES ASSUME NEW i \in DOMAIN after, NEW j \in DOMAIN after,
                        after[i].packet.transactionID = after[j].packet.transactionID
                 PROVE  i = j
    BY DEF DistinctBursts
  <2>2. CASE HeadIsDue(queue)
    <3>1. i + 1 = j + 1
      BY <2>1, <2>2, AfterCountDownPacket DEF DistinctBursts
    <3>2. QED
      BY <1>2, <3>1
  <2>3. CASE ~ HeadIsDue(queue)
    BY <2>1, <2>3, AfterCountDownPacket DEF DistinctBursts
  <2>4. QED
    BY <2>2, <2>3
<1>4. BurstIDs(after) \subseteq BurstIDs(queue)
  BY AfterCountDownPacket DEF BurstIDs
<1>5. ASSUME HeadIsDue(queue)
      PROVE  /\ Head(queue).packet.transactionID \in BurstIDs(queue)
             /\ Head(queue).packet.transactionID \notin BurstIDs(after)
  <2>1. Head(queue) = queue[1] /\ 1 \in DOMAIN queue
    BY <1>1, <1>5, EmptySeq DEF HeadIsDue
  <2>2. ASSUME NEW i \in DOMAIN after
        PROVE  after[i].packet.transactionID # queue[1].packet.transactionID
    <3>1. i + 1 \in DOMAIN queue /\ after[i].packet = queue[i + 1].packet
      BY <1>5, AfterCountDownPacket
    <3>2. i + 1 # 1
      BY <1>2
    <3>3. QED
      BY <2>1, <3>1, <3>2 DEF DistinctBursts
  <2>3. QED
    BY <2>1, <2>2 DEF BurstIDs
<1>6. QED
  BY <1>3, <1>4, <1>5

LEMMA BurstsAfterAppend ==
    ASSUME NEW queue \in Seq(Burst), NEW e \in Burst, DistinctBursts(queue),
           e.packet.transactionID \notin BurstIDs(queue)
    PROVE  /\ DistinctBursts(Append(queue, e))
           /\ BurstIDs(Append(queue, e)) = BurstIDs(queue) \union {e.packet.transactionID}
<1>. DEFINE after == Append(queue, e)
            n == Len(queue)
<1>1. DOMAIN queue = 1 .. n /\ n \in Nat
  BY LenProperties
<1>2. /\ DOMAIN after = 1 .. n + 1
      /\ after[n + 1] = e
      /\ \A i \in 1 .. n : after[i] = queue[i]
  BY AppendProperties, LenProperties
<1>3. DistinctBursts(after)
  <2>1. SUFFICES ASSUME NEW i \in 1 .. n + 1, NEW j \in 1 .. n + 1,
                        after[i].packet.transactionID = after[j].packet.transactionID
                 PROVE  i = j
    BY <1>2 DEF DistinctBursts
  <2>2. ASSUME NEW k \in 1 .. n PROVE after[k].packet.transactionID # e.packet.transactionID
    BY <1>1, <1>2 DEF BurstIDs
  <2>3. CASE i \in 1 .. n /\ j \in 1 .. n
    BY <1>1, <1>2, <2>1, <2>3 DEF DistinctBursts
  <2>4. CASE i = n + 1 \/ j = n + 1
    BY <1>1, <1>2, <2>1, <2>2, <2>4
  <2>5. QED
    BY <1>1, <2>3, <2>4
<1>4. BurstIDs(after) = BurstIDs(queue) \union {e.packet.transactionID}
  <2>1. 1 .. n + 1 = (1 .. n) \union {n + 1}
    BY <1>1
  <2>2. QED
    BY <1>1, <1>2, <2>1 DEF BurstIDs
<1>5. QED
  BY <1>3, <1>4

-----------------------------------------------------------------------------
(* The command queue                                                       *)

LEMMA ReadsWithout ==
    ASSUME NEW queue \in Seq(BusPacket), NEW k \in DOMAIN queue, DistinctReads(queue)
    PROVE  /\ DistinctReads(Without(queue, k))
           /\ QueueIDs(Without(queue, k)) \subseteq QueueIDs(queue)
           /\ queue[k].busPacketType = "READ_P" =>
                 /\ queue[k].transactionID \in QueueIDs(queue)
                 /\ queue[k].transactionID \notin QueueIDs(Without(queue, k))
<1>. DEFINE after == Without(queue, k)
            Was(i) == IF i < k THEN i ELSE i + 1
<1>1. DOMAIN queue = 1 .. Len(queue) /\ Len(queue) \in Nat
  BY LenProperties
<1>2. DOMAIN after = 1 .. Len(queue) - 1
  BY DEF Without
<1>3. ASSUME NEW i \in DOMAIN after
      PROVE  Was(i) \in DOMAIN queue /\ Was(i) # k /\ after[i] = queue[Was(i)]
  BY <1>1, <1>2 DEF Without
<1>4. ASSUME NEW i \in DOMAIN after, NEW j \in DOMAIN after, Was(i) = Was(j)
      PROVE  i = j
  BY <1>1, <1>2, <1>4
<1>5. ASSUME NEW i \in ReadPositions(after)
      PROVE  i \in DOMAIN after /\ Was(i) \in ReadPositions(queue) /\ Was(i) # k
  BY <1>3 DEF ReadPositions
<1>. HIDE DEF Was
<1>6. DistinctReads(after)
  BY <1>3, <1>4, <1>5 DEF DistinctReads
<1>7. QueueIDs(after) \subseteq QueueIDs(queue)
  BY <1>3, <1>5 DEF QueueIDs
<1>8. ASSUME queue[k].busPacketType = "READ_P"
      PROVE  /\ queue[k].transactionID \in QueueIDs(queue)
             /\ queue[k].transactionID \notin QueueIDs(after)
  <2>1. k \in ReadPositions(queue)
    BY <1>8 DEF ReadPositions
  <2>2. ASSUME NEW i \in ReadPositions(after)
        PROVE  after[i].transactionID # queue[k].transactionID
    BY <1>3, <1>5, <2>1 DEF DistinctReads
  <2>3. QED
    BY <2>1, <2>2 DEF QueueIDs
<1>9. QED
  BY <1>6, <1>7, <1>8

LEMMA ReadsConcat ==
    ASSUME NEW a \in Seq(BusPacket), NEW b \in Seq(BusPacket),
           DistinctReads(a), DistinctReads(b), QueueIDs(a) \intersect QueueIDs(b) = {}
    PROVE  /\ DistinctReads(a \o b)
           /\ QueueIDs(a \o b) \subseteq QueueIDs(a) \union QueueIDs(b)
<1>. DEFINE n == Len(a)
            both == a \o b
<1>1. n \in Nat /\ Len(b) \in Nat /\ DOMAIN a = 1 .. n /\ DOMAIN b = 1 .. Len(b)
  BY LenProperties
<1>2. /\ DOMAIN both = 1 .. n + Len(b)
      /\ \A i \in DOMAIN both : both[i] = IF i <= n THEN a[i] ELSE b[i - n]
  BY ConcatProperties, LenProperties
<1>3. ASSUME NEW i \in ReadPositions(both)
      PROVE  \/ i <= n /\ i \in ReadPositions(a) /\ both[i] = a[i]
             \/ i > n /\ i - n \in ReadPositions(b) /\ both[i] = b[i - n]
  BY <1>1, <1>2 DEF ReadPositions
<1>. HIDE DEF n, both
<1>4. ASSUME NEW i \in ReadPositions(both)
      PROVE  /\ i \in Nat
             /\ i <= n => both[i].transactionID \in QueueIDs(a)
             /\ i > n => both[i].transactionID \in QueueIDs(b)
  BY <1>1, <1>2, <1>3 DEF QueueIDs, ReadPositions
<1>5. DistinctReads(both)
  <2>1. SUFFICES ASSUME NEW i \in ReadPositions(both), NEW j \in ReadPositions(both),
                        both[i].transactionID = both[j].transactionID
                 PROVE  i = j
    BY DEF DistinctReads
  <2>2. i \in Nat /\ j \in Nat
    BY <1>4
  <2>3. CASE i <= n /\ j <= n
    <3>1. /\ i \in ReadPositions(a) /\ j \in ReadPositions(a)
          /\ a[i].transactionID = a[j].transactionID
      BY <1>1, <1>3, <2>1, <2>2, <2>3
    <3>2. QED
      BY <3>1 DEF DistinctReads
  <2>4. CASE i > n /\ j > n
    <3>1. /\ i - n \in ReadPositions(b) /\ j - n \in ReadPositions(b)
          /\ b[i - n].transactionID = b[j - n].transactionID
      BY <1>1, <1>3, <2>1, <2>2, <2>4
    <3>2. i - n = j - n
      BY <3>1 DEF DistinctReads
    <3>3. QED
      BY <1>1, <2>2, <3>2
  <2>5. CASE (i <= n /\ j > n) \/ (i > n /\ j <= n)
    BY <1>4, <2>1, <2>5
  <2>6. QED
    BY <1>1, <2>2, <2>3, <2>4, <2>5
<1>6. QueueIDs(both) \subseteq QueueIDs(a) \union QueueIDs(b)
  BY <1>1, <1>4 DEF QueueIDs
<1>7. QED
  BY <1>5, <1>6 DEF both

\* A transaction brings one read at most.
LEMMA CommandsOfReads ==
    ASSUME NEW t \in Transaction
    PROVE  /\ DistinctReads(CommandsOf(t))
           /\ QueueIDs(CommandsOf(t)) \subseteq {t.transactionID}
<1>1. DOMAIN CommandsOf(t) = 1 .. 2
  BY CommandsOfType, LenProperties
<1>2. /\ CommandsOf(t)[1] = PacketOf(t, "ACTIVATE")
      /\ CommandsOf(t)[2] =
           PacketOf(t, IF t.transactionType = "DATA_READ" THEN "READ_P" ELSE "WRITE_P")
  BY DEF CommandsOf
<1>3. ReadPositions(CommandsOf(t)) \subseteq {2}
  BY <1>1, <1>2 DEF ReadPositions, PacketOf
<1>4. CommandsOf(t)[2].transactionID = t.transactionID
  BY <1>2 DEF PacketOf
<1>5. QED
  BY <1>3, <1>4 DEF DistinctReads, QueueIDs

-----------------------------------------------------------------------------
(* An Update: the buses deliver, the ranks advance                         *)

NowIDs(r) == BurstIDs(RanksNow[r].readReturnQueue)

\* A rank has a read to return from every READ it receives, and from nothing else.
LEMMA ReceivedReads ==
    ASSUME NEW rank \in RankStates, NEW p \in BusPacket
    PROVE  ReceiveFromBus(rank, p).readReturnQueue =
             IF p.busPacketType = "READ_P"
             THEN Append(rank.readReturnQueue,
                         [packet |-> AsType(p, "READ_DATA"), countdown |-> tCL])
             ELSE rank.readReturnQueue
<1>1. p.busPacketType \in BusPacketTypes
  BY DEF BusPacket
<1>2. CASE p.busPacketType = "READ_P"
  BY <1>2 DEF ReceiveFromBus
<1>3. CASE p.busPacketType = "REFRESH"
  BY <1>3 DEF ReceiveFromBus, RankStates
<1>4. CASE p.busPacketType = "WRITE_P"
  BY <1>4 DEF ReceiveFromBus, RankStates
<1>5. CASE p.busPacketType = "ACTIVATE"
  BY <1>5 DEF ReceiveFromBus, RankStates
<1>6. CASE p.busPacketType = "WRITE_DATA"
  BY <1>6 DEF ReceiveFromBus, RankStates
<1>7. CASE p.busPacketType = "READ_DATA"
  BY <1>7 DEF ReceiveFromBus
<1>8. QED
  BY <1>1, <1>2, <1>3, <1>4, <1>5, <1>6, <1>7 DEF BusPacketTypes

\* The READ on the command bus becomes a read of its rank when it arrives.
LEMMA ReadsNow ==
    ASSUME TypeOK, Separate, NEW r \in Ranks
    PROVE  /\ RanksNow[r].readReturnQueue \in Seq(Burst)
           /\ DistinctBursts(RanksNow[r].readReturnQueue)
           /\ NowIDs(r) = IF CommandArrives /\ inFlightCommandPacket.rank = r
                          THEN RankIDs(r) \union CommandIDs
                          ELSE RankIDs(r)
<1>. DEFINE p == inFlightCommandPacket
            queue == ranks[r].readReturnQueue
<1>1. RanksNow[r].readReturnQueue = RanksAfterCommand[r].readReturnQueue
  <2>1. RanksAfterCommand[r] \in RankStates
    BY NowTypes
  <2>2. CASE WriteArrives /\ inFlightDataPacket.rank = r
    <3>1. /\ inFlightDataPacket \in BusPacket
          /\ inFlightDataPacket.busPacketType = "WRITE_DATA"
      BY <2>2 DEF WriteArrives, DataArrives, TypeOK
    <3>2. RanksNow[r] = ReceiveFromBus(RanksAfterCommand[r], inFlightDataPacket)
      BY <2>2 DEF RanksNow
    <3>3. QED
      BY <2>1, <3>1, <3>2, ReceivedReads
  <2>3. CASE ~ (WriteArrives /\ inFlightDataPacket.rank = r)
    BY <2>3 DEF RanksNow
  <2>4. QED
    BY <2>2, <2>3
<1>2. RanksNow[r].readReturnQueue \in Seq(Burst)
  BY NowTypes DEF RankStates
<1>3. ranks[r] \in RankStates /\ queue \in Seq(Burst) /\ DistinctBursts(queue)
  BY DEF TypeOK, RankStates, Separate
<1>4. CASE CommandArrives /\ p.rank = r
  <2>1. p # NULL /\ p \in BusPacket
    BY <1>4 DEF CommandArrives, TypeOK
  <2>2. RanksAfterCommand[r] = ReceiveFromBus(ranks[r], p)
    BY <1>4 DEF RanksAfterCommand
  <2>3. CASE p.busPacketType = "READ_P"
    <3>. DEFINE e == [packet |-> AsType(p, "READ_DATA"), countdown |-> tCL]
    <3>1. e \in Burst /\ e.packet.transactionID = p.transactionID
      <4>1. AsType(p, "READ_DATA") \in BusPacket
        BY <2>1, AsTypeType DEF BusPacketTypes
      <4>2. AsType(p, "READ_DATA").transactionID = p.transactionID
        BY <2>1 DEF AsType, BusPacket
      <4>3. QED
        BY <4>1, <4>2, TimingTypes DEF Burst
    <3>2. RanksNow[r].readReturnQueue = Append(queue, e)
      BY <1>1, <1>3, <2>1, <2>2, <2>3, ReceivedReads
    <3>. HIDE DEF e
    <3>3. CommandIDs = {p.transactionID}
      BY <2>1, <2>3 DEF CommandIDs, PacketIDs
    <3>4. p.transactionID \notin BurstIDs(queue)
      BY <3>3 DEF Separate, RankIDs
    <3>5. QED
      BY <1>2, <1>3, <1>4, <3>1, <3>2, <3>3, <3>4, BurstsAfterAppend DEF NowIDs, RankIDs
  <2>4. CASE p.busPacketType # "READ_P"
    <3>1. CommandIDs = {}
      BY <2>4 DEF CommandIDs, PacketIDs
    <3>2. RanksNow[r].readReturnQueue = queue
      BY <1>1, <1>3, <2>1, <2>2, <2>4, ReceivedReads
    <3>3. QED
      BY <1>2, <1>3, <3>1, <3>2 DEF NowIDs, RankIDs
  <2>5. QED
    BY <2>3, <2>4
<1>5. CASE ~ (CommandArrives /\ p.rank = r)
  <2>1. RanksAfterCommand[r] = ranks[r]
    BY <1>5 DEF RanksAfterCommand
  <2>2. QED
    BY <1>1, <1>2, <1>3, <1>5, <2>1 DEF NowIDs, RankIDs
<1>6. QED
  BY <1>4, <1>5

\* The reads keep apart when the buses have delivered.
LEMMA NowSeparate ==
    ASSUME TypeOK, Separate
    PROVE  /\ \A r, s \in Ranks : r # s => NowIDs(r) \intersect NowIDs(s) = {}
           /\ \A r \in Ranks :
                 /\ NowIDs(r) \intersect (DataIDs \union QueueIDs(commandQueue)) = {}
                 /\ NowIDs(r) \subseteq RankIDs(r) \union CommandIDs
                 /\ ~ CommandArrives => NowIDs(r) = RankIDs(r)
<1>1. \A r \in Ranks :
        NowIDs(r) = IF CommandArrives /\ inFlightCommandPacket.rank = r
                    THEN RankIDs(r) \union CommandIDs
                    ELSE RankIDs(r)
  BY ReadsNow
<1>2. ASSUME NEW r \in Ranks
      PROVE  /\ NowIDs(r) \intersect (DataIDs \union QueueIDs(commandQueue)) = {}
             /\ NowIDs(r) \subseteq RankIDs(r) \union CommandIDs
             /\ ~ CommandArrives => NowIDs(r) = RankIDs(r)
  BY <1>1 DEF Separate
<1>3. ASSUME NEW r \in Ranks, NEW s \in Ranks, r # s
      PROVE  NowIDs(r) \intersect NowIDs(s) = {}
  BY <1>1, <1>3 DEF Separate
<1>4. QED
  BY <1>2, <1>3

\* The ranks advance: a read that is due leaves its rank.
LEMMA RanksAfter ==
    ASSUME TypeOK, Separate, NEW sendsCommand, NEW sendsCAS,
           Cycle(sendsCommand, sendsCAS), NEW r \in Ranks
    PROVE  /\ DistinctBursts(ranks[r].readReturnQueue)'
           /\ RankIDs(r)' \subseteq NowIDs(r)
           /\ r \in ReturningRanks =>
                 /\ ReturnedPacket(RanksNow[r]).transactionID \in NowIDs(r)
                 /\ ReturnedPacket(RanksNow[r]).transactionID \notin RankIDs(r)'
<1>. DEFINE now == RanksNow[r].readReturnQueue
<1>1. now \in Seq(Burst) /\ DistinctBursts(now)
  BY ReadsNow
<1>2. ranks'[r].readReturnQueue = AfterCountDown(now)
  BY DEF Cycle, UpdateRank
<1>3. r \in ReturningRanks => HeadIsDue(now)
  BY DEF ReturningRanks, ReturnIsDue
<1>4. QED
  BY <1>1, <1>2, <1>3, BurstsAfterCountDown DEF NowIDs, RankIDs, ReturnedPacket

\* The read on the data bus has left its rank, and one that arrives leaves the bus.
LEMMA DataAfter ==
    ASSUME TypeOK, Separate, WritesAreWrites, NEW sendsCommand, NEW sendsCAS,
           Cycle(sendsCommand, sendsCAS)
    PROVE  /\ DataIDs' \subseteq (IF DataArrives THEN {} ELSE DataIDs)
                                 \union UNION {NowIDs(r) : r \in Ranks}
           /\ \A r \in Ranks : DataIDs' \intersect RankIDs(r)' = {}
<1>1. \A r \in Ranks : NowIDs(r) \intersect DataIDs = {} /\ RankIDs(r)' \subseteq NowIDs(r)
  BY NowSeparate, RanksAfter
<1>2. CASE WriteIsDue
  <2>1. DueWrite.busPacketType = "WRITE_DATA"
    <3>1. writeBurstQueue \in Seq(Burst) /\ writeBurstQueue # << >>
      BY <1>2 DEF WriteIsDue, HeadIsDue, TypeOK, ControllerTypeOK
    <3>2. 1 \in DOMAIN writeBurstQueue /\ Head(writeBurstQueue) = writeBurstQueue[1]
      BY <3>1, LenProperties, EmptySeq
    <3>3. QED
      BY <3>2 DEF DueWrite, WritesAreWrites
  <2>2. inFlightDataPacket' = DueWrite
    BY <1>2 DEF Cycle, DataBusAdvances, DataStarts
  <2>3. DataIDs' = {}
    BY <2>1, <2>2 DEF DataIDs, PacketIDs
  <2>4. QED
    BY <2>3
<1>3. CASE ~ WriteIsDue /\ ReturningRanks # {}
  <2>1. PICK q \in ReturningRanks : q = CHOOSE x \in ReturningRanks : TRUE
    BY <1>3
  <2>2. q \in Ranks
    BY DEF ReturningRanks
  <2>. DEFINE id == ReturnedPacket(RanksNow[q]).transactionID
  <2>3. DataIDs' \subseteq {id}
    <3>1. inFlightDataPacket' = ReturnedPacket(RanksNow[q])
      BY <1>3, <2>1 DEF Cycle, DataBusAdvances, DataStarts
    <3>2. QED
      BY <3>1 DEF DataIDs, PacketIDs
  <2>4. id \in NowIDs(q) /\ id \notin RankIDs(q)'
    BY <2>1, <2>2, RanksAfter
  <2>. HIDE DEF id
  <2>5. ASSUME NEW r \in Ranks PROVE id \notin RankIDs(r)'
    BY <1>1, <2>2, <2>4, NowSeparate
  <2>6. QED
    BY <2>2, <2>3, <2>4, <2>5
<1>4. CASE ~ WriteIsDue /\ ReturningRanks = {}
  <2>1. inFlightDataPacket' = IF DataArrives THEN NULL ELSE inFlightDataPacket
    BY <1>4 DEF Cycle, DataBusAdvances
  <2>2. DataIDs' = IF DataArrives THEN {} ELSE DataIDs
    BY <2>1 DEF DataIDs, PacketIDs
  <2>3. QED
    BY <1>1, <2>2
<1>5. QED
  BY <1>2, <1>3, <1>4

\* What an Update does to the reads, whatever the controller sends: Sent is the read
\* that leaves its queue, if one does.
LEMMA CycleSeparate ==
    ASSUME TypeOK, Separate, WritesAreWrites, NEW sendsCommand, NEW sendsCAS,
           Cycle(sendsCommand, sendsCAS),
           NEW Sent \in SUBSET QueueIDs(commandQueue),
           DistinctReads(commandQueue)',
           QueueIDs(commandQueue)' \subseteq QueueIDs(commandQueue) \ Sent,
           CommandIDs' \subseteq Sent \union (IF CommandArrives THEN {} ELSE CommandIDs)
    PROVE  /\ Separate'
           /\ FlightIDs' \subseteq (FlightIDs \ (IF DataArrives THEN DataIDs ELSE {}))
                                   \union Sent
<1>. DEFINE Now == UNION {NowIDs(r) : r \in Ranks}
            Data == IF DataArrives THEN {} ELSE DataIDs
            Command == IF CommandArrives THEN {} ELSE CommandIDs
            OldQueue == QueueIDs(commandQueue)
<1>1. ASSUME NEW r \in Ranks
      PROVE  /\ DistinctBursts(ranks[r].readReturnQueue)'
             /\ RankIDs(r)' \subseteq NowIDs(r) /\ RankIDs(r)' \subseteq Now
             /\ DataIDs' \intersect RankIDs(r)' = {}
  BY RanksAfter, DataAfter
<1>2. /\ Now \intersect Command = {} /\ Now \intersect DataIDs = {}
      /\ Now \intersect OldQueue = {}
      /\ Command \intersect DataIDs = {}
      /\ (Command \union DataIDs) \intersect OldQueue = {}
  BY NowSeparate DEF Separate
<1>3. DataIDs' \subseteq Data \union Now /\ Data \subseteq DataIDs
  BY DataAfter
<1>. HIDE DEF Now, Data, Command, OldQueue
<1>4. /\ Sent \subseteq OldQueue /\ QueueIDs(commandQueue)' \subseteq OldQueue \ Sent
      /\ CommandIDs' \subseteq Sent \union Command
  BY DEF OldQueue, Command
<1>5. \A r \in Ranks : RankIDs(r)' \intersect (CommandIDs' \union QueueIDs(commandQueue)') = {}
  BY <1>1, <1>2, <1>4
<1>6. CommandIDs' \intersect DataIDs' = {}
  BY <1>2, <1>3, <1>4
<1>7. (CommandIDs' \union DataIDs') \intersect QueueIDs(commandQueue)' = {}
  BY <1>2, <1>3, <1>4
<1>8. \A r, s \in Ranks : r # s => RankIDs(r)' \intersect RankIDs(s)' = {}
  BY <1>1, NowSeparate
<1>9. Separate'
  BY <1>1, <1>5, <1>6, <1>7, <1>8 DEF Separate
<1>10. FlightIDs' \subseteq (FlightIDs \ (IF DataArrives THEN DataIDs ELSE {})) \union Sent
  <2>1. Now \union Command \subseteq FlightIDs \ DataIDs
    <3>1. Now \subseteq FlightIDs
      BY NowSeparate DEF Now, FlightIDs
    <3>2. Command \subseteq FlightIDs
      BY DEF Command, FlightIDs
    <3>3. QED
      BY <1>2, <3>1, <3>2
  <2>2. Data \subseteq FlightIDs \ (IF DataArrives THEN DataIDs ELSE {})
    BY DEF Data, FlightIDs
  <2>3. FlightIDs' \subseteq Now \union Data \union Command \union Sent
    BY <1>1, <1>3, <1>4 DEF FlightIDs
  <2>4. QED
    BY <2>1, <2>2, <2>3
<1>11. QED
  BY <1>9, <1>10

-----------------------------------------------------------------------------
(* The count of the reads                                                  *)

\* A read that returns was on its way, so it had been counted: the unsigned counter
\* does not wrap, and the read exchanges one slot for another.
LEMMA CountedNow ==
    ASSUME TypeOK, ReadsCounted
    PROVE  /\ IsFiniteSet(FlightIDs \ (IF DataArrives THEN DataIDs ELSE {}))
           /\ Cardinality(FlightIDs \ (IF DataArrives THEN DataIDs ELSE {})) <= OutstandingNow
           /\ Len(ReturnQueueNow) + OutstandingNow = Len(readReturnQueue) + outstandingReads
<1>. DEFINE Left == FlightIDs \ (IF DataArrives THEN DataIDs ELSE {})
<1>1. /\ IsFiniteSet(FlightIDs) /\ Cardinality(FlightIDs) <= outstandingReads
      /\ Cardinality(FlightIDs) \in Nat
      /\ outstandingReads \in Nat /\ readReturnQueue \in Seq(BusPacket)
  BY FS_CardinalityType DEF ReadsCounted, TypeOK
<1>2. IsFiniteSet(Left) /\ Cardinality(Left) \in Nat
      /\ Cardinality(Left) <= Cardinality(FlightIDs)
  BY <1>1, FS_Subset, FS_CardinalityType
<1>3. CASE ReadReturns
  <2>. DEFINE id == inFlightDataPacket.transactionID
  <2>1. DataArrives /\ DataIDs = {id}
    BY <1>3 DEF ReadReturns, DataArrives, DataIDs, PacketIDs
  <2>2. id \in FlightIDs
    BY <2>1 DEF FlightIDs
  <2>3. Cardinality(Left) = Cardinality(FlightIDs) - 1
    <3>1. Left = FlightIDs \ {id}
      BY <2>1
    <3>2. QED
      BY <1>1, <2>2, <3>1, FS_RemoveElement
  <2>4. OutstandingNow = outstandingReads - 1
    BY <1>1, <1>2, <1>3, <2>3 DEF OutstandingNow, Decremented
  <2>5. Len(ReturnQueueNow) = Len(readReturnQueue) + 1
    <3>1. inFlightDataPacket \in BusPacket
      BY <2>1 DEF DataArrives, TypeOK
    <3>2. QED
      BY <1>1, <1>3, <3>1, AppendProperties DEF ReturnQueueNow
  <2>6. Len(readReturnQueue) \in Nat
    BY <1>1, LenProperties
  <2>7. QED
    BY <1>1, <1>2, <2>3, <2>4, <2>5, <2>6
<1>4. CASE ~ ReadReturns
  BY <1>1, <1>2, <1>4 DEF OutstandingNow, ReturnQueueNow
<1>5. QED
  BY <1>3, <1>4

\* An Update that sends no READ.
LEMMA NoReadSent ==
    ASSUME IInv, NEW sendsCommand, NEW sendsCAS, Cycle(sendsCommand, sendsCAS),
           DistinctReads(commandQueue)',
           QueueIDs(commandQueue)' \subseteq QueueIDs(commandQueue),
           CommandIDs' \subseteq (IF CommandArrives THEN {} ELSE CommandIDs),
           outstandingReads' = OutstandingNow
    PROVE  Separate' /\ ReadsCounted' /\ ReturnQueueBounded'
<1>. DEFINE Left == FlightIDs \ (IF DataArrives THEN DataIDs ELSE {})
<1>1. Separate' /\ FlightIDs' \subseteq Left
  <2>. DEFINE Stays == IF CommandArrives THEN {} ELSE CommandIDs
  <2>1. /\ {} \in SUBSET QueueIDs(commandQueue)
        /\ QueueIDs(commandQueue)' \subseteq QueueIDs(commandQueue) \ {}
        /\ CommandIDs' \subseteq {} \union Stays
    OBVIOUS
  <2>2. Separate' /\ FlightIDs' \subseteq Left \union {}
    BY <2>1, CycleSeparate DEF IInv
  <2>3. QED
    BY <2>2
<1>2. IsFiniteSet(Left) /\ Cardinality(Left) <= OutstandingNow /\ Cardinality(Left) \in Nat
  BY CountedNow, FS_CardinalityType DEF IInv
<1>3. OutstandingNow \in Nat
  BY NowTypes DEF IInv
<1>4. ReadsCounted'
  <2>1. /\ IsFiniteSet(FlightIDs') /\ Cardinality(FlightIDs') \in Nat
        /\ Cardinality(FlightIDs') <= Cardinality(Left)
    BY <1>1, <1>2, FS_Subset, FS_CardinalityType
  <2>2. QED
    BY <1>2, <1>3, <2>1 DEF ReadsCounted
<1>5. ReturnQueueBounded'
  BY CountedNow DEF IInv, ReturnQueueBounded, Cycle
<1>6. QED
  BY <1>1, <1>4, <1>5

\* An Update that sends the READ at position i, which takes a slot that is free.
LEMMA ReadSent ==
    ASSUME IInv, NEW i \in DOMAIN commandQueue, IssueRead(i)
    PROVE  Separate' /\ ReadsCounted' /\ ReturnQueueBounded'
<1>. DEFINE Left == FlightIDs \ (IF DataArrives THEN DataIDs ELSE {})
            id == commandQueue[i].transactionID
<1>1. /\ Cycle(TRUE, TRUE)
      /\ commandQueue' = Without(commandQueue, i)
      /\ commandQueue[i].busPacketType = "READ_P"
      /\ inFlightCommandPacket' = commandQueue[i]
      /\ outstandingReads' = OutstandingNow + 1
      /\ readReturnQueue' = ReturnQueueNow
      /\ CanSend(i, Queued, OutstandingNow)
  BY DEF IssueRead, ControllerRead, Selected, CommandStarts, Cycle
<1>2. Len(ReturnQueueNow) + OutstandingNow < CHANNEL_RETURN_Q_MAX
  BY <1>1 DEF CanSend, IsIssuable, HasRoom, Queued
<1>3. commandQueue \in Seq(BusPacket) /\ DistinctReads(commandQueue)
  BY DEF IInv, TypeOK, ControllerTypeOK, Separate
<1>4. /\ {id} \in SUBSET QueueIDs(commandQueue)
      /\ DistinctReads(commandQueue)'
      /\ QueueIDs(commandQueue)' \subseteq QueueIDs(commandQueue) \ {id}
  BY <1>1, <1>3, ReadsWithout
<1>5. CommandIDs' \subseteq {id} \union (IF CommandArrives THEN {} ELSE CommandIDs)
  BY <1>1 DEF CommandIDs, PacketIDs
<1>. HIDE DEF id
<1>6. Separate' /\ FlightIDs' \subseteq Left \union {id}
  BY <1>1, <1>4, <1>5, CycleSeparate DEF IInv
<1>7. IsFiniteSet(Left) /\ Cardinality(Left) <= OutstandingNow /\ Cardinality(Left) \in Nat
  BY CountedNow, FS_CardinalityType DEF IInv
<1>8. OutstandingNow \in Nat /\ Len(ReturnQueueNow) \in Nat
  BY NowTypes, LenProperties DEF IInv
<1>. HIDE DEF Left
<1>9. ReadsCounted'
  <2>1. /\ IsFiniteSet(Left \union {id})
        /\ Cardinality(Left \union {id}) <= Cardinality(Left) + 1
        /\ Cardinality(Left \union {id}) \in Nat
    <3>1. /\ IsFiniteSet(Left \union {id})
          /\ Cardinality(Left \union {id}) =
               IF id \in Left THEN Cardinality(Left) ELSE Cardinality(Left) + 1
      BY <1>7, FS_AddElement
    <3>2. QED
      BY <1>7, <3>1
  <2>2. /\ IsFiniteSet(FlightIDs') /\ Cardinality(FlightIDs') \in Nat
        /\ Cardinality(FlightIDs') <= Cardinality(Left \union {id})
    BY <1>6, <2>1, FS_Subset, FS_CardinalityType
  <2>3. QED
    BY <1>1, <1>7, <1>8, <2>1, <2>2 DEF ReadsCounted
<1>10. ReturnQueueBounded'
  <2>1. Len(ReturnQueueNow) + (OutstandingNow + 1) <= CHANNEL_RETURN_Q_MAX
    BY <1>2, <1>8, QueueAssumption
  <2>2. QED
    BY <1>1, <2>1 DEF ReturnQueueBounded
<1>11. QED
  BY <1>6, <1>9, <1>10

-----------------------------------------------------------------------------
(* The writes                                                              *)

LEMMA WritesAfter ==
    ASSUME TypeOK, WritesAreWrites
    PROVE  LET after == AfterCountDown(writeBurstQueue) IN
           /\ after \in Seq(Burst)
           /\ \A i \in DOMAIN after : after[i].packet.busPacketType = "WRITE_DATA"
<1>1. writeBurstQueue \in Seq(Burst)
  BY DEF TypeOK, ControllerTypeOK
<1>2. QED
  BY <1>1, AfterCountDownType, AfterCountDownPacket DEF WritesAreWrites

LEMMA WriteAdded ==
    ASSUME TypeOK, WritesAreWrites, NEW p \in BusPacket,
           writeBurstQueue' = Append(AfterCountDown(writeBurstQueue),
                                     [packet |-> AsType(p, "WRITE_DATA"),
                                      countdown |-> tCWL])
    PROVE  WritesAreWrites'
<1>. DEFINE after == AfterCountDown(writeBurstQueue)
            e == [packet |-> AsType(p, "WRITE_DATA"), countdown |-> tCWL]
            n == Len(after)
<1>1. AsType(p, "WRITE_DATA") \in BusPacket
      /\ AsType(p, "WRITE_DATA").busPacketType = "WRITE_DATA"
  BY AsTypeType DEF AsType, BusPacket, BusPacketTypes
<1>2. e \in Burst /\ e.packet.busPacketType = "WRITE_DATA"
  BY <1>1, TimingTypes DEF Burst
<1>3. /\ after \in Seq(Burst) /\ n \in Nat /\ DOMAIN after = 1 .. n
      /\ \A i \in 1 .. n : after[i].packet.busPacketType = "WRITE_DATA"
  BY WritesAfter, LenProperties
<1>. HIDE DEF after, e, n
<1>4. /\ DOMAIN Append(after, e) = 1 .. n + 1
      /\ Append(after, e)[n + 1] = e
      /\ \A i \in 1 .. n : Append(after, e)[i] = after[i]
  BY <1>2, <1>3, AppendProperties, LenProperties DEF n
<1>5. writeBurstQueue' = Append(after, e)
  BY DEF after, e
<1>6. ASSUME NEW i \in 1 .. n + 1
      PROVE  Append(after, e)[i].packet.busPacketType = "WRITE_DATA"
  <2>1. i \in 1 .. n \/ i = n + 1
    BY <1>3
  <2>2. QED
    BY <1>2, <1>3, <1>4, <2>1
<1>7. QED
  BY <1>4, <1>5, <1>6 DEF WritesAreWrites

-----------------------------------------------------------------------------
(* The invariant                                                           *)

LEMMA InitIInv == Init => IInv
<1>1. SUFFICES ASSUME Init PROVE IInv
  OBVIOUS
<1>2. ASSUME NEW r \in Ranks PROVE ranks[r].readReturnQueue = << >>
  BY <1>1 DEF Init, NewRank
<1>3. /\ \A r \in Ranks : RankIDs(r) = {}
      /\ CommandIDs = {} /\ DataIDs = {} /\ QueueIDs(commandQueue) = {}
  BY <1>1, <1>2 DEF Init, ControllerInit, RankIDs, BurstIDs, CommandIDs, DataIDs,
                    PacketIDs, QueueIDs, ReadPositions
<1>4. Separate
  BY <1>1, <1>2, <1>3
     DEF Init, ControllerInit, Separate, DistinctReads, ReadPositions, DistinctBursts
<1>5. WritesAreWrites
  BY <1>1 DEF Init, ControllerInit, WritesAreWrites
<1>6. ReadsCounted
  <2>1. FlightIDs = {}
    BY <1>3 DEF FlightIDs
  <2>2. QED
    BY <1>1, <2>1, FS_EmptySet DEF Init, ReadsCounted
<1>7. ReturnQueueBounded
  BY <1>1, QueueAssumption DEF Init, ReturnQueueBounded
<1>8. QED
  BY <1>1, <1>4, <1>5, <1>6, <1>7, InitTypeOK DEF IInv

\* A transaction takes an id that no read of the channel has.
LEMMA AddTransactionIInv ==
    ASSUME IInv, NEW t \in Transaction, AddTransaction(t)
    PROVE  Separate' /\ WritesAreWrites' /\ ReadsCounted' /\ ReturnQueueBounded'
<1>. DEFINE id == t.transactionID
            added == CommandsOf(t)
<1>1. /\ UNCHANGED <<ranks, inFlightCommandPacket, inFlightDataPacket, writeBurstQueue,
                     readReturnQueue, outstandingReads>>
      /\ id \notin LiveIDs
      /\ commandQueue' \in {added \o commandQueue, commandQueue \o added}
  BY DEF AddTransaction, EnqueueCommands, busVars
<1>2. /\ \A r \in Ranks : RankIDs(r)' = RankIDs(r)
      /\ CommandIDs' = CommandIDs /\ DataIDs' = DataIDs
  BY <1>1 DEF RankIDs, CommandIDs, DataIDs
<1>3. /\ QueueIDs(commandQueue) \subseteq LiveIDs
      /\ CommandIDs \subseteq LiveIDs /\ DataIDs \subseteq LiveIDs
  <2>1. PacketsOf(commandQueue) \subseteq PacketsInChannel
    BY DEF PacketsInChannel
  <2>2. QueueIDs(commandQueue) \subseteq {p.transactionID : p \in PacketsOf(commandQueue)}
    BY DEF QueueIDs, ReadPositions, PacketsOf
  <2>3. PacketsOnBuses \subseteq PacketsInChannel
    BY DEF PacketsInChannel
  <2>4. CommandIDs \subseteq LiveIDs /\ DataIDs \subseteq LiveIDs
    BY <2>3 DEF CommandIDs, DataIDs, PacketIDs, LiveIDs, PacketsOnBuses
  <2>5. QED
    BY <2>1, <2>2, <2>4 DEF LiveIDs
<1>4. ASSUME NEW r \in Ranks PROVE RankIDs(r) \subseteq LiveIDs
  <2>1. BurstsOf(ranks[r].readReturnQueue) \subseteq PacketsInChannel
    BY DEF PacketsInChannel
  <2>2. RankIDs(r) \subseteq
          {p.transactionID : p \in BurstsOf(ranks[r].readReturnQueue)}
    BY DEF RankIDs, BurstIDs, BurstsOf
  <2>3. QED
    BY <2>1, <2>2 DEF LiveIDs
<1>5. /\ commandQueue \in Seq(BusPacket) /\ DistinctReads(commandQueue)
      /\ added \in Seq(BusPacket) /\ DistinctReads(added) /\ QueueIDs(added) \subseteq {id}
  BY CommandsOfType, CommandsOfReads DEF IInv, TypeOK, ControllerTypeOK, Separate
<1>. HIDE DEF id, added
<1>6. QueueIDs(commandQueue) \intersect QueueIDs(added) = {}
  BY <1>1, <1>3, <1>5
<1>7. /\ DistinctReads(commandQueue)'
      /\ QueueIDs(commandQueue)' \subseteq QueueIDs(commandQueue) \union {id}
  <2>1. CASE commandQueue' = added \o commandQueue
    BY <1>5, <1>6, <2>1, ReadsConcat
  <2>2. CASE commandQueue' = commandQueue \o added
    BY <1>5, <1>6, <2>2, ReadsConcat
  <2>3. QED
    BY <1>1, <2>1, <2>2
<1>8. Separate'
  <2>1. \A r \in Ranks : DistinctBursts(ranks[r].readReturnQueue)'
    BY <1>1 DEF IInv, Separate
  <2>2. \A r, s \in Ranks : r # s => RankIDs(r)' \intersect RankIDs(s)' = {}
    BY <1>2 DEF IInv, Separate
  <2>3. \A r \in Ranks : RankIDs(r)' \intersect
            (CommandIDs' \union DataIDs' \union QueueIDs(commandQueue)') = {}
    BY <1>1, <1>2, <1>4, <1>7 DEF IInv, Separate
  <2>4. CommandIDs' \intersect DataIDs' = {}
    BY <1>2 DEF IInv, Separate
  <2>5. (CommandIDs' \union DataIDs') \intersect QueueIDs(commandQueue)' = {}
    BY <1>1, <1>2, <1>3, <1>7 DEF IInv, Separate
  <2>6. QED
    BY <1>7, <2>1, <2>2, <2>3, <2>4, <2>5 DEF Separate
<1>9. ReadsCounted'
  BY <1>1, <1>2 DEF IInv, ReadsCounted, FlightIDs
<1>10. WritesAreWrites' /\ ReturnQueueBounded'
  BY <1>1 DEF IInv, WritesAreWrites, ReturnQueueBounded
<1>11. QED
  BY <1>8, <1>9, <1>10

\* The other decisions of the controller.
LEMMA OtherUpdateIInv ==
    ASSUME IInv,
           \/ \E r \in Ranks : IssueRefresh(r)
           \/ \E i \in DOMAIN commandQueue : IssueWrite(i) \/ IssueActivate(i)
           \/ IssueNothing
    PROVE  Separate' /\ WritesAreWrites' /\ ReadsCounted' /\ ReturnQueueBounded'
<1>. DEFINE Stays == IF CommandArrives THEN {} ELSE CommandIDs
<1>1. commandQueue \in Seq(BusPacket) /\ DistinctReads(commandQueue)
  BY DEF IInv, TypeOK, ControllerTypeOK, Separate
<1>2. ASSUME writeBurstQueue' = AfterCountDown(writeBurstQueue) PROVE WritesAreWrites'
  BY <1>2, WritesAfter DEF IInv, WritesAreWrites
<1>3. ASSUME NEW r \in Ranks, IssueRefresh(r)
      PROVE  Separate' /\ WritesAreWrites' /\ ReadsCounted' /\ ReturnQueueBounded'
  <2>1. /\ Cycle(TRUE, FALSE) /\ commandQueue' = commandQueue
        /\ writeBurstQueue' = AfterCountDown(writeBurstQueue)
        /\ inFlightCommandPacket' = RefreshPacket(r)
        /\ outstandingReads' = OutstandingNow
    BY <1>3 DEF IssueRefresh, ControllerRefresh, CommandStarts
  <2>2. CommandIDs' \subseteq Stays
    BY <2>1 DEF CommandIDs, PacketIDs, RefreshPacket
  <2>3. DistinctReads(commandQueue)' /\ QueueIDs(commandQueue)' \subseteq QueueIDs(commandQueue)
    BY <1>1, <2>1
  <2>4. QED
    BY <1>2, <2>1, <2>2, <2>3, NoReadSent
<1>4. ASSUME NEW i \in DOMAIN commandQueue, IssueWrite(i) \/ IssueActivate(i)
      PROVE  Separate' /\ WritesAreWrites' /\ ReadsCounted' /\ ReturnQueueBounded'
  <2>1. /\ Cycle(TRUE, TRUE) \/ Cycle(TRUE, FALSE)
        /\ commandQueue' = Without(commandQueue, i)
        /\ inFlightCommandPacket' = commandQueue[i]
        /\ outstandingReads' = OutstandingNow
    BY <1>4, Zenon
       DEF IssueWrite, IssueActivate, ControllerWrite, ControllerActivate, CommandStarts
  <2>2. commandQueue[i].busPacketType # "READ_P"
    BY <1>4 DEF IssueWrite, IssueActivate, ControllerWrite, ControllerActivate
  <2>3. CommandIDs' \subseteq Stays
    BY <2>1, <2>2 DEF CommandIDs, PacketIDs
  <2>4. DistinctReads(commandQueue)' /\ QueueIDs(commandQueue)' \subseteq QueueIDs(commandQueue)
    BY <1>1, <2>1, ReadsWithout
  <2>5. WritesAreWrites'
    <3>1. CASE IssueWrite(i)
      <4>1. commandQueue[i] \in BusPacket
        BY <1>1, LenProperties, ElementOfSeq
      <4>2. QED
        BY <3>1, <4>1, WriteAdded DEF IInv, IssueWrite, ControllerWrite
    <3>2. CASE IssueActivate(i)
      BY <1>2, <3>2 DEF IssueActivate, ControllerActivate
    <3>3. QED
      BY <1>4, <3>1, <3>2
  <2>6. QED
    BY <2>1, <2>3, <2>4, <2>5, NoReadSent
<1>5. ASSUME IssueNothing
      PROVE  Separate' /\ WritesAreWrites' /\ ReadsCounted' /\ ReturnQueueBounded'
  <2>1. /\ Cycle(FALSE, FALSE) /\ commandQueue' = commandQueue
        /\ writeBurstQueue' = AfterCountDown(writeBurstQueue)
        /\ inFlightCommandPacket' = IF CommandArrives THEN NULL ELSE inFlightCommandPacket
        /\ outstandingReads' = OutstandingNow
    BY <1>5 DEF IssueNothing, ControllerIdle, NoCommandStarts
  <2>2. CommandIDs' \subseteq Stays
    BY <2>1 DEF CommandIDs, PacketIDs
  <2>3. DistinctReads(commandQueue)' /\ QueueIDs(commandQueue)' \subseteq QueueIDs(commandQueue)
    BY <1>1, <2>1
  <2>4. QED
    BY <1>2, <2>1, <2>2, <2>3, NoReadSent
<1>6. QED
  BY <1>3, <1>4, <1>5

LEMMA UnchangedReads ==
    ASSUME IInv, UNCHANGED <<ranks, inFlightCommandPacket, inFlightDataPacket,
                             writeBurstQueue, commandQueue, outstandingReads>>
    PROVE  Separate' /\ WritesAreWrites' /\ ReadsCounted'
<1>1. /\ \A r \in Ranks : RankIDs(r)' = RankIDs(r)
      /\ CommandIDs' = CommandIDs /\ DataIDs' = DataIDs
  BY DEF RankIDs, CommandIDs, DataIDs
<1>2. Separate'
  BY <1>1 DEF IInv, Separate
<1>3. FlightIDs' = FlightIDs
  BY <1>1 DEF FlightIDs
<1>4. WritesAreWrites' /\ ReadsCounted'
  BY <1>3 DEF IInv, WritesAreWrites, ReadsCounted
<1>5. QED
  BY <1>2, <1>4

LEMMA NextIInv == IInv /\ [Next]_vars => IInv'
<1>1. SUFFICES ASSUME IInv, [Next]_vars PROVE IInv'
  OBVIOUS
<1>. DEFINE Kept == Separate' /\ WritesAreWrites' /\ ReadsCounted' /\ ReturnQueueBounded'
<1>2. TypeOK'
  BY <1>1, NextTypeOK DEF IInv
<1>3. ASSUME NEW t \in Transaction, AddTransaction(t) PROVE Kept
  BY <1>1, <1>3, AddTransactionIInv
<1>4. ASSUME TakeReturn PROVE Kept
  <2>1. /\ UNCHANGED <<ranks, inFlightCommandPacket, inFlightDataPacket, writeBurstQueue,
                       commandQueue, outstandingReads>>
        /\ readReturnQueue # << >> /\ readReturnQueue' = Tail(readReturnQueue)
    BY <1>4 DEF TakeReturn, controllerVars, busVars
  <2>2. Len(readReturnQueue') = Len(readReturnQueue) - 1 /\ Len(readReturnQueue) \in Nat
    BY <1>1, <2>1, HeadTailProperties, LenProperties DEF IInv, TypeOK
  <2>3. ReturnQueueBounded'
    BY <1>1, <2>1, <2>2, QueueAssumption DEF IInv, ReturnQueueBounded, TypeOK
  <2>4. Separate' /\ WritesAreWrites' /\ ReadsCounted'
    BY <1>1, <2>1, UnchangedReads
  <2>5. QED
    BY <2>3, <2>4
<1>5. ASSUME NEW i \in DOMAIN commandQueue, IssueRead(i) PROVE Kept
  <2>1. WritesAreWrites'
    BY <1>1, <1>5, WritesAfter DEF IInv, IssueRead, ControllerRead, WritesAreWrites
  <2>2. QED
    BY <1>1, <1>5, <2>1, ReadSent
<1>6. ASSUME \/ \E r \in Ranks : IssueRefresh(r)
             \/ \E i \in DOMAIN commandQueue : IssueWrite(i) \/ IssueActivate(i)
             \/ IssueNothing
      PROVE  Kept
  BY <1>1, <1>6, OtherUpdateIInv
<1>7. ASSUME UNCHANGED vars PROVE Kept
  <2>1. ReturnQueueBounded'
    BY <1>1, <1>7 DEF IInv, ReturnQueueBounded, vars
  <2>2. QED
    BY <1>1, <1>7, <2>1, UnchangedReads DEF vars, controllerVars, busVars
<1>. HIDE DEF Kept
<1>8. Kept
  BY <1>1, <1>3, <1>4, <1>5, <1>6, <1>7 DEF Next, Update
<1>9. QED
  BY <1>2, <1>8 DEF IInv, Kept

\* The data returned to a channel and the data of the reads it has sent never exceed
\* what its return queue holds, for every device and every size of the queues
\* (SimpleController.cpp:558; DRAMChannel.cpp:134): the room is checked when a READ is
\* sent, and the read comes back several transfers later, whatever the others do.
THEOREM ReturnQueueCorrect == Spec => []ReturnQueueBounded
<1>1. Init => IInv
  BY InitIInv
<1>2. IInv /\ [Next]_vars => IInv'
  BY NextIInv
<1>3. IInv => ReturnQueueBounded
  BY DEF IInv
<1>4. QED
  BY <1>1, <1>2, <1>3, PTL DEF Spec

-----------------------------------------------------------------------------
(***************************************************************************)
(* The work queue: WorkQueueAccounted, OpenBankAwaitsItsCAS and            *)
(* SameBankInOrder.                                                        *)
(*                                                                         *)
(* A transaction is two neighbours of the queue, its ACTIVATE and its CAS, *)
(* until the ACTIVATE is sent; the CAS is then loose.  The three rest on   *)
(* what is loose: each loose CAS finds its row open in a bank that is open *)
(* for it alone, and has overtaken no ACTIVATE to its bank but those the   *)
(* logic layer has put before it.                                          *)
(***************************************************************************)

(* The shape of the queue                                                  *)

ACTs(queue) == {i \in DOMAIN queue : queue[i].busPacketType = "ACTIVATE"}

CASs(queue) == {i \in DOMAIN queue : IsCAS(queue[i])}

\* The CASs whose ACTIVATE has been sent.
Loose(queue) == {i \in CASs(queue) : i - 1 \notin ACTs(queue)}

SameBank(p, x) == p.rank = x.rank /\ p.bank = x.bank

SameTransaction(p, x) ==
    /\ p.transactionID = x.transactionID
    /\ SameBank(p, x) /\ p.row = x.row
    /\ p.fromLogicOp = x.fromLogicOp

\* Every ACTIVATE is followed by its CAS.
Paired(queue) ==
    \A i \in ACTs(queue) :
        i + 1 \in CASs(queue) /\ SameTransaction(queue[i], queue[i + 1])

DistinctCASs(queue) ==
    \A i, j \in CASs(queue) : queue[i].transactionID = queue[j].transactionID => i = j

WellFormed(queue) ==
    /\ DOMAIN queue = ACTs(queue) \union CASs(queue)
    /\ Paired(queue)
    /\ DistinctCASs(queue)

-----------------------------------------------------------------------------
(* The inductive invariant                                                 *)

\* Nothing is pending in a bank that is idle or open, so time does not close it.
Settled(bank) ==
    bank.currentBankState = "IDLE" \/ IsOpen(bank) => bank.stateChangeCountdown = 0

BanksSettled == \A r \in Ranks, b \in Banks : Settled(bankStates[r][b])

\* A loose CAS finds its row open, and has the bank to itself.
LooseFindsRow ==
    \A i \in Loose(commandQueue) :
        LET p == commandQueue[i] IN
        /\ IsOpen(bankStates[p.rank][p.bank])
        /\ bankStates[p.rank][p.bank].openRowAddress = p.row
        /\ \A j \in Loose(commandQueue) : SameBank(p, commandQueue[j]) => j = i

OpenHasLoose ==
    \A r \in Ranks, b \in Banks :
        IsOpen(bankStates[r][b]) =>
            \E i \in Loose(commandQueue) :
                commandQueue[i].rank = r /\ commandQueue[i].bank = b

\* An ACTIVATE that is still before a loose CAS to its bank came in at the head.
OvertakenIsLogic ==
    \A i \in Loose(commandQueue), k \in ACTs(commandQueue) :
        k < i /\ SameBank(commandQueue[k], commandQueue[i]) => commandQueue[k].fromLogicOp

QueueCounted ==
    /\ waitingACTS = Cardinality(CASs(commandQueue))
    /\ waitingACTS <= CHANNEL_WORK_Q_MAX

QueueInv ==
    /\ TypeOK
    /\ WellFormed(commandQueue)
    /\ BanksSettled
    /\ LooseFindsRow
    /\ OpenHasLoose
    /\ OvertakenIsLogic
    /\ QueueCounted

-----------------------------------------------------------------------------
(* Positions                                                               *)

\* The place of the i-th packet before the k-th was removed.
Was(k, i) == IF i < k THEN i ELSE i + 1

LEMMA WasProperties ==
    ASSUME NEW k \in Nat, NEW i \in Nat, NEW j \in Nat
    PROVE  /\ Was(k, i) \in Nat /\ Was(k, i) # k
           /\ i < j <=> Was(k, i) < Was(k, j)
           /\ Was(k, i) = Was(k, j) => i = j
  BY DEF Was

\* Each other packet of the queue has one place in it afterwards.
LEMMA WithoutPlaces ==
    ASSUME NEW queue \in Seq(BusPacket), NEW k \in DOMAIN queue
    PROVE  /\ Without(queue, k) \in Seq(BusPacket)
           /\ DOMAIN Without(queue, k) \subseteq Nat \ {0}
           /\ \A i \in DOMAIN Without(queue, k) :
                 Was(k, i) \in DOMAIN queue /\ Without(queue, k)[i] = queue[Was(k, i)]
           /\ \A j \in DOMAIN queue \ {k} :
                 \E i \in DOMAIN Without(queue, k) : Was(k, i) = j
<1>1. DOMAIN queue = 1 .. Len(queue) /\ Len(queue) \in Nat
  BY LenProperties
<1>2. DOMAIN Without(queue, k) = 1 .. Len(queue) - 1
  BY DEF Without
<1>3. ASSUME NEW i \in DOMAIN Without(queue, k)
      PROVE  Was(k, i) \in DOMAIN queue /\ Without(queue, k)[i] = queue[Was(k, i)]
  BY <1>1, <1>2 DEF Without, Was
<1>4. ASSUME NEW j \in DOMAIN queue \ {k}
      PROVE  \E i \in DOMAIN Without(queue, k) : Was(k, i) = j
  <2>1. CASE j < k
    BY <1>1, <1>2, <2>1 DEF Was
  <2>2. CASE j > k
    <3>1. j - 1 \in DOMAIN Without(queue, k) /\ Was(k, j - 1) = j
      BY <1>1, <1>2, <2>2 DEF Was
    <3>2. QED
      BY <3>1
  <2>3. QED
    BY <1>1, <2>1, <2>2
<1>5. QED
  BY <1>1, <1>2, <1>3, <1>4, WithoutType

LEMMA PlacesType ==
    ASSUME NEW queue \in Seq(BusPacket)
    PROVE  /\ ACTs(queue) \subseteq DOMAIN queue /\ CASs(queue) \subseteq DOMAIN queue
           /\ Loose(queue) \subseteq CASs(queue)
           /\ ACTs(queue) \intersect CASs(queue) = {}
           /\ DOMAIN queue = 1 .. Len(queue) /\ Len(queue) \in Nat
           /\ IsFiniteSet(CASs(queue))
<1>1. DOMAIN queue = 1 .. Len(queue) /\ Len(queue) \in Nat
  BY LenProperties
<1>2. ACTs(queue) \subseteq DOMAIN queue /\ CASs(queue) \subseteq DOMAIN queue
  BY DEF ACTs, CASs
<1>3. IsFiniteSet(CASs(queue))
  <2>1. IsFiniteSet(1 .. Len(queue))
    BY <1>1, FS_Interval
  <2>2. QED
    BY <1>1, <1>2, <2>1, FS_Subset
<1>4. QED
  BY <1>1, <1>2, <1>3 DEF ACTs, CASs, Loose, IsCAS

\* The test of the scan, on ids, is the test on the packet before.
LEMMA FollowsIsPaired ==
    ASSUME NEW queue \in Seq(BusPacket), WellFormed(queue), NEW i \in DOMAIN queue
    PROVE  (i > 1 /\ queue[i].transactionID = queue[i - 1].transactionID)
               <=> i - 1 \in ACTs(queue)
<1>1. i \in 1 .. Len(queue) /\ DOMAIN queue = 1 .. Len(queue) /\ Len(queue) \in Nat
  BY PlacesType
<1>2. ASSUME i - 1 \in ACTs(queue)
      PROVE  i > 1 /\ queue[i].transactionID = queue[i - 1].transactionID
  BY <1>1, <1>2, PlacesType DEF WellFormed, Paired, SameTransaction
<1>3. ASSUME i > 1, queue[i].transactionID = queue[i - 1].transactionID,
             i - 1 \notin ACTs(queue)
      PROVE  FALSE
  <2>1. i - 1 \in CASs(queue)
    BY <1>1, <1>3 DEF WellFormed
  <2>2. CASE i \in CASs(queue)
    BY <1>1, <1>3, <2>1, <2>2 DEF WellFormed, DistinctCASs
  <2>3. CASE i \in ACTs(queue)
    <3>1. i + 1 \in CASs(queue) /\ queue[i + 1].transactionID = queue[i - 1].transactionID
      BY <1>3, <2>3 DEF WellFormed, Paired, SameTransaction
    <3>2. QED
      BY <1>1, <2>1, <3>1 DEF WellFormed, DistinctCASs
  <2>4. QED
    BY <2>2, <2>3 DEF WellFormed
<1>4. QED
  BY <1>2, <1>3

-----------------------------------------------------------------------------
(* A packet that follows no ACTIVATE is removed                            *)

LEMMA KindsWithout ==
    ASSUME NEW queue \in Seq(BusPacket), NEW k \in DOMAIN queue,
           NEW i \in DOMAIN Without(queue, k)
    PROVE  /\ i \in ACTs(Without(queue, k)) <=> Was(k, i) \in ACTs(queue)
           /\ i \in CASs(Without(queue, k)) <=> Was(k, i) \in CASs(queue)
  BY WithoutPlaces DEF ACTs, CASs

LEMMA WithoutWellFormed ==
    ASSUME NEW queue \in Seq(BusPacket), WellFormed(queue),
           NEW k \in DOMAIN queue, k - 1 \notin ACTs(queue)
    PROVE  WellFormed(Without(queue, k))
<1>. DEFINE after == Without(queue, k)
<1>1. /\ after \in Seq(BusPacket) /\ DOMAIN after \subseteq Nat \ {0}
      /\ \A i \in DOMAIN after : Was(k, i) \in DOMAIN queue /\ after[i] = queue[Was(k, i)]
      /\ \A j \in DOMAIN queue \ {k} : \E i \in DOMAIN after : Was(k, i) = j
  BY WithoutPlaces
<1>2. k \in Nat \ {0}
  BY PlacesType
<1>3. DOMAIN after = ACTs(after) \union CASs(after)
  BY <1>1, KindsWithout, PlacesType DEF WellFormed
<1>4. Paired(after)
  <2>1. SUFFICES ASSUME NEW i \in ACTs(after)
                 PROVE  i + 1 \in CASs(after) /\ SameTransaction(after[i], after[i + 1])
    BY DEF Paired
  <2>2. i \in DOMAIN after /\ Was(k, i) \in ACTs(queue)
    BY <1>1, KindsWithout, PlacesType
  <2>3. /\ Was(k, i) + 1 \in CASs(queue)
        /\ SameTransaction(queue[Was(k, i)], queue[Was(k, i) + 1])
    BY <2>2 DEF WellFormed, Paired
  <2>4. Was(k, i) + 1 # k
    BY <1>1, <1>2, <2>2
  <2>5. PICK j \in DOMAIN after : Was(k, j) = Was(k, i) + 1
    BY <1>1, <2>3, <2>4, PlacesType
  <2>6. j = i + 1
    BY <1>1, <1>2, <2>2, <2>4, <2>5 DEF Was
  <2>7. QED
    BY <1>1, <2>2, <2>3, <2>5, <2>6, KindsWithout
<1>5. DistinctCASs(after)
  <2>1. SUFFICES ASSUME NEW i \in CASs(after), NEW j \in CASs(after),
                        after[i].transactionID = after[j].transactionID
                 PROVE  i = j
    BY DEF DistinctCASs
  <2>2. i \in DOMAIN after /\ j \in DOMAIN after
    BY <1>1, PlacesType
  <2>3. Was(k, i) \in CASs(queue) /\ Was(k, j) \in CASs(queue)
    BY <2>2, KindsWithout
  <2>4. Was(k, i) = Was(k, j)
    BY <1>1, <2>1, <2>2, <2>3 DEF WellFormed, DistinctCASs
  <2>5. QED
    BY <1>1, <1>2, <2>2, <2>4, WasProperties
<1>6. QED
  BY <1>3, <1>4, <1>5 DEF WellFormed

\* A CAS becomes loose when its ACTIVATE is removed, and not otherwise.
LEMMA WithoutLoose ==
    ASSUME NEW queue \in Seq(BusPacket), WellFormed(queue),
           NEW k \in DOMAIN queue, k - 1 \notin ACTs(queue),
           NEW i \in DOMAIN Without(queue, k)
    PROVE  i \in Loose(Without(queue, k)) <=>
              \/ Was(k, i) \in Loose(queue)
              \/ k \in ACTs(queue) /\ Was(k, i) = k + 1
<1>. DEFINE after == Without(queue, k)
            w == Was(k, i)
<1>1. /\ after \in Seq(BusPacket) /\ i \in Nat \ {0}
      /\ w \in DOMAIN queue /\ after[i] = queue[w]
  BY WithoutPlaces
<1>2. k \in Nat \ {0} /\ w \in Nat \ {0} /\ w # k
  <2>1. k \in Nat \ {0}
    BY PlacesType
  <2>2. QED
    BY <1>1, <2>1 DEF Was
<1>3. i \in CASs(after) <=> w \in CASs(queue)
  BY KindsWithout
<1>4. CASE w = k + 1
  <2>1. i = k
    BY <1>1, <1>2, <1>4 DEF Was
  <2>2. i - 1 \notin ACTs(after)
    <3>1. ASSUME i - 1 \in ACTs(after) PROVE FALSE
      <4>1. i - 1 \in DOMAIN after /\ Was(k, i - 1) = k - 1
        BY <1>1, <1>2, <2>1, <3>1, PlacesType DEF Was
      <4>2. QED
        BY <3>1, <4>1, KindsWithout
    <3>2. QED
      BY <3>1
  <2>3. k \in ACTs(queue) => w \in CASs(queue)
    BY <1>4 DEF WellFormed, Paired
  <2>4. w - 1 = k
    BY <1>2, <1>4
  <2>5. QED
    BY <1>3, <1>4, <2>2, <2>3, <2>4 DEF Loose
<1>5. CASE w # k + 1
  <2>1. i - 1 \in ACTs(after) <=> w - 1 \in ACTs(queue)
    <3>1. ASSUME i - 1 \in ACTs(after) PROVE w - 1 \in ACTs(queue)
      <4>1. i - 1 \in DOMAIN after
        BY <1>1, <3>1, PlacesType
      <4>2. Was(k, i - 1) = w - 1
        BY <1>1, <1>2, <1>5 DEF Was
      <4>3. QED
        BY <3>1, <4>1, <4>2, KindsWithout
    <3>2. ASSUME w - 1 \in ACTs(queue) PROVE i - 1 \in ACTs(after)
      <4>1. w - 1 \in DOMAIN queue /\ w - 1 # k
        BY <1>2, <1>5, <3>2, PlacesType
      <4>2. PICK j \in DOMAIN after : Was(k, j) = w - 1
        BY <4>1, WithoutPlaces
      <4>3. j \in Nat \ {0}
        BY <4>2, WithoutPlaces
      <4>4. j = i - 1
        BY <1>1, <1>2, <1>5, <4>1, <4>2, <4>3 DEF Was
      <4>5. QED
        BY <3>2, <4>2, <4>4, KindsWithout
    <3>3. QED
      BY <3>1, <3>2
  <2>2. QED
    BY <1>3, <1>5, <2>1 DEF Loose
<1>6. QED
  BY <1>4, <1>5

LEMMA WithoutCounted ==
    ASSUME NEW queue \in Seq(BusPacket), NEW k \in DOMAIN queue
    PROVE  Cardinality(CASs(Without(queue, k))) =
              IF k \in CASs(queue) THEN Cardinality(CASs(queue)) - 1
                                   ELSE Cardinality(CASs(queue))
<1>. DEFINE after == Without(queue, k)
            f == [i \in CASs(after) |-> Was(k, i)]
<1>1. after \in Seq(BusPacket) /\ DOMAIN after \subseteq Nat \ {0} /\ k \in Nat
  BY WithoutPlaces, PlacesType
<1>2. ASSUME NEW i \in CASs(after) PROVE f[i] \in CASs(queue) \ {k}
  <2>1. i \in DOMAIN after /\ i \in Nat
    BY <1>1, PlacesType
  <2>2. Was(k, i) \in CASs(queue) /\ Was(k, i) # k
    BY <1>1, <2>1, KindsWithout, WasProperties
  <2>3. QED
    BY <2>2
<1>3. ASSUME NEW i \in CASs(after), NEW j \in CASs(after), f[i] = f[j]
      PROVE  i = j
  <2>1. i \in Nat /\ j \in Nat
    BY <1>1, PlacesType
  <2>2. QED
    BY <1>1, <1>3, <2>1, WasProperties
<1>4. ASSUME NEW j \in CASs(queue) \ {k} PROVE \E i \in CASs(after) : f[i] = j
  <2>1. PICK i \in DOMAIN after : Was(k, i) = j
    BY WithoutPlaces, PlacesType
  <2>2. QED
    BY <2>1, KindsWithout
<1>5. f \in Bijection(CASs(after), CASs(queue) \ {k})
  BY <1>2, <1>3, <1>4 DEF Bijection, Injection, Surjection, IsInjective
<1>6. /\ IsFiniteSet(CASs(after))
      /\ Cardinality(CASs(queue) \ {k}) = Cardinality(CASs(after))
  BY <1>1, <1>5, PlacesType, FS_Bijection DEF ExistsBijection
<1>7. QED
  BY <1>6, PlacesType, FS_RemoveElement

-----------------------------------------------------------------------------
(* A transaction joins the queue                                           *)

Disjoint(a, b) ==
    \A i \in CASs(a), j \in CASs(b) : a[i].transactionID # b[j].transactionID

LEMMA KindsConcat ==
    ASSUME NEW a \in Seq(BusPacket), NEW b \in Seq(BusPacket)
    PROVE  /\ a \o b \in Seq(BusPacket)
           /\ \A i \in Int :
                 /\ i \in ACTs(a \o b) <=> i \in ACTs(a) \/ i - Len(a) \in ACTs(b)
                 /\ i \in CASs(a \o b) <=> i \in CASs(a) \/ i - Len(a) \in CASs(b)
           /\ \A i \in DOMAIN a : (a \o b)[i] = a[i]
           /\ \A i \in DOMAIN b : (a \o b)[Len(a) + i] = b[i]
           /\ DOMAIN (a \o b) = 1 .. Len(a) + Len(b)
<1>1. /\ DOMAIN a = 1 .. Len(a) /\ Len(a) \in Nat
      /\ DOMAIN b = 1 .. Len(b) /\ Len(b) \in Nat
  BY LenProperties
<1>2. /\ a \o b \in Seq(BusPacket)
      /\ DOMAIN (a \o b) = 1 .. Len(a) + Len(b)
      /\ \A i \in 1 .. Len(a) + Len(b) :
            (a \o b)[i] = IF i <= Len(a) THEN a[i] ELSE b[i - Len(a)]
  <2>1. /\ a \o b \in Seq(BusPacket) /\ Len(a \o b) = Len(a) + Len(b)
        /\ \A i \in 1 .. Len(a) + Len(b) :
              (a \o b)[i] = IF i <= Len(a) THEN a[i] ELSE b[i - Len(a)]
    BY ConcatProperties
  <2>2. QED
    BY <2>1, LenProperties
<1>3. /\ \A i \in DOMAIN a : (a \o b)[i] = a[i]
      /\ \A i \in DOMAIN b : (a \o b)[Len(a) + i] = b[i]
  BY <1>1, <1>2
<1>4. ASSUME NEW i \in Int
      PROVE  /\ i \in ACTs(a \o b) <=> i \in ACTs(a) \/ i - Len(a) \in ACTs(b)
             /\ i \in CASs(a \o b) <=> i \in CASs(a) \/ i - Len(a) \in CASs(b)
  <2>1. i \in DOMAIN (a \o b) <=> i \in DOMAIN a \/ i - Len(a) \in DOMAIN b
    BY <1>1, <1>2
  <2>2. /\ i \in DOMAIN a => (a \o b)[i] = a[i]
        /\ i - Len(a) \in DOMAIN b => (a \o b)[i] = b[i - Len(a)]
        /\ ~ (i \in DOMAIN a /\ i - Len(a) \in DOMAIN b)
    BY <1>1, <1>2
  <2>3. QED
    BY <2>1, <2>2 DEF ACTs, CASs
<1>5. QED
  BY <1>2, <1>3, <1>4

LEMMA ConcatWellFormed ==
    ASSUME NEW a \in Seq(BusPacket), NEW b \in Seq(BusPacket),
           WellFormed(a), WellFormed(b), Disjoint(a, b)
    PROVE  WellFormed(a \o b)
<1>. DEFINE both == a \o b
            n == Len(a)
<1>1. /\ DOMAIN a = 1 .. n /\ n \in Nat
      /\ DOMAIN b = 1 .. Len(b) /\ Len(b) \in Nat
      /\ ACTs(a) \subseteq DOMAIN a /\ CASs(a) \subseteq DOMAIN a
      /\ ACTs(b) \subseteq DOMAIN b /\ CASs(b) \subseteq DOMAIN b
      /\ ACTs(both) \subseteq DOMAIN both /\ CASs(both) \subseteq DOMAIN both
  BY PlacesType, KindsConcat
<1>2. /\ \A i \in Int :
            /\ i \in ACTs(both) <=> i \in ACTs(a) \/ i - n \in ACTs(b)
            /\ i \in CASs(both) <=> i \in CASs(a) \/ i - n \in CASs(b)
      /\ \A i \in DOMAIN a : both[i] = a[i]
      /\ \A i \in DOMAIN b : both[n + i] = b[i]
      /\ DOMAIN both = 1 .. n + Len(b)
  BY KindsConcat
<1>. HIDE DEF n, both
<1>3. DOMAIN both = ACTs(both) \union CASs(both)
  <2>1. ASSUME NEW i \in DOMAIN both PROVE i \in ACTs(both) \union CASs(both)
    <3>1. i \in Int /\ (i \in DOMAIN a \/ i - n \in DOMAIN b)
      BY <1>1, <1>2
    <3>2. QED
      BY <1>2, <3>1 DEF WellFormed
  <2>2. QED
    BY <1>1, <2>1
<1>4. Paired(both)
  <2>1. SUFFICES ASSUME NEW i \in ACTs(both)
                 PROVE  i + 1 \in CASs(both) /\ SameTransaction(both[i], both[i + 1])
    BY DEF Paired
  <2>2. i \in Int
    BY <1>1, <1>2
  <2>3. CASE i \in ACTs(a)
    <3>1. i + 1 \in CASs(a) /\ SameTransaction(a[i], a[i + 1])
      BY <2>3 DEF WellFormed, Paired
    <3>2. both[i] = a[i] /\ both[i + 1] = a[i + 1]
      BY <1>1, <1>2, <2>3, <3>1
    <3>3. QED
      BY <1>2, <2>2, <3>1, <3>2
  <2>4. CASE i - n \in ACTs(b)
    <3>1. (i - n) + 1 \in CASs(b) /\ SameTransaction(b[i - n], b[(i - n) + 1])
      BY <2>4 DEF WellFormed, Paired
    <3>2. n + (i - n) = i /\ n + ((i - n) + 1) = i + 1 /\ (i - n) + 1 = (i + 1) - n
      BY <1>1, <2>2
    <3>3. both[i] = b[i - n] /\ both[i + 1] = b[(i - n) + 1]
      BY <1>1, <1>2, <2>4, <3>1, <3>2
    <3>4. i + 1 \in CASs(both)
      BY <1>2, <2>2, <3>1, <3>2
    <3>5. QED
      BY <3>1, <3>3, <3>4
  <2>5. QED
    BY <1>2, <2>2, <2>3, <2>4
<1>5. DistinctCASs(both)
  <2>1. SUFFICES ASSUME NEW i \in CASs(both), NEW j \in CASs(both),
                        both[i].transactionID = both[j].transactionID
                 PROVE  i = j
    BY DEF DistinctCASs
  <2>2. i \in Int /\ j \in Int
    BY <1>1, <1>2
  <2>3. ASSUME NEW k \in Int, k \in CASs(both)
        PROVE  \/ k \in CASs(a) /\ both[k] = a[k]
               \/ k - n \in CASs(b) /\ both[k] = b[k - n]
    <3>1. n + (k - n) = k
      BY <1>1
    <3>2. QED
      BY <1>1, <1>2, <2>3, <3>1
  <2>4. \/ i \in CASs(a) /\ both[i] = a[i]
        \/ i - n \in CASs(b) /\ both[i] = b[i - n]
    BY <2>2, <2>3
  <2>5. \/ j \in CASs(a) /\ both[j] = a[j]
        \/ j - n \in CASs(b) /\ both[j] = b[j - n]
    BY <2>2, <2>3
  <2>6. CASE i \in CASs(a) /\ both[i] = a[i] /\ j \in CASs(a) /\ both[j] = a[j]
    BY <2>1, <2>6 DEF WellFormed, DistinctCASs
  <2>7. CASE /\ i - n \in CASs(b) /\ both[i] = b[i - n]
             /\ j - n \in CASs(b) /\ both[j] = b[j - n]
    <3>1. i - n = j - n
      BY <2>1, <2>7 DEF WellFormed, DistinctCASs
    <3>2. QED
      BY <1>1, <2>2, <3>1
  <2>8. QED
    BY <2>1, <2>4, <2>5, <2>6, <2>7 DEF Disjoint
<1>6. QED
  BY <1>3, <1>4, <1>5 DEF WellFormed, both

\* No ACTIVATE ends a queue, so the CASs of the second part stay as they were.
LEMMA ConcatLoose ==
    ASSUME NEW a \in Seq(BusPacket), NEW b \in Seq(BusPacket), WellFormed(a), NEW i \in Int
    PROVE  i \in Loose(a \o b) <=> i \in Loose(a) \/ i - Len(a) \in Loose(b)
<1>. DEFINE n == Len(a)
<1>1. /\ DOMAIN a = 1 .. n /\ n \in Nat
      /\ DOMAIN b = 1 .. Len(b) /\ Len(b) \in Nat
      /\ ACTs(a) \subseteq DOMAIN a /\ CASs(a) \subseteq DOMAIN a
      /\ ACTs(b) \subseteq DOMAIN b /\ CASs(b) \subseteq DOMAIN b
  BY PlacesType
<1>2. /\ i \in CASs(a \o b) <=> i \in CASs(a) \/ i - n \in CASs(b)
      /\ i - 1 \in ACTs(a \o b) <=> i - 1 \in ACTs(a) \/ (i - 1) - n \in ACTs(b)
  BY KindsConcat
<1>3. n \notin ACTs(a)
  <2>1. ASSUME n \in ACTs(a) PROVE n + 1 \in CASs(a)
    BY <2>1 DEF WellFormed, Paired
  <2>2. n + 1 \notin CASs(a)
    BY <1>1
  <2>3. QED
    BY <2>1, <2>2
<1>4. (i - 1) - n = (i - n) - 1
  BY <1>1
<1>5. i \in CASs(a) => (i - 1) - n \notin ACTs(b) /\ i - n \notin CASs(b)
  BY <1>1
<1>6. i - n \in CASs(b) => i - 1 \notin ACTs(a) /\ i \notin CASs(a)
  BY <1>1, <1>3
<1>7. QED
  BY <1>2, <1>4, <1>5, <1>6 DEF Loose

LEMMA ConcatCounted ==
    ASSUME NEW a \in Seq(BusPacket), NEW b \in Seq(BusPacket)
    PROVE  Cardinality(CASs(a \o b)) = Cardinality(CASs(a)) + Cardinality(CASs(b))
<1>. DEFINE n == Len(a)
            moved == {n + i : i \in CASs(b)}
            f == [i \in CASs(b) |-> n + i]
<1>1. /\ DOMAIN a = 1 .. n /\ n \in Nat /\ DOMAIN b = 1 .. Len(b) /\ Len(b) \in Nat
      /\ CASs(a) \subseteq DOMAIN a /\ CASs(b) \subseteq DOMAIN b
      /\ CASs(a \o b) \subseteq Int
      /\ IsFiniteSet(CASs(a)) /\ IsFiniteSet(CASs(b))
  <2>1. CASs(a \o b) \subseteq DOMAIN (a \o b)
    BY DEF CASs
  <2>2. DOMAIN (a \o b) \subseteq Int
    <3>1. DOMAIN (a \o b) = 1 .. Len(a) + Len(b)
      BY KindsConcat
    <3>2. QED
      BY <3>1
  <2>3. QED
    BY <2>1, <2>2, PlacesType
<1>2. f \in Bijection(CASs(b), moved)
  <2>1. CASs(b) \subseteq Nat
    BY <1>1
  <2>2. f \in [CASs(b) -> moved]
    OBVIOUS
  <2>3. ASSUME NEW i \in CASs(b), NEW j \in CASs(b), f[i] = f[j] PROVE i = j
    BY <1>1, <2>1, <2>3
  <2>4. ASSUME NEW j \in moved PROVE \E i \in CASs(b) : f[i] = j
    OBVIOUS
  <2>5. QED
    BY <2>2, <2>3, <2>4 DEF Bijection, Injection, Surjection, IsInjective
<1>3. IsFiniteSet(moved) /\ Cardinality(moved) = Cardinality(CASs(b))
  BY <1>1, <1>2, FS_Bijection DEF ExistsBijection
<1>4. CASs(a \o b) = CASs(a) \union moved
  <2>1. ASSUME NEW i \in Int PROVE i \in CASs(a \o b) <=> i \in CASs(a) \union moved
    <3>1. i - n \in CASs(b) <=> i \in moved
      BY <1>1
    <3>2. QED
      BY <3>1, KindsConcat
  <2>2. moved \subseteq Int
    BY <1>1
  <2>3. QED
    BY <1>1, <2>1, <2>2
<1>5. CASs(a) \intersect moved = {}
  BY <1>1
<1>6. Cardinality(CASs(a) \intersect moved) = 0
  BY <1>5, FS_EmptySet
<1>7. Cardinality(CASs(a)) \in Nat /\ Cardinality(moved) \in Nat
  BY <1>1, <1>3, FS_CardinalityType
<1>8. Cardinality(CASs(a) \union moved) =
          Cardinality(CASs(a)) + Cardinality(moved) - Cardinality(CASs(a) \intersect moved)
  BY <1>1, <1>3, FS_Union
<1>9. QED
  BY <1>3, <1>4, <1>6, <1>7, <1>8

LEMMA CommandsOfPair ==
    ASSUME NEW t \in Transaction
    PROVE  /\ CommandsOf(t) \in Seq(BusPacket) /\ Len(CommandsOf(t)) = 2
           /\ ACTs(CommandsOf(t)) = {1} /\ CASs(CommandsOf(t)) = {2}
           /\ CommandsOf(t)[2].transactionID = t.transactionID
           /\ CommandsOf(t)[1].fromLogicOp = t.originatedFromLogicOp
           /\ WellFormed(CommandsOf(t)) /\ Loose(CommandsOf(t)) = {}
<1>. DEFINE pair == CommandsOf(t)
<1>1. pair \in Seq(BusPacket) /\ Len(pair) = 2 /\ DOMAIN pair = 1 .. 2
  BY CommandsOfType, LenProperties
<1>2. /\ pair[1] = PacketOf(t, "ACTIVATE")
      /\ pair[2] = PacketOf(t, IF t.transactionType = "DATA_READ" THEN "READ_P" ELSE "WRITE_P")
  BY DEF CommandsOf
<1>3. ACTs(pair) = {1} /\ CASs(pair) = {2}
  BY <1>1, <1>2 DEF ACTs, CASs, IsCAS, PacketOf
<1>4. SameTransaction(pair[1], pair[2])
  BY <1>2 DEF SameTransaction, SameBank, PacketOf
<1>5. WellFormed(pair)
  BY <1>1, <1>3, <1>4 DEF WellFormed, Paired, DistinctCASs
<1>6. Loose(pair) = {}
  BY <1>3 DEF Loose
<1>7. QED
  BY <1>1, <1>2, <1>3, <1>5, <1>6 DEF PacketOf

-----------------------------------------------------------------------------
(* The banks of an Update                                                  *)

\* As far as the queue is concerned nothing has happened to the bank.
Kept(old, new) ==
    /\ IsOpen(new) <=> IsOpen(old)
    /\ IsOpen(old) => new.openRowAddress = old.openRowAddress

LEMMA StateChangeKeeps ==
    ASSUME NEW bank \in BankStates, Settled(bank)
    PROVE  Settled(UpdateStateChange(bank)) /\ Kept(bank, UpdateStateChange(bank))
<1>. DEFINE now == UpdateStateChange(bank)
<1>1. bank.stateChangeCountdown \in Nat
  BY DEF BankStates
<1>2. CASE bank.stateChangeCountdown = 0
  <2>1. now = bank
    BY <1>2 DEF UpdateStateChange
  <2>2. QED
    BY <2>1 DEF Kept
<1>3. CASE bank.stateChangeCountdown > 0
  <2>1. ~ IsOpen(bank) /\ bank.currentBankState # "IDLE"
    BY <1>3 DEF Settled
  <2>2. CASE bank.stateChangeCountdown > 1
    <3>1. now = [bank EXCEPT !.stateChangeCountdown = @ - 1]
      BY <2>2 DEF UpdateStateChange
    <3>2. /\ now.currentBankState = bank.currentBankState
          /\ now.lastCommand = bank.lastCommand
      BY <3>1 DEF BankStates
    <3>3. QED
      BY <2>1, <3>2 DEF Settled, Kept, IsOpen
  <2>3. CASE bank.stateChangeCountdown = 1 /\ bank.lastCommand \in {"READ_P", "WRITE_P"}
    <3>1. now = [bank EXCEPT !.currentBankState = "PRECHARGING",
                             !.lastCommand = "PRECHARGE",
                             !.stateChangeCountdown = tRP]
      BY <2>3 DEF UpdateStateChange
    <3>2. now.currentBankState = "PRECHARGING"
      BY <3>1 DEF BankStates
    <3>3. QED
      BY <2>1, <3>2 DEF Settled, Kept, IsOpen
  <2>4. CASE bank.stateChangeCountdown = 1 /\ bank.lastCommand \notin {"READ_P", "WRITE_P"}
    <3>1. now = [bank EXCEPT !.currentBankState = "IDLE", !.stateChangeCountdown = 0]
      BY <2>4 DEF UpdateStateChange
    <3>2. now.currentBankState = "IDLE" /\ now.stateChangeCountdown = 0
      BY <3>1 DEF BankStates
    <3>3. QED
      BY <2>1, <3>2 DEF Settled, Kept, IsOpen
  <2>5. QED
    BY <1>1, <1>3, <2>2, <2>3, <2>4
<1>4. QED
  BY <1>1, <1>2, <1>3

\* The clock, and a wait that is lengthened, touch neither the row nor the command.
LEMMA WaitsKeep ==
    ASSUME NEW bank \in BankStates, NEW m, NEW n
    PROVE  /\ Settled(Elapse(bank)) <=> Settled(bank)
           /\ Kept(bank, Elapse(bank))
           /\ Settled(Postponed(bank, m, n)) <=> Settled(bank)
           /\ Kept(bank, Postponed(bank, m, n))
           /\ Settled([bank EXCEPT !.nextActivate = m]) <=> Settled(bank)
           /\ Kept(bank, [bank EXCEPT !.nextActivate = m])
  BY DEF Elapse, Postponed, Settled, Kept, IsOpen, BankStates

LEMMA NowSettled ==
    ASSUME TypeOK, BanksSettled, NEW r \in Ranks, NEW b \in Banks
    PROVE  /\ BanksNow[r][b] \in BankStates
           /\ Settled(BanksNow[r][b])
           /\ Kept(bankStates[r][b], BanksNow[r][b])
<1>1. bankStates[r][b] \in BankStates
  BY DEF TypeOK, ControllerTypeOK
<1>2. BanksNow[r][b] = UpdateStateChange(bankStates[r][b])
  BY DEF BanksNow
<1>3. QED
  BY <1>1, <1>2, StateChangeKeeps, BankTypes DEF BanksSettled

LEMMA TickKeeps ==
    ASSUME NEW banks \in [Ranks -> [Banks -> BankStates]],
           NEW r \in Ranks, NEW b \in Banks
    PROVE  /\ Settled(TickBanks(banks)[r][b]) <=> Settled(banks[r][b])
           /\ Kept(banks[r][b], TickBanks(banks)[r][b])
<1>1. banks[r][b] \in BankStates /\ TickBanks(banks)[r][b] = Elapse(banks[r][b])
  BY DEF TickBanks
<1>2. QED
  BY <1>1, WaitsKeep

\* No decision: every bank is kept.
LEMMA IdleBanks ==
    ASSUME TypeOK, BanksSettled, bankStates' = TickBanks(BanksNow),
           NEW r \in Ranks, NEW b \in Banks
    PROVE  Settled(bankStates'[r][b]) /\ Kept(bankStates[r][b], bankStates'[r][b])
<1>1. BanksNow \in [Ranks -> [Banks -> BankStates]]
  BY BankTypes DEF TypeOK, ControllerTypeOK, BanksNow
<1>2. QED
  BY <1>1, NowSettled, TickKeeps DEF Kept

\* A REFRESH: the banks of the rank are closed before and after.
LEMMA RefreshBanks ==
    ASSUME TypeOK, BanksSettled, NEW q \in Ranks, ControllerRefresh(q),
           NEW r \in Ranks, NEW b \in Banks
    PROVE  Settled(bankStates'[r][b]) /\ Kept(bankStates[r][b], bankStates'[r][b])
<1>. DEFINE after == BanksAfterRefresh(q)
<1>1. /\ BanksNow \in [Ranks -> [Banks -> BankStates]]
      /\ after \in [Ranks -> [Banks -> BankStates]]
  <2>1. BanksNow \in [Ranks -> [Banks -> BankStates]]
    BY BankTypes DEF TypeOK, ControllerTypeOK, BanksNow
  <2>2. QED
    BY <2>1, BankTypes DEF BanksAfterRefresh
<1>2. bankStates' = TickBanks(after)
  BY DEF ControllerRefresh
<1>3. CASE r = q
  <2>1. Quiet(BanksNow[r][b])
    BY <1>3 DEF ControllerRefresh, RefreshIsIssuable
  <2>2. ~ IsOpen(bankStates[r][b])
    BY <2>1, NowSettled DEF Quiet, IsOpen, Kept
  <2>3. after[r][b] = Refreshing(BanksNow[r][b])
    BY <1>1, <1>3 DEF BanksAfterRefresh
  <2>4. after[r][b].currentBankState = "REFRESHING"
    BY <1>1, <2>3 DEF Refreshing, BankStates
  <2>5. ~ IsOpen(after[r][b]) /\ Settled(after[r][b])
    BY <2>4 DEF IsOpen, Settled
  <2>6. QED
    BY <1>1, <1>2, <2>2, <2>5, TickKeeps DEF Kept
<1>4. CASE r # q
  <2>1. after[r][b] = BanksNow[r][b]
    BY <1>1, <1>4 DEF BanksAfterRefresh
  <2>2. QED
    BY <1>1, <1>2, <2>1, NowSettled, TickKeeps DEF Kept
<1>5. QED
  BY <1>3, <1>4

\* A CAS: the bank it goes to is closed, the others are kept.
LEMMA CASBanks ==
    ASSUME TypeOK, BanksSettled, NEW p \in BusPacket,
           RowOpen(BanksNow[p.rank][p.bank], p.row),
           \/ bankStates' = TickBanks(BanksAfterRead(p))
           \/ bankStates' = TickBanks(BanksAfterWrite(p)),
           NEW r \in Ranks, NEW b \in Banks
    PROVE  /\ Settled(bankStates'[r][b])
           /\ IF r = p.rank /\ b = p.bank THEN ~ IsOpen(bankStates'[r][b])
              ELSE Kept(bankStates[r][b], bankStates'[r][b])
<1>. DEFINE now == BanksNow[r][b]
<1>1. now \in BankStates /\ Settled(now) /\ Kept(bankStates[r][b], now)
  BY NowSettled
<1>2. PICK after \in [Ranks -> [Banks -> BankStates]] :
          /\ bankStates' = TickBanks(after)
          /\ after = BanksAfterRead(p) \/ after = BanksAfterWrite(p)
  BY BanksAfterTypes DEF TypeOK
<1>3. CASE r = p.rank /\ b = p.bank
  <2>1. PICK type \in {"READ_P", "WRITE_P"} :
            \E m, n : after[r][b] = Closing(now, type, m, n)
    BY <1>2, <1>3 DEF BanksAfterRead, BanksAfterWrite
  <2>2. /\ after[r][b].currentBankState = "ROW_ACTIVE"
        /\ after[r][b].lastCommand = type
    BY <1>1, <1>3, <2>1 DEF Closing, RowOpen, BankStates
  <2>3. ~ IsOpen(after[r][b]) /\ Settled(after[r][b])
    BY <2>2 DEF IsOpen, Settled
  <2>4. QED
    BY <1>2, <1>3, <2>3, TickKeeps DEF Kept
<1>4. CASE ~ (r = p.rank /\ b = p.bank)
  <2>1. \E m, n : after[r][b] = Postponed(now, m, n)
    BY <1>2, <1>4 DEF BanksAfterRead, BanksAfterWrite
  <2>2. Settled(after[r][b]) /\ Kept(now, after[r][b])
    <3>1. PICK m, n : after[r][b] = Postponed(now, m, n)
      BY <2>1
    <3>2. Settled(Postponed(now, m, n)) /\ Kept(now, Postponed(now, m, n))
      BY <1>1, WaitsKeep
    <3>3. QED
      BY <3>1, <3>2
  <2>3. Kept(after[r][b], bankStates'[r][b]) /\ Settled(bankStates'[r][b])
    BY <1>2, <2>2, TickKeeps
  <2>4. Kept(bankStates[r][b], bankStates'[r][b])
    BY <1>1, <2>2, <2>3 DEF Kept
  <2>5. QED
    BY <1>4, <2>3, <2>4
<1>5. QED
  BY <1>3, <1>4

\* An ACTIVATE: the bank it goes to was closed and is open, the others are kept.
LEMMA ActivateBanks ==
    ASSUME TypeOK, BanksSettled, NEW p \in BusPacket,
           Quiet(BanksNow[p.rank][p.bank]),
           bankStates' = TickBanks(BanksAfterActivateCommand(p)),
           NEW r \in Ranks, NEW b \in Banks
    PROVE  /\ Settled(bankStates'[r][b])
           /\ IF r = p.rank /\ b = p.bank
              THEN /\ ~ IsOpen(bankStates[r][b]) /\ IsOpen(bankStates'[r][b])
                   /\ bankStates'[r][b].openRowAddress = p.row
              ELSE Kept(bankStates[r][b], bankStates'[r][b])
<1>. DEFINE now == BanksNow[r][b]
            after == BanksAfterActivateCommand(p)
<1>1. now \in BankStates /\ Settled(now) /\ Kept(bankStates[r][b], now)
  BY NowSettled
<1>2. after \in [Ranks -> [Banks -> BankStates]]
  BY BanksAfterTypes DEF TypeOK
<1>3. CASE r = p.rank /\ b = p.bank
  <2>1. now.currentBankState = "IDLE" /\ now.stateChangeCountdown = 0
    BY <1>1, <1>3 DEF Quiet, Settled
  <2>2. /\ after[r][b].currentBankState = "ROW_ACTIVE"
        /\ after[r][b].lastCommand = "ACTIVATE"
        /\ after[r][b].openRowAddress = p.row
        /\ after[r][b].stateChangeCountdown = now.stateChangeCountdown
    BY <1>1, <1>3 DEF BanksAfterActivateCommand, BankStates
  <2>3. ~ IsOpen(bankStates[r][b])
    BY <1>1, <2>1 DEF Kept, IsOpen
  <2>4. IsOpen(after[r][b]) /\ Settled(after[r][b])
    BY <2>1, <2>2 DEF IsOpen, Settled
  <2>5. Kept(after[r][b], bankStates'[r][b]) /\ Settled(bankStates'[r][b])
    BY <1>2, <2>4, TickKeeps
  <2>6. QED
    BY <1>3, <2>2, <2>3, <2>4, <2>5 DEF Kept
<1>4. CASE ~ (r = p.rank /\ b = p.bank)
  <2>1. after[r][b] = now \/ \E m : after[r][b] = [now EXCEPT !.nextActivate = m]
    BY <1>4 DEF BanksAfterActivateCommand
  <2>2. Settled(after[r][b]) /\ Kept(now, after[r][b])
    <3>1. CASE after[r][b] = now
      BY <1>1, <3>1 DEF Kept
    <3>2. ASSUME NEW m, after[r][b] = [now EXCEPT !.nextActivate = m]
          PROVE  Settled(after[r][b]) /\ Kept(now, after[r][b])
      <4>1. /\ Settled([now EXCEPT !.nextActivate = m])
            /\ Kept(now, [now EXCEPT !.nextActivate = m])
        BY <1>1, WaitsKeep
      <4>2. QED
        BY <3>2, <4>1
    <3>3. QED
      BY <2>1, <3>1, <3>2
  <2>3. Kept(after[r][b], bankStates'[r][b]) /\ Settled(bankStates'[r][b])
    BY <1>2, <2>2, TickKeeps
  <2>4. Kept(bankStates[r][b], bankStates'[r][b])
    BY <1>1, <2>2, <2>3 DEF Kept
  <2>5. QED
    BY <1>4, <2>3, <2>4
<1>5. QED
  BY <1>3, <1>4

-----------------------------------------------------------------------------
(* Each step keeps the invariant                                           *)

\* The part of the invariant about the queue and the banks.
QueueAndBanks ==
    WellFormed(commandQueue) /\ BanksSettled /\ LooseFindsRow /\ OpenHasLoose
    /\ OvertakenIsLogic

LEMMA QueuePackets ==
    ASSUME TypeOK
    PROVE  /\ commandQueue \in Seq(BusPacket)
           /\ \A i \in DOMAIN commandQueue :
                 /\ commandQueue[i] \in BusPacket
                 /\ commandQueue[i].rank \in Ranks /\ commandQueue[i].bank \in Banks
           /\ \A i \in Loose(commandQueue) : i \in DOMAIN commandQueue
           /\ \A i \in ACTs(commandQueue) : i \in DOMAIN commandQueue
           /\ DOMAIN commandQueue \subseteq Nat \ {0}
<1>1. commandQueue \in Seq(BusPacket)
  BY DEF TypeOK, ControllerTypeOK
<1>2. ASSUME NEW i \in DOMAIN commandQueue
      PROVE  commandQueue[i] \in BusPacket
  BY <1>1, LenProperties, ElementOfSeq
<1>3. ASSUME NEW i \in DOMAIN commandQueue
      PROVE  commandQueue[i].rank \in Ranks /\ commandQueue[i].bank \in Banks
  BY <1>2 DEF BusPacket
<1>4. QED
  BY <1>1, <1>2, <1>3, PlacesType

LEMMA QueueInit == Init => QueueAndBanks /\ QueueCounted
<1>1. SUFFICES ASSUME Init PROVE QueueAndBanks /\ QueueCounted
  OBVIOUS
<1>2. commandQueue = << >> /\ DOMAIN commandQueue = {} /\ waitingACTS = 0
  BY <1>1 DEF Init, ControllerInit
<1>3. ACTs(commandQueue) = {} /\ CASs(commandQueue) = {} /\ Loose(commandQueue) = {}
  BY <1>2 DEF ACTs, CASs, Loose
<1>4. ASSUME NEW r \in Ranks, NEW b \in Banks
      PROVE  Settled(bankStates[r][b]) /\ ~ IsOpen(bankStates[r][b])
  BY <1>1 DEF Init, ControllerInit, IdleBank, Settled, IsOpen
<1>5. Cardinality(CASs(commandQueue)) = 0
  BY <1>3, FS_EmptySet
<1>6. 0 <= CHANNEL_WORK_Q_MAX
  BY QueueAssumption
<1>7. QED
  BY <1>2, <1>3, <1>4, <1>5, <1>6
     DEF QueueAndBanks, WellFormed, Paired, DistinctCASs, BanksSettled, LooseFindsRow,
         OpenHasLoose, OvertakenIsLogic, QueueCounted

LEMMA KeptStep ==
    ASSUME TypeOK, QueueAndBanks, commandQueue' = commandQueue,
           \A r \in Ranks, b \in Banks :
              Settled(bankStates'[r][b]) /\ Kept(bankStates[r][b], bankStates'[r][b])
    PROVE  QueueAndBanks'
<1>1. BanksSettled' /\ WellFormed(commandQueue)' /\ OvertakenIsLogic'
  BY DEF QueueAndBanks, BanksSettled, OvertakenIsLogic
<1>2. LooseFindsRow'
  BY QueuePackets DEF QueueAndBanks, LooseFindsRow, Kept
<1>3. OpenHasLoose'
  BY DEF QueueAndBanks, OpenHasLoose, Kept
<1>4. QED
  BY <1>1, <1>2, <1>3 DEF QueueAndBanks

\* A transaction that joins the queue, at either end, brings nothing loose.
LEMMA TransactionAppended ==
    ASSUME NEW queue \in Seq(BusPacket), WellFormed(queue), NEW t \in Transaction,
           \A i \in CASs(queue) : queue[i].transactionID # t.transactionID
    PROVE  LET after == queue \o CommandsOf(t) IN
           /\ WellFormed(after)
           /\ Loose(after) = Loose(queue)
           /\ ACTs(after) \subseteq ACTs(queue) \union {Len(queue) + 1}
           /\ \A i \in DOMAIN queue : after[i] = queue[i]
           /\ Cardinality(CASs(after)) = Cardinality(CASs(queue)) + 1
<1>. DEFINE pair == CommandsOf(t)
            after == queue \o pair
<1>1. /\ pair \in Seq(BusPacket) /\ ACTs(pair) = {1} /\ CASs(pair) = {2}
      /\ pair[2].transactionID = t.transactionID
      /\ WellFormed(pair) /\ Loose(pair) = {}
  BY CommandsOfPair
<1>. HIDE DEF pair
<1>2. Disjoint(queue, pair)
  BY <1>1 DEF Disjoint
<1>3. WellFormed(after)
  BY <1>1, <1>2, ConcatWellFormed
<1>4. Len(queue) \in Nat /\ DOMAIN queue = 1 .. Len(queue) /\ Loose(queue) \subseteq DOMAIN queue
  BY PlacesType
<1>5. /\ after \in Seq(BusPacket)
      /\ \A i \in DOMAIN queue : after[i] = queue[i]
      /\ \A i \in Int : i \in ACTs(after) => i \in ACTs(queue) \/ i - Len(queue) \in ACTs(pair)
  BY <1>1, KindsConcat
<1>. HIDE DEF after
<1>6. Loose(after) \subseteq Int /\ ACTs(after) \subseteq Int
  BY <1>5, PlacesType
<1>7. Loose(after) = Loose(queue)
  <2>1. ASSUME NEW i \in Int PROVE i \in Loose(after) <=> i \in Loose(queue)
    BY <1>1, ConcatLoose DEF after
  <2>2. Loose(queue) \subseteq Int
    BY <1>4
  <2>3. QED
    BY <1>6, <2>1, <2>2
<1>8. ACTs(after) \subseteq ACTs(queue) \union {Len(queue) + 1}
  <2>1. ASSUME NEW i \in ACTs(after), i \notin ACTs(queue) PROVE i = Len(queue) + 1
    <3>1. i \in Int /\ i - Len(queue) = 1
      BY <1>1, <1>5, <1>6, <2>1
    <3>2. QED
      BY <1>4, <3>1
  <2>2. QED
    BY <2>1
<1>9. Cardinality(CASs(after)) = Cardinality(CASs(queue)) + 1
  <2>1. Cardinality(CASs(pair)) = 1
    BY <1>1, FS_Singleton
  <2>2. QED
    BY <1>1, <2>1, ConcatCounted DEF after
<1>10. QED
  BY <1>3, <1>5, <1>7, <1>8, <1>9 DEF after, pair

LEMMA TransactionPrepended ==
    ASSUME NEW queue \in Seq(BusPacket), WellFormed(queue), NEW t \in Transaction,
           \A i \in CASs(queue) : queue[i].transactionID # t.transactionID
    PROVE  LET after == CommandsOf(t) \o queue IN
           /\ WellFormed(after)
           /\ \A i \in Loose(after) :
                 i \in Int /\ i - 2 \in Loose(queue) /\ after[i] = queue[i - 2]
           /\ \A i \in Loose(queue) : i + 2 \in Loose(after) /\ after[i + 2] = queue[i]
           /\ \A k \in ACTs(after) :
                 /\ k \in Int
                 /\ \/ after[k].fromLogicOp = t.originatedFromLogicOp
                    \/ k - 2 \in ACTs(queue) /\ after[k] = queue[k - 2]
           /\ Cardinality(CASs(after)) = Cardinality(CASs(queue)) + 1
<1>. DEFINE pair == CommandsOf(t)
            after == pair \o queue
<1>1. /\ pair \in Seq(BusPacket) /\ Len(pair) = 2
      /\ ACTs(pair) = {1} /\ CASs(pair) = {2}
      /\ pair[1].fromLogicOp = t.originatedFromLogicOp
      /\ pair[2].transactionID = t.transactionID
      /\ WellFormed(pair) /\ Loose(pair) = {}
  BY CommandsOfPair
<1>. HIDE DEF pair
<1>2. Disjoint(pair, queue)
  BY <1>1 DEF Disjoint
<1>3. WellFormed(after)
  BY <1>1, <1>2, ConcatWellFormed
<1>4. /\ Len(queue) \in Nat /\ DOMAIN queue = 1 .. Len(queue)
      /\ Loose(queue) \subseteq DOMAIN queue /\ ACTs(queue) \subseteq DOMAIN queue
      /\ ACTs(pair) \subseteq DOMAIN pair
  BY <1>1, PlacesType
<1>5. /\ after \in Seq(BusPacket)
      /\ \A i \in DOMAIN queue : after[2 + i] = queue[i]
      /\ \A i \in DOMAIN pair : after[i] = pair[i]
      /\ \A i \in Int : i \in ACTs(after) => i \in ACTs(pair) \/ i - 2 \in ACTs(queue)
  BY <1>1, KindsConcat
<1>. HIDE DEF after
<1>6. Loose(after) \subseteq Int /\ ACTs(after) \subseteq Int
  BY <1>5, PlacesType
<1>7. ASSUME NEW i \in Int PROVE i \in Loose(after) <=> i - 2 \in Loose(queue)
  BY <1>1, <1>7, ConcatLoose DEF after
<1>8. ASSUME NEW i \in Loose(after)
      PROVE  i \in Int /\ i - 2 \in Loose(queue) /\ after[i] = queue[i - 2]
  <2>1. i \in Int /\ i - 2 \in Loose(queue)
    BY <1>6, <1>7
  <2>2. after[2 + (i - 2)] = queue[i - 2]
    BY <1>4, <1>5, <2>1
  <2>3. 2 + (i - 2) = i
    BY <2>1
  <2>4. QED
    BY <2>1, <2>2, <2>3
<1>9. ASSUME NEW i \in Loose(queue)
      PROVE  i + 2 \in Loose(after) /\ after[i + 2] = queue[i]
  <2>1. i \in Int /\ i \in DOMAIN queue /\ (i + 2) - 2 = i /\ 2 + i = i + 2
    BY <1>4
  <2>2. i + 2 \in Int /\ after[2 + i] = queue[i]
    BY <1>5, <2>1
  <2>3. QED
    BY <1>7, <2>1, <2>2
<1>10. ASSUME NEW k \in ACTs(after)
       PROVE  /\ k \in Int
              /\ \/ after[k].fromLogicOp = t.originatedFromLogicOp
                 \/ k - 2 \in ACTs(queue) /\ after[k] = queue[k - 2]
  <2>1. k \in Int /\ 2 + (k - 2) = k
    BY <1>6
  <2>2. k \in ACTs(pair) \/ k - 2 \in ACTs(queue)
    BY <1>5, <2>1
  <2>3. CASE k \in ACTs(pair)
    <3>1. k = 1 /\ after[1] = pair[1]
      BY <1>1, <1>4, <1>5, <2>3
    <3>2. QED
      BY <1>1, <2>1, <3>1
  <2>4. CASE k - 2 \in ACTs(queue)
    <3>1. after[2 + (k - 2)] = queue[k - 2]
      BY <1>4, <1>5, <2>4
    <3>2. QED
      BY <2>1, <2>4, <3>1
  <2>5. QED
    BY <2>2, <2>3, <2>4
<1>11. Cardinality(CASs(after)) = Cardinality(CASs(queue)) + 1
  <2>1. Cardinality(CASs(pair)) = 1
    BY <1>1, FS_Singleton
  <2>2. Cardinality(CASs(after)) = 1 + Cardinality(CASs(queue))
    BY <1>1, <2>1, ConcatCounted DEF after
  <2>3. Cardinality(CASs(queue)) \in Nat
    BY PlacesType, FS_CardinalityType
  <2>4. QED
    BY <2>2, <2>3
<1>12. QED
  BY <1>3, <1>8, <1>9, <1>10, <1>11 DEF after, pair

LEMMA AddStep ==
    ASSUME TypeOK, QueueAndBanks, QueueCounted, NEW t \in Transaction, AddTransaction(t)
    PROVE  QueueAndBanks' /\ QueueCounted'
<1>1. /\ commandQueue \in Seq(BusPacket) /\ WellFormed(commandQueue)
      /\ DOMAIN commandQueue = 1 .. Len(commandQueue) /\ Len(commandQueue) \in Nat
      /\ Loose(commandQueue) \subseteq DOMAIN commandQueue
      /\ ACTs(commandQueue) \subseteq DOMAIN commandQueue
      /\ CASs(commandQueue) \subseteq DOMAIN commandQueue
  BY QueuePackets, PlacesType DEF QueueAndBanks
<1>2. ASSUME NEW i \in CASs(commandQueue)
      PROVE  commandQueue[i].transactionID # t.transactionID
  <2>1. commandQueue[i] \in PacketsOf(commandQueue)
    BY <1>1 DEF PacketsOf
  <2>2. commandQueue[i].transactionID \in LiveIDs
    BY <2>1 DEF LiveIDs, PacketsInChannel
  <2>3. QED
    BY <2>2 DEF AddTransaction
<1>3. /\ commandQueue' = IF GIVE_LOGIC_PRIORITY /\ t.originatedFromLogicOp
                         THEN CommandsOf(t) \o commandQueue ELSE commandQueue \o CommandsOf(t)
      /\ bankStates' = bankStates
      /\ waitingACTS' = waitingACTS + 1 /\ waitingACTS < CHANNEL_WORK_Q_MAX
  BY DEF AddTransaction, EnqueueCommands
<1>4. BanksSettled'
  BY <1>3 DEF QueueAndBanks, BanksSettled
<1>5. Cardinality(CASs(commandQueue')) = Cardinality(CASs(commandQueue)) + 1 => QueueCounted'
  <2>1. Cardinality(CASs(commandQueue)) \in Nat
    BY <1>1, PlacesType, FS_CardinalityType
  <2>2. QED
    BY <1>3, <2>1, QueueAssumption DEF QueueCounted
<1>6. CASE commandQueue' = commandQueue \o CommandsOf(t)
  <2>1. /\ WellFormed(commandQueue') /\ Loose(commandQueue') = Loose(commandQueue)
        /\ ACTs(commandQueue') \subseteq ACTs(commandQueue) \union {Len(commandQueue) + 1}
        /\ \A i \in DOMAIN commandQueue : commandQueue'[i] = commandQueue[i]
        /\ Cardinality(CASs(commandQueue')) = Cardinality(CASs(commandQueue)) + 1
    <3> DEFINE after == commandQueue \o CommandsOf(t)
    <3>1. /\ WellFormed(after) /\ Loose(after) = Loose(commandQueue)
          /\ ACTs(after) \subseteq ACTs(commandQueue) \union {Len(commandQueue) + 1}
          /\ \A i \in DOMAIN commandQueue : after[i] = commandQueue[i]
          /\ Cardinality(CASs(after)) = Cardinality(CASs(commandQueue)) + 1
      BY <1>1, <1>2, TransactionAppended, Zenon
    <3>2. commandQueue' = after
      BY <1>6
    <3>3. QED
      <4> HIDE DEF after
      <4>1. QED
        BY <3>1, <3>2
  <2>2. \A i \in Loose(commandQueue) : commandQueue'[i] = commandQueue[i]
    BY <1>1, <2>1
  <2>3. LooseFindsRow'
    <3>1. SUFFICES ASSUME NEW i \in Loose(commandQueue')
                   PROVE  LET p == commandQueue'[i] IN
                          /\ IsOpen(bankStates[p.rank][p.bank])
                          /\ bankStates[p.rank][p.bank].openRowAddress = p.row
                          /\ \A j \in Loose(commandQueue') :
                                SameBank(p, commandQueue'[j]) => j = i
      BY <1>3 DEF LooseFindsRow
    <3>2. i \in Loose(commandQueue) /\ commandQueue'[i] = commandQueue[i]
      BY <2>1, <2>2, <3>1
    <3>3. ASSUME NEW j \in Loose(commandQueue'), SameBank(commandQueue'[i], commandQueue'[j])
          PROVE  j = i
      BY <2>1, <2>2, <3>2, <3>3 DEF QueueAndBanks, LooseFindsRow
    <3>4. QED
      BY <3>2, <3>3 DEF QueueAndBanks, LooseFindsRow
  <2>4. OpenHasLoose'
    <3>1. SUFFICES ASSUME NEW r \in Ranks, NEW b \in Banks, IsOpen(bankStates[r][b])
                   PROVE  \E i \in Loose(commandQueue') :
                              commandQueue'[i].rank = r /\ commandQueue'[i].bank = b
      BY <1>3 DEF OpenHasLoose
    <3>2. PICK i \in Loose(commandQueue) :
              commandQueue[i].rank = r /\ commandQueue[i].bank = b
      BY <3>1 DEF QueueAndBanks, OpenHasLoose
    <3>3. QED
      BY <2>1, <2>2, <3>2
  <2>5. ASSUME NEW i \in Loose(commandQueue'), NEW k \in ACTs(commandQueue'), k < i
        PROVE  /\ i \in Loose(commandQueue) /\ k \in ACTs(commandQueue)
               /\ commandQueue'[i] = commandQueue[i] /\ commandQueue'[k] = commandQueue[k]
    BY <1>1, <2>1, <2>5
  <2>6. OvertakenIsLogic'
    BY <2>5 DEF QueueAndBanks, OvertakenIsLogic
  <2>7. QED
    BY <1>4, <1>5, <2>1, <2>3, <2>4, <2>6 DEF QueueAndBanks
<1>7. CASE commandQueue' = CommandsOf(t) \o commandQueue /\ t.originatedFromLogicOp
  <2>1. /\ WellFormed(commandQueue')
        /\ \A i \in Loose(commandQueue') :
              /\ i \in Int /\ i - 2 \in Loose(commandQueue)
              /\ commandQueue'[i] = commandQueue[i - 2]
        /\ \A i \in Loose(commandQueue) :
              i + 2 \in Loose(commandQueue') /\ commandQueue'[i + 2] = commandQueue[i]
        /\ \A k \in ACTs(commandQueue') :
              /\ k \in Int
              /\ \/ commandQueue'[k].fromLogicOp = t.originatedFromLogicOp
                 \/ /\ k - 2 \in ACTs(commandQueue)
                    /\ commandQueue'[k] = commandQueue[k - 2]
        /\ Cardinality(CASs(commandQueue')) = Cardinality(CASs(commandQueue)) + 1
    <3> DEFINE after == CommandsOf(t) \o commandQueue
    <3>1. /\ WellFormed(after)
          /\ \A i \in Loose(after) :
                i \in Int /\ i - 2 \in Loose(commandQueue) /\ after[i] = commandQueue[i - 2]
          /\ \A i \in Loose(commandQueue) :
                i + 2 \in Loose(after) /\ after[i + 2] = commandQueue[i]
          /\ \A k \in ACTs(after) :
                /\ k \in Int
                /\ \/ after[k].fromLogicOp = t.originatedFromLogicOp
                   \/ k - 2 \in ACTs(commandQueue) /\ after[k] = commandQueue[k - 2]
          /\ Cardinality(CASs(after)) = Cardinality(CASs(commandQueue)) + 1
      BY <1>1, <1>2, TransactionPrepended, Zenon
    <3>2. commandQueue' = after
      BY <1>7
    <3>3. QED
      <4> HIDE DEF after
      <4>1. QED
        BY <3>1, <3>2
  <2>2. LooseFindsRow'
    <3>1. SUFFICES ASSUME NEW i \in Loose(commandQueue')
                   PROVE  LET p == commandQueue'[i] IN
                          /\ IsOpen(bankStates[p.rank][p.bank])
                          /\ bankStates[p.rank][p.bank].openRowAddress = p.row
                          /\ \A j \in Loose(commandQueue') :
                                SameBank(p, commandQueue'[j]) => j = i
      BY <1>3 DEF LooseFindsRow
    <3>2. ASSUME NEW j \in Loose(commandQueue'), SameBank(commandQueue'[i], commandQueue'[j])
          PROVE  j = i
      <4>1. j - 2 = i - 2
        BY <2>1, <3>2 DEF QueueAndBanks, LooseFindsRow
      <4>2. QED
        BY <2>1, <4>1
    <3>3. QED
      BY <2>1, <3>2 DEF QueueAndBanks, LooseFindsRow
  <2>3. OpenHasLoose'
    <3>1. SUFFICES ASSUME NEW r \in Ranks, NEW b \in Banks, IsOpen(bankStates[r][b])
                   PROVE  \E i \in Loose(commandQueue') :
                              commandQueue'[i].rank = r /\ commandQueue'[i].bank = b
      BY <1>3 DEF OpenHasLoose
    <3>2. PICK i \in Loose(commandQueue) :
              commandQueue[i].rank = r /\ commandQueue[i].bank = b
      BY <3>1 DEF QueueAndBanks, OpenHasLoose
    <3>3. QED
      BY <2>1, <3>2
  <2>4. ASSUME NEW i \in Loose(commandQueue'), NEW k \in ACTs(commandQueue'), k < i,
               SameBank(commandQueue'[k], commandQueue'[i])
        PROVE  commandQueue'[k].fromLogicOp
    <3>1. CASE commandQueue'[k].fromLogicOp = t.originatedFromLogicOp
      BY <1>7, <3>1
    <3>2. CASE k - 2 \in ACTs(commandQueue) /\ commandQueue'[k] = commandQueue[k - 2]
      <4>1. k - 2 < i - 2
        BY <2>1, <2>4
      <4>2. QED
        BY <2>1, <2>4, <3>2, <4>1 DEF QueueAndBanks, OvertakenIsLogic
    <3>3. QED
      BY <2>1, <3>1, <3>2
  <2>5. OvertakenIsLogic'
    BY <2>4 DEF OvertakenIsLogic
  <2>6. QED
    BY <1>4, <1>5, <2>1, <2>2, <2>3, <2>5 DEF QueueAndBanks
<1>8. QED
  BY <1>3, <1>6, <1>7


\* What is sent follows no ACTIVATE.
LEMMA SelectedIsFree ==
    ASSUME TypeOK, QueueAndBanks, NEW k \in DOMAIN commandQueue,
           NEW queued, NEW outstanding, Selected(k, queued, outstanding)
    PROVE  k - 1 \notin ACTs(commandQueue)
<1>1. commandQueue \in Seq(BusPacket) /\ WellFormed(commandQueue)
  BY QueuePackets DEF QueueAndBanks
<1>2. ~ FollowsItsActivate(k)
  BY DEF Selected, CanSend
<1>3. QED
  BY <1>1, <1>2, FollowsIsPaired DEF FollowsItsActivate

\* The places of the packets that stay when the k-th is sent.
LEMMA SentPlaces ==
    ASSUME TypeOK, QueueAndBanks, NEW k \in DOMAIN commandQueue,
           k - 1 \notin ACTs(commandQueue)
    PROVE  LET after == Without(commandQueue, k) IN
           /\ WellFormed(after)
           /\ \A i \in Loose(after) :
                 /\ i \in Nat /\ i \in DOMAIN after
                 /\ after[i] = commandQueue[Was(k, i)]
                 /\ Was(k, i) \in CASs(commandQueue) /\ Was(k, i) # k
                 /\ \/ Was(k, i) \in Loose(commandQueue)
                    \/ k \in ACTs(commandQueue) /\ Was(k, i) = k + 1
           /\ \A m \in ACTs(after) :
                 /\ m \in Nat /\ after[m] = commandQueue[Was(k, m)]
                 /\ Was(k, m) \in ACTs(commandQueue) /\ Was(k, m) # k
           /\ \A j \in CASs(commandQueue) :
                 (/\ j # k
                  /\ (j \in Loose(commandQueue) \/ (k \in ACTs(commandQueue) /\ j = k + 1)))
                 => \E i \in Loose(after) : after[i] = commandQueue[j]
           /\ Cardinality(CASs(after)) =
                 IF k \in CASs(commandQueue) THEN Cardinality(CASs(commandQueue)) - 1
                                             ELSE Cardinality(CASs(commandQueue))
<1>. DEFINE after == Without(commandQueue, k)
<1>1. commandQueue \in Seq(BusPacket) /\ WellFormed(commandQueue) /\ k \in Nat
  BY QueuePackets DEF QueueAndBanks
<1>2. /\ after \in Seq(BusPacket) /\ DOMAIN after \subseteq Nat \ {0}
      /\ \A i \in DOMAIN after : /\ Was(k, i) \in DOMAIN commandQueue
                                 /\ after[i] = commandQueue[Was(k, i)]
      /\ \A j \in DOMAIN commandQueue \ {k} : \E i \in DOMAIN after : Was(k, i) = j
  BY <1>1, WithoutPlaces
<1>3. WellFormed(after)
  BY <1>1, WithoutWellFormed
<1>4. /\ \A i \in Loose(after) : i \in DOMAIN after /\ i \in CASs(after)
      /\ \A m \in ACTs(after) : m \in DOMAIN after
  BY <1>2, PlacesType
<1>5. \A i \in DOMAIN after : i \in Loose(after) <=>
          \/ Was(k, i) \in Loose(commandQueue)
          \/ k \in ACTs(commandQueue) /\ Was(k, i) = k + 1
  BY <1>1, WithoutLoose
<1>6. \A i \in DOMAIN after :
          /\ i \in ACTs(after) <=> Was(k, i) \in ACTs(commandQueue)
          /\ i \in CASs(after) <=> Was(k, i) \in CASs(commandQueue)
  BY <1>1, KindsWithout
<1>7. \A i \in DOMAIN after : i \in Nat /\ Was(k, i) # k
  BY <1>1, <1>2, WasProperties
<1>8. Cardinality(CASs(after)) =
          IF k \in CASs(commandQueue) THEN Cardinality(CASs(commandQueue)) - 1
                                      ELSE Cardinality(CASs(commandQueue))
  BY <1>1, WithoutCounted
<1>. HIDE DEF after
<1>9. ASSUME NEW j \in CASs(commandQueue), j # k,
             (j \in Loose(commandQueue) \/ (k \in ACTs(commandQueue) /\ j = k + 1))
      PROVE  \E i \in Loose(after) : after[i] = commandQueue[j]
  <2>1. PICK i \in DOMAIN after : Was(k, i) = j
    BY <1>1, <1>2, <1>9, PlacesType
  <2>2. i \in Loose(after) /\ after[i] = commandQueue[j]
    BY <1>2, <1>5, <1>9, <2>1
  <2>3. QED
    BY <2>2
<1>10. ASSUME NEW i \in Loose(after)
       PROVE  /\ i \in Nat /\ i \in DOMAIN after
              /\ after[i] = commandQueue[Was(k, i)]
              /\ Was(k, i) \in CASs(commandQueue) /\ Was(k, i) # k
              /\ \/ Was(k, i) \in Loose(commandQueue)
                 \/ k \in ACTs(commandQueue) /\ Was(k, i) = k + 1
  BY <1>2, <1>4, <1>5, <1>6, <1>7
<1>11. ASSUME NEW m \in ACTs(after)
       PROVE  /\ m \in Nat /\ after[m] = commandQueue[Was(k, m)]
              /\ Was(k, m) \in ACTs(commandQueue) /\ Was(k, m) # k
  BY <1>2, <1>4, <1>6, <1>7
<1>12. QED
  BY <1>3, <1>8, <1>9, <1>10, <1>11 DEF after

LEMMA CASStep ==
    ASSUME TypeOK, QueueAndBanks, QueueCounted, NEW k \in DOMAIN commandQueue,
           NEW queued, NEW outstanding,
           \/ ControllerRead(k, queued, outstanding)
           \/ ControllerWrite(k, queued, outstanding)
    PROVE  QueueAndBanks' /\ QueueCounted'
<1>. DEFINE p == commandQueue[k]
            after == Without(commandQueue, k)
<1>1. /\ Selected(k, queued, outstanding) /\ k \in CASs(commandQueue)
      /\ commandQueue' = after /\ waitingACTS' = waitingACTS - 1
      /\ \/ bankStates' = TickBanks(BanksAfterRead(p))
         \/ bankStates' = TickBanks(BanksAfterWrite(p))
  BY DEF ControllerRead, ControllerWrite, CASs, IsCAS
<1>2. p \in BusPacket /\ k \in Nat /\ commandQueue \in Seq(BusPacket)
  BY QueuePackets
<1>3. k - 1 \notin ACTs(commandQueue)
  BY <1>1, SelectedIsFree
<1>4. k \in Loose(commandQueue) /\ k \notin ACTs(commandQueue)
  BY <1>1, <1>2, <1>3, PlacesType DEF Loose
<1>5. RowOpen(BanksNow[p.rank][p.bank], p.row)
  BY <1>1 DEF Selected, CanSend, IsIssuable, CASIsReady, CASs, IsCAS
<1>6. /\ WellFormed(after)
      /\ \A i \in Loose(after) :
            /\ i \in Nat /\ after[i] = commandQueue[Was(k, i)]
            /\ Was(k, i) \in Loose(commandQueue) /\ Was(k, i) # k
      /\ \A m \in ACTs(after) :
            /\ m \in Nat /\ after[m] = commandQueue[Was(k, m)]
            /\ Was(k, m) \in ACTs(commandQueue)
      /\ \A j \in Loose(commandQueue) \ {k} :
            \E i \in Loose(after) : after[i] = commandQueue[j]
      /\ Cardinality(CASs(after)) = Cardinality(CASs(commandQueue)) - 1
  <2>. HIDE DEF after
  <2>1. /\ WellFormed(after)
        /\ \A i \in Loose(after) :
              /\ i \in Nat /\ after[i] = commandQueue[Was(k, i)] /\ Was(k, i) # k
              /\ \/ Was(k, i) \in Loose(commandQueue)
                 \/ k \in ACTs(commandQueue) /\ Was(k, i) = k + 1
        /\ \A m \in ACTs(after) :
              /\ m \in Nat /\ after[m] = commandQueue[Was(k, m)]
              /\ Was(k, m) \in ACTs(commandQueue)
        /\ \A j \in CASs(commandQueue) :
              (/\ j # k
               /\ (j \in Loose(commandQueue) \/ (k \in ACTs(commandQueue) /\ j = k + 1)))
              => \E i \in Loose(after) : after[i] = commandQueue[j]
        /\ Cardinality(CASs(after)) =
              IF k \in CASs(commandQueue) THEN Cardinality(CASs(commandQueue)) - 1
                                          ELSE Cardinality(CASs(commandQueue))
    BY <1>3, SentPlaces DEF after
  <2>2. Loose(commandQueue) \subseteq CASs(commandQueue)
    BY DEF Loose
  <2>3. ASSUME NEW j \in Loose(commandQueue) \ {k}
        PROVE  \E i \in Loose(after) : after[i] = commandQueue[j]
    <3>1. j \in CASs(commandQueue) /\ j # k /\ j \in Loose(commandQueue)
      BY <2>2
    <3>2. QED
      BY <2>1, <3>1
  <2>4. QED
    BY <1>1, <1>4, <2>1, <2>3
<1>7. ASSUME NEW r \in Ranks, NEW b \in Banks
      PROVE  /\ Settled(bankStates'[r][b])
             /\ IF r = p.rank /\ b = p.bank THEN ~ IsOpen(bankStates'[r][b])
                ELSE Kept(bankStates[r][b], bankStates'[r][b])
  BY <1>1, <1>2, <1>5, CASBanks DEF QueueAndBanks
<1>8. BanksSettled'
  BY <1>7 DEF BanksSettled
<1>. HIDE DEF after, p
<1>9. ASSUME NEW i \in Loose(after)
      PROVE  /\ IsOpen(bankStates'[after[i].rank][after[i].bank])
             /\ bankStates'[after[i].rank][after[i].bank].openRowAddress = after[i].row
             /\ \A j \in Loose(after) : SameBank(after[i], after[j]) => j = i
  <2>. DEFINE w == Was(k, i)
  <2>1. w \in Loose(commandQueue) /\ w # k /\ after[i] = commandQueue[w] /\ i \in Nat
    BY <1>6
  <2>2. after[i].rank \in Ranks /\ after[i].bank \in Banks
    BY <2>1, QueuePackets
  <2>3. ~ SameBank(after[i], p)
    BY <1>4, <2>1 DEF QueueAndBanks, LooseFindsRow, p
  <2>4. Kept(bankStates[after[i].rank][after[i].bank], bankStates'[after[i].rank][after[i].bank])
    BY <1>7, <2>2, <2>3 DEF SameBank
  <2>5. /\ IsOpen(bankStates[after[i].rank][after[i].bank])
        /\ bankStates[after[i].rank][after[i].bank].openRowAddress = after[i].row
    BY <2>1 DEF QueueAndBanks, LooseFindsRow
  <2>6. ASSUME NEW j \in Loose(after), SameBank(after[i], after[j])
        PROVE  j = i
    <3>1. Was(k, j) = w
      BY <1>6, <2>1, <2>6 DEF QueueAndBanks, LooseFindsRow
    <3>2. QED
      BY <1>2, <1>6, <2>1, <3>1, WasProperties
  <2>7. QED
    BY <2>4, <2>5, <2>6 DEF Kept
<1>10. LooseFindsRow'
  BY <1>1, <1>9 DEF LooseFindsRow
<1>11. ASSUME NEW r \in Ranks, NEW b \in Banks, IsOpen(bankStates'[r][b])
       PROVE  \E i \in Loose(after) : after[i].rank = r /\ after[i].bank = b
  <2>1. ~ (r = p.rank /\ b = p.bank) /\ IsOpen(bankStates[r][b])
    BY <1>7, <1>11 DEF Kept
  <2>2. PICK j \in Loose(commandQueue) : commandQueue[j].rank = r /\ commandQueue[j].bank = b
    BY <2>1 DEF QueueAndBanks, OpenHasLoose
  <2>3. j # k
    BY <2>1, <2>2 DEF p
  <2>4. PICK i \in Loose(after) : after[i] = commandQueue[j]
    BY <1>6, <2>3
  <2>5. QED
    BY <2>2, <2>4
<1>12. OpenHasLoose'
  BY <1>1, <1>11 DEF OpenHasLoose
<1>13. ASSUME NEW i \in Loose(after), NEW m \in ACTs(after), m < i, SameBank(after[m], after[i])
       PROVE  after[m].fromLogicOp
  <2>1. Was(k, m) < Was(k, i)
    BY <1>2, <1>6, <1>13, WasProperties
  <2>2. QED
    BY <1>6, <1>13, <2>1 DEF QueueAndBanks, OvertakenIsLogic
<1>14. OvertakenIsLogic'
  BY <1>1, <1>13 DEF OvertakenIsLogic
<1>15. QueueCounted'
  <2>1. Cardinality(CASs(commandQueue)) \in Nat
    BY <1>2, PlacesType, FS_CardinalityType
  <2>2. QED
    BY <1>1, <1>6, <2>1, QueueAssumption DEF QueueCounted
<1>16. QED
  BY <1>1, <1>6, <1>8, <1>10, <1>12, <1>14, <1>15 DEF QueueAndBanks


\* The ACTIVATE that is sent is the first to its bank, which no CAS has open: an older one
\* would have been sent in its place.
LEMMA ActivateIsFirst ==
    ASSUME TypeOK, QueueAndBanks, NEW k \in DOMAIN commandQueue,
           NEW queued, NEW outstanding,
           ControllerActivate(k, queued, outstanding)
    PROVE  /\ \A j \in Loose(commandQueue) : ~ SameBank(commandQueue[j], commandQueue[k])
           /\ \A m \in ACTs(commandQueue) :
                 m < k => ~ SameBank(commandQueue[m], commandQueue[k])
<1>. DEFINE p == commandQueue[k]
<1>1. /\ Selected(k, queued, outstanding) /\ k \in ACTs(commandQueue)
      /\ bankStates' = TickBanks(BanksAfterActivateCommand(p))
  BY DEF ControllerActivate, ACTs
<1>2. p \in BusPacket /\ k \in Nat \ {0} /\ commandQueue \in Seq(BusPacket)
  BY QueuePackets
<1>3. ActivateIsReady(p) /\ Quiet(BanksNow[p.rank][p.bank])
  BY <1>1 DEF Selected, CanSend, IsIssuable, ActivateIsReady, ACTs
<1>4. ~ IsOpen(bankStates[p.rank][p.bank])
  BY <1>1, <1>2, <1>3, ActivateBanks DEF QueueAndBanks, BusPacket
<1>5. \A j \in Loose(commandQueue) : ~ SameBank(commandQueue[j], p)
  BY <1>4 DEF QueueAndBanks, LooseFindsRow, SameBank
<1>6. \A m \in ACTs(commandQueue) : m < k => ~ SameBank(commandQueue[m], p)
  <2>1. SUFFICES ASSUME NEW m \in ACTs(commandQueue), m < k, SameBank(commandQueue[m], p)
                 PROVE  FALSE
    OBVIOUS
  <2>2. m \in DOMAIN commandQueue /\ m \in 1 .. k - 1
    BY <1>2, <2>1, QueuePackets
  <2>3. IsIssuable(commandQueue[m], queued, outstanding)
    BY <1>3, <2>1 DEF IsIssuable, ActivateIsReady, SameBank, ACTs
  <2>4. FollowsItsActivate(m)
    BY <1>1, <2>2, <2>3 DEF Selected, CanSend
  <2>5. m - 1 \in ACTs(commandQueue)
    BY <1>2, <2>2, <2>4, FollowsIsPaired DEF FollowsItsActivate, QueueAndBanks
  <2>6. m \in CASs(commandQueue)
    <3>1. (m - 1) + 1 \in CASs(commandQueue)
      BY <2>5 DEF QueueAndBanks, WellFormed, Paired
    <3>2. QED
      BY <2>2, <3>1
  <2>7. QED
    BY <1>2, <2>1, <2>6, PlacesType
<1>7. QED
  BY <1>5, <1>6

LEMMA ActivateStep ==
    ASSUME TypeOK, QueueAndBanks, QueueCounted, NEW k \in DOMAIN commandQueue,
           NEW queued, NEW outstanding,
           ControllerActivate(k, queued, outstanding)
    PROVE  QueueAndBanks' /\ QueueCounted'
<1>. DEFINE p == commandQueue[k]
            after == Without(commandQueue, k)
<1>1. /\ Selected(k, queued, outstanding) /\ k \in ACTs(commandQueue)
      /\ commandQueue' = after /\ waitingACTS' = waitingACTS
      /\ bankStates' = TickBanks(BanksAfterActivateCommand(p))
  BY DEF ControllerActivate, ACTs
<1>2. p \in BusPacket /\ k \in Nat \ {0} /\ commandQueue \in Seq(BusPacket)
  BY QueuePackets
<1>3. k - 1 \notin ACTs(commandQueue)
  BY <1>1, SelectedIsFree
<1>4. /\ k \notin CASs(commandQueue) /\ k + 1 \in CASs(commandQueue)
      /\ SameBank(p, commandQueue[k + 1]) /\ p.row = commandQueue[k + 1].row
  BY <1>1, <1>2, PlacesType DEF QueueAndBanks, WellFormed, Paired, SameTransaction
<1>5. ActivateIsReady(p) /\ Quiet(BanksNow[p.rank][p.bank])
  BY <1>1 DEF Selected, CanSend, IsIssuable, ActivateIsReady, ACTs
<1>6. /\ WellFormed(after)
      /\ \A i \in Loose(after) :
            /\ i \in Nat /\ after[i] = commandQueue[Was(k, i)] /\ Was(k, i) # k
            /\ Was(k, i) \in Loose(commandQueue) \/ Was(k, i) = k + 1
      /\ \A m \in ACTs(after) :
            /\ m \in Nat /\ after[m] = commandQueue[Was(k, m)]
            /\ Was(k, m) \in ACTs(commandQueue) /\ Was(k, m) # k
      /\ \A j \in Loose(commandQueue) \union {k + 1} :
            \E i \in Loose(after) : after[i] = commandQueue[j]
      /\ Cardinality(CASs(after)) = Cardinality(CASs(commandQueue))
  <2>. HIDE DEF after
  <2>1. /\ WellFormed(after)
        /\ \A i \in Loose(after) :
              /\ i \in Nat /\ after[i] = commandQueue[Was(k, i)] /\ Was(k, i) # k
              /\ \/ Was(k, i) \in Loose(commandQueue)
                 \/ k \in ACTs(commandQueue) /\ Was(k, i) = k + 1
        /\ \A m \in ACTs(after) :
              /\ m \in Nat /\ after[m] = commandQueue[Was(k, m)]
              /\ Was(k, m) \in ACTs(commandQueue) /\ Was(k, m) # k
        /\ \A j \in CASs(commandQueue) :
              (/\ j # k
               /\ (j \in Loose(commandQueue) \/ (k \in ACTs(commandQueue) /\ j = k + 1)))
              => \E i \in Loose(after) : after[i] = commandQueue[j]
        /\ Cardinality(CASs(after)) =
              IF k \in CASs(commandQueue) THEN Cardinality(CASs(commandQueue)) - 1
                                          ELSE Cardinality(CASs(commandQueue))
    BY <1>3, SentPlaces DEF after
  <2>2. Loose(commandQueue) \subseteq CASs(commandQueue)
    BY DEF Loose
  <2>3. ASSUME NEW j \in Loose(commandQueue) \union {k + 1}
        PROVE  \E i \in Loose(after) : after[i] = commandQueue[j]
    <3>1. /\ j \in CASs(commandQueue) /\ j # k
          /\ (j \in Loose(commandQueue) \/ (k \in ACTs(commandQueue) /\ j = k + 1))
      BY <1>1, <1>4, <2>2
    <3>2. QED
      BY <2>1, <3>1
  <2>4. QED
    BY <1>1, <1>4, <2>1, <2>3
<1>7. ASSUME NEW r \in Ranks, NEW b \in Banks
      PROVE  /\ Settled(bankStates'[r][b])
             /\ IF r = p.rank /\ b = p.bank
                THEN /\ ~ IsOpen(bankStates[r][b]) /\ IsOpen(bankStates'[r][b])
                     /\ bankStates'[r][b].openRowAddress = p.row
                ELSE Kept(bankStates[r][b], bankStates'[r][b])
  BY <1>1, <1>2, <1>5, ActivateBanks DEF QueueAndBanks
<1>8. BanksSettled'
  BY <1>7 DEF BanksSettled
<1>9. /\ \A j \in Loose(commandQueue) : ~ SameBank(commandQueue[j], p)
      /\ \A m \in ACTs(commandQueue) : m < k => ~ SameBank(commandQueue[m], p)
  BY ActivateIsFirst
<1>. HIDE DEF after, p
<1>11. ASSUME NEW i \in Loose(after)
      PROVE  /\ IsOpen(bankStates'[after[i].rank][after[i].bank])
             /\ bankStates'[after[i].rank][after[i].bank].openRowAddress = after[i].row
             /\ \A j \in Loose(after) : SameBank(after[i], after[j]) => j = i
  <2>. DEFINE w == Was(k, i)
  <2>1. /\ w # k /\ after[i] = commandQueue[w] /\ i \in Nat
        /\ w \in Loose(commandQueue) \/ w = k + 1
    BY <1>6
  <2>2. /\ after[i].rank \in Ranks /\ after[i].bank \in Banks
        /\ p.rank \in Ranks /\ p.bank \in Banks
    BY <1>2, <1>4, <2>1, QueuePackets, PlacesType DEF BusPacket
  <2>. HIDE DEF w
  <2>3. CASE w \in Loose(commandQueue)
    <3>1. ~ SameBank(after[i], p)
      BY <1>9, <2>1, <2>3
    <3>2. Kept(bankStates[after[i].rank][after[i].bank],
               bankStates'[after[i].rank][after[i].bank])
      BY <1>7, <2>2, <3>1 DEF SameBank
    <3>3. /\ IsOpen(bankStates[after[i].rank][after[i].bank])
          /\ bankStates[after[i].rank][after[i].bank].openRowAddress = after[i].row
      BY <2>1, <2>3 DEF QueueAndBanks, LooseFindsRow
    <3>4. ASSUME NEW j \in Loose(after), SameBank(after[i], after[j])
          PROVE  j = i
      <4>1. Was(k, j) # k + 1
        BY <1>4, <1>6, <3>1, <3>4 DEF SameBank
      <4>2. Was(k, j) = w
        BY <1>6, <2>1, <2>3, <3>4, <4>1 DEF QueueAndBanks, LooseFindsRow
      <4>3. QED
        BY <1>2, <1>6, <2>1, <4>2, WasProperties DEF w
    <3>5. QED
      BY <3>2, <3>3, <3>4 DEF Kept
  <2>4. CASE w = k + 1
    <3>1. SameBank(p, after[i]) /\ p.row = after[i].row
      BY <1>4, <2>1, <2>4
    <3>2. /\ IsOpen(bankStates'[after[i].rank][after[i].bank])
          /\ bankStates'[after[i].rank][after[i].bank].openRowAddress = after[i].row
      BY <1>7, <2>2, <3>1 DEF SameBank
    <3>3. ASSUME NEW j \in Loose(after), SameBank(after[i], after[j])
          PROVE  j = i
      <4>1. Was(k, j) \notin Loose(commandQueue)
        BY <1>6, <1>9, <3>1, <3>3 DEF SameBank
      <4>2. Was(k, j) = w
        BY <1>6, <2>4, <4>1
      <4>3. QED
        BY <1>2, <1>6, <2>1, <4>2, WasProperties DEF w
    <3>4. QED
      BY <3>2, <3>3
  <2>5. QED
    BY <2>1, <2>3, <2>4
<1>12. LooseFindsRow'
  BY <1>1, <1>11 DEF LooseFindsRow
<1>13. ASSUME NEW r \in Ranks, NEW b \in Banks, IsOpen(bankStates'[r][b])
       PROVE  \E i \in Loose(after) : after[i].rank = r /\ after[i].bank = b
  <2>1. PICK j \in Loose(commandQueue) \union {k + 1} :
            commandQueue[j].rank = r /\ commandQueue[j].bank = b
    <3>1. CASE r = p.rank /\ b = p.bank
      BY <1>4, <3>1 DEF SameBank
    <3>2. CASE ~ (r = p.rank /\ b = p.bank)
      <4>1. IsOpen(bankStates[r][b])
        BY <1>7, <1>13, <3>2 DEF Kept
      <4>2. QED
        BY <4>1 DEF QueueAndBanks, OpenHasLoose
    <3>3. QED
      BY <3>1, <3>2
  <2>2. PICK i \in Loose(after) : after[i] = commandQueue[j]
    BY <1>6
  <2>3. QED
    BY <2>1, <2>2
<1>14. OpenHasLoose'
  BY <1>1, <1>13 DEF OpenHasLoose
<1>15. ASSUME NEW i \in Loose(after), NEW m \in ACTs(after), m < i, SameBank(after[m], after[i])
       PROVE  after[m].fromLogicOp
  <2>1. Was(k, m) < Was(k, i) /\ Was(k, m) \in Nat /\ Was(k, m) # k
    BY <1>2, <1>6, <1>15, WasProperties
  <2>2. CASE Was(k, i) \in Loose(commandQueue)
    BY <1>6, <1>15, <2>1, <2>2 DEF QueueAndBanks, OvertakenIsLogic
  <2>3. CASE Was(k, i) = k + 1
    <3>1. Was(k, m) < k
      BY <1>2, <2>1, <2>3
    <3>2. SameBank(commandQueue[Was(k, m)], p)
      BY <1>4, <1>6, <1>15, <2>3 DEF SameBank
    <3>3. QED
      BY <1>6, <1>9, <3>1, <3>2
  <2>4. QED
    BY <1>6, <2>2, <2>3
<1>16. OvertakenIsLogic'
  BY <1>1, <1>15 DEF OvertakenIsLogic
<1>17. QueueCounted'
  BY <1>1, <1>6 DEF QueueCounted
<1>18. QED
  BY <1>1, <1>6, <1>8, <1>12, <1>14, <1>16, <1>17 DEF QueueAndBanks


-----------------------------------------------------------------------------
(* The invariant holds                                                     *)

LEMMA QueueNext == QueueInv /\ [Next]_vars => QueueInv'
<1>1. SUFFICES ASSUME QueueInv, [Next]_vars PROVE QueueInv'
  OBVIOUS
<1>2. TypeOK /\ QueueAndBanks /\ QueueCounted
  BY <1>1 DEF QueueInv, QueueAndBanks
<1>3. TypeOK'
  BY <1>1, <1>2, NextTypeOK
<1>4. ASSUME NEW t \in Transaction, AddTransaction(t) PROVE QueueAndBanks' /\ QueueCounted'
  BY <1>2, <1>4, AddStep
<1>5. ASSUME commandQueue' = commandQueue, waitingACTS' = waitingACTS
      PROVE  QueueCounted'
  BY <1>2, <1>5 DEF QueueCounted
<1>6. ASSUME UNCHANGED controllerVars PROVE QueueAndBanks' /\ QueueCounted'
  <2>1. commandQueue' = commandQueue /\ bankStates' = bankStates /\ waitingACTS' = waitingACTS
    BY <1>6 DEF controllerVars
  <2>2. QueueAndBanks'
    BY <1>2, <2>1, KeptStep DEF QueueAndBanks, BanksSettled, Kept
  <2>3. QED
    BY <1>5, <2>1, <2>2
<1>7. ASSUME TakeReturn PROVE QueueAndBanks' /\ QueueCounted'
  BY <1>6, <1>7 DEF TakeReturn
<1>8. ASSUME NEW r \in Ranks, IssueRefresh(r) PROVE QueueAndBanks' /\ QueueCounted'
  <2>1. ControllerRefresh(r)
    BY <1>8 DEF IssueRefresh
  <2>2. commandQueue' = commandQueue /\ waitingACTS' = waitingACTS
    BY <2>1 DEF ControllerRefresh
  <2>3. \A q \in Ranks, b \in Banks :
           Settled(bankStates'[q][b]) /\ Kept(bankStates[q][b], bankStates'[q][b])
    BY <1>2, <2>1, RefreshBanks DEF QueueAndBanks
  <2>4. QED
    BY <1>2, <1>5, <2>2, <2>3, KeptStep
<1>9. ASSUME NEW i \in DOMAIN commandQueue, IssueRead(i) \/ IssueWrite(i)
      PROVE  QueueAndBanks' /\ QueueCounted'
  <2>1. \/ ControllerRead(i, Queued, OutstandingNow)
        \/ ControllerWrite(i, Queued, OutstandingNow)
    BY <1>9 DEF IssueRead, IssueWrite
  <2>2. QED
    BY <1>2, <2>1, CASStep
<1>10. ASSUME NEW i \in DOMAIN commandQueue, IssueActivate(i)
       PROVE  QueueAndBanks' /\ QueueCounted'
  <2>1. ControllerActivate(i, Queued, OutstandingNow)
    BY <1>10 DEF IssueActivate
  <2>2. QED
    BY <1>2, <2>1, ActivateStep
<1>11. ASSUME IssueNothing PROVE QueueAndBanks' /\ QueueCounted'
  <2>1. /\ commandQueue' = commandQueue /\ waitingACTS' = waitingACTS
        /\ bankStates' = TickBanks(BanksNow)
    BY <1>11 DEF IssueNothing, ControllerIdle
  <2>2. \A q \in Ranks, b \in Banks :
           Settled(bankStates'[q][b]) /\ Kept(bankStates[q][b], bankStates'[q][b])
    BY <1>2, <2>1, IdleBanks DEF QueueAndBanks
  <2>3. QED
    BY <1>2, <1>5, <2>1, <2>2, KeptStep
<1>12. ASSUME UNCHANGED vars PROVE QueueAndBanks' /\ QueueCounted'
  BY <1>6, <1>12 DEF vars
<1>13. QueueAndBanks' /\ QueueCounted'
  BY <1>1, <1>4, <1>7, <1>8, <1>9, <1>10, <1>11, <1>12 DEF Next, Update
<1>14. QED
  BY <1>3, <1>13 DEF QueueInv, QueueAndBanks

LEMMA QueueInvariant == Spec => []QueueInv
<1>1. Init => QueueInv
  BY InitTypeOK, QueueInit DEF QueueInv, QueueAndBanks
<1>2. QueueInv /\ [Next]_vars => QueueInv'
  BY QueueNext
<1>3. QED
  BY <1>1, <1>2, PTL DEF Spec

-----------------------------------------------------------------------------
(* What it says of the queue                                               *)

\* waitingACTS, which guards the work queue, counts the CASs still to be sent, and
\* stays within the bound, in every order in which they may leave it.
THEOREM QueueIsAccounted == Spec => []WorkQueueAccounted
<1>1. QueueInv => WorkQueueAccounted
  <2>1. SUFFICES ASSUME QueueInv PROVE WorkQueueAccounted
    OBVIOUS
  <2>2. commandQueue \in Seq(BusPacket) /\ CASPositions = CASs(commandQueue)
    BY <2>1, QueuePackets DEF QueueInv, CASPositions, CASs
  <2>3. Cardinality(CASs(commandQueue)) \in Nat
    BY <2>2, PlacesType, FS_CardinalityType
  <2>4. QED
    BY <2>1, <2>2, <2>3, QueueAssumption DEF QueueInv, QueueCounted, WorkQueueAccounted
<1>2. QED
  BY <1>1, QueueInvariant, PTL

\* What the scan calls awaited is what is loose.
LEMMA AwaitedIsLoose ==
    ASSUME TypeOK, WellFormed(commandQueue), NEW i, NEW r, NEW b
    PROVE  AwaitedBy(i, r, b) <=>
              /\ i \in Loose(commandQueue)
              /\ commandQueue[i].rank = r /\ commandQueue[i].bank = b
<1>1. commandQueue \in Seq(BusPacket)
  BY QueuePackets
<1>2. ASSUME i \in DOMAIN commandQueue
      PROVE  FollowsItsActivate(i) <=> i - 1 \in ACTs(commandQueue)
  BY <1>1, <1>2, FollowsIsPaired DEF FollowsItsActivate
<1>3. QED
  BY <1>2 DEF AwaitedBy, CASPositions, Loose, CASs

\* A bank is opened for one CAS, which is in the queue and finds its row as long as
\* the bank is open.
THEOREM OpenBankIsAwaited == Spec => []OpenBankAwaitsItsCAS
<1>1. QueueInv => OpenBankAwaitsItsCAS
  <2>1. SUFFICES ASSUME QueueInv, NEW r \in Ranks, NEW b \in Banks
                 PROVE  /\ \A i \in DOMAIN commandQueue : AwaitedBy(i, r, b) =>
                              /\ IsOpen(bankStates[r][b])
                              /\ bankStates[r][b].openRowAddress = commandQueue[i].row
                              /\ \A j \in DOMAIN commandQueue : AwaitedBy(j, r, b) => j = i
                        /\ IsOpen(bankStates[r][b]) =>
                              \E i \in DOMAIN commandQueue : AwaitedBy(i, r, b)
    BY DEF OpenBankAwaitsItsCAS
  <2>2. \A i : AwaitedBy(i, r, b) <=>
                  /\ i \in Loose(commandQueue)
                  /\ commandQueue[i].rank = r /\ commandQueue[i].bank = b
    BY <2>1, AwaitedIsLoose DEF QueueInv
  <2>3. ASSUME NEW i \in DOMAIN commandQueue, AwaitedBy(i, r, b)
        PROVE  /\ IsOpen(bankStates[r][b])
               /\ bankStates[r][b].openRowAddress = commandQueue[i].row
               /\ \A j \in DOMAIN commandQueue : AwaitedBy(j, r, b) => j = i
    BY <2>1, <2>2, <2>3 DEF QueueInv, LooseFindsRow, SameBank
  <2>4. ASSUME IsOpen(bankStates[r][b])
        PROVE  \E i \in DOMAIN commandQueue : AwaitedBy(i, r, b)
    <3>1. PICK i \in Loose(commandQueue) :
              commandQueue[i].rank = r /\ commandQueue[i].bank = b
      BY <2>1, <2>4 DEF QueueInv, OpenHasLoose
    <3>2. i \in DOMAIN commandQueue
      BY <2>1, QueuePackets DEF QueueInv
    <3>3. QED
      BY <2>2, <3>1, <3>2
  <2>5. QED
    BY <2>3, <2>4
<1>2. QED
  BY <1>1, QueueInvariant, PTL


\* An older CAS to the bank of a loose one is the logic layer's: its ACTIVATE is
\* still before the loose one.
LEMMA LooseKeepsOrder ==
    ASSUME QueueInv, NEW i \in Loose(commandQueue), NEW j \in CASs(commandQueue),
           j < i, SameBank(commandQueue[j], commandQueue[i])
    PROVE  commandQueue[j].fromLogicOp
<1>1. commandQueue \in Seq(BusPacket) /\ i \in Nat /\ j \in Nat
  BY QueuePackets, PlacesType DEF QueueInv
<1>2. j \notin Loose(commandQueue)
  BY <1>1 DEF QueueInv, LooseFindsRow, SameBank
<1>3. j - 1 \in ACTs(commandQueue)
  BY <1>2 DEF Loose
<1>4. SameTransaction(commandQueue[j - 1], commandQueue[j])
  <2>1. SameTransaction(commandQueue[j - 1], commandQueue[(j - 1) + 1])
    BY <1>3 DEF QueueInv, WellFormed, Paired
  <2>2. QED
    BY <1>1, <2>1
<1>5. /\ j - 1 < i /\ SameBank(commandQueue[j - 1], commandQueue[i])
      /\ commandQueue[j - 1].fromLogicOp = commandQueue[j].fromLogicOp
  BY <1>1, <1>4 DEF SameTransaction, SameBank
<1>6. QED
  BY <1>3, <1>5 DEF QueueInv, OvertakenIsLogic

\* The queue tells which packet has left it: a CAS that is still preceded by its
\* ACTIVATE has not.
LEMMA RemovedIsFree ==
    ASSUME NEW queue \in Seq(BusPacket), WellFormed(queue),
           NEW k \in DOMAIN queue, k - 1 \notin ACTs(queue),
           NEW i \in CASs(queue), Without(queue, k) = Without(queue, i)
    PROVE  i - 1 \notin ACTs(queue)
<1>1. SUFFICES ASSUME i - 1 \in ACTs(queue) PROVE FALSE
  OBVIOUS
<1>2. /\ DOMAIN queue = 1 .. Len(queue) /\ Len(queue) \in Nat
      /\ i \in 1 .. Len(queue) /\ k \in 1 .. Len(queue) /\ i - 1 \in 1 .. Len(queue)
      /\ i - 1 \notin CASs(queue)
  BY <1>1, PlacesType
<1>3. \A m \in 1 .. Len(queue) - 1 :
          (IF m < k THEN queue[m] ELSE queue[m + 1])
              = (IF m < i THEN queue[m] ELSE queue[m + 1])
  <2>1. ASSUME NEW m \in 1 .. Len(queue) - 1
        PROVE  /\ Without(queue, k)[m] = (IF m < k THEN queue[m] ELSE queue[m + 1])
               /\ Without(queue, i)[m] = (IF m < i THEN queue[m] ELSE queue[m + 1])
    BY DEF Without
  <2>2. QED
    BY <2>1
<1>4. CASE k = i
  BY <1>1, <1>4
<1>5. CASE k < i
  <2>1. queue[i] = queue[i - 1]
    <3>1. i - 1 \in 1 .. Len(queue) - 1 /\ (i - 1) + 1 = i /\ ~ (i - 1 < k) /\ i - 1 < i
      BY <1>2, <1>5
    <3>2. QED
      BY <1>3, <3>1
  <2>2. QED
    BY <1>2, <2>1 DEF CASs
<1>6. CASE k > i
  <2>1. i + 1 \in 1 .. Len(queue) /\ queue[i] = queue[i + 1]
    <3>1. i \in 1 .. Len(queue) - 1 /\ i < k /\ ~ (i < i)
      BY <1>2, <1>6
    <3>2. QED
      BY <1>2, <1>3, <3>1
  <2>2. i + 1 \in CASs(queue)
    BY <1>2, <2>1 DEF CASs
  <2>3. i = i + 1
    BY <2>1, <2>2 DEF WellFormed, DistinctCASs
  <2>4. QED
    BY <1>2, <2>3
<1>7. QED
  BY <1>2, <1>4, <1>5, <1>6

LEMMA JoinedLength ==
    ASSUME NEW queue \in Seq(BusPacket), NEW t \in Transaction
    PROVE  /\ Len(CommandsOf(t) \o queue) = Len(queue) + 2
           /\ Len(queue \o CommandsOf(t)) = Len(queue) + 2
<1>. DEFINE pair == CommandsOf(t)
<1>1. pair \in Seq(BusPacket) /\ Len(pair) = 2 /\ Len(queue) \in Nat
  BY CommandsOfType, LenProperties
<1>. HIDE DEF pair
<1>2. Len(pair \o queue) = Len(pair) + Len(queue) /\ Len(queue \o pair) = Len(queue) + Len(pair)
  BY <1>1, ConcatProperties
<1>3. QED
  BY <1>1, <1>2 DEF pair

\* Two transactions to one bank keep the order of the queue, whatever is sent.
THEOREM SameBankStaysInOrder == Spec => SameBankInOrder
<1>1. ASSUME QueueInv, [Next]_vars,
             NEW i \in CASPositions, commandQueue' = Without(commandQueue, i),
             NEW j \in CASPositions, j < i,
             commandQueue[j].rank = commandQueue[i].rank,
             commandQueue[j].bank = commandQueue[i].bank
      PROVE  commandQueue[j].fromLogicOp
  <2>1. /\ commandQueue \in Seq(BusPacket) /\ Len(commandQueue) \in Nat
        /\ i \in CASs(commandQueue) /\ j \in CASs(commandQueue)
        /\ i \in 1 .. Len(commandQueue)
        /\ TypeOK /\ QueueAndBanks
    BY <1>1, QueuePackets, PlacesType
       DEF QueueInv, QueueAndBanks, CASPositions, CASs
  <2>2. Len(commandQueue') = Len(commandQueue) - 1
    BY <1>1, <2>1, WithoutType
  <2>3. commandQueue' # commandQueue
    BY <2>1, <2>2
  <2>4. ~ \E t \in Transaction : AddTransaction(t)
    <3>1. SUFFICES ASSUME NEW t \in Transaction, AddTransaction(t) PROVE FALSE
      OBVIOUS
    <3>2. Len(commandQueue') = Len(commandQueue) + 2
      BY <2>1, <3>1, JoinedLength DEF AddTransaction, EnqueueCommands
    <3>3. QED
      BY <2>1, <2>2, <3>2
  <2>5. PICK k \in DOMAIN commandQueue : IssueRead(k) \/ IssueWrite(k) \/ IssueActivate(k)
    BY <1>1, <2>3, <2>4
       DEF Next, TakeReturn, Update, IssueRefresh, ControllerRefresh, IssueNothing,
           ControllerIdle, vars, controllerVars
  <2>6. /\ Selected(k, Queued, OutstandingNow)
        /\ commandQueue' = Without(commandQueue, k)
    BY <2>5 DEF IssueRead, IssueWrite, IssueActivate,
                ControllerRead, ControllerWrite, ControllerActivate
  <2>7. k - 1 \notin ACTs(commandQueue)
    BY <2>1, <2>6, SelectedIsFree
  <2>8. i - 1 \notin ACTs(commandQueue)
    BY <1>1, <2>1, <2>6, <2>7, RemovedIsFree DEF QueueInv
  <2>9. i \in Loose(commandQueue)
    BY <2>1, <2>8 DEF Loose
  <2>10. QED
    BY <1>1, <2>1, <2>9, LooseKeepsOrder DEF SameBank
<1>2. QueueInv /\ [Next]_vars =>
          [\A i \in CASPositions :
              (commandQueue' = Without(commandQueue, i)) =>
                  \A j \in CASPositions :
                      (/\ j < i
                       /\ commandQueue[j].rank = commandQueue[i].rank
                       /\ commandQueue[j].bank = commandQueue[i].bank)
                      => commandQueue[j].fromLogicOp]_vars
  BY <1>1
<1>3. QED
  BY <1>2, QueueInvariant, PTL DEF Spec, SameBankInOrder

=============================================================================
