----------------------- MODULE ChannelRefinement_proof ----------------------
(***************************************************************************)
(* The reads of DRAMChannel, for every geometry, timing and size of the    *)
(* queues, as long as the logic layer reads nothing: ReadsAccounted, and   *)
(* that the channel implements DRAMService.  Then, for all traffic, what   *)
(* MCDRAMChannel remembers of the ACTIVATEs: FourActivateWindow and        *)
(* RowCycleTime.                                                           *)
(*                                                                         *)
(* DRAMChannel_proof shows that no read is forgotten by the counter of     *)
(* outstanding reads; here no slot is forgotten by the reads.  That needs  *)
(* what ChannelTiming_proof shows: a read is dropped nowhere, because a    *)
(* command on the bus always arrives and a burst that is due always finds  *)
(* the data bus free.  It also needs that every read that returns gives    *)
(* its slot back, which a read of the logic layer does not (channel_leak). *)
(*                                                                         *)
(* The main controller matches data by its position, so for the refinement *)
(* what has to be shown is that the reads come back in the order their     *)
(* commands were sent in, from ranks that answer independently over one    *)
(* bus.  A read is known there by its transaction and the cycle its data   *)
(* is due: the place it is at, on the command bus, in a rank or on the     *)
(* data bus, changes while the two stay what they are.                     *)
(***************************************************************************)
EXTENDS ChannelTiming_proof, MCDRAMChannel

-----------------------------------------------------------------------------
(* Every slot is owed to a read: the inductive invariant                   *)

OnlyCPUBursts(queue) == \A i \in DOMAIN queue : ~ queue[i].packet.fromLogicOp

OnlyCPUPackets(queue) == \A i \in DOMAIN queue : ~ queue[i].fromLogicOp

\* Nothing in the channel is from the logic layer, and each bus has what belongs there.
OnlyCPU ==
    /\ OnlyCPUPackets(commandQueue)
    /\ inFlightCommandPacket # NULL =>
          /\ ~ inFlightCommandPacket.fromLogicOp
          /\ inFlightCommandPacket.busPacketType # "READ_DATA"
    /\ \A r \in Ranks : OnlyCPUBursts(ranks[r].readReturnQueue)
    /\ inFlightDataPacket # NULL =>
          /\ inFlightDataPacket.busPacketType # "READ_P"
          /\ inFlightDataPacket.busPacketType = "READ_DATA" =>
                ~ inFlightDataPacket.fromLogicOp

SlotsOwed == outstandingReads = Cardinality(FlightIDs)

AccountInv == TimingInv /\ IInv /\ OnlyCPU /\ SlotsOwed

-----------------------------------------------------------------------------
(* No read is lost in a cycle                                              *)

\* A rank keeps the reads that are not due.
LEMMA BurstsKept ==
    ASSUME NEW queue \in Seq(Burst)
    PROVE  BurstIDs(queue) \subseteq
              BurstIDs(AfterCountDown(queue))
              \union (IF HeadIsDue(queue) THEN {Head(queue).packet.transactionID} ELSE {})
<1>. DEFINE after == AfterCountDown(queue)
<1>1. CountDown(queue) \in Seq(Burst) /\ Len(CountDown(queue)) = Len(queue)
  BY CountDownType
<1>2. DOMAIN queue = 1 .. Len(queue) /\ Len(queue) \in Nat
  BY LenProperties
<1>3. CASE HeadIsDue(queue)
  <2>1. CountDown(queue) # << >> /\ queue # << >>
    BY <1>1, <1>3, EmptySeq DEF HeadIsDue
  <2>2. Len(after) = Len(queue) - 1 /\ DOMAIN after = 1 .. Len(after)
    <3>1. after = Tail(CountDown(queue))
      BY <1>3 DEF AfterCountDown
    <3>2. /\ Tail(CountDown(queue)) \in Seq(Burst)
          /\ Len(Tail(CountDown(queue))) = Len(queue) - 1
      BY <1>1, <2>1, HeadTailProperties
    <3>3. QED
      BY <3>1, <3>2, LenProperties
  <2>3. Head(queue) = queue[1]
    BY <2>1, EmptySeq
  <2>4. ASSUME NEW i \in DOMAIN queue, i # 1
        PROVE  queue[i].packet.transactionID \in BurstIDs(after)
    <3>1. i - 1 \in DOMAIN after /\ (i - 1) + 1 = i
      BY <1>2, <2>2, <2>4
    <3>2. after[i - 1].packet = queue[i].packet
      BY <1>3, <3>1, AfterCountDownPacket
    <3>3. QED
      BY <3>1, <3>2 DEF BurstIDs
  <2>. HIDE DEF after
  <2>5. QED
    BY <1>3, <2>3, <2>4 DEF BurstIDs, after
<1>4. CASE ~ HeadIsDue(queue)
  <2>1. after = CountDown(queue) /\ DOMAIN after = DOMAIN queue
    BY <1>1, <1>2, <1>4, LenProperties DEF AfterCountDown
  <2>2. \A i \in DOMAIN queue : after[i].packet = queue[i].packet
    BY <2>1, CountDownPacket
  <2>. HIDE DEF after
  <2>3. BurstIDs(queue) \subseteq BurstIDs(after)
    BY <2>1, <2>2 DEF BurstIDs
  <2>4. QED
    BY <1>4, <2>3 DEF after
<1>5. QED
  BY <1>3, <1>4

\* The read a rank has due is the one the data bus takes.
LEMMA DueReadStarts ==
    ASSUME TimingInv, NEW sendsCommand, NEW sendsCAS, Cycle(sendsCommand, sendsCAS),
           NEW r \in ReturningRanks
    PROVE  /\ inFlightDataPacket' = ReturnedPacket(RanksNow[r])
           /\ DataIDs' = {ReturnedPacket(RanksNow[r]).transactionID}
<1>. DEFINE p == ReturnedPacket(RanksNow[r])
            queue == RanksNow[r].readReturnQueue
<1>1. ~ WriteIsDue /\ \A s \in ReturningRanks : s = r
  <2>1. TypeOK
    BY DEF TimingInv, QueueInv
  <2>2. \A s : <<"read", s, 1>> # <<"write", 0, 1>>
    OBVIOUS
  <2>3. ~ WriteIsDue
    BY <2>1, <2>2, DueSlots, OneStarts
  <2>4. ASSUME NEW s \in ReturningRanks PROVE s = r
    <3>1. <<"read", r, 1>> = <<"read", s, 1>>
      BY <2>1, DueSlots, OneStarts
    <3>2. QED
      BY <3>1
  <2>5. QED
    BY <2>3, <2>4
<1>2. (CHOOSE s \in ReturningRanks : TRUE) = r
  BY <1>1
<1>3. inFlightDataPacket' = p
  BY <1>1, <1>2 DEF Cycle, DataBusAdvances, DataStarts
<1>4. p # NULL /\ p.busPacketType = "READ_DATA"
  <2>1. TypeOK /\ r \in Ranks
    BY DEF TimingInv, QueueInv, ReturningRanks
  <2>2. /\ queue \in Seq(Burst) /\ queue # << >>
        /\ \A i \in DOMAIN queue : queue[i].packet.busPacketType = "READ_DATA"
    BY <2>1, RankQueueNow, RankQueueOrdered DEF ReturningRanks, ReturnIsDue, HeadIsDue
  <2>3. 1 \in DOMAIN queue /\ Head(queue) = queue[1] /\ queue[1] \in Burst
    BY <2>2, BurstPlaces
  <2>4. p = queue[1].packet /\ p \in BusPacket
    BY <2>3 DEF ReturnedPacket, Burst
  <2>5. QED
    BY <2>2, <2>3, <2>4, PacketAssumption
<1>. HIDE DEF p
<1>5. DataIDs' = {p.transactionID}
  BY <1>3, <1>4 DEF DataIDs, PacketIDs
<1>6. QED
  BY <1>3, <1>5 DEF p

\* Every read is still on its way after a cycle, unless its data has arrived.
LEMMA NoReadLost ==
    ASSUME TimingInv, IInv, NEW sendsCommand, NEW sendsCAS,
           Cycle(sendsCommand, sendsCAS)
    PROVE  FlightIDs \ (IF DataArrives THEN DataIDs ELSE {}) \subseteq
              DataIDs' \union UNION {RankIDs(r)' : r \in Ranks}
<1>. DEFINE After == DataIDs' \union UNION {RankIDs(r)' : r \in Ranks}
<1>1. TypeOK /\ Separate
  BY DEF IInv
<1>2. ASSUME NEW r \in Ranks PROVE NowIDs(r) \subseteq After
  <2>. DEFINE now == RanksNow[r].readReturnQueue
  <2>1. now \in Seq(Burst)
    BY <1>1, ReadsNow
  <2>2. ranks'[r].readReturnQueue = AfterCountDown(now)
    BY DEF Cycle, UpdateRank
  <2>3. NowIDs(r) \subseteq RankIDs(r)' \union
           (IF HeadIsDue(now) THEN {Head(now).packet.transactionID} ELSE {})
    BY <2>1, <2>2, BurstsKept DEF NowIDs, RankIDs
  <2>4. ASSUME HeadIsDue(now) PROVE Head(now).packet.transactionID \in DataIDs'
    <3>1. r \in ReturningRanks /\ ReturnedPacket(RanksNow[r]) = Head(now).packet
      BY <2>4 DEF ReturningRanks, ReturnIsDue, ReturnedPacket
    <3>2. QED
      BY <3>1, DueReadStarts
  <2>5. RankIDs(r)' \subseteq After
    OBVIOUS
  <2>. HIDE DEF After, now
  <2>6. DataIDs' \subseteq After
    BY DEF After
  <2>7. QED
    BY <2>3, <2>4, <2>5, <2>6
<1>3. ASSUME NEW r \in Ranks PROVE RankIDs(r) \subseteq NowIDs(r)
  BY <1>1, ReadsNow
<1>4. CommandIDs \subseteq After
  <2>1. CASE CommandIDs = {}
    BY <2>1
  <2>2. CASE CommandIDs # {}
    <3>1. inFlightCommandPacket # NULL
      BY <2>2 DEF CommandIDs, PacketIDs
    <3>2. CommandArrives /\ inFlightCommandPacket.rank \in Ranks
      BY <1>1, <3>1 DEF TimingInv, CommandAccepted, CommandArrives, TypeOK, BusPacket
    <3>3. CommandIDs \subseteq NowIDs(inFlightCommandPacket.rank)
      BY <1>1, <3>2, ReadsNow
    <3>4. QED
      BY <1>2, <3>2, <3>3
  <2>3. QED
    BY <2>1, <2>2
<1>5. ASSUME ~ DataArrives PROVE DataIDs \subseteq DataIDs'
  <2>1. CASE inFlightDataPacket = NULL
    BY <2>1 DEF DataIDs, PacketIDs
  <2>2. CASE inFlightDataPacket # NULL
    <3>1. ~ DataBusFree
      BY <1>5, <2>2 DEF DataBusFree
    <3>2. ~ WriteIsDue /\ ReturningRanks = {}
      BY <3>1, BusesClear DEF DataBusCollides
    <3>3. inFlightDataPacket' = inFlightDataPacket
      BY <1>5, <3>2 DEF Cycle, DataBusAdvances
    <3>4. QED
      BY <3>3 DEF DataIDs
  <2>3. QED
    BY <2>1, <2>2
<1>6. UNION {RankIDs(r) : r \in Ranks} \subseteq After
  BY <1>2, <1>3
<1>7. DataIDs' \subseteq After
  OBVIOUS
<1>. HIDE DEF After
<1>8. FlightIDs \ (IF DataArrives THEN DataIDs ELSE {}) \subseteq After
  BY <1>4, <1>5, <1>6, <1>7 DEF FlightIDs
<1>9. QED
  BY <1>8 DEF After

-----------------------------------------------------------------------------
(* The count                                                               *)

\* The counter goes down with the read that returns.
LEMMA SlotGivenBack ==
    ASSUME IInv, OnlyCPU, SlotsOwed
    PROVE  LET left == FlightIDs \ (IF DataArrives THEN DataIDs ELSE {}) IN
           IsFiniteSet(left) /\ OutstandingNow = Cardinality(left)
<1>. DEFINE left == FlightIDs \ (IF DataArrives THEN DataIDs ELSE {})
<1>1. IsFiniteSet(FlightIDs) /\ Cardinality(FlightIDs) \in Nat
  BY FS_CardinalityType DEF IInv, ReadsCounted
<1>2. CASE ReadReturns
  <2>. DEFINE id == inFlightDataPacket.transactionID
  <2>1. DataArrives /\ DataIDs = {id}
    BY <1>2 DEF ReadReturns, DataArrives, DataIDs, PacketIDs
  <2>2. id \in FlightIDs
    BY <2>1 DEF FlightIDs
  <2>3. left = FlightIDs \ {id}
    BY <2>1
  <2>. HIDE DEF id, left
  <2>4. IsFiniteSet(left) /\ Cardinality(left) = Cardinality(FlightIDs) - 1
    BY <1>1, <2>2, <2>3, FS_RemoveElement
  <2>5. Cardinality(left) \in Nat
    BY <2>4, FS_CardinalityType
  <2>6. OutstandingNow = Cardinality(left)
    BY <1>1, <1>2, <2>4, <2>5 DEF OutstandingNow, Decremented, SlotsOwed
  <2>7. QED
    BY <2>4, <2>6 DEF left
<1>3. CASE ~ ReadReturns
  <2>1. DataArrives => DataIDs = {}
    BY <1>3 DEF ReadReturns, DataArrives, DataIDs, PacketIDs, OnlyCPU
  <2>2. left = FlightIDs
    BY <2>1
  <2>3. QED
    BY <1>1, <1>3, <2>2 DEF OutstandingNow, SlotsOwed
<1>4. QED
  BY <1>2, <1>3

\* An Update that sends no READ.
LEMMA OwedWithoutRead ==
    ASSUME TimingInv, IInv, OnlyCPU, SlotsOwed, NEW sendsCommand, NEW sendsCAS,
           Cycle(sendsCommand, sendsCAS), DistinctReads(commandQueue)',
           QueueIDs(commandQueue)' \subseteq QueueIDs(commandQueue),
           CommandIDs' = {}, outstandingReads' = OutstandingNow
    PROVE  SlotsOwed'
<1>. DEFINE left == FlightIDs \ (IF DataArrives THEN DataIDs ELSE {})
<1>1. FlightIDs' \subseteq left
  <2>1. /\ {} \in SUBSET QueueIDs(commandQueue)
        /\ QueueIDs(commandQueue)' \subseteq QueueIDs(commandQueue) \ {}
        /\ CommandIDs' \subseteq {} \union (IF CommandArrives THEN {} ELSE CommandIDs)
    OBVIOUS
  <2>2. FlightIDs' \subseteq left \union {}
    BY <2>1, CycleSeparate DEF IInv
  <2>3. QED
    BY <2>2
<1>2. left \subseteq FlightIDs'
  BY NoReadLost DEF FlightIDs
<1>3. OutstandingNow = Cardinality(left)
  BY SlotGivenBack
<1>. HIDE DEF left
<1>4. QED
  BY <1>1, <1>2, <1>3 DEF SlotsOwed

\* An Update that sends the READ at position i.
LEMMA OwedWithRead ==
    ASSUME TimingInv, IInv, OnlyCPU, SlotsOwed,
           NEW i \in DOMAIN commandQueue, IssueRead(i)
    PROVE  SlotsOwed'
<1>. DEFINE left == FlightIDs \ (IF DataArrives THEN DataIDs ELSE {})
            id == commandQueue[i].transactionID
<1>1. /\ Cycle(TRUE, TRUE)
      /\ commandQueue' = Without(commandQueue, i)
      /\ commandQueue[i].busPacketType = "READ_P"
      /\ inFlightCommandPacket' = commandQueue[i]
      /\ outstandingReads' = OutstandingNow + 1
  BY DEF IssueRead, ControllerRead, Selected, CommandStarts, Cycle
<1>2. commandQueue \in Seq(BusPacket) /\ DistinctReads(commandQueue)
  BY DEF IInv, TypeOK, ControllerTypeOK, Separate
<1>3. commandQueue[i] # NULL
  <2>1. commandQueue[i] \in BusPacket
    BY <1>2, LenProperties, ElementOfSeq
  <2>2. QED
    BY <2>1, PacketAssumption
<1>4. /\ id \in QueueIDs(commandQueue)
      /\ DistinctReads(commandQueue)'
      /\ QueueIDs(commandQueue)' \subseteq QueueIDs(commandQueue) \ {id}
  BY <1>1, <1>2, ReadsWithout
<1>5. CommandIDs' = {id}
  BY <1>1, <1>3 DEF CommandIDs, PacketIDs
<1>6. id \notin FlightIDs
  BY <1>4 DEF IInv, Separate, FlightIDs
<1>. HIDE DEF id
<1>7. {id} \in SUBSET QueueIDs(commandQueue)
  BY <1>4
<1>8. CommandIDs' \subseteq {id} \union (IF CommandArrives THEN {} ELSE CommandIDs)
  BY <1>5
<1>9. FlightIDs' \subseteq left \union {id}
  BY <1>1, <1>4, <1>7, <1>8, CycleSeparate DEF IInv
<1>10. left \union {id} \subseteq FlightIDs'
  BY <1>1, <1>5, NoReadLost DEF FlightIDs
<1>11. IsFiniteSet(left) /\ OutstandingNow = Cardinality(left) /\ id \notin left
  BY <1>6, SlotGivenBack
<1>. HIDE DEF left
<1>12. Cardinality(left \union {id}) = Cardinality(left) + 1
  BY <1>11, FS_AddElement
<1>13. FlightIDs' = left \union {id}
  BY <1>9, <1>10
<1>14. QED
  BY <1>1, <1>11, <1>12, <1>13 DEF SlotsOwed

-----------------------------------------------------------------------------
(* Nothing of the logic layer comes in                                     *)

\* The packets a rank or the write queue sends on were in it before.
LEMMA CPUBurstsAge ==
    ASSUME NEW queue \in Seq(Burst), OnlyCPUBursts(queue)
    PROVE  /\ OnlyCPUBursts(AfterCountDown(queue))
           /\ HeadIsDue(queue) => ~ Head(queue).packet.fromLogicOp
<1>1. OnlyCPUBursts(AfterCountDown(queue))
  <2>1. SUFFICES ASSUME NEW i \in DOMAIN AfterCountDown(queue)
                 PROVE  ~ AfterCountDown(queue)[i].packet.fromLogicOp
    BY DEF OnlyCPUBursts
  <2>2. CASE HeadIsDue(queue)
    BY <2>2, AfterCountDownPacket DEF OnlyCPUBursts
  <2>3. CASE ~ HeadIsDue(queue)
    BY <2>3, AfterCountDownPacket DEF OnlyCPUBursts
  <2>4. QED
    BY <2>2, <2>3
<1>2. ASSUME HeadIsDue(queue) PROVE ~ Head(queue).packet.fromLogicOp
  <2>1. 1 \in DOMAIN queue /\ Head(queue) = queue[1]
    BY <1>2, BurstPlaces DEF HeadIsDue
  <2>2. QED
    BY <2>1 DEF OnlyCPUBursts
<1>3. QED
  BY <1>1, <1>2

LEMMA CPUBurstsNow ==
    ASSUME TypeOK, OnlyCPU, NEW r \in Ranks
    PROVE  OnlyCPUBursts(RanksNow[r].readReturnQueue)
<1>. DEFINE queue == ranks[r].readReturnQueue
            now == RanksNow[r].readReturnQueue
<1>1. /\ queue \in Seq(Burst) /\ OnlyCPUBursts(queue)
      /\ now = IF ReadArrives(r) THEN Append(queue, ArrivedRead) ELSE queue
      /\ ReadArrives(r) => ArrivedRead \in Burst
  BY RankQueueNow DEF OnlyCPU
<1>. HIDE DEF queue, now
<1>2. CASE ~ ReadArrives(r)
  BY <1>1, <1>2 DEF now
<1>3. CASE ReadArrives(r)
  <2>1. ~ ArrivedRead.packet.fromLogicOp
    <3>1. /\ inFlightCommandPacket \in BusPacket
          /\ ~ inFlightCommandPacket.fromLogicOp
      BY <1>3 DEF ReadArrives, CommandArrives, TypeOK, OnlyCPU
    <3>2. QED
      BY <3>1 DEF ArrivedRead, AsType, BusPacket
  <2>2. /\ DOMAIN now = 1 .. Len(queue) + 1
        /\ now[Len(queue) + 1] = ArrivedRead
        /\ \A i \in 1 .. Len(queue) : now[i] = queue[i]
    BY <1>1, <1>3, AppendProperties, LenProperties
  <2>3. DOMAIN queue = 1 .. Len(queue) /\ Len(queue) \in Nat
    BY <1>1, LenProperties
  <2>4. ASSUME NEW i \in DOMAIN now PROVE ~ now[i].packet.fromLogicOp
    <3>1. i \in 1 .. Len(queue) \/ i = Len(queue) + 1
      BY <2>2, <2>3
    <3>2. QED
      BY <1>1, <2>1, <2>2, <2>3, <3>1 DEF OnlyCPUBursts
  <2>5. QED
    BY <2>4 DEF OnlyCPUBursts, now
<1>4. QED
  BY <1>2, <1>3

\* An Update keeps it so, whatever the controller sends.
LEMMA CPUCycle ==
    ASSUME TimingInv, OnlyCPU, NEW sendsCommand, NEW sendsCAS,
           Cycle(sendsCommand, sendsCAS)
    PROVE  /\ \A r \in Ranks : OnlyCPUBursts(ranks[r].readReturnQueue)'
           /\ inFlightDataPacket' # NULL =>
                 /\ inFlightDataPacket'.busPacketType # "READ_P"
                 /\ inFlightDataPacket'.busPacketType = "READ_DATA" =>
                       ~ inFlightDataPacket'.fromLogicOp
<1>1. TypeOK
  BY DEF TimingInv, QueueInv
<1>2. ASSUME NEW r \in Ranks PROVE OnlyCPUBursts(ranks[r].readReturnQueue)'
  <2>1. ranks'[r].readReturnQueue = AfterCountDown(RanksNow[r].readReturnQueue)
    BY DEF Cycle, UpdateRank
  <2>2. RanksNow[r].readReturnQueue \in Seq(Burst)
    BY <1>1, RankQueueNow
  <2>3. OnlyCPUBursts(AfterCountDown(RanksNow[r].readReturnQueue))
    BY <1>1, <2>2, CPUBurstsNow, CPUBurstsAge
  <2>4. QED
    BY <2>1, <2>3 DEF OnlyCPUBursts
<1>3. CASE ReturningRanks # {}
  <2>1. PICK r \in ReturningRanks : TRUE
    BY <1>3
  <2>2. inFlightDataPacket' = ReturnedPacket(RanksNow[r]) /\ r \in Ranks
    BY <2>1, DueReadStarts DEF ReturningRanks
  <2>. DEFINE queue == RanksNow[r].readReturnQueue
  <2>3. /\ queue \in Seq(Burst) /\ queue # << >> /\ HeadIsDue(queue)
        /\ \A i \in DOMAIN queue : queue[i].packet.busPacketType = "READ_DATA"
    BY <1>1, <2>1, <2>2, RankQueueNow, RankQueueOrdered
       DEF ReturningRanks, ReturnIsDue, HeadIsDue
  <2>4. 1 \in DOMAIN queue /\ Head(queue) = queue[1]
    BY <2>3, BurstPlaces
  <2>5. ~ Head(queue).packet.fromLogicOp
    BY <1>1, <2>2, <2>3, CPUBurstsNow, CPUBurstsAge
  <2>. HIDE DEF queue
  <2>6. inFlightDataPacket'.busPacketType = "READ_DATA" /\ ~ inFlightDataPacket'.fromLogicOp
    BY <2>2, <2>3, <2>4, <2>5 DEF ReturnedPacket, queue
  <2>7. QED
    BY <1>2, <2>6
<1>4. CASE ReturningRanks = {} /\ WriteIsDue
  <2>1. inFlightDataPacket' = DueWrite
    BY <1>4 DEF Cycle, DataBusAdvances, DataStarts
  <2>2. writeBurstQueue \in Seq(Burst) /\ writeBurstQueue # << >>
    BY <1>1, <1>4 DEF TypeOK, ControllerTypeOK, WriteIsDue, HeadIsDue
  <2>3. 1 \in DOMAIN writeBurstQueue /\ Head(writeBurstQueue) = writeBurstQueue[1]
    BY <2>2, BurstPlaces
  <2>4. DueWrite.busPacketType = "WRITE_DATA"
    BY <2>3 DEF DueWrite, TimingInv, DataNamed
  <2>5. QED
    BY <1>2, <2>1, <2>4
<1>5. CASE ReturningRanks = {} /\ ~ WriteIsDue
  <2>1. inFlightDataPacket' = IF DataArrives THEN NULL ELSE inFlightDataPacket
    BY <1>5 DEF Cycle, DataBusAdvances
  <2>2. QED
    BY <1>2, <2>1 DEF OnlyCPU
<1>6. QED
  BY <1>3, <1>4, <1>5

LEMMA CPUWithout ==
    ASSUME NEW queue \in Seq(BusPacket), NEW k \in DOMAIN queue, OnlyCPUPackets(queue)
    PROVE  OnlyCPUPackets(Without(queue, k)) /\ ~ queue[k].fromLogicOp
  BY WithoutPlaces DEF OnlyCPUPackets

LEMMA CPUCommands ==
    ASSUME Origins = {FALSE}, NEW t \in Transaction, NEW queue \in Seq(BusPacket),
           OnlyCPUPackets(queue)
    PROVE  OnlyCPUPackets(CommandsOf(t) \o queue) /\ OnlyCPUPackets(queue \o CommandsOf(t))
<1>. DEFINE added == CommandsOf(t)
<1>1. added \in Seq(BusPacket) /\ OnlyCPUPackets(added)
  <2>1. t.originatedFromLogicOp = FALSE
    BY DEF Transaction
  <2>2. added \in Seq(BusPacket) /\ DOMAIN added = 1 .. 2
    BY CommandsOfType, LenProperties
  <2>3. /\ added[1] = PacketOf(t, "ACTIVATE")
        /\ added[2] = PacketOf(t, IF t.transactionType = "DATA_READ" THEN "READ_P"
                                                                     ELSE "WRITE_P")
    BY DEF CommandsOf
  <2>4. ~ added[1].fromLogicOp /\ ~ added[2].fromLogicOp
    BY <2>1, <2>3 DEF PacketOf
  <2>. HIDE DEF added
  <2>5. QED
    BY <2>2, <2>4 DEF OnlyCPUPackets
<1>. HIDE DEF added
<1>2. ASSUME NEW a \in Seq(BusPacket), NEW b \in Seq(BusPacket),
             OnlyCPUPackets(a), OnlyCPUPackets(b)
      PROVE  OnlyCPUPackets(a \o b)
  <2>1. /\ Len(a) \in Nat /\ Len(b) \in Nat
        /\ DOMAIN a = 1 .. Len(a) /\ DOMAIN b = 1 .. Len(b)
    BY LenProperties
  <2>2. /\ DOMAIN (a \o b) = 1 .. Len(a) + Len(b)
        /\ \A i \in DOMAIN (a \o b) :
              (a \o b)[i] = IF i <= Len(a) THEN a[i] ELSE b[i - Len(a)]
    BY ConcatProperties, LenProperties
  <2>3. ASSUME NEW i \in DOMAIN (a \o b) PROVE ~ (a \o b)[i].fromLogicOp
    <3>1. CASE i <= Len(a)
      BY <1>2, <2>1, <2>2, <3>1 DEF OnlyCPUPackets
    <3>2. CASE i > Len(a)
      <4>1. i - Len(a) \in DOMAIN b
        BY <2>1, <2>2, <3>2
      <4>2. QED
        BY <1>2, <2>1, <2>2, <3>2, <4>1 DEF OnlyCPUPackets
    <3>3. QED
      BY <2>1, <2>2, <3>1, <3>2
  <2>4. QED
    BY <2>3 DEF OnlyCPUPackets
<1>3. QED
  BY <1>1, <1>2 DEF added

-----------------------------------------------------------------------------
(* The invariant                                                           *)

LEMMA AccountInit == Init => AccountInv
<1>1. SUFFICES ASSUME Init PROVE AccountInv
  OBVIOUS
<1>2. ASSUME NEW r \in Ranks PROVE ranks[r].readReturnQueue = << >>
  BY <1>1 DEF Init, NewRank
<1>3. OnlyCPU
  BY <1>1, <1>2
     DEF Init, ControllerInit, OnlyCPU, OnlyCPUPackets, OnlyCPUBursts
<1>4. SlotsOwed
  <2>1. \A r \in Ranks : RankIDs(r) = {}
    BY <1>2 DEF RankIDs, BurstIDs
  <2>2. FlightIDs = {}
    BY <1>1, <2>1 DEF Init, FlightIDs, CommandIDs, DataIDs, PacketIDs
  <2>3. QED
    BY <1>1, <2>2, FS_EmptySet DEF Init, SlotsOwed
<1>5. QED
  BY <1>1, <1>3, <1>4, TimingInit, InitIInv DEF AccountInv

\* What the two parts need of an Update that sends no READ.
LEMMA AccountWithoutRead ==
    ASSUME AccountInv, Origins = {FALSE}, NEW sendsCommand, NEW sendsCAS,
           Cycle(sendsCommand, sendsCAS),
           \/ commandQueue' = commandQueue
           \/ \E i \in DOMAIN commandQueue : commandQueue' = Without(commandQueue, i),
           \/ inFlightCommandPacket' = NULL
           \/ /\ inFlightCommandPacket'.busPacketType \notin {"READ_P", "READ_DATA"}
              /\ ~ inFlightCommandPacket'.fromLogicOp,
           outstandingReads' = OutstandingNow
    PROVE  OnlyCPU' /\ SlotsOwed'
<1>1. /\ commandQueue \in Seq(BusPacket) /\ DistinctReads(commandQueue)
      /\ OnlyCPUPackets(commandQueue)
  BY DEF AccountInv, IInv, TypeOK, ControllerTypeOK, Separate, OnlyCPU
<1>2. /\ DistinctReads(commandQueue)'
      /\ QueueIDs(commandQueue)' \subseteq QueueIDs(commandQueue)
      /\ OnlyCPUPackets(commandQueue)'
  <2>1. CASE commandQueue' = commandQueue
    BY <1>1, <2>1
  <2>2. ASSUME NEW i \in DOMAIN commandQueue, commandQueue' = Without(commandQueue, i)
        PROVE  /\ DistinctReads(commandQueue)'
               /\ QueueIDs(commandQueue)' \subseteq QueueIDs(commandQueue)
               /\ OnlyCPUPackets(commandQueue)'
    BY <1>1, <2>2, ReadsWithout, CPUWithout
  <2>3. QED
    BY <2>1, <2>2
<1>3. CommandIDs' = {}
  BY DEF CommandIDs, PacketIDs
<1>4. SlotsOwed'
  BY <1>2, <1>3, OwedWithoutRead DEF AccountInv
<1>5. OnlyCPU'
  <2>1. /\ \A r \in Ranks : OnlyCPUBursts(ranks[r].readReturnQueue)'
        /\ inFlightDataPacket' # NULL =>
                 /\ inFlightDataPacket'.busPacketType # "READ_P"
                 /\ inFlightDataPacket'.busPacketType = "READ_DATA" =>
                       ~ inFlightDataPacket'.fromLogicOp
    BY CPUCycle DEF AccountInv
  <2>2. QED
    BY <1>2, <2>1 DEF OnlyCPU
<1>6. QED
  BY <1>4, <1>5

LEMMA AccountNext ==
    ASSUME Origins = {FALSE}
    PROVE  AccountInv /\ [Next]_vars => AccountInv'
<1>1. SUFFICES ASSUME AccountInv, [Next]_vars PROVE AccountInv'
  OBVIOUS
<1>. DEFINE Accounted == OnlyCPU' /\ SlotsOwed'
<1>2. TimingInv' /\ IInv'
  BY <1>1, TimingNext, NextIInv DEF AccountInv
<1>3. /\ commandQueue \in Seq(BusPacket) /\ DistinctReads(commandQueue)
      /\ OnlyCPUPackets(commandQueue)
  BY <1>1 DEF AccountInv, IInv, TypeOK, ControllerTypeOK, Separate, OnlyCPU
<1>4. ASSUME UNCHANGED <<ranks, inFlightCommandPacket, inFlightDataPacket, outstandingReads>>,
             OnlyCPUPackets(commandQueue)'
      PROVE  Accounted
  <2>1. FlightIDs' = FlightIDs
    BY <1>4 DEF FlightIDs, CommandIDs, DataIDs, RankIDs
  <2>2. SlotsOwed'
    BY <1>1, <1>4, <2>1 DEF AccountInv, SlotsOwed
  <2>3. OnlyCPU'
    BY <1>1, <1>4 DEF AccountInv, OnlyCPU, OnlyCPUBursts
  <2>4. QED
    BY <2>2, <2>3
<1>5. ASSUME NEW t \in Transaction, AddTransaction(t) PROVE Accounted
  <2>1. /\ UNCHANGED <<ranks, inFlightCommandPacket, inFlightDataPacket, outstandingReads>>
        /\ commandQueue' \in {CommandsOf(t) \o commandQueue, commandQueue \o CommandsOf(t)}
    BY <1>5 DEF AddTransaction, EnqueueCommands, busVars
  <2>2. OnlyCPUPackets(commandQueue)'
    BY <1>3, <2>1, CPUCommands
  <2>3. QED
    BY <1>4, <2>1, <2>2
<1>6. ASSUME TakeReturn \/ UNCHANGED vars PROVE Accounted
  <2>1. /\ UNCHANGED <<ranks, inFlightCommandPacket, inFlightDataPacket, outstandingReads>>
        /\ commandQueue' = commandQueue
    BY <1>6 DEF TakeReturn, vars, controllerVars, busVars
  <2>2. QED
    BY <1>3, <1>4, <2>1
<1>7. ASSUME NEW r \in Ranks, IssueRefresh(r) PROVE Accounted
  <2>1. /\ Cycle(TRUE, FALSE) /\ commandQueue' = commandQueue
        /\ inFlightCommandPacket' = RefreshPacket(r)
        /\ outstandingReads' = OutstandingNow
    BY <1>7 DEF IssueRefresh, ControllerRefresh, CommandStarts
  <2>2. /\ inFlightCommandPacket'.busPacketType \notin {"READ_P", "READ_DATA"}
        /\ ~ inFlightCommandPacket'.fromLogicOp
    BY <2>1 DEF RefreshPacket
  <2>3. QED
    BY <1>1, <2>1, <2>2, AccountWithoutRead
<1>8. ASSUME NEW i \in DOMAIN commandQueue, IssueWrite(i) \/ IssueActivate(i)
      PROVE  Accounted
  <2>1. /\ Cycle(TRUE, TRUE) \/ Cycle(TRUE, FALSE)
        /\ commandQueue' = Without(commandQueue, i)
        /\ inFlightCommandPacket' = commandQueue[i]
        /\ outstandingReads' = OutstandingNow
    BY <1>8, Zenon
       DEF IssueWrite, IssueActivate, ControllerWrite, ControllerActivate, CommandStarts
  <2>2. commandQueue[i].busPacketType \in {"WRITE_P", "ACTIVATE"}
    BY <1>8 DEF IssueWrite, IssueActivate, ControllerWrite, ControllerActivate
  <2>3. ~ commandQueue[i].fromLogicOp
    BY <1>3 DEF OnlyCPUPackets
  <2>4. /\ inFlightCommandPacket'.busPacketType \notin {"READ_P", "READ_DATA"}
        /\ ~ inFlightCommandPacket'.fromLogicOp
    BY <2>1, <2>2, <2>3
  <2>5. QED
    BY <1>1, <2>1, <2>4, AccountWithoutRead
<1>9. ASSUME IssueNothing PROVE Accounted
  <2>1. /\ Cycle(FALSE, FALSE) /\ commandQueue' = commandQueue /\ NoCommandStarts
        /\ outstandingReads' = OutstandingNow
    BY <1>9 DEF IssueNothing, ControllerIdle
  <2>2. inFlightCommandPacket' = NULL
    BY <1>1, <2>1 DEF NoCommandStarts, AccountInv, TimingInv, CommandAccepted, CommandArrives
  <2>3. QED
    BY <1>1, <2>1, <2>2, AccountWithoutRead
<1>10. ASSUME NEW i \in DOMAIN commandQueue, IssueRead(i) PROVE Accounted
  <2>1. SlotsOwed'
    BY <1>1, <1>10, OwedWithRead DEF AccountInv
  <2>2. /\ Cycle(TRUE, TRUE)
        /\ commandQueue' = Without(commandQueue, i)
        /\ commandQueue[i].busPacketType = "READ_P"
        /\ inFlightCommandPacket' = commandQueue[i]
    BY <1>10 DEF IssueRead, ControllerRead, CommandStarts
  <2>3. OnlyCPUPackets(commandQueue)' /\ ~ commandQueue[i].fromLogicOp
    BY <1>3, <2>2, CPUWithout
  <2>4. /\ \A r \in Ranks : OnlyCPUBursts(ranks[r].readReturnQueue)'
        /\ inFlightDataPacket' # NULL =>
                 /\ inFlightDataPacket'.busPacketType # "READ_P"
                 /\ inFlightDataPacket'.busPacketType = "READ_DATA" =>
                       ~ inFlightDataPacket'.fromLogicOp
    BY <1>1, <2>2, CPUCycle DEF AccountInv
  <2>5. OnlyCPU'
    BY <2>2, <2>3, <2>4 DEF OnlyCPU
  <2>6. QED
    BY <2>1, <2>5
<1>. HIDE DEF Accounted
<1>11. Accounted
  BY <1>1, <1>5, <1>6, <1>7, <1>8, <1>9, <1>10 DEF Next, Update
<1>12. QED
  BY <1>2, <1>11 DEF AccountInv, Accounted

-----------------------------------------------------------------------------
(* The packets                                                             *)

\* As many packets are on their way as ids.
LEMMA ReadsAreIDs ==
    ASSUME AccountInv
    PROVE  Cardinality(ReadsInFlight) = Cardinality(FlightIDs)
<1>. DEFINE OnCommand == {p \in {inFlightCommandPacket} \ {NULL} : p.busPacketType = "READ_P"}
            OnData == {p \in {inFlightDataPacket} \ {NULL} : p.busPacketType = "READ_DATA"}
            InRank(r) == BurstsOf(ranks[r].readReturnQueue)
            IDs(packets) == {p.transactionID : p \in packets}
<1>1. ReadsInFlight = OnCommand \union OnData \union UNION {InRank(r) : r \in Ranks}
  <2>1. \A p \in PacketsOnBuses :
           p.busPacketType \in {"READ_P", "READ_DATA"} <=> p \in OnCommand \union OnData
    BY DEF PacketsOnBuses, AccountInv, OnlyCPU
  <2>2. OnCommand \union OnData \subseteq PacketsOnBuses
    BY DEF PacketsOnBuses
  <2>. HIDE DEF OnCommand, OnData
  <2>3. QED
    BY <2>1, <2>2 DEF ReadsInFlight
<1>2. /\ IDs(OnCommand) = CommandIDs
      /\ IDs(OnData) = DataIDs
      /\ \A p, q \in OnCommand : p = q
      /\ \A p, q \in OnData : p = q
  BY DEF CommandIDs, DataIDs, PacketIDs
<1>3. ASSUME NEW r \in Ranks
      PROVE  /\ IDs(InRank(r)) = RankIDs(r)
             /\ \A p, q \in InRank(r) : p.transactionID = q.transactionID => p = q
  <2>1. IDs(InRank(r)) = RankIDs(r)
    BY DEF RankIDs, BurstIDs, BurstsOf
  <2>2. DistinctBursts(ranks[r].readReturnQueue)
    BY DEF AccountInv, IInv, Separate
  <2>3. \A p, q \in InRank(r) : p.transactionID = q.transactionID => p = q
    BY <2>2 DEF DistinctBursts, BurstsOf
  <2>4. QED
    BY <2>1, <2>3
<1>4. \A p \in ReadsInFlight :
        \/ p \in OnCommand /\ p.transactionID \in CommandIDs
        \/ p \in OnData /\ p.transactionID \in DataIDs
        \/ \E r \in Ranks : p \in InRank(r) /\ p.transactionID \in RankIDs(r)
  BY <1>1, <1>2, <1>3
<1>5. \A id \in FlightIDs : \E p \in ReadsInFlight : p.transactionID = id
  <2>1. ASSUME NEW id \in FlightIDs PROVE \E p \in ReadsInFlight : p.transactionID = id
    <3>1. \/ id \in IDs(OnCommand) \/ id \in IDs(OnData)
          \/ \E r \in Ranks : id \in IDs(InRank(r))
      BY <1>2, <1>3, <2>1 DEF FlightIDs
    <3>2. QED
      BY <1>1, <3>1
  <2>2. QED
    BY <2>1
<1>. HIDE DEF OnCommand, OnData, InRank, IDs
<1>6. ASSUME NEW p \in ReadsInFlight, NEW q \in ReadsInFlight,
             p.transactionID = q.transactionID
      PROVE  p = q
  <2>1. /\ CommandIDs \intersect DataIDs = {}
        /\ \A r \in Ranks : RankIDs(r) \intersect (CommandIDs \union DataIDs) = {}
        /\ \A r, s \in Ranks : r # s => RankIDs(r) \intersect RankIDs(s) = {}
    BY DEF AccountInv, IInv, Separate
  <2>2. CASE p \in OnCommand /\ p.transactionID \in CommandIDs
    BY <1>2, <1>4, <1>6, <2>1, <2>2
  <2>3. CASE p \in OnData /\ p.transactionID \in DataIDs
    BY <1>2, <1>4, <1>6, <2>1, <2>3
  <2>4. ASSUME NEW r \in Ranks, p \in InRank(r), p.transactionID \in RankIDs(r)
        PROVE  p = q
    <3>1. q \in InRank(r)
      BY <1>4, <1>6, <2>1, <2>4
    <3>2. QED
      BY <1>3, <1>6, <2>4, <3>1
  <2>5. QED
    BY <1>4, <2>2, <2>3, <2>4
<1>7. ASSUME NEW p \in ReadsInFlight PROVE p.transactionID \in FlightIDs
  BY <1>4, <1>7 DEF FlightIDs
<1>. DEFINE f == [p \in ReadsInFlight |-> p.transactionID]
<1>8. f \in Bijection(ReadsInFlight, FlightIDs)
  <2>1. f \in [ReadsInFlight -> FlightIDs]
    BY <1>7
  <2>2. f \in Injection(ReadsInFlight, FlightIDs)
    BY <1>6, <2>1 DEF Injection, IsInjective
  <2>3. f \in Surjection(ReadsInFlight, FlightIDs)
    BY <1>5, <2>1 DEF Surjection
  <2>4. QED
    BY <2>2, <2>3 DEF Bijection
<1>9. IsFiniteSet(FlightIDs)
  BY DEF AccountInv, IInv, ReadsCounted
<1>10. IsFiniteSet(ReadsInFlight)
  BY <1>8, <1>9, FS_Injection DEF Bijection
<1>11. ExistsBijection(ReadsInFlight, FlightIDs)
  BY <1>8 DEF ExistsBijection
<1>12. QED
  BY <1>10, <1>11, FS_Bijection

\* While the logic layer is silent, the slots of the return queue counted as outstanding
\* are as many as the reads on their way, for every device and every size of the queues
\* (SimpleController.cpp:355, DRAMChannel.cpp:134): a slot is given back exactly when its
\* read arrives, and no read is lost or answered twice between the buses and the ranks.
THEOREM ReadsAreAccounted ==
    ASSUME Origins = {FALSE}
    PROVE  Spec => []ReadsAccounted
<1>1. Init => AccountInv
  BY AccountInit
<1>2. AccountInv /\ [Next]_vars => AccountInv'
  BY AccountNext
<1>3. AccountInv => ReadsAccounted
  BY ReadsAreIDs DEF AccountInv, SlotsOwed, ReadsAccounted
<1>4. QED
  BY <1>1, <1>2, <1>3, PTL DEF Spec

-----------------------------------------------------------------------------
(* Reads in order                                                          *)

Timed(reads) == \A x \in reads : x.start \in Int

\* q lists the reads, those whose data is due first at its head.
Listed(q, reads) ==
    /\ q \in Seq(reads)
    /\ \A x \in reads : \E i \in DOMAIN q : q[i] = x
    /\ \A i, j \in DOMAIN q : i < j => q[i].start < q[j].start

LEMMA ListedElements ==
    ASSUME NEW reads, Timed(reads), NEW q, Listed(q, reads)
    PROVE  /\ DOMAIN q = 1 .. Len(q) /\ Len(q) \in Nat /\ q \in [1 .. Len(q) -> reads]
           /\ \A i \in DOMAIN q : q[i] \in reads /\ q[i].start \in Int
           /\ \A i, j \in DOMAIN q : q[i].start <= q[j].start => i <= j
           /\ \A i, j \in DOMAIN q : q[i] = q[j] => i = j
<1>1. /\ q \in Seq(reads) /\ q \in [1 .. Len(q) -> reads]
      /\ DOMAIN q = 1 .. Len(q) /\ Len(q) \in Nat
  BY LenProperties DEF Listed
<1>2. \A i \in DOMAIN q : q[i] \in reads /\ q[i].start \in Int
  BY <1>1, ElementOfSeq DEF Timed
<1>3. ASSUME NEW i \in DOMAIN q, NEW j \in DOMAIN q, q[i].start <= q[j].start
      PROVE  i <= j
  <2>. DEFINE m == q[i].start
              n == q[j].start
  <2>1. m \in Int /\ n \in Int /\ m <= n /\ (j < i => n < m)
    BY <1>2, <1>3 DEF Listed
  <2>. HIDE DEF m, n
  <2>2. ~ j < i
    BY <2>1
  <2>3. QED
    BY <1>1, <2>2
<1>4. ASSUME NEW i \in DOMAIN q, NEW j \in DOMAIN q, q[i] = q[j]
      PROVE  i = j
  <2>1. i <= j /\ j <= i
    BY <1>2, <1>3, <1>4
  <2>2. QED
    BY <1>1, <2>1
<1>5. QED
  BY <1>1, <1>2, <1>3, <1>4

FirstOf(q, n) == {q[j] : j \in 1 .. n}

\* The first reads of a list are as many as their positions.
LEMMA ListedCardinality ==
    ASSUME NEW reads, Timed(reads), NEW q, Listed(q, reads), NEW n \in 0 .. Len(q)
    PROVE  Cardinality(FirstOf(q, n)) = n
<1>. DEFINE first == FirstOf(q, n)
            f == [j \in 1 .. n |-> q[j]]
<1>1. /\ n \in Nat /\ 1 .. n \subseteq DOMAIN q
      /\ \A i, j \in DOMAIN q : q[i] = q[j] => i = j
  BY ListedElements
<1>2. f \in [1 .. n -> first]
  BY DEF FirstOf
<1>3. \A i, j \in 1 .. n : f[i] = f[j] => i = j
  BY <1>1
<1>4. \A x \in first : \E j \in 1 .. n : f[j] = x
  BY DEF FirstOf
<1>. HIDE DEF f, first
<1>5. f \in Injection(1 .. n, first)
  BY <1>2, <1>3 DEF Injection, IsInjective
<1>6. f \in Surjection(1 .. n, first)
  BY <1>2, <1>4 DEF Surjection
<1>7. ExistsBijection(1 .. n, first)
  BY <1>5, <1>6 DEF Bijection, ExistsBijection
<1>8. IsFiniteSet(1 .. n) /\ Cardinality(1 .. n) = n
  BY <1>1, FS_Interval
<1>9. Cardinality(first) = n
  BY <1>7, <1>8, FS_Bijection
<1>10. QED
  BY <1>9 DEF first

\* There is one way to list reads, and InOrder finds it.
LEMMA ListedInOrder ==
    ASSUME NEW reads, Timed(reads), NEW q, Listed(q, reads)
    PROVE  Cardinality(reads) = Len(q) /\ InOrder(reads) = q
<1>1. /\ DOMAIN q = 1 .. Len(q) /\ Len(q) \in Nat
      /\ \A i \in DOMAIN q : q[i] \in reads /\ q[i].start \in Int
      /\ \A i, j \in DOMAIN q : q[i].start <= q[j].start => i <= j
      /\ \A x \in reads : \E i \in DOMAIN q : q[i] = x
      /\ \A i, j \in DOMAIN q : i < j => q[i].start < q[j].start
  BY ListedElements DEF Listed
<1>2. reads = FirstOf(q, Len(q))
  BY <1>1 DEF FirstOf
<1>3. Cardinality(reads) = Len(q)
  <2>1. Len(q) \in 0 .. Len(q)
    BY <1>1
  <2>2. QED
    BY <1>2, <2>1, ListedCardinality
<1>4. ASSUME NEW i \in DOMAIN q
      PROVE  Cardinality(Before(q[i], reads)) = i - 1
  <2>. DEFINE first == FirstOf(q, i - 1)
  <2>1. ASSUME NEW y \in Before(q[i], reads) PROVE y \in first
    <3>1. PICK j \in DOMAIN q : q[j] = y
      BY <1>1 DEF Before
    <3>2. ~ q[i].start <= q[j].start
      BY <1>1, <3>1 DEF Before
    <3>3. ~ i <= j
      BY <1>1, <3>2
    <3>4. QED
      BY <1>1, <3>1, <3>3 DEF FirstOf
  <2>2. ASSUME NEW j \in 1 .. i - 1 PROVE q[j] \in Before(q[i], reads)
    BY <1>1 DEF Before
  <2>3. Before(q[i], reads) = first
    BY <2>1, <2>2 DEF FirstOf
  <2>4. i - 1 \in 0 .. Len(q)
    BY <1>1
  <2>5. QED
    BY <2>3, <2>4, ListedCardinality
<1>5. ASSUME NEW i \in DOMAIN q
      PROVE  (CHOOSE x \in reads : Cardinality(Before(x, reads)) = i - 1) = q[i]
  <2>1. ASSUME NEW x \in reads, Cardinality(Before(x, reads)) = i - 1 PROVE x = q[i]
    <3>1. PICK j \in DOMAIN q : q[j] = x
      BY <1>1
    <3>2. j - 1 = i - 1
      BY <1>4, <2>1, <3>1
    <3>3. QED
      BY <1>1, <3>1, <3>2
  <2>2. QED
    BY <1>1, <1>4, <2>1
<1>6. InOrder(reads) = [i \in DOMAIN q |-> q[i]]
  BY <1>1, <1>3, <1>5 DEF InOrder
<1>7. q = [i \in DOMAIN q |-> q[i]]
  BY ListedElements
<1>8. QED
  BY <1>3, <1>6, <1>7

-----------------------------------------------------------------------------
(* A list over a cycle                                                     *)

ACycleLater(x) == [request |-> x.request, start |-> x.start - 1]

Later(reads) == {ACycleLater(x) : x \in reads}

\* The reads whose data is not yet there after cycle n.
After(n, reads) == {x \in reads : x.start > n}

\* The list without the read that is due in cycle n, if there is one.
WithoutFirst(n, q) == IF q # << >> /\ Head(q).start = n THEN Tail(q) ELSE q

LEMMA ListedWithoutFirst ==
    ASSUME NEW reads, Timed(reads), NEW q, Listed(q, reads), NEW n \in Int,
           \A x \in reads : x.start >= n
    PROVE  /\ Listed(WithoutFirst(n, q), After(n, reads))
           /\ \A x \in reads : x.start = n => q # << >> /\ x = Head(q)
<1>1. /\ q \in Seq(reads) /\ DOMAIN q = 1 .. Len(q) /\ Len(q) \in Nat
      /\ \A i \in DOMAIN q : q[i] \in reads /\ q[i].start \in Int
      /\ \A i, j \in DOMAIN q : q[i].start <= q[j].start => i <= j
      /\ \A x \in reads : \E i \in DOMAIN q : q[i] = x
      /\ \A i, j \in DOMAIN q : i < j => q[i].start < q[j].start
  BY ListedElements DEF Listed
<1>2. q # << >> => 1 \in DOMAIN q /\ Head(q) = q[1]
  <2>1. q # << >> => Len(q) \in Nat \ {0}
    BY <1>1, EmptySeq
  <2>2. QED
    BY <1>1, <2>1
<1>3. ASSUME NEW x \in reads, x.start = n PROVE q # << >> /\ x = Head(q)
  <2>1. PICK i \in DOMAIN q : q[i] = x
    BY <1>1
  <2>2. 1 \in DOMAIN q /\ q # << >>
    BY <1>1, <2>1, EmptySeq
  <2>3. q[1].start >= n /\ q[i].start = n
    BY <1>1, <1>3, <2>1, <2>2
  <2>4. i <= 1
    BY <1>1, <2>1, <2>2, <2>3
  <2>5. i = 1
    BY <1>1, <2>4
  <2>6. QED
    BY <1>2, <2>1, <2>2, <2>5
<1>4. CASE q # << >> /\ Head(q).start = n
  <2>. DEFINE rest == Tail(q)
  <2>1. /\ rest \in Seq(reads) /\ Len(rest) = Len(q) - 1
        /\ \A i \in 1 .. Len(rest) : rest[i] = q[i + 1]
        /\ DOMAIN rest = 1 .. Len(rest) /\ Len(rest) \in Nat
    BY <1>1, <1>4, HeadTailProperties, LenProperties
  <2>. HIDE DEF rest
  <2>2. ASSUME NEW i \in DOMAIN rest
        PROVE  /\ i + 1 \in DOMAIN q /\ rest[i] = q[i + 1]
               /\ rest[i] \in After(n, reads)
    <3>1. i + 1 \in DOMAIN q /\ rest[i] = q[i + 1] /\ 1 < i + 1
      BY <1>1, <2>1
    <3>2. q[1].start < q[i + 1].start /\ q[1].start = n
      BY <1>1, <1>2, <1>4, <3>1
    <3>3. QED
      BY <1>1, <3>1, <3>2 DEF After
  <2>3. rest \in [1 .. Len(rest) -> After(n, reads)]
    <3>1. rest \in [1 .. Len(rest) -> reads]
      BY <2>1, LenProperties
    <3>2. QED
      BY <2>1, <2>2, <3>1
  <2>4. rest \in Seq(After(n, reads))
    BY <2>1, <2>3, SeqDef
  <2>5. ASSUME NEW x \in After(n, reads) PROVE \E i \in DOMAIN rest : rest[i] = x
    <3>1. PICK k \in DOMAIN q : q[k] = x
      BY <1>1 DEF After
    <3>2. k # 1
      BY <1>1, <1>2, <1>4, <3>1 DEF After
    <3>3. k - 1 \in DOMAIN rest /\ (k - 1) + 1 = k
      BY <1>1, <2>1, <3>1, <3>2
    <3>4. rest[k - 1] = x
      BY <2>2, <3>1, <3>3
    <3>5. QED
      BY <3>3, <3>4
  <2>6. ASSUME NEW i \in DOMAIN rest, NEW j \in DOMAIN rest, i < j
        PROVE  rest[i].start < rest[j].start
    <3>1. i + 1 \in DOMAIN q /\ j + 1 \in DOMAIN q /\ i + 1 < j + 1
      BY <2>1, <2>2, <2>6
    <3>2. q[i + 1].start < q[j + 1].start
      BY <1>1, <3>1
    <3>3. QED
      BY <2>2, <3>2
  <2>7. Listed(rest, After(n, reads))
    BY <2>4, <2>5, <2>6 DEF Listed
  <2>8. WithoutFirst(n, q) = rest
    BY <1>4 DEF WithoutFirst, rest
  <2>9. QED
    BY <1>3, <2>7, <2>8
<1>5. CASE ~ (q # << >> /\ Head(q).start = n)
  <2>1. \A x \in reads : x.start # n
    BY <1>3, <1>5
  <2>2. After(n, reads) = reads
    <3>1. \A x \in reads : x.start \in Int
      BY DEF Timed
    <3>2. QED
      BY <2>1, <3>1 DEF After
  <2>3. WithoutFirst(n, q) = q
    BY <1>5 DEF WithoutFirst
  <2>4. QED
    BY <1>3, <2>2, <2>3
<1>6. QED
  BY <1>4, <1>5

ListLater(q) == [i \in DOMAIN q |-> ACycleLater(q[i])]

LEMMA ListedLater ==
    ASSUME NEW reads, Timed(reads), NEW q, Listed(q, reads)
    PROVE  /\ Timed(Later(reads))
           /\ Listed(ListLater(q), Later(reads))
           /\ Len(ListLater(q)) = Len(q)
           /\ RequestsOf(ListLater(q)) = RequestsOf(q)
<1>. DEFINE later == ListLater(q)
<1>1. /\ DOMAIN q = 1 .. Len(q) /\ Len(q) \in Nat
      /\ \A i \in DOMAIN q : q[i] \in reads /\ q[i].start \in Int
      /\ \A x \in reads : \E i \in DOMAIN q : q[i] = x
      /\ \A i, j \in DOMAIN q : i < j => q[i].start < q[j].start
  BY ListedElements DEF Listed
<1>2. /\ DOMAIN later = DOMAIN q
      /\ \A i \in DOMAIN q : later[i] = ACycleLater(q[i])
  BY DEF ListLater
<1>3. \A x : ACycleLater(x).request = x.request /\ ACycleLater(x).start = x.start - 1
  BY DEF ACycleLater
<1>4. Timed(Later(reads))
  BY <1>3 DEF Timed, Later
<1>5. later \in [1 .. Len(q) -> Later(reads)]
  BY <1>1 DEF ListLater, Later
<1>. HIDE DEF later
<1>6. later \in Seq(Later(reads))
  BY <1>1, <1>5, SeqDef
<1>7. Len(later) = Len(q)
  <2>1. DOMAIN later = 1 .. Len(later) /\ Len(later) \in Nat
    BY <1>6, LenProperties
  <2>2. QED
    BY <1>1, <1>2, <2>1, SameInterval
<1>8. ASSUME NEW y \in Later(reads) PROVE \E i \in DOMAIN later : later[i] = y
  <2>1. PICK x \in reads : y = ACycleLater(x)
    BY <1>8 DEF Later
  <2>2. PICK i \in DOMAIN q : q[i] = x
    BY <1>1
  <2>3. QED
    BY <1>2, <2>1, <2>2
<1>9. ASSUME NEW i \in DOMAIN later, NEW j \in DOMAIN later, i < j
      PROVE  later[i].start < later[j].start
  <2>. DEFINE m == q[i].start
              n == q[j].start
  <2>1. m < n /\ m \in Int /\ n \in Int
    BY <1>1, <1>2, <1>9
  <2>2. later[i].start = m - 1 /\ later[j].start = n - 1
    BY <1>2, <1>3, <1>9
  <2>. HIDE DEF m, n
  <2>3. QED
    BY <2>1, <2>2
<1>10. RequestsOf(later) = RequestsOf(q)
  BY <1>2, <1>3 DEF RequestsOf
<1>11. QED
  BY <1>4, <1>6, <1>7, <1>8, <1>9, <1>10 DEF Listed, later

LEMMA ListedAppended ==
    ASSUME NEW reads, Timed(reads), NEW q, Listed(q, reads), NEW new, new.start \in Int,
           \A x \in reads : x.start < new.start
    PROVE  /\ Listed(Append(q, new), reads \union {new})
           /\ Len(Append(q, new)) = Len(q) + 1
           /\ RequestsOf(Append(q, new)) = Append(RequestsOf(q), new.request)
<1>. DEFINE all == reads \union {new}
            after == Append(q, new)
<1>1. /\ DOMAIN q = 1 .. Len(q) /\ Len(q) \in Nat
      /\ \A i \in DOMAIN q : q[i] \in reads /\ q[i].start \in Int
      /\ \A x \in reads : \E i \in DOMAIN q : q[i] = x
      /\ \A i, j \in DOMAIN q : i < j => q[i].start < q[j].start
  BY ListedElements DEF Listed
<1>2. q \in Seq(all)
  BY SeqMonotonic DEF Listed
<1>3. /\ after \in Seq(all) /\ Len(after) = Len(q) + 1
      /\ \A i \in 1 .. Len(q) : after[i] = q[i]
      /\ after[Len(q) + 1] = new
      /\ DOMAIN after = 1 .. Len(after)
  BY <1>2, AppendProperties, LenProperties
<1>4. RequestsOf(after) = Append(RequestsOf(q), new.request)
  BY <1>1 DEF RequestsOf
<1>. HIDE DEF after
<1>5. ASSUME NEW x \in all PROVE \E i \in DOMAIN after : after[i] = x
  <2>1. CASE x \in reads
    <3>1. PICK i \in DOMAIN q : q[i] = x
      BY <1>1, <2>1
    <3>2. QED
      BY <1>1, <1>3, <3>1
  <2>2. CASE x = new
    BY <1>1, <1>3, <2>2
  <2>3. QED
    BY <2>1, <2>2
<1>6. ASSUME NEW i \in DOMAIN after, NEW j \in DOMAIN after, i < j
      PROVE  after[i].start < after[j].start
  <2>1. i \in DOMAIN q /\ after[i] = q[i]
    BY <1>1, <1>3, <1>6
  <2>2. CASE j \in DOMAIN q
    BY <1>1, <1>3, <1>6, <2>1, <2>2
  <2>3. CASE j \notin DOMAIN q
    <3>1. after[j] = new
      BY <1>1, <1>3, <2>3
    <3>2. QED
      BY <1>1, <2>1, <3>1
  <2>4. QED
    BY <2>2, <2>3
<1>7. QED
  BY <1>3, <1>4, <1>5, <1>6 DEF Listed, after

-----------------------------------------------------------------------------
(* The reads over a cycle                                                  *)

\* The data of a read is of the transaction its command was of.
LEMMA DataOfRead ==
    ASSUME NEW p \in BusPacket, p.busPacketType = "READ_P"
    PROVE  Requested(AsType(p, "READ_DATA")) = Requested(p)
  BY DEF Requested, AsType, BusPacket

LEMMA QueueReads ==
    ASSUME NEW queue \in Seq(Burst)
    PROVE  /\ \A i \in DOMAIN queue :
                 UnderWay(queue[i].packet, queue[i].countdown) \in ReadsOfQueue(queue)
           /\ \A x \in ReadsOfQueue(queue) : \E i \in DOMAIN queue :
                 x = UnderWay(queue[i].packet, queue[i].countdown)
  BY DEF ReadsOfQueue, PacketsOf

LEMMA QueueReadsAppended ==
    ASSUME NEW queue \in Seq(Burst), NEW e \in Burst
    PROVE  ReadsOfQueue(Append(queue, e)) =
              ReadsOfQueue(queue) \union {UnderWay(e.packet, e.countdown)}
<1>. DEFINE after == Append(queue, e)
<1>1. /\ DOMAIN after = 1 .. Len(queue) + 1
      /\ DOMAIN queue = 1 .. Len(queue) /\ Len(queue) \in Nat
      /\ Len(queue) + 1 \notin DOMAIN queue
      /\ \A i \in DOMAIN after :
            after[i] = IF i \in DOMAIN queue THEN queue[i] ELSE e
  BY BurstAppended, BurstPlaces
<1>. HIDE DEF after
<1>2. PacketsOf(after) = PacketsOf(queue) \union {e}
  <2>1. DOMAIN queue \subseteq DOMAIN after /\ Len(queue) + 1 \in DOMAIN after
    BY <1>1
  <2>2. QED
    BY <1>1, <2>1 DEF PacketsOf
<1>3. QED
  BY <1>2 DEF ReadsOfQueue, after

\* A queue that runs down: its reads are a cycle nearer, the one that was due has left.
LEMMA QueueReadsLater ==
    ASSUME NEW queue \in Seq(Burst), NEW within \in Nat, Ordered(queue, within)
    PROVE  ReadsOfQueue(AfterCountDown(queue)) = Later(After(1, ReadsOfQueue(queue)))
<1>. DEFINE after == AfterCountDown(queue)
<1>1. /\ DOMAIN queue = 1 .. Len(queue) /\ Len(queue) \in Nat
      /\ \A j \in DOMAIN queue : queue[j] \in Burst /\ queue[j].countdown \in Nat
      /\ queue # << >> => 1 \in DOMAIN queue /\ Head(queue) = queue[1]
  BY BurstPlaces
<1>2. after \in Seq(Burst)
  BY AfterCountDownType
<1>3. ASSUME NEW i \in DOMAIN after
      PROVE  /\ WasAt(queue, i) \in DOMAIN queue
             /\ after[i].packet = queue[WasAt(queue, i)].packet
             /\ after[i].countdown = queue[WasAt(queue, i)].countdown - 1
             /\ after[i].countdown >= 1
  BY BurstsMoveOn
<1>4. ASSUME NEW x \in ReadsOfQueue(after)
      PROVE  x \in Later(After(1, ReadsOfQueue(queue)))
  <2>1. PICK i \in DOMAIN after : x = UnderWay(after[i].packet, after[i].countdown)
    BY <1>2, <1>4, QueueReads
  <2>. DEFINE w == WasAt(queue, i)
              u == UnderWay(queue[w].packet, queue[w].countdown)
  <2>2. /\ w \in DOMAIN queue
        /\ after[i].packet = queue[w].packet
        /\ after[i].countdown = queue[w].countdown - 1 /\ after[i].countdown >= 1
        /\ queue[w].countdown \in Nat
    BY <1>1, <1>3, <2>1
  <2>3. queue[w].countdown > 1
    BY <2>2
  <2>4. u \in ReadsOfQueue(queue)
    BY <2>2, QueueReads
  <2>5. u.start = queue[w].countdown /\ x = ACycleLater(u)
    BY <2>1, <2>2 DEF UnderWay, ACycleLater
  <2>6. QED
    BY <2>3, <2>4, <2>5 DEF Later, After
<1>5. ASSUME NEW u \in After(1, ReadsOfQueue(queue))
      PROVE  ACycleLater(u) \in ReadsOfQueue(after)
  <2>1. u \in ReadsOfQueue(queue) /\ u.start > 1
    BY <1>5 DEF After
  <2>2. PICK w \in DOMAIN queue : u = UnderWay(queue[w].packet, queue[w].countdown)
    BY <2>1, QueueReads
  <2>3. queue[w].countdown > 1
    BY <2>1, <2>2 DEF UnderWay
  <2>4. \E i \in DOMAIN after : WasAt(queue, i) = w
    <3>1. CountDown(queue) \in Seq(Burst) /\ Len(CountDown(queue)) = Len(queue)
      BY CountDownType
    <3>2. CASE HeadIsDue(queue)
      <4>1. w # 1
        BY <1>1, <2>3, <3>2 DEF HeadIsDue
      <4>2. after = Tail(CountDown(queue)) /\ CountDown(queue) # << >>
        BY <1>1, <3>1, <3>2, EmptySeq DEF AfterCountDown, HeadIsDue
      <4>3. DOMAIN after = 1 .. Len(queue) - 1
        BY <3>1, <4>2, HeadTailProperties, LenProperties
      <4>4. w - 1 \in DOMAIN after /\ (w - 1) + 1 = w
        BY <1>1, <4>1, <4>3
      <4>5. QED
        BY <3>2, <4>4 DEF WasAt
    <3>3. CASE ~ HeadIsDue(queue)
      <4>1. DOMAIN after = DOMAIN queue
        BY <1>1, <3>1, <3>3, LenProperties DEF AfterCountDown
      <4>2. QED
        BY <3>3, <4>1 DEF WasAt
    <3>4. QED
      BY <3>2, <3>3
  <2>5. PICK i \in DOMAIN after : WasAt(queue, i) = w
    BY <2>4
  <2>6. /\ after[i].packet = queue[w].packet
        /\ after[i].countdown = queue[w].countdown - 1
    BY <1>3, <2>5
  <2>7. ACycleLater(u) = UnderWay(after[i].packet, after[i].countdown)
    BY <2>2, <2>6 DEF ACycleLater, UnderWay
  <2>8. QED
    BY <1>2, <2>5, <2>7, QueueReads
<1>. HIDE DEF after
<1>6. QED
  BY <1>4, <1>5 DEF Later, after

\* The reads in the ranks, and those that will be when the command bus has delivered.
ReadsInRanks == UNION {ReadsOfQueue(ranks[r].readReturnQueue) : r \in Ranks}
ReadsInRanksNow == UNION {ReadsOfQueue(RanksNow[r].readReturnQueue) : r \in Ranks}

LEMMA ReadsDelivered ==
    ASSUME TimingInv
    PROVE  ReadsInRanksNow = ReadsInRanks \union ReadsOnCommandBus
<1>1. TypeOK
  BY DEF TimingInv, QueueInv
<1>2. ASSUME NEW r \in Ranks
      PROVE  ReadsOfQueue(RanksNow[r].readReturnQueue) =
                ReadsOfQueue(ranks[r].readReturnQueue)
                \union (IF ReadArrives(r) THEN ReadsOnCommandBus ELSE {})
  <2>. DEFINE queue == ranks[r].readReturnQueue
              now == RanksNow[r].readReturnQueue
  <2>1. /\ queue \in Seq(Burst)
        /\ now = IF ReadArrives(r) THEN Append(queue, ArrivedRead) ELSE queue
        /\ ReadArrives(r) => ArrivedRead \in Burst
    BY <1>1, RankQueueNow
  <2>. HIDE DEF queue, now
  <2>2. CASE ReadArrives(r)
    <3>1. /\ inFlightCommandPacket \in BusPacket /\ inFlightCommandPacket # NULL
          /\ inFlightCommandPacket.busPacketType = "READ_P"
          /\ inFlightCommandCountdown = 1
      BY <1>1, <2>2 DEF ReadArrives, CommandArrives, TypeOK
    <3>2. UnderWay(ArrivedRead.packet, ArrivedRead.countdown)
             = UnderWay(inFlightCommandPacket, tCL)
      BY <3>1, DataOfRead DEF ArrivedRead, UnderWay
    <3>3. inFlightCommandCountdown + tCL - 1 = tCL
      BY <3>1, TimingTypes
    <3>4. ReadsOnCommandBus = {UnderWay(inFlightCommandPacket, tCL)}
      BY <3>1, <3>3 DEF ReadsOnCommandBus
    <3>5. ReadsOfQueue(now) = ReadsOfQueue(queue)
                              \union {UnderWay(ArrivedRead.packet, ArrivedRead.countdown)}
      BY <2>1, <2>2, QueueReadsAppended
    <3>6. QED
      BY <2>2, <3>2, <3>4, <3>5 DEF queue, now
  <2>3. CASE ~ ReadArrives(r)
    BY <2>1, <2>3 DEF queue, now
  <2>4. QED
    BY <2>2, <2>3
<1>3. ASSUME ReadsOnCommandBus # {} PROVE \E r \in Ranks : ReadArrives(r)
  <2>1. inFlightCommandPacket # NULL /\ inFlightCommandPacket.busPacketType = "READ_P"
    BY <1>3 DEF ReadsOnCommandBus
  <2>2. inFlightCommandPacket.rank \in Ranks /\ inFlightCommandCountdown = 1
    BY <1>1, <2>1 DEF TypeOK, BusPacket, TimingInv, CommandAccepted
  <2>3. QED
    BY <2>1, <2>2 DEF ReadArrives, CommandArrives
<1>. HIDE DEF ReadsOnCommandBus
<1>4. QED
  BY <1>2, <1>3 DEF ReadsInRanks, ReadsInRanksNow

\* Where a read in a rank is, and when its data is due.
LEMMA RankReads ==
    ASSUME TimingInv, NEW x \in ReadsInRanksNow
    PROVE  /\ x.start \in 1 .. tCL
           /\ x.start = 1 => \E r \in ReturningRanks : x = UnderWay(ReturnedPacket(RanksNow[r]), 1)
<1>1. PICK r \in Ranks : x \in ReadsOfQueue(RanksNow[r].readReturnQueue)
  BY DEF ReadsInRanksNow
<1>. DEFINE now == RanksNow[r].readReturnQueue
<1>2. now \in Seq(Burst) /\ Ordered(now, tCL)
  <2>1. TypeOK
    BY DEF TimingInv, QueueInv
  <2>2. QED
    BY <2>1, RankQueueNow, RankQueueOrdered
<1>3. PICK i \in DOMAIN now : x = UnderWay(now[i].packet, now[i].countdown)
  BY <1>1, <1>2, QueueReads
<1>4. x.start = now[i].countdown /\ now[i].countdown \in 1 .. tCL
  BY <1>2, <1>3 DEF UnderWay, Ordered
<1>5. ASSUME x.start = 1
      PROVE  r \in ReturningRanks /\ x = UnderWay(ReturnedPacket(RanksNow[r]), 1)
  <2>1. /\ DOMAIN now = 1 .. Len(now) /\ Len(now) \in Nat
        /\ now # << >> /\ 1 \in DOMAIN now /\ Head(now) = now[1]
    BY <1>2, <1>3, BurstPlaces, EmptySeq
  <2>2. i = 1
    <3>1. ~ 1 < i
      <4>1. now[1].countdown \in 1 .. tCL
        BY <1>2, <2>1 DEF Ordered
      <4>2. 1 < i => now[1].countdown < now[i].countdown
        BY <1>2, <1>3, <2>1 DEF Ordered
      <4>3. QED
        BY <1>4, <1>5, <4>1, <4>2
    <3>2. QED
      BY <1>3, <2>1, <3>1
  <2>3. HeadIsDue(now)
    BY <1>4, <1>5, <2>1, <2>2 DEF HeadIsDue
  <2>4. r \in ReturningRanks
    BY <1>1, <2>3 DEF ReturningRanks, ReturnIsDue
  <2>5. x = UnderWay(ReturnedPacket(RanksNow[r]), 1)
    BY <1>3, <1>4, <1>5, <2>1, <2>2 DEF ReturnedPacket
  <2>6. QED
    BY <2>4, <2>5
<1>6. QED
  BY <1>1, <1>4, <1>5

\* The reads the data bus takes in this cycle.
DueReads == {x \in ReadsInRanksNow : x.start = 1}

\* The ranks have no read left that is due: the data bus has taken it.
LEMMA DataReadsLater ==
    ASSUME TimingInv, NEW sendsCommand, NEW sendsCAS, Cycle(sendsCommand, sendsCAS)
    PROVE  ReadsOnDataBus' = Later(DueReads)
                             \union Later(After(1 - BURST, ReadsOnDataBus))
<1>. DEFINE left == After(1 - BURST, ReadsOnDataBus)
<1>1. /\ TypeOK /\ BURST \in Nat
      /\ inFlightDataPacket # NULL => inFlightDataCountdown \in 1 .. BURST
      /\ \A i \in DOMAIN writeBurstQueue :
            writeBurstQueue[i].packet.busPacketType = "WRITE_DATA"
  BY TimingTypes DEF TimingInv, QueueInv, QueuesOrdered, DataNamed
<1>2. DataBusFree => left = {}
  <2>1. ASSUME inFlightDataPacket # NULL, inFlightDataCountdown = 1,
               NEW x \in ReadsOnDataBus
        PROVE  ~ x.start > 1 - BURST
    BY <1>1, <2>1 DEF ReadsOnDataBus, UnderWay
  <2>2. inFlightDataPacket = NULL => ReadsOnDataBus = {}
    BY DEF ReadsOnDataBus
  <2>3. QED
    BY <2>1, <2>2 DEF DataBusFree, DataArrives, After
<1>3. ASSUME NEW r \in ReturningRanks
      PROVE  ReadsOnDataBus' = Later(DueReads) \union Later(left)
  <2>. DEFINE p == ReturnedPacket(RanksNow[r])
  <2>1. \A s \in ReturningRanks : ReturnedPacket(RanksNow[s]) = p
    BY <1>3, DueReadStarts
  <2>2. DueReads \subseteq {UnderWay(p, 1)}
    BY <2>1, RankReads DEF DueReads
  <2>3. p \in BusPacket /\ p.busPacketType = "READ_DATA" /\ UnderWay(p, 1) \in ReadsInRanksNow
    <3>. DEFINE now == RanksNow[r].readReturnQueue
    <3>1. /\ r \in Ranks /\ now \in Seq(Burst) /\ HeadIsDue(now)
          /\ \A i \in DOMAIN now : now[i].packet.busPacketType = "READ_DATA"
      BY <1>1, RankQueueNow, RankQueueOrdered DEF ReturningRanks, ReturnIsDue
    <3>2. 1 \in DOMAIN now /\ p = now[1].packet /\ now[1].countdown = 1 /\ p \in BusPacket
      BY <3>1, BurstPlaces DEF HeadIsDue, ReturnedPacket
    <3>3. UnderWay(p, 1) \in ReadsOfQueue(now)
      BY <3>1, <3>2, QueueReads
    <3>4. QED
      BY <3>1, <3>2, <3>3 DEF ReadsInRanksNow
  <2>4. /\ inFlightDataPacket' = p /\ inFlightDataCountdown' = BURST
        /\ DataBusFree
    <3>1. inFlightDataPacket' = p
      BY <1>3, DueReadStarts
    <3>2. inFlightDataCountdown' = BURST
      BY <1>3 DEF Cycle, DataBusAdvances, DataStarts
    <3>3. DataBusFree
      BY <1>3, BusesClear DEF DataBusCollides
    <3>4. QED
      BY <3>1, <3>2, <3>3
  <2>5. ReadsOnDataBus' = {UnderWay(p, 0)}
    <3>1. p # NULL /\ BURST - BURST = 0
      BY <1>1, <2>3, PacketAssumption
    <3>2. QED
      BY <2>3, <2>4, <3>1 DEF ReadsOnDataBus
  <2>6. DueReads = {UnderWay(p, 1)}
    BY <2>2, <2>3 DEF DueReads, UnderWay
  <2>7. ACycleLater(UnderWay(p, 1)) = UnderWay(p, 0)
    BY DEF ACycleLater, UnderWay
  <2>. HIDE DEF p
  <2>8. QED
    BY <1>2, <2>4, <2>5, <2>6, <2>7 DEF Later
<1>4. CASE ReturningRanks = {}
  <2>1. DueReads = {}
    BY <1>4, RankReads DEF DueReads
  <2>2. CASE WriteIsDue
    <3>1. inFlightDataPacket' = DueWrite /\ DataBusFree
      BY <2>2, BusesClear DEF Cycle, DataBusAdvances, DataStarts, DataBusCollides
    <3>2. DueWrite.busPacketType = "WRITE_DATA"
      <4>1. writeBurstQueue \in Seq(Burst) /\ writeBurstQueue # << >>
        BY <1>1, <2>2 DEF TypeOK, ControllerTypeOK, WriteIsDue, HeadIsDue
      <4>2. 1 \in DOMAIN writeBurstQueue /\ Head(writeBurstQueue) = writeBurstQueue[1]
        BY <4>1, BurstPlaces
      <4>3. QED
        BY <1>1, <4>2 DEF DueWrite
    <3>3. ReadsOnDataBus' = {}
      BY <3>1, <3>2 DEF ReadsOnDataBus
    <3>4. QED
      BY <1>2, <2>1, <3>1, <3>3 DEF Later
  <2>3. CASE ~ WriteIsDue /\ DataArrives
    <3>1. inFlightDataPacket' = NULL /\ DataBusFree
      BY <1>4, <2>3 DEF Cycle, DataBusAdvances, DataBusFree
    <3>2. ReadsOnDataBus' = {}
      BY <3>1 DEF ReadsOnDataBus
    <3>3. QED
      BY <1>2, <2>1, <3>1, <3>2 DEF Later
  <2>4. CASE ~ WriteIsDue /\ ~ DataArrives
    <3>1. /\ inFlightDataPacket' = inFlightDataPacket
          /\ inFlightDataCountdown' = OneLess(inFlightDataCountdown)
      BY <1>4, <2>4 DEF Cycle, DataBusAdvances
    <3>2. CASE inFlightDataPacket = NULL
      <4>1. ReadsOnDataBus' = {} /\ ReadsOnDataBus = {}
        BY <3>1, <3>2 DEF ReadsOnDataBus
      <4>2. QED
        BY <2>1, <4>1 DEF Later, After
    <3>3. CASE inFlightDataPacket # NULL
      <4>. DEFINE n == inFlightDataCountdown - BURST
      <4>1. inFlightDataCountdown \in 2 .. BURST
        BY <1>1, <2>4, <3>3 DEF DataArrives
      <4>2. inFlightDataCountdown' - BURST = n - 1 /\ n > 1 - BURST
        BY <1>1, <3>1, <4>1 DEF OneLess
      <4>. HIDE DEF n
      <4>3. \A x \in ReadsOnDataBus : x.start = n
        BY DEF ReadsOnDataBus, UnderWay, n
      <4>4. left = ReadsOnDataBus
        BY <4>2, <4>3 DEF After
      <4>5. CASE inFlightDataPacket.busPacketType = "READ_DATA"
        <5>1. /\ ReadsOnDataBus = {UnderWay(inFlightDataPacket, n)}
              /\ ReadsOnDataBus' = {UnderWay(inFlightDataPacket, n - 1)}
          BY <3>1, <3>3, <4>2, <4>5 DEF ReadsOnDataBus, n
        <5>2. ACycleLater(UnderWay(inFlightDataPacket, n))
                 = UnderWay(inFlightDataPacket, n - 1)
          BY DEF ACycleLater, UnderWay
        <5>3. QED
          BY <2>1, <4>4, <5>1, <5>2 DEF Later
      <4>6. CASE inFlightDataPacket.busPacketType # "READ_DATA"
        <5>1. ReadsOnDataBus = {} /\ ReadsOnDataBus' = {}
          BY <3>1, <4>6 DEF ReadsOnDataBus
        <5>2. QED
          BY <2>1, <4>4, <5>1 DEF Later
      <4>7. QED
        BY <4>5, <4>6
    <3>4. QED
      BY <3>2, <3>3
  <2>5. QED
    BY <2>2, <2>3, <2>4
<1>5. QED
  BY <1>3, <1>4

\* A cycle brings every read a cycle nearer, wherever it is, but the one whose data has
\* arrived; and the one whose command is sent is added.
LEMMA ReadsLater ==
    ASSUME TimingInv, NEW sendsCommand, NEW sendsCAS, Cycle(sendsCommand, sendsCAS)
    PROVE  ReadsUnderWay' =
              ReadsOnCommandBus' \union Later(After(1 - BURST, ReadsUnderWay))
<1>1. TypeOK /\ BURST \in Nat /\ BURST >= 1
  BY TimingTypes, TimingPositive DEF TimingInv, QueueInv
<1>2. ReadsInRanks' = Later(After(1, ReadsInRanksNow))
  <2>1. ASSUME NEW r \in Ranks
        PROVE  ReadsOfQueue(ranks'[r].readReturnQueue)
                  = Later(After(1, ReadsOfQueue(RanksNow[r].readReturnQueue)))
    <3>1. ranks'[r].readReturnQueue = AfterCountDown(RanksNow[r].readReturnQueue)
      BY DEF Cycle, UpdateRank
    <3>2. /\ RanksNow[r].readReturnQueue \in Seq(Burst) /\ tCL \in Nat
          /\ Ordered(RanksNow[r].readReturnQueue, tCL)
      BY <1>1, RankQueueNow, RankQueueOrdered, TimingTypes
    <3>3. QED
      BY <3>1, <3>2, QueueReadsLater
  <2>2. ReadsInRanks' = UNION {ReadsOfQueue(ranks'[r].readReturnQueue) : r \in Ranks}
    BY DEF ReadsInRanks, ReadsOfQueue, PacketsOf
  <2>3. ReadsInRanks' =
           UNION {Later(After(1, ReadsOfQueue(RanksNow[r].readReturnQueue))) : r \in Ranks}
    BY <2>1, <2>2
  <2>4. QED
    BY <2>3 DEF ReadsInRanksNow, Later, After
<1>3. ReadsInRanks' \union Later(DueReads) = Later(After(1 - BURST, ReadsInRanksNow))
  <2>1. \A x \in ReadsInRanksNow :
           /\ x.start \in Int
           /\ x.start > 1 - BURST
           /\ x \in After(1, ReadsInRanksNow) \union DueReads
    <3>1. \A x \in ReadsInRanksNow : x.start \in 1 .. tCL /\ tCL \in Nat
      BY RankReads, TimingTypes
    <3>2. QED
      BY <1>1, <3>1 DEF After, DueReads
  <2>2. After(1 - BURST, ReadsInRanksNow) = ReadsInRanksNow
    BY <2>1 DEF After
  <2>3. After(1, ReadsInRanksNow) \union DueReads = ReadsInRanksNow
    BY <2>1 DEF After, DueReads
  <2>4. QED
    BY <1>2, <2>2, <2>3 DEF Later
<1>4. ReadsOnDataBus' = Later(DueReads) \union Later(After(1 - BURST, ReadsOnDataBus))
  BY DataReadsLater
<1>5. ReadsInRanks' \union ReadsOnDataBus'
         = Later(After(1 - BURST, ReadsInRanksNow \union ReadsOnDataBus))
  <2>1. Later(After(1 - BURST, ReadsInRanksNow \union ReadsOnDataBus))
           = Later(After(1 - BURST, ReadsInRanksNow))
             \union Later(After(1 - BURST, ReadsOnDataBus))
    BY DEF Later, After
  <2>2. QED
    BY <1>3, <1>4, <2>1
<1>6. ReadsInRanksNow \union ReadsOnDataBus = ReadsUnderWay
  BY ReadsDelivered DEF ReadsUnderWay, ReadsInRanks
<1>7. ReadsUnderWay' = ReadsOnCommandBus' \union (ReadsInRanks' \union ReadsOnDataBus')
  BY DEF ReadsUnderWay, ReadsInRanks
<1>8. QED
  BY <1>5, <1>6, <1>7

\* When the data of the reads is due, and which read it is that has arrived.
LEMMA ReadsTimed ==
    ASSUME TimingInv, OnlyCPU
    PROVE  /\ Timed(ReadsUnderWay)
           /\ \A x \in ReadsUnderWay : x.start >= 1 - BURST /\ x.start <= tCL
           /\ ReadReturns =>
                 UnderWay(inFlightDataPacket, 1 - BURST) \in ReadsUnderWay
           /\ \A x \in ReadsUnderWay : x.start = 1 - BURST => ReadReturns
<1>1. /\ TypeOK /\ BURST \in Nat /\ BURST >= 1 /\ tCL \in Nat /\ tCL >= 1
      /\ inFlightDataPacket # NULL => inFlightDataCountdown \in 1 .. BURST
  BY TimingTypes, TimingPositive DEF TimingInv, QueueInv, QueuesOrdered
<1>2. ReadsUnderWay = ReadsInRanksNow \union ReadsOnDataBus
  BY ReadsDelivered DEF ReadsUnderWay, ReadsInRanks
<1>3. ASSUME NEW x \in ReadsInRanksNow PROVE x.start \in 1 .. tCL
  BY RankReads
<1>4. ASSUME NEW x \in ReadsOnDataBus
      PROVE  /\ inFlightDataPacket # NULL
             /\ inFlightDataPacket.busPacketType = "READ_DATA"
             /\ x.start = inFlightDataCountdown - BURST
  BY DEF ReadsOnDataBus, UnderWay
<1>5. ASSUME NEW x \in ReadsUnderWay
      PROVE  /\ x.start \in Int /\ x.start >= 1 - BURST /\ x.start <= tCL
             /\ x.start = 1 - BURST => ReadReturns
  <2>1. CASE x \in ReadsInRanksNow
    BY <1>1, <1>3, <2>1
  <2>2. CASE x \in ReadsOnDataBus
    <3>1. inFlightDataCountdown \in 1 .. BURST
      BY <1>1, <1>4, <2>2
    <3>2. x.start \in Int /\ x.start >= 1 - BURST /\ x.start <= tCL
      BY <1>1, <1>4, <2>2, <3>1
    <3>3. ASSUME x.start = 1 - BURST PROVE ReadReturns
      <4>1. inFlightDataCountdown = 1
        BY <1>1, <1>4, <2>2, <3>1, <3>3
      <4>2. QED
        BY <1>4, <2>2, <4>1 DEF ReadReturns, DataArrives, OnlyCPU
    <3>4. QED
      BY <3>2, <3>3
  <2>3. QED
    BY <1>2, <1>5, <2>1, <2>2
<1>6. ASSUME ReadReturns
      PROVE  UnderWay(inFlightDataPacket, 1 - BURST) \in ReadsUnderWay
  <2>1. /\ inFlightDataPacket # NULL /\ inFlightDataCountdown = 1
        /\ inFlightDataPacket.busPacketType = "READ_DATA"
    BY <1>6 DEF ReadReturns, DataArrives
  <2>2. UnderWay(inFlightDataPacket, 1 - BURST) \in ReadsOnDataBus
    BY <2>1 DEF ReadsOnDataBus
  <2>3. QED
    BY <1>2, <2>2
<1>7. QED
  BY <1>5, <1>6 DEF Timed

-----------------------------------------------------------------------------
(* The reads sent stay in the order of their data                          *)

Issued == RequestsOf(InOrder(ReadsUnderWay))

ReadsListed ==
    /\ Listed(InOrder(ReadsUnderWay), ReadsUnderWay)
    /\ Len(InOrder(ReadsUnderWay)) = outstandingReads

OrderInv == AccountInv /\ ReadsListed

LEMMA RequestsListed ==
    ASSUME NEW reads, NEW q \in Seq(reads)
    PROVE  /\ DOMAIN RequestsOf(q) = 1 .. Len(q) /\ Len(q) \in Nat
           /\ Len(RequestsOf(q)) = Len(q)
           /\ RequestsOf(q) \in Seq({x.request : x \in reads})
           /\ q # << >> =>
                 /\ RequestsOf(q) # << >>
                 /\ Head(RequestsOf(q)) = Head(q).request
                 /\ RequestsOf(Tail(q)) = Tail(RequestsOf(q))
<1>. DEFINE requests == RequestsOf(q)
            all == {x.request : x \in reads}
<1>1. DOMAIN q = 1 .. Len(q) /\ Len(q) \in Nat /\ \A i \in DOMAIN q : q[i] \in reads
  BY LenProperties, ElementOfSeq
<1>2. requests \in [1 .. Len(q) -> all] /\ \A i \in DOMAIN q : requests[i] = q[i].request
  BY <1>1 DEF RequestsOf
<1>. HIDE DEF requests
<1>3. requests \in Seq(all)
  BY <1>1, <1>2, SeqDef
<1>4. DOMAIN requests = 1 .. Len(requests) /\ Len(requests) \in Nat
  BY <1>3, LenProperties
<1>5. Len(requests) = Len(q) /\ DOMAIN requests = 1 .. Len(q)
  BY <1>1, <1>2, <1>4, SameInterval
<1>6. ASSUME q # << >>
      PROVE  /\ requests # << >>
             /\ Head(requests) = Head(q).request
             /\ RequestsOf(Tail(q)) = Tail(requests)
  <2>1. Len(q) >= 1 /\ requests # << >>
    BY <1>1, <1>3, <1>5, <1>6, EmptySeq
  <2>2. Head(requests) = Head(q).request
    BY <1>1, <1>2, <1>6, <2>1
  <2>3. /\ Tail(q) \in Seq(reads) /\ Len(Tail(q)) = Len(q) - 1
        /\ \A i \in 1 .. Len(Tail(q)) : Tail(q)[i] = q[i + 1]
        /\ DOMAIN Tail(q) = 1 .. Len(Tail(q))
    BY <1>6, HeadTailProperties, LenProperties
  <2>4. /\ Tail(requests) \in Seq(all) /\ Len(Tail(requests)) = Len(q) - 1
        /\ \A i \in 1 .. Len(Tail(requests)) : Tail(requests)[i] = requests[i + 1]
        /\ DOMAIN Tail(requests) = 1 .. Len(Tail(requests))
        /\ Tail(requests) \in [1 .. Len(Tail(requests)) -> all]
    BY <1>3, <1>5, <2>1, HeadTailProperties, LenProperties
  <2>5. \A i \in 1 .. Len(q) - 1 : Tail(requests)[i] = Tail(q)[i].request
    BY <1>1, <1>2, <2>3, <2>4
  <2>. DEFINE t == Tail(requests)
              u == Tail(q)
  <2>6. RequestsOf(u) = [i \in 1 .. Len(q) - 1 |-> u[i].request]
    BY <2>3 DEF RequestsOf
  <2>7. t \in [1 .. Len(q) - 1 -> all] /\ \A i \in 1 .. Len(q) - 1 : t[i] = u[i].request
    BY <2>4, <2>5
  <2>. HIDE DEF t, u
  <2>8. t = [i \in 1 .. Len(q) - 1 |-> u[i].request]
    BY <2>7
  <2>9. QED
    BY <2>1, <2>2, <2>6, <2>8 DEF t, u
<1>7. QED
  BY <1>1, <1>3, <1>5, <1>6 DEF requests

\* The reads a cycle later, without the one that has arrived, and their list.
ReadsLeft == Later(After(1 - BURST, ReadsUnderWay))

ListLeft == ListLater(WithoutFirst(1 - BURST, InOrder(ReadsUnderWay)))

IssuedNow == IF ReadReturns THEN Tail(Issued) ELSE Issued

LEMMA ListAdvances ==
    ASSUME OrderInv
    PROVE  /\ Timed(ReadsLeft) /\ \A x \in ReadsLeft : x.start < tCL
           /\ Listed(ListLeft, ReadsLeft)
           /\ Len(ListLeft) = OutstandingNow
           /\ RequestsOf(ListLeft) = IssuedNow
           /\ ReadReturns => Issued # << >> /\ Head(Issued) = Requested(inFlightDataPacket)
<1>. DEFINE reads == ReadsUnderWay
            q == InOrder(ReadsUnderWay)
            n == 1 - BURST
            rest == WithoutFirst(n, q)
<1>1. /\ Timed(reads) /\ \A x \in reads : x.start >= n /\ x.start <= tCL
      /\ ReadReturns => UnderWay(inFlightDataPacket, n) \in reads
      /\ \A x \in reads : x.start = n => ReadReturns
      /\ n \in Int /\ tCL \in Nat
  BY ReadsTimed, TimingTypes DEF OrderInv, AccountInv
<1>2. /\ Listed(q, reads) /\ q \in Seq(reads) /\ Len(q) = outstandingReads
      /\ Len(q) \in Nat
  BY LenProperties DEF OrderInv, ReadsListed, Listed
<1>. HIDE DEF n, reads, q
<1>3. /\ Listed(rest, After(n, reads))
      /\ \A x \in reads : x.start = n => q # << >> /\ x = Head(q)
  BY <1>1, <1>2, ListedWithoutFirst
<1>4. ASSUME ReadReturns
      PROVE  q # << >> /\ Head(q) = UnderWay(inFlightDataPacket, n)
  <2>1. UnderWay(inFlightDataPacket, n).start = n
    BY DEF UnderWay
  <2>2. QED
    BY <1>1, <1>3, <1>4, <2>1
<1>5. rest = IF ReadReturns THEN Tail(q) ELSE q
  <2>1. CASE ReadReturns
    <3>1. Head(q).start = n
      BY <1>4, <2>1 DEF UnderWay
    <3>2. QED
      BY <1>4, <2>1, <3>1 DEF WithoutFirst
  <2>2. CASE ~ ReadReturns
    <3>1. q # << >> => Head(q) \in reads
      BY <1>2, HeadTailProperties
    <3>2. ~ (q # << >> /\ Head(q).start = n)
      BY <1>1, <2>2, <3>1
    <3>3. QED
      BY <2>2, <3>2 DEF WithoutFirst
  <2>3. QED
    BY <2>1, <2>2
<1>6. Len(rest) = OutstandingNow
  <2>1. CASE ReadReturns
    <3>1. Len(rest) = Len(q) - 1 /\ Len(q) # 0
      <4>1. q # << >> /\ rest = Tail(q)
        BY <1>4, <1>5, <2>1
      <4>2. Len(Tail(q)) = Len(q) - 1
        BY <1>2, <4>1, HeadTailProperties
      <4>3. QED
        BY <1>2, <4>1, <4>2, EmptySeq
    <3>2. QED
      BY <1>2, <2>1, <3>1 DEF OutstandingNow, Decremented
  <2>2. CASE ~ ReadReturns
    BY <1>2, <1>5, <2>2 DEF OutstandingNow
  <2>3. QED
    BY <2>1, <2>2
<1>7. RequestsOf(rest) = IF ReadReturns THEN Tail(RequestsOf(q)) ELSE RequestsOf(q)
  <2>1. q # << >> => RequestsOf(Tail(q)) = Tail(RequestsOf(q))
    BY <1>2, RequestsListed
  <2>2. QED
    BY <1>4, <1>5, <2>1
<1>8. ReadReturns => /\ RequestsOf(q) # << >>
                     /\ Head(RequestsOf(q)) = Requested(inFlightDataPacket)
  <2>1. q # << >> => RequestsOf(q) # << >> /\ Head(RequestsOf(q)) = Head(q).request
    BY <1>2, RequestsListed
  <2>2. UnderWay(inFlightDataPacket, n).request = Requested(inFlightDataPacket)
    BY DEF UnderWay
  <2>3. QED
    BY <1>4, <2>1, <2>2
<1>9. Timed(After(n, reads)) /\ \A x \in After(n, reads) : x.start \in Int /\ x.start <= tCL
  BY <1>1 DEF Timed, After
<1>. HIDE DEF rest
<1>10. /\ Timed(Later(After(n, reads)))
       /\ Listed(ListLater(rest), Later(After(n, reads)))
       /\ Len(ListLater(rest)) = Len(rest)
       /\ RequestsOf(ListLater(rest)) = RequestsOf(rest)
  BY <1>3, <1>9, ListedLater
<1>11. \A x \in Later(After(n, reads)) : x.start < tCL
  <2>1. \A x : ACycleLater(x).start = x.start - 1
    BY DEF ACycleLater
  <2>2. \A x \in After(n, reads) : x.start - 1 < tCL
    BY <1>1, <1>9
  <2>3. QED
    BY <2>1, <2>2 DEF Later
<1>12. /\ ReadsLeft = Later(After(n, reads)) /\ ListLeft = ListLater(rest)
       /\ Issued = RequestsOf(q)
  BY DEF ReadsLeft, ListLeft, Issued, rest, q, reads, n
<1>13. RequestsOf(ListLeft) = IssuedNow
  BY <1>7, <1>10, <1>12 DEF IssuedNow
<1>14. QED
  BY <1>6, <1>8, <1>10, <1>11, <1>12, <1>13

LEMMA ListedNext ==
    ASSUME NEW q, Listed(q, ReadsUnderWay'), Timed(ReadsUnderWay')
    PROVE  /\ InOrder(ReadsUnderWay)' = q
           /\ Listed(InOrder(ReadsUnderWay), ReadsUnderWay)'
           /\ Issued' = RequestsOf(q)
<1>1. InOrder(ReadsUnderWay') = q
  BY ListedInOrder
<1>2. InOrder(ReadsUnderWay)' = InOrder(ReadsUnderWay')
  BY DEF InOrder, Before
<1>3. QED
  BY <1>1, <1>2 DEF Issued, RequestsOf, Listed

\* An Update that sends no READ.
LEMMA NoReadIssued ==
    ASSUME OrderInv, NEW sendsCommand, NEW sendsCAS, Cycle(sendsCommand, sendsCAS),
           \/ inFlightCommandPacket' = NULL
           \/ inFlightCommandPacket'.busPacketType # "READ_P",
           outstandingReads' = OutstandingNow
    PROVE  ReadsListed' /\ Issued' = IssuedNow
<1>1. ReadsOnCommandBus' = {}
  BY DEF ReadsOnCommandBus
<1>2. ReadsUnderWay' = ReadsLeft
  BY <1>1, ReadsLater DEF OrderInv, AccountInv, ReadsLeft
<1>3. /\ Timed(ReadsUnderWay') /\ Listed(ListLeft, ReadsUnderWay')
      /\ Len(ListLeft) = OutstandingNow /\ RequestsOf(ListLeft) = IssuedNow
  BY <1>2, ListAdvances
<1>4. /\ InOrder(ReadsUnderWay)' = ListLeft
      /\ Listed(InOrder(ReadsUnderWay), ReadsUnderWay)'
      /\ Issued' = RequestsOf(ListLeft)
  BY <1>3, ListedNext
<1>5. QED
  BY <1>3, <1>4 DEF ReadsListed

\* An Update that sends the READ at position i.
LEMMA ReadIssued ==
    ASSUME OrderInv, NEW i \in DOMAIN commandQueue, IssueRead(i)
    PROVE  ReadsListed' /\ Issued' = Append(IssuedNow, Requested(commandQueue[i]))
<1>. DEFINE p == commandQueue[i]
            new == UnderWay(p, tCL)
            q == Append(ListLeft, new)
<1>1. /\ Cycle(TRUE, TRUE) /\ p.busPacketType = "READ_P"
      /\ inFlightCommandPacket' = p /\ inFlightCommandCountdown' = tCMDS
      /\ outstandingReads' = OutstandingNow + 1
  BY DEF IssueRead, ControllerRead, CommandStarts
<1>2. p # NULL
  <2>1. commandQueue \in Seq(BusPacket)
    BY DEF OrderInv, AccountInv, IInv, TypeOK, ControllerTypeOK
  <2>2. p \in BusPacket
    BY <2>1, LenProperties, ElementOfSeq
  <2>3. QED
    BY <2>2, PacketAssumption
<1>3. tCMDS = 1 /\ tCL \in Nat
  BY DeviceAssumption, TimingTypes
<1>4. ReadsOnCommandBus' = {new}
  <2>1. inFlightCommandCountdown' + tCL - 1 = tCL
    BY <1>1, <1>3
  <2>2. QED
    BY <1>1, <1>2, <2>1 DEF ReadsOnCommandBus
<1>5. ReadsUnderWay' = ReadsLeft \union {new}
  BY <1>1, <1>4, ReadsLater DEF OrderInv, AccountInv, ReadsLeft
<1>6. /\ Timed(ReadsLeft) /\ \A x \in ReadsLeft : x.start < tCL
      /\ Listed(ListLeft, ReadsLeft)
      /\ Len(ListLeft) = OutstandingNow
      /\ RequestsOf(ListLeft) = IssuedNow
  BY ListAdvances
<1>7. new.start = tCL /\ new.request = Requested(p)
  BY DEF UnderWay
<1>. HIDE DEF new, p
<1>8. /\ Listed(q, ReadsLeft \union {new})
      /\ Len(q) = Len(ListLeft) + 1
      /\ RequestsOf(q) = Append(RequestsOf(ListLeft), new.request)
  <2>1. new.start \in Int /\ \A x \in ReadsLeft : x.start < new.start
    BY <1>3, <1>6, <1>7
  <2>2. Timed(ReadsLeft) /\ Listed(ListLeft, ReadsLeft)
    BY <1>6
  <2>3. QED
    BY <2>1, <2>2, ListedAppended
<1>9. Timed(ReadsLeft \union {new})
  BY <1>3, <1>6, <1>7 DEF Timed
<1>. HIDE DEF q
<1>10. /\ InOrder(ReadsUnderWay)' = q
       /\ Listed(InOrder(ReadsUnderWay), ReadsUnderWay)'
       /\ Issued' = RequestsOf(q)
  BY <1>5, <1>8, <1>9, ListedNext
<1>11. QED
  BY <1>1, <1>6, <1>7, <1>8, <1>10 DEF ReadsListed, p

\* What does not touch the reads leaves them in order.
LEMMA ReadsUnchanged ==
    ASSUME OrderInv, UNCHANGED <<busVars, outstandingReads>>
    PROVE  ReadsListed' /\ Issued' = Issued
<1>1. ReadsUnderWay' = ReadsUnderWay
  BY DEF ReadsUnderWay, ReadsOnCommandBus, ReadsOnDataBus, busVars
<1>2. InOrder(ReadsUnderWay)' = InOrder(ReadsUnderWay)
  BY <1>1 DEF InOrder, Before
<1>3. Issued' = Issued
  BY <1>2 DEF Issued, RequestsOf
<1>4. Listed(InOrder(ReadsUnderWay), ReadsUnderWay)'
  BY <1>1, <1>2 DEF OrderInv, ReadsListed, Listed
<1>5. QED
  BY <1>2, <1>3, <1>4 DEF OrderInv, ReadsListed

LEMMA OrderInit ==
    ASSUME Origins = {FALSE}
    PROVE  Init => OrderInv /\ Issued = << >>
<1>1. SUFFICES ASSUME Init PROVE OrderInv /\ Issued = << >>
  OBVIOUS
<1>2. ReadsUnderWay = {}
  <2>1. \A r \in Ranks : ranks[r].readReturnQueue = << >>
    BY <1>1 DEF Init, NewRank
  <2>2. ReadsInRanks = {}
    BY <2>1 DEF ReadsInRanks, ReadsOfQueue, PacketsOf
  <2>3. ReadsOnCommandBus = {} /\ ReadsOnDataBus = {}
    BY <1>1 DEF Init, ReadsOnCommandBus, ReadsOnDataBus
  <2>4. QED
    BY <2>2, <2>3 DEF ReadsUnderWay, ReadsInRanks
<1>3. Timed(ReadsUnderWay) /\ Listed(<< >>, ReadsUnderWay)
  BY <1>2, EmptySeq DEF Timed, Listed
<1>4. InOrder(ReadsUnderWay) = << >>
  BY <1>3, ListedInOrder
<1>5. ReadsListed
  BY <1>1, <1>3, <1>4, EmptySeq DEF ReadsListed, Init
<1>6. Issued = << >>
  <2>1. << >> \in Seq({}) /\ Len(<< >>) = 0
    BY EmptySeq
  <2>2. /\ RequestsOf(<< >>) \in Seq({x.request : x \in {}})
        /\ Len(RequestsOf(<< >>)) = 0
    BY <2>1, RequestsListed
  <2>3. RequestsOf(<< >>) = << >>
    BY <2>2, EmptySeq
  <2>4. QED
    BY <1>4, <2>3 DEF Issued
<1>7. QED
  BY <1>1, <1>5, <1>6, AccountInit DEF OrderInv

\* What an Update does to the queues and to the list of the reads sent.
Decided ==
    \/ \E i \in DOMAIN commandQueue :
          /\ IssueRead(i)
          /\ Issued' = Append(IssuedNow, Requested(commandQueue[i]))
    \/ /\ Issued' = IssuedNow
       /\ \/ \E i \in DOMAIN commandQueue : IssueWrite(i) \/ IssueActivate(i)
          \/ commandQueue' = commandQueue

LEMMA UpdateDecides ==
    ASSUME OrderInv, Update
    PROVE  ReadsListed' /\ Decided /\ readReturnQueue' = ReturnQueueNow
<1>1. ASSUME NEW r \in Ranks, IssueRefresh(r)
      PROVE  ReadsListed' /\ Decided /\ readReturnQueue' = ReturnQueueNow
  <2>1. /\ Cycle(TRUE, FALSE) /\ commandQueue' = commandQueue
        /\ inFlightCommandPacket' = RefreshPacket(r)
        /\ outstandingReads' = OutstandingNow
    BY <1>1 DEF IssueRefresh, ControllerRefresh, CommandStarts
  <2>2. inFlightCommandPacket'.busPacketType # "READ_P"
    BY <2>1 DEF RefreshPacket
  <2>3. ReadsListed' /\ Issued' = IssuedNow
    BY <2>1, <2>2, NoReadIssued
  <2>4. QED
    BY <2>1, <2>3 DEF Decided, Cycle
<1>2. ASSUME NEW i \in DOMAIN commandQueue, IssueRead(i)
      PROVE  ReadsListed' /\ Decided /\ readReturnQueue' = ReturnQueueNow
  <2>1. ReadsListed' /\ Issued' = Append(IssuedNow, Requested(commandQueue[i]))
    BY <1>2, ReadIssued
  <2>2. readReturnQueue' = ReturnQueueNow
    BY <1>2 DEF IssueRead, Cycle
  <2>3. QED
    BY <1>2, <2>1, <2>2 DEF Decided
<1>3. ASSUME NEW i \in DOMAIN commandQueue, IssueWrite(i) \/ IssueActivate(i)
      PROVE  ReadsListed' /\ Decided /\ readReturnQueue' = ReturnQueueNow
  <2>1. /\ Cycle(TRUE, TRUE) \/ Cycle(TRUE, FALSE)
        /\ inFlightCommandPacket' = commandQueue[i]
        /\ outstandingReads' = OutstandingNow
    BY <1>3 DEF IssueWrite, IssueActivate, CommandStarts
  <2>2. commandQueue[i].busPacketType \in {"WRITE_P", "ACTIVATE"}
    BY <1>3 DEF IssueWrite, IssueActivate, ControllerWrite, ControllerActivate
  <2>3. inFlightCommandPacket'.busPacketType # "READ_P"
    BY <2>1, <2>2
  <2>4. ReadsListed' /\ Issued' = IssuedNow
    BY <2>1, <2>3, NoReadIssued
  <2>5. readReturnQueue' = ReturnQueueNow
    BY <2>1 DEF Cycle
  <2>6. QED
    BY <1>3, <2>4, <2>5 DEF Decided
<1>4. ASSUME IssueNothing
      PROVE  ReadsListed' /\ Decided /\ readReturnQueue' = ReturnQueueNow
  <2>1. /\ Cycle(FALSE, FALSE) /\ commandQueue' = commandQueue /\ NoCommandStarts
        /\ outstandingReads' = OutstandingNow
    BY <1>4 DEF IssueNothing, ControllerIdle
  <2>2. inFlightCommandPacket' = NULL
    BY <2>1 DEF NoCommandStarts, OrderInv, AccountInv, TimingInv, CommandAccepted,
                CommandArrives
  <2>3. ReadsListed' /\ Issued' = IssuedNow
    BY <2>1, <2>2, NoReadIssued
  <2>4. QED
    BY <2>1, <2>3 DEF Decided, Cycle
<1>5. QED
  BY <1>1, <1>2, <1>3, <1>4 DEF Update

LEMMA OrderNext ==
    ASSUME Origins = {FALSE}
    PROVE  OrderInv /\ [Next]_vars => OrderInv'
<1>1. SUFFICES ASSUME OrderInv, [Next]_vars PROVE OrderInv'
  OBVIOUS
<1>2. AccountInv'
  BY <1>1, AccountNext DEF OrderInv
<1>3. ASSUME NEW t \in Transaction, AddTransaction(t) PROVE ReadsListed'
  BY <1>1, <1>3, ReadsUnchanged DEF AddTransaction
<1>4. ASSUME TakeReturn PROVE ReadsListed'
  BY <1>1, <1>4, ReadsUnchanged DEF TakeReturn
<1>5. ASSUME UNCHANGED vars PROVE ReadsListed'
  BY <1>1, <1>5, ReadsUnchanged DEF vars
<1>6. ASSUME Update PROVE ReadsListed'
  BY <1>1, <1>6, UpdateDecides
<1>7. QED
  BY <1>1, <1>2, <1>3, <1>4, <1>5, <1>6 DEF Next, OrderInv

-----------------------------------------------------------------------------
(* The work queue, as a set of transactions                                *)

WorkOf(queue) == {Requested(queue[i]) : i \in CASs(queue)}

LEMMA WorkPlaces == {Requested(p) : p \in CASsQueued} = WorkOf(commandQueue)
  BY DEF CASsQueued, PacketsOf, WorkOf, CASs

LEMMA WorkWithout ==
    ASSUME NEW queue \in Seq(BusPacket), WellFormed(queue), NEW k \in DOMAIN queue
    PROVE  WorkOf(Without(queue, k)) =
              IF k \in CASs(queue) THEN WorkOf(queue) \ {Requested(queue[k])}
                                   ELSE WorkOf(queue)
<1>. DEFINE after == Without(queue, k)
<1>1. \A p, x : Requested(p) = Requested(x) => p.transactionID = x.transactionID
  BY DEF Requested
<1>2. \A i, j \in CASs(queue) : Requested(queue[i]) = Requested(queue[j]) => i = j
  BY <1>1 DEF WellFormed, DistinctCASs
<1>3. after \in Seq(BusPacket) /\ DOMAIN after \subseteq Nat \ {0} /\ k \in Nat
  BY WithoutPlaces, PlacesType
<1>4. ASSUME NEW i \in CASs(after)
      PROVE  Was(k, i) \in CASs(queue) \ {k} /\ after[i] = queue[Was(k, i)]
  <2>1. i \in DOMAIN after /\ i \in Nat
    BY <1>3, PlacesType
  <2>2. Was(k, i) # k
    BY <1>3, <2>1, WasProperties
  <2>3. QED
    BY <2>1, <2>2, KindsWithout, WithoutPlaces
<1>5. ASSUME NEW j \in CASs(queue) \ {k}
      PROVE  \E i \in CASs(after) : after[i] = queue[j]
  <2>1. PICK i \in DOMAIN after : Was(k, i) = j
    BY WithoutPlaces, PlacesType
  <2>2. QED
    BY <2>1, KindsWithout, WithoutPlaces
<1>. HIDE DEF after
<1>6. WorkOf(after) = {Requested(queue[j]) : j \in CASs(queue) \ {k}}
  BY <1>4, <1>5 DEF WorkOf
<1>7. CASE k \in CASs(queue)
  BY <1>2, <1>6, <1>7 DEF WorkOf, after
<1>8. CASE k \notin CASs(queue)
  BY <1>6, <1>8 DEF WorkOf, after
<1>9. QED
  BY <1>7, <1>8

LEMMA WorkConcat ==
    ASSUME NEW a \in Seq(BusPacket), NEW b \in Seq(BusPacket)
    PROVE  WorkOf(a \o b) = WorkOf(a) \union WorkOf(b)
<1>. DEFINE c == a \o b
            n == Len(a)
<1>1. /\ n \in Nat /\ CASs(a) \subseteq DOMAIN a /\ CASs(b) \subseteq DOMAIN b
      /\ DOMAIN a \subseteq Int /\ DOMAIN b \subseteq Int
  BY PlacesType
<1>2. /\ \A i \in Int : i \in CASs(c) <=> i \in CASs(a) \/ i - n \in CASs(b)
      /\ \A i \in DOMAIN a : c[i] = a[i]
      /\ \A i \in DOMAIN b : c[n + i] = b[i]
      /\ CASs(c) \subseteq Int
  <2>1. c \in Seq(BusPacket)
    BY KindsConcat
  <2>2. CASs(c) \subseteq DOMAIN c /\ DOMAIN c = 1 .. Len(c) /\ Len(c) \in Nat
    BY <2>1, PlacesType
  <2>3. CASs(c) \subseteq Int
    BY <2>2
  <2>4. QED
    BY <2>3, KindsConcat
<1>. HIDE DEF c, n
<1>3. ASSUME NEW i \in CASs(c)
      PROVE  \/ \E j \in CASs(a) : c[i] = a[j]
             \/ \E j \in CASs(b) : c[i] = b[j]
  <2>1. CASE i \in CASs(a)
    BY <1>1, <1>2, <2>1
  <2>2. CASE i - n \in CASs(b)
    <3>1. i = n + (i - n)
      BY <1>1, <1>2
    <3>2. c[i] = b[i - n]
      BY <1>1, <1>2, <2>2, <3>1
    <3>3. QED
      BY <2>2, <3>2
  <2>3. QED
    BY <1>2, <2>1, <2>2
<1>4. \A j \in CASs(a) : j \in CASs(c) /\ c[j] = a[j]
  BY <1>1, <1>2
<1>5. ASSUME NEW j \in CASs(b) PROVE n + j \in CASs(c) /\ c[n + j] = b[j]
  <2>1. n + j \in Int /\ (n + j) - n = j
    BY <1>1
  <2>2. n + j \in CASs(c)
    BY <1>2, <2>1
  <2>3. QED
    BY <1>1, <1>2, <2>2
<1>6. WorkOf(c) = WorkOf(a) \union WorkOf(b)
  BY <1>3, <1>4, <1>5 DEF WorkOf
<1>7. QED
  BY <1>6 DEF c

LEMMA WorkOfTransaction ==
    ASSUME NEW t \in Transaction
    PROVE  WorkOf(CommandsOf(t)) = {t}
<1>. DEFINE p == CommandsOf(t)[2]
<1>1. p = PacketOf(t, IF t.transactionType = "DATA_READ" THEN "READ_P" ELSE "WRITE_P")
  BY DEF CommandsOf
<1>2. Requested(p) = t
  BY <1>1 DEF Requested, PacketOf, Transaction, DataTypes
<1>3. QED
  BY <1>2, CommandsOfPair DEF WorkOf

\* waitingACTS counts the transactions of the set.
LEMMA WorkCounted ==
    ASSUME QueueInv
    PROVE  Cardinality(WorkOf(commandQueue)) = waitingACTS
<1>. DEFINE f == [i \in CASs(commandQueue) |-> Requested(commandQueue[i])]
<1>1. commandQueue \in Seq(BusPacket) /\ DistinctCASs(commandQueue)
  BY DEF QueueInv, TypeOK, ControllerTypeOK, WellFormed
<1>2. \A p, x : Requested(p) = Requested(x) => p.transactionID = x.transactionID
  BY DEF Requested
<1>3. \A i, j \in CASs(commandQueue) : f[i] = f[j] => i = j
  BY <1>1, <1>2 DEF DistinctCASs
<1>4. /\ f \in [CASs(commandQueue) -> WorkOf(commandQueue)]
      /\ \A x \in WorkOf(commandQueue) : \E i \in CASs(commandQueue) : f[i] = x
  BY DEF WorkOf
<1>. HIDE DEF f
<1>5. f \in Bijection(CASs(commandQueue), WorkOf(commandQueue))
  BY <1>3, <1>4 DEF Bijection, Injection, Surjection, IsInjective
<1>6. IsFiniteSet(CASs(commandQueue))
  BY <1>1, PlacesType
<1>7. ExistsBijection(CASs(commandQueue), WorkOf(commandQueue))
  BY <1>5 DEF ExistsBijection
<1>8. Cardinality(WorkOf(commandQueue)) = Cardinality(CASs(commandQueue))
  BY <1>6, <1>7, FS_Bijection
<1>9. QED
  BY <1>8 DEF QueueInv, QueueCounted

-----------------------------------------------------------------------------
(* The return queue, as transactions                                       *)

LEMMA ReturnedRequests ==
    ASSUME NEW s \in Seq(BusPacket), NEW p \in BusPacket
    PROVE  /\ Len(RequestedBy(s)) = Len(s) /\ Len(s) \in Nat
           /\ RequestedBy(Append(s, p)) = Append(RequestedBy(s), Requested(p))
           /\ s # << >> => /\ RequestedBy(s) # << >>
                           /\ RequestedBy(Tail(s)) = Tail(RequestedBy(s))
<1>. DEFINE all == {Requested(x) : x \in BusPacket}
            u == RequestedBy(s)
<1>1. /\ DOMAIN s = 1 .. Len(s) /\ Len(s) \in Nat
      /\ \A i \in DOMAIN s : s[i] \in BusPacket
  BY LenProperties, ElementOfSeq
<1>2. u \in [1 .. Len(s) -> all] /\ \A i \in 1 .. Len(s) : u[i] = Requested(s[i])
  BY <1>1 DEF RequestedBy
<1>3. u \in Seq(all) /\ DOMAIN u = 1 .. Len(s)
  BY <1>1, <1>2, SeqDef
<1>4. DOMAIN u = 1 .. Len(u) /\ Len(u) \in Nat
  BY <1>3, LenProperties
<1>5. Len(u) = Len(s)
  BY <1>1, <1>3, <1>4, SameInterval
<1>6. RequestedBy(Append(s, p)) = Append(u, Requested(p))
  <2>. DEFINE v == Append(s, p)
              w == Append(u, Requested(p))
  <2>1. /\ v \in Seq(BusPacket) /\ Len(v) = Len(s) + 1
        /\ \A i \in 1 .. Len(s) : v[i] = s[i]
        /\ v[Len(s) + 1] = p
    BY AppendProperties
  <2>2. DOMAIN v = 1 .. Len(s) + 1
    BY <2>1, LenProperties
  <2>3. Requested(p) \in all
    OBVIOUS
  <2>. HIDE DEF all, u
  <2>4. /\ w \in Seq(all) /\ Len(w) = Len(s) + 1
        /\ \A i \in 1 .. Len(s) : w[i] = u[i]
        /\ w[Len(s) + 1] = Requested(p)
    BY <1>3, <1>5, <2>3, AppendProperties
  <2>5. w \in [1 .. Len(s) + 1 -> all]
    BY <2>4, LenProperties
  <2>6. \A i \in 1 .. Len(s) + 1 : w[i] = Requested(v[i])
    BY <1>1, <1>2, <2>1, <2>4
  <2>7. RequestedBy(v) = [i \in 1 .. Len(s) + 1 |-> Requested(v[i])]
    BY <2>2 DEF RequestedBy
  <2>. HIDE DEF v, w
  <2>8. w = [i \in 1 .. Len(s) + 1 |-> Requested(v[i])]
    BY <2>5, <2>6
  <2>9. QED
    BY <2>7, <2>8 DEF v, w
<1>7. ASSUME s # << >>
      PROVE  u # << >> /\ RequestedBy(Tail(s)) = Tail(u)
  <2>. DEFINE v == Tail(s)
              w == Tail(u)
              m == Len(s) - 1
  <2>1. Len(s) # 0
    BY <1>7, EmptySeq
  <2>. HIDE DEF all, u
  <2>2. u # << >>
    BY <1>3, <1>5, <2>1, EmptySeq
  <2>3. /\ v \in Seq(BusPacket) /\ Len(v) = m
        /\ \A i \in 1 .. m : v[i] = s[i + 1]
    BY <1>7, HeadTailProperties
  <2>4. /\ w \in Seq(all) /\ Len(w) = m
        /\ \A i \in 1 .. m : w[i] = u[i + 1]
    BY <1>3, <1>5, <2>2, HeadTailProperties
  <2>5. DOMAIN v = 1 .. m /\ w \in [1 .. m -> all]
    BY <2>3, <2>4, LenProperties
  <2>6. \A i \in 1 .. m : w[i] = Requested(v[i])
    BY <1>1, <1>2, <2>3, <2>4
  <2>7. RequestedBy(v) = [i \in 1 .. m |-> Requested(v[i])]
    BY <2>5 DEF RequestedBy
  <2>. HIDE DEF v, w, m
  <2>8. w = [i \in 1 .. m |-> Requested(v[i])]
    BY <2>5, <2>6
  <2>9. QED
    BY <2>2, <2>7, <2>8 DEF v, w
<1>8. QED
  BY <1>1, <1>5, <1>6, <1>7

-----------------------------------------------------------------------------
(* The steps of the service                                                *)

\* The service's channel, of what varies while the logic layer is silent.
View(work, issued, returned) ==
    [work |-> work, logicWrites |-> 0, issued |-> issued, readReturnQueue |-> returned,
     logicOps |-> << >>, logicLeft |-> 0, pendingLogicResponse |-> NULL]

ViewIsOfChannel ==
    ServiceView = View(WorkOf(commandQueue), Issued, RequestedBy(readReturnQueue))

LEMMA ViewOfChannel == ViewIsOfChannel
  BY WorkPlaces DEF ViewIsOfChannel, ServiceView, View, Issued

LEMMA ViewOfChannelNext ==
    ServiceView' = View(WorkOf(commandQueue'), Issued', RequestedBy(readReturnQueue'))
<1>1. ViewIsOfChannel'
  BY ViewOfChannel, PTL
<1>2. QED
  BY <1>1 DEF ViewIsOfChannel, View, WorkOf, CASs, RequestedBy

LEMMA ViewFields ==
    ASSUME NEW w, NEW i, NEW q
    PROVE  /\ View(w, i, q).work = w /\ View(w, i, q).logicWrites = 0
           /\ View(w, i, q).issued = i /\ View(w, i, q).readReturnQueue = q
  BY DEF View

\* The instance has its own copy of the standard module.
LEMMA SameCardinality == \A w : Service!Cardinality(w) = Cardinality(w)
  BY Zenon DEF Service!Cardinality, Cardinality

LEMMA ViewAccepts ==
    ASSUME NEW w, NEW i, NEW q, NEW t, t.transactionType # "LOGIC_OPERATION"
    PROVE  /\ Service!Accept(View(w, i, q), t) = View(w \union {t}, i, q)
           /\ Cardinality(w) + 0 < CHANNEL_WORK_Q_MAX => Service!Accepts(View(w, i, q), t)
<1>. DEFINE v == View(w, i, q)
            more == w \union {t}
<1>1. v.work = w /\ v.logicWrites = 0
  BY ViewFields
<1>. HIDE DEF more
<1>2. [v EXCEPT !.work = more] = View(more, i, q)
  BY DEF View, v
<1>. HIDE DEF v
<1>3. v.work \union {t} = more
  BY <1>1 DEF more
<1>4. [v EXCEPT !.work = v.work \union {t}] = View(more, i, q)
  BY <1>2, <1>3, Zenon
<1>5. Service!Accept(v, t) = View(more, i, q)
  BY <1>4, Zenon DEF Service!Accept
<1>6. Service!WaitingACTS(v) = Cardinality(w) + 0
  BY <1>1, SameCardinality DEF Service!WaitingACTS
<1>7. Cardinality(w) + 0 < CHANNEL_WORK_Q_MAX => Service!Accepts(v, t)
  BY <1>6, Zenon DEF Service!Accepts
<1>8. QED
  BY <1>5, <1>7 DEF v, more

LEMMA ViewWithoutReturn ==
    ASSUME NEW w, NEW i, NEW q
    PROVE  Service!WithoutReturn(View(w, i, q)) = View(w, i, Tail(q))
<1>. DEFINE v == View(w, i, q)
            left == Tail(q)
<1>1. v.readReturnQueue = q
  BY ViewFields
<1>. HIDE DEF left
<1>2. [v EXCEPT !.readReturnQueue = left] = View(w, i, left)
  BY DEF View, v
<1>. HIDE DEF v
<1>3. Tail(v.readReturnQueue) = left
  BY <1>1 DEF left
<1>4. Service!WithoutReturn(v) = View(w, i, left)
  BY <1>2, <1>3, Zenon DEF Service!WithoutReturn
<1>5. QED
  BY <1>4 DEF v, left

LEMMA ViewReturns ==
    ASSUME NEW w, NEW i, NEW q, i # << >>
    PROVE  View(w, Tail(i), Append(q, Head(i))) \in Service!Returns(View(w, i, q))
<1>. DEFINE v == View(w, i, q)
            left == Tail(i)
            more == Append(q, Head(i))
            x == View(w, left, q)
<1>1. v.issued = i /\ v.readReturnQueue = q
  BY ViewFields
<1>. HIDE DEF left, more
<1>2. [v EXCEPT !.issued = left] = x
  BY DEF View, v, x
<1>3. [x EXCEPT !.readReturnQueue = more] = View(w, left, more)
  BY DEF View, v, x
<1>. HIDE DEF v, x
<1>4. [v EXCEPT !.issued = left, !.readReturnQueue = more]
         = [[v EXCEPT !.issued = left] EXCEPT !.readReturnQueue = more]
  BY Zenon
<1>5. Tail(v.issued) = left /\ Append(v.readReturnQueue, Head(v.issued)) = more
  BY <1>1 DEF left, more
<1>6. [v EXCEPT !.issued = Tail(v.issued),
                !.readReturnQueue = Append(v.readReturnQueue, Head(v.issued))]
         = View(w, left, more)
  BY <1>2, <1>3, <1>4, <1>5, Zenon
<1>7. View(w, left, more) \in Service!Returns(v)
  BY <1>1, <1>6, Zenon DEF Service!Returns
<1>8. QED
  BY <1>7 DEF v, left, more

LEMMA ViewSends ==
    ASSUME NEW w, NEW i, NEW q, NEW t \in w,
           ~ (Len(q) + Len(i) >= CHANNEL_RETURN_Q_MAX)
    PROVE  View(w \ {t}, IF t.transactionType = "DATA_READ" THEN Append(i, t) ELSE i, q)
              \in Service!Sends(View(w, i, q))
<1>. DEFINE v == View(w, i, q)
            left == w \ {t}
            more == IF t.transactionType = "DATA_READ" THEN Append(i, t) ELSE i
            x == View(left, i, q)
<1>1. v.work = w /\ v.issued = i /\ v.readReturnQueue = q
  BY ViewFields
<1>. HIDE DEF left, more
<1>2. [v EXCEPT !.work = left] = x
  BY DEF View, v, x
<1>3. [x EXCEPT !.issued = more] = View(left, more, q)
  BY DEF View, v, x
<1>. HIDE DEF v, x
<1>4. [v EXCEPT !.work = left, !.issued = more]
         = [[v EXCEPT !.work = left] EXCEPT !.issued = more]
  BY Zenon
<1>5. /\ v.work \ {t} = left
      /\ (IF t.transactionType = "DATA_READ" THEN Append(v.issued, t) ELSE v.issued) = more
  BY <1>1, Zenon DEF left, more
<1>6. [v EXCEPT !.work = v.work \ {t},
                !.issued = IF t.transactionType = "DATA_READ"
                           THEN Append(v.issued, t) ELSE v.issued]
         = View(left, more, q)
  BY <1>2, <1>3, <1>4, <1>5, Zenon
<1>7. t \in v.work /\ ~ (Len(v.readReturnQueue) + Len(v.issued) >= CHANNEL_RETURN_Q_MAX)
  BY <1>1, Zenon
<1>8. View(left, more, q) \in Service!Sends(v)
  BY <1>6, <1>7, Zenon DEF Service!Sends
<1>9. QED
  BY <1>8 DEF v, left, more

LEMMA ServiceUpdates ==
    ASSUME NEW v, NEW x \in {v} \union Service!Returns(v)
    PROVE  x \in Service!AfterUpdate(v) /\ Service!Sends(x) \subseteq Service!AfterUpdate(v)
  BY Zenon DEF Service!AfterUpdate

-----------------------------------------------------------------------------
(* Every step is one of the service                                        *)

\* The channel when the buses have delivered.
ViewNow == View(WorkOf(commandQueue), IssuedNow, RequestedBy(ReturnQueueNow))

LEMMA DeliveryIsReturn ==
    ASSUME OrderInv
    PROVE  /\ ViewNow \in Service!AfterUpdate(ServiceView)
           /\ Service!Sends(ViewNow) \subseteq Service!AfterUpdate(ServiceView)
           /\ Len(RequestedBy(ReturnQueueNow)) = Queued /\ Queued \in Nat
<1>. DEFINE w == WorkOf(commandQueue)
            q == RequestedBy(readReturnQueue)
            p == inFlightDataPacket
<1>1. ServiceView = View(w, Issued, q)
  BY ViewOfChannel DEF ViewIsOfChannel
<1>2. readReturnQueue \in Seq(BusPacket) /\ p \in BusPacket \union {NULL}
  BY DEF OrderInv, AccountInv, IInv, TypeOK
<1>3. CASE ReadReturns
  <2>1. /\ Issued # << >> /\ Head(Issued) = Requested(p)
        /\ IssuedNow = Tail(Issued) /\ ReturnQueueNow = Append(readReturnQueue, p)
    BY <1>3, ListAdvances DEF IssuedNow, ReturnQueueNow
  <2>2. p \in BusPacket
    BY <1>2, <1>3 DEF ReadReturns, DataArrives
  <2>3. RequestedBy(ReturnQueueNow) = Append(q, Requested(p))
    BY <1>2, <2>1, <2>2, ReturnedRequests
  <2>4. ReturnQueueNow \in Seq(BusPacket)
    BY <1>2, <2>1, <2>2, AppendProperties
  <2>5. ViewNow \in Service!Returns(ServiceView)
    <3>. HIDE DEF w, q, p
    <3>1. View(w, Tail(Issued), Append(q, Head(Issued))) \in Service!Returns(View(w, Issued, q))
      BY <2>1, ViewReturns
    <3>2. ViewNow = View(w, Tail(Issued), Append(q, Head(Issued)))
      BY <2>1, <2>3 DEF ViewNow, w
    <3>3. QED
      BY <1>1, <3>1, <3>2
  <2>6. Len(RequestedBy(ReturnQueueNow)) = Queued /\ Queued \in Nat
    BY <2>2, <2>4, ReturnedRequests DEF Queued
  <2>7. QED
    BY <2>5, <2>6, ServiceUpdates
<1>4. CASE ~ ReadReturns
  <2>1. ViewNow = ServiceView
    BY <1>1, <1>4 DEF ViewNow, IssuedNow, ReturnQueueNow
  <2>2. Len(RequestedBy(ReturnQueueNow)) = Queued /\ Queued \in Nat
    <3>1. ReturnQueueNow = readReturnQueue
      BY <1>4 DEF ReturnQueueNow
    <3>2. PICK x : x \in BusPacket
      BY RefreshPacketType, GeometryAssumption DEF Ranks
    <3>3. QED
      BY <1>2, <3>1, <3>2, ReturnedRequests DEF Queued
  <2>3. QED
    BY <2>1, <2>2, ServiceUpdates
<1>5. QED
  BY <1>3, <1>4

\* A CAS leaves the work queue when the return queue has room for its data.
LEMMA CASIsSend ==
    ASSUME OrderInv, NEW k \in DOMAIN commandQueue,
           Selected(k, Queued, OutstandingNow), IsCAS(commandQueue[k]),
           NEW t, t = Requested(commandQueue[k])
    PROVE  View(WorkOf(Without(commandQueue, k)),
                IF t.transactionType = "DATA_READ" THEN Append(IssuedNow, t) ELSE IssuedNow,
                RequestedBy(ReturnQueueNow))
              \in Service!AfterUpdate(ServiceView)
<1>. DEFINE w == WorkOf(commandQueue)
            q == RequestedBy(ReturnQueueNow)
<1>1. /\ commandQueue \in Seq(BusPacket) /\ WellFormed(commandQueue)
      /\ CHANNEL_RETURN_Q_MAX \in Nat
  BY QueueAssumption
     DEF OrderInv, AccountInv, TimingInv, QueueInv, TypeOK, ControllerTypeOK
<1>2. k \in CASs(commandQueue)
  BY DEF CASs
<1>3. t \in w /\ WorkOf(Without(commandQueue, k)) = w \ {t}
  BY <1>1, <1>2, WorkWithout DEF WorkOf
<1>4. HasRoom(Queued, OutstandingNow)
  BY DEF Selected, CanSend, IsIssuable, IsCAS
<1>5. Len(q) = Queued /\ Queued \in Nat
  BY DeliveryIsReturn
<1>6. Len(IssuedNow) = OutstandingNow /\ OutstandingNow \in Nat
  <2>1. ListLeft \in Seq(ReadsLeft) /\ Len(ListLeft) = OutstandingNow
        /\ RequestsOf(ListLeft) = IssuedNow
    BY ListAdvances DEF Listed
  <2>2. Len(RequestsOf(ListLeft)) = Len(ListLeft) /\ Len(ListLeft) \in Nat
    BY <2>1, RequestsListed
  <2>3. QED
    BY <2>1, <2>2
<1>. HIDE DEF w, q
<1>7. ~ (Len(q) + Len(IssuedNow) >= CHANNEL_RETURN_Q_MAX)
  BY <1>1, <1>4, <1>5, <1>6 DEF HasRoom
<1>8. View(w \ {t}, IF t.transactionType = "DATA_READ" THEN Append(IssuedNow, t)
                                                       ELSE IssuedNow, q)
         \in Service!Sends(View(w, IssuedNow, q))
  BY <1>3, <1>7, ViewSends
<1>9. View(w, IssuedNow, q) = ViewNow
  BY DEF ViewNow, w, q
<1>10. QED
  BY <1>3, <1>8, <1>9, DeliveryIsReturn DEF q

LEMMA UpdateIsServiceUpdate ==
    ASSUME OrderInv, Update
    PROVE  ServiceView' \in Service!AfterUpdate(ServiceView)
<1>1. Decided /\ readReturnQueue' = ReturnQueueNow
  BY UpdateDecides
<1>2. ServiceView' = View(WorkOf(commandQueue'), Issued', RequestedBy(ReturnQueueNow))
  BY <1>1, ViewOfChannelNext
<1>3. commandQueue \in Seq(BusPacket) /\ WellFormed(commandQueue)
  BY DEF OrderInv, AccountInv, TimingInv, QueueInv, TypeOK, ControllerTypeOK
<1>4. ASSUME NEW k \in DOMAIN commandQueue, IssueRead(k),
             Issued' = Append(IssuedNow, Requested(commandQueue[k]))
      PROVE  ServiceView' \in Service!AfterUpdate(ServiceView)
  <2>1. /\ Selected(k, Queued, OutstandingNow) /\ commandQueue[k].busPacketType = "READ_P"
        /\ commandQueue' = Without(commandQueue, k)
    BY <1>4 DEF IssueRead, ControllerRead
  <2>2. IsCAS(commandQueue[k]) /\ Requested(commandQueue[k]).transactionType = "DATA_READ"
    BY <2>1 DEF IsCAS, Requested
  <2>3. QED
    BY <1>2, <1>4, <2>1, <2>2, CASIsSend
<1>5. ASSUME NEW k \in DOMAIN commandQueue, IssueWrite(k), Issued' = IssuedNow
      PROVE  ServiceView' \in Service!AfterUpdate(ServiceView)
  <2>1. /\ Selected(k, Queued, OutstandingNow) /\ commandQueue[k].busPacketType = "WRITE_P"
        /\ commandQueue' = Without(commandQueue, k)
    BY <1>5 DEF IssueWrite, ControllerWrite
  <2>2. IsCAS(commandQueue[k]) /\ Requested(commandQueue[k]).transactionType # "DATA_READ"
    BY <2>1 DEF IsCAS, Requested
  <2>3. QED
    BY <1>2, <1>5, <2>1, <2>2, CASIsSend
<1>6. ASSUME WorkOf(commandQueue') = WorkOf(commandQueue), Issued' = IssuedNow
      PROVE  ServiceView' \in Service!AfterUpdate(ServiceView)
  BY <1>2, <1>6, DeliveryIsReturn DEF ViewNow
<1>7. ASSUME NEW k \in DOMAIN commandQueue, IssueActivate(k)
      PROVE  WorkOf(commandQueue') = WorkOf(commandQueue)
  <2>1. /\ commandQueue[k].busPacketType = "ACTIVATE"
        /\ commandQueue' = Without(commandQueue, k)
    BY <1>7 DEF IssueActivate, ControllerActivate
  <2>2. k \notin CASs(commandQueue)
    BY <2>1 DEF CASs, IsCAS
  <2>3. QED
    BY <1>3, <2>1, <2>2, WorkWithout
<1>8. QED
  BY <1>1, <1>4, <1>5, <1>6, <1>7 DEF Decided

LEMMA AddTransactionIsAccepted ==
    ASSUME OrderInv, NEW t \in Transaction, AddTransaction(t), service = ServiceView,
           service' = ServiceView'
    PROVE  Service!AddTransaction(t)
<1>. DEFINE w == WorkOf(commandQueue)
            q == RequestedBy(readReturnQueue)
<1>1. /\ waitingACTS < CHANNEL_WORK_Q_MAX
      /\ commandQueue' \in {CommandsOf(t) \o commandQueue, commandQueue \o CommandsOf(t)}
      /\ readReturnQueue' = readReturnQueue
      /\ UNCHANGED <<busVars, outstandingReads>>
  BY DEF AddTransaction, EnqueueCommands
<1>2. Issued' = Issued
  BY <1>1, ReadsUnchanged
<1>3. commandQueue \in Seq(BusPacket) /\ CommandsOf(t) \in Seq(BusPacket)
  BY CommandsOfPair
     DEF OrderInv, AccountInv, TimingInv, QueueInv, TypeOK, ControllerTypeOK
<1>4. WorkOf(commandQueue') = w \union {t}
  <2>1. /\ WorkOf(CommandsOf(t) \o commandQueue) = WorkOf(CommandsOf(t)) \union w
        /\ WorkOf(commandQueue \o CommandsOf(t)) = w \union WorkOf(CommandsOf(t))
    BY <1>3, WorkConcat
  <2>2. WorkOf(CommandsOf(t)) = {t}
    BY WorkOfTransaction
  <2>. HIDE DEF w
  <2>3. QED
    BY <1>1, <2>1, <2>2
<1>5. Cardinality(w) + 0 < CHANNEL_WORK_Q_MAX
  <2>1. Cardinality(w) = waitingACTS /\ waitingACTS \in Int
    BY WorkCounted DEF OrderInv, AccountInv, TimingInv, QueueInv, TypeOK, ControllerTypeOK
  <2>. HIDE DEF w
  <2>2. QED
    BY <1>1, <2>1
<1>6. t.transactionType # "LOGIC_OPERATION"
  BY DEF Transaction, DataTypes
<1>7. service = View(w, Issued, q) /\ service' = View(w \union {t}, Issued, q)
  BY <1>1, <1>2, <1>4, ViewOfChannel, ViewOfChannelNext DEF ViewIsOfChannel
<1>. HIDE DEF w, q
<1>8. /\ Service!Accept(View(w, Issued, q), t) = View(w \union {t}, Issued, q)
      /\ Service!Accepts(View(w, Issued, q), t)
  BY <1>5, <1>6, ViewAccepts
<1>9. QED
  BY <1>7, <1>8 DEF Service!AddTransaction

LEMMA TakeReturnIsTaken ==
    ASSUME OrderInv, TakeReturn, service = ServiceView, service' = ServiceView'
    PROVE  Service!TakeReturn
<1>. DEFINE w == WorkOf(commandQueue)
            q == RequestedBy(readReturnQueue)
<1>1. /\ readReturnQueue # << >> /\ readReturnQueue' = Tail(readReturnQueue)
      /\ commandQueue' = commandQueue
      /\ UNCHANGED <<busVars, outstandingReads>>
  BY DEF TakeReturn, controllerVars
<1>2. Issued' = Issued
  BY <1>1, ReadsUnchanged
<1>3. q # << >> /\ RequestedBy(readReturnQueue') = Tail(q)
  <2>1. readReturnQueue \in Seq(BusPacket)
    BY DEF OrderInv, AccountInv, IInv, TypeOK
  <2>2. PICK x : x \in BusPacket
    BY RefreshPacketType, GeometryAssumption DEF Ranks
  <2>3. QED
    BY <1>1, <2>1, <2>2, ReturnedRequests
<1>4. service = View(w, Issued, q) /\ service' = View(w, Issued, Tail(q))
  BY <1>1, <1>2, <1>3, ViewOfChannel, ViewOfChannelNext DEF ViewIsOfChannel
<1>. HIDE DEF w, q
<1>5. /\ Service!WithoutReturn(View(w, Issued, q)) = View(w, Issued, Tail(q))
      /\ View(w, Issued, q).readReturnQueue # << >>
  BY <1>3, ViewWithoutReturn, ViewFields
<1>6. QED
  BY <1>4, <1>5 DEF Service!TakeReturn

\* The service's channel is beside the channel at every step.
ServiceInv == OrderInv /\ service = ServiceView

LEMMA ServiceStarts ==
    ASSUME Origins = {FALSE}
    PROVE  MCInit => ServiceInv /\ Service!Init
<1>1. SUFFICES ASSUME MCInit PROVE ServiceInv /\ Service!Init
  OBVIOUS
<1>2. Init /\ service = ServiceView
  BY <1>1 DEF MCInit, ServiceInit
<1>3. OrderInv /\ Issued = << >>
  BY <1>2, OrderInit
<1>4. commandQueue = << >> /\ readReturnQueue = << >>
  BY <1>2 DEF Init, ControllerInit
<1>5. WorkOf(commandQueue) = {} /\ RequestedBy(readReturnQueue) = << >>
  <2>1. CASs(commandQueue) = {}
    BY <1>4 DEF CASs
  <2>2. RequestedBy(<< >>) = << >>
    BY DEF RequestedBy
  <2>3. QED
    BY <1>4, <2>1, <2>2 DEF WorkOf
<1>6. service = View({}, << >>, << >>)
  BY <1>2, <1>3, <1>5, ViewOfChannel DEF ViewIsOfChannel
<1>7. Service!Init
  BY <1>6 DEF Service!Init, Service!NewChannel, View
<1>8. QED
  BY <1>2, <1>3, <1>7 DEF ServiceInv

LEMMA ServiceSteps ==
    ASSUME Origins = {FALSE}
    PROVE  ServiceInv /\ [MCNext]_mcVars => ServiceInv' /\ [Service!Next]_service
<1>1. SUFFICES ASSUME ServiceInv, [MCNext]_mcVars
               PROVE  ServiceInv' /\ [Service!Next]_service
  OBVIOUS
<1>2. OrderInv /\ service = ServiceView
  BY <1>1 DEF ServiceInv
<1>3. [Next]_vars
  BY <1>1 DEF MCNext, mcVars, Arrival, Cycling, Reading, Next
<1>4. OrderInv'
  BY <1>2, <1>3, OrderNext
<1>5. CASE UNCHANGED mcVars
  <2>1. UNCHANGED vars /\ service' = service
    BY <1>5 DEF mcVars
  <2>2. Issued' = Issued /\ commandQueue' = commandQueue /\ readReturnQueue' = readReturnQueue
    BY <1>2, <2>1, ReadsUnchanged DEF vars, controllerVars
  <2>3. ServiceView' = ServiceView
    BY <2>2, ViewOfChannel, ViewOfChannelNext DEF ViewIsOfChannel
  <2>4. QED
    BY <1>2, <1>4, <2>1, <2>3 DEF ServiceInv
<1>6. CASE MCNext
  <2>1. service' = ServiceView'
    BY <1>6 DEF MCNext, ServiceFollows
  <2>2. CASE Arrival
    <3>1. PICK t \in Transaction : AddTransaction(t)
      BY <2>2 DEF Arrival
    <3>2. Service!AddTransaction(t)
      BY <1>2, <2>1, <3>1, AddTransactionIsAccepted
    <3>3. QED
      BY <1>4, <2>1, <3>2 DEF ServiceInv, Service!Next
  <2>3. CASE Cycling
    <3>1. Update
      BY <2>3 DEF Cycling
    <3>2. Service!Update
      BY <1>2, <2>1, <3>1, UpdateIsServiceUpdate DEF Service!Update
    <3>3. QED
      BY <1>4, <2>1, <3>2 DEF ServiceInv, Service!Next
  <2>4. CASE Reading
    <3>1. TakeReturn
      BY <2>4 DEF Reading
    <3>2. Service!TakeReturn
      BY <1>2, <2>1, <3>1, TakeReturnIsTaken
    <3>3. QED
      BY <1>4, <2>1, <3>2 DEF ServiceInv, Service!Next
  <2>5. QED
    BY <1>6, <2>2, <2>3, <2>4 DEF MCNext
<1>7. QED
  BY <1>1, <1>5, <1>6

\* While the logic layer is silent, a channel of any geometry, timing and queue sizes
\* behaves as DRAMService to the main controller (AddTransaction of DRAMChannel.cpp:200,
\* its Update and the return queue it fills at :134): what is accepted is sent once, and
\* the data of the reads comes back in the order they were sent in.
THEOREM ChannelImplementsService ==
    ASSUME Origins = {FALSE}
    PROVE  MCSpec => ImplementsService
<1>1. MCInit => ServiceInv /\ Service!Init
  BY ServiceStarts
<1>2. ServiceInv /\ [MCNext]_mcVars => ServiceInv' /\ [Service!Next]_service
  BY ServiceSteps
<1>3. QED
  BY <1>1, <1>2, PTL DEF MCSpec, ImplementsService, Service!Spec

-----------------------------------------------------------------------------
(***************************************************************************)
(* The limits of a device on its ACTIVATEs, for every geometry, timing and *)
(* traffic: at most four to a rank within tFAW cycles, and tRC cycles      *)
(* between two to a bank.                                                  *)
(*                                                                         *)
(* Both are about what the controller did in the past (activates), and it  *)
(* only keeps countdowns.  The invariant ties each countdown to the age of *)
(* the ACTIVATE it stands for, and never lets it run ahead of that age.    *)
(***************************************************************************)

(* The inductive invariant                                                 *)

\* A command is on the bus for one cycle.
CommandIsNew == inFlightCommandPacket # NULL => inFlightCommandCountdown = 1

\* Each ACTIVATE of a rank is a cycle of its own.
HistoryOK ==
    /\ activates \in [Ranks -> SUBSET [bank : Banks, age : Nat]]
    /\ \A r \in Ranks : \A x, y \in activates[r] : x.age = y.age => x = y

\* The entries of a window run out one after the other.  Only the first two may run out
\* together, because the loop passes over the entry that moves to the head.
Staggered(window) ==
    /\ Len(window) <= 4
    /\ \A i \in DOMAIN window : window[i] \in 1 .. tFAW
    /\ \A i \in DOMAIN window : i > 1 => window[1] <= window[i]
    /\ \A i, j \in DOMAIN window : 1 < i /\ i < j => window[i] < window[j]

\* ages are those of the ACTIVATEs the entries stand for: none is forgotten too early.
Remembers(window, ages, history) ==
    /\ \A i \in DOMAIN window : window[i] + ages[i] >= tFAW
    /\ \A x \in history : x.age < tFAW => \E i \in DOMAIN window : ages[i] = x.age

WindowsRemember ==
    \A r \in Ranks :
        /\ Staggered(tFAWWindow[r])
        /\ \E ages \in [DOMAIN tFAWWindow[r] -> Nat] :
              Remembers(tFAWWindow[r], ages, activates[r])

\* What an ACTIVATE of that age still keeps its bank from doing.
Holds(bank, age) ==
    /\ bank.nextActivate + age >= tRC - 1
    /\ bank.nextRead + age >= tRCD - 1
    /\ bank.nextWrite + age >= tRCD - 1

BanksHeld ==
    \A r \in Ranks : \A x \in activates[r] : Holds(bankStates[r][x.bank], x.age)

HistoryInv ==
    /\ TypeOK
    /\ CommandIsNew
    /\ HistoryOK
    /\ WindowsRemember
    /\ BanksHeld
    /\ RowCycleTime

-----------------------------------------------------------------------------
(* A window over a cycle                                                   *)

\* What may be appended to: only the first entry may be as late as a new one.
HasRoomAtEnd(window) == \A i \in DOMAIN window : i > 1 => window[i] < tFAW

\* A window whose head does not run out: every entry runs down.
LEMMA WindowRuns ==
    ASSUME NEW window \in Seq(Nat), Staggered(window), ~ (window # << >> /\ Head(window) = 1)
    PROVE  /\ WindowAfter(window) = [i \in 1 .. Len(window) |-> window[i] - 1]
           /\ Staggered(WindowAfter(window)) /\ HasRoomAtEnd(WindowAfter(window))
<1>. DEFINE after == [i \in 1 .. Len(window) |-> window[i] - 1]
<1>1. Len(window) \in Nat /\ DOMAIN window = 1 .. Len(window)
  BY LenProperties
<1>2. \A i \in DOMAIN window : window[i] \in Nat /\ window[i] > 1
  <2>1. ASSUME NEW i \in DOMAIN window PROVE window[i] \in Nat /\ window[i] > 1
    <3>1. window # << >> /\ 1 \in DOMAIN window /\ Head(window) = window[1]
      BY <1>1, EmptySeq
    <3>2. window[1] \in 1 .. tFAW /\ window[i] \in 1 .. tFAW /\ (i > 1 => window[1] <= window[i])
      BY <3>1 DEF Staggered
    <3>3. window[1] # 1
      BY <3>1
    <3>4. QED
      BY <1>1, <3>2, <3>3, TimingTypes
  <2>2. QED
    BY <2>1
<1>3. WindowAfter(window) = after
  <2>1. WindowAfter(window) = [i \in 1 .. Len(window) |-> Decremented(window[i])]
    BY DEF WindowAfter
  <2>2. \A i \in 1 .. Len(window) : Decremented(window[i]) = window[i] - 1
    BY <1>1, <1>2 DEF Decremented
  <2>3. QED
    BY <2>1, <2>2
<1>4. DOMAIN after = DOMAIN window /\ Len(after) = Len(window)
  <2>1. after \in Seq(Nat)
    <3>1. \A i \in 1 .. Len(window) : window[i] - 1 \in Nat
      BY <1>1, <1>2
    <3>2. QED
      BY <1>1, <3>1, SeqDef
  <2>2. DOMAIN after = 1 .. Len(after) /\ Len(after) \in Nat
    BY <2>1, LenProperties
  <2>3. DOMAIN after = 1 .. Len(window)
    OBVIOUS
  <2>4. QED
    BY <1>1, <2>2, <2>3
<1>5. \A i \in DOMAIN window : after[i] = window[i] - 1
  BY <1>1
<1>. HIDE DEF after
<1>6. Staggered(after) /\ HasRoomAtEnd(after)
  <2>1. \A i \in DOMAIN window : window[i] \in 1 .. tFAW
    BY DEF Staggered
  <2>2. \A i \in DOMAIN after : after[i] \in 1 .. tFAW /\ after[i] < tFAW
    BY <1>2, <1>4, <1>5, <2>1, TimingTypes
  <2>3. \A i \in DOMAIN after : i > 1 => after[1] <= after[i]
    <3>1. ASSUME NEW i \in DOMAIN after, i > 1 PROVE after[1] <= after[i]
      <4>1. 1 \in DOMAIN window
        BY <1>1, <1>4, <3>1
      <4>2. window[1] <= window[i]
        BY <1>4, <3>1 DEF Staggered
      <4>3. QED
        BY <1>2, <1>4, <1>5, <4>1, <4>2
    <3>2. QED
      BY <3>1
  <2>4. \A i, j \in DOMAIN after : 1 < i /\ i < j => after[i] < after[j]
    <3>1. \A i, j \in DOMAIN window : 1 < i /\ i < j => window[i] < window[j]
      BY DEF Staggered
    <3>2. QED
      BY <1>2, <1>4, <1>5, <3>1
  <2>5. Len(after) <= 4
    BY <1>4 DEF Staggered
  <2>6. QED
    BY <2>2, <2>3, <2>4, <2>5 DEF Staggered, HasRoomAtEnd
<1>7. QED
  BY <1>3, <1>6 DEF after

\* A window whose head runs out: the next entry becomes the head and misses a cycle.
LEMMA WindowShifts ==
    ASSUME NEW window \in Seq(Nat), Staggered(window), window # << >>, Head(window) = 1
    PROVE  LET after == WindowAfter(window) IN
           /\ DOMAIN after = 1 .. Len(window) - 1 /\ Len(after) = Len(window) - 1
           /\ \A i \in DOMAIN after : after[i] >= window[i + 1] - 1
           /\ Staggered(after) /\ HasRoomAtEnd(after)
<1>. DEFINE after == WindowAfter(window)
<1>1. /\ Len(window) \in Nat /\ DOMAIN window = 1 .. Len(window) /\ Len(window) >= 1
      /\ window[1] = 1
  BY LenProperties, EmptySeq
<1>2. \A i \in DOMAIN window : window[i] \in Nat /\ window[i] >= 1 /\ window[i] <= tFAW
  BY TimingTypes DEF Staggered
<1>3. \A i \in DOMAIN window : i > 2 => window[i] >= 2 /\ window[2] < window[i]
  <2>1. ASSUME NEW i \in DOMAIN window, i > 2 PROVE window[i] >= 2 /\ window[2] < window[i]
    <3>1. 2 \in DOMAIN window
      BY <1>1, <2>1
    <3>2. window[2] < window[i]
      BY <2>1, <3>1 DEF Staggered
    <3>3. QED
      BY <1>2, <2>1, <3>1, <3>2
  <2>2. QED
    BY <2>1
<1>4. after = [i \in 1 .. Len(window) - 1 |->
                  IF i = 1 THEN window[2] ELSE Decremented(window[i + 1])]
  BY DEF WindowAfter
<1>5. DOMAIN after = 1 .. Len(window) - 1 /\ Len(after) = Len(window) - 1
  <2>1. after \in Seq(Nat)
    BY WindowAfterType
  <2>2. DOMAIN after = 1 .. Len(after) /\ Len(after) \in Nat
    BY <2>1, LenProperties
  <2>3. DOMAIN after = 1 .. Len(window) - 1 /\ Len(window) - 1 \in Nat
    BY <1>1, <1>4
  <2>. HIDE DEF after
  <2>4. Len(after) = Len(window) - 1
    BY <2>2, <2>3, SameInterval
  <2>5. QED
    BY <2>3, <2>4
<1>6. \A i \in DOMAIN after : i + 1 \in DOMAIN window
  BY <1>1, <1>5
<1>7. \A i \in DOMAIN after :
         /\ i = 1 => after[i] = window[2]
         /\ i > 1 => after[i] = window[i + 1] - 1
  <2>1. ASSUME NEW i \in DOMAIN after
        PROVE  /\ i = 1 => after[i] = window[2]
               /\ i > 1 => after[i] = window[i + 1] - 1
    <3>1. i \in 1 .. Len(window) - 1 /\ i \in Nat
      BY <1>1, <1>5, <2>1
    <3>2. CASE i = 1
      BY <1>4, <3>1, <3>2
    <3>3. CASE i > 1
      <4>1. after[i] = Decremented(window[i + 1])
        BY <1>4, <3>1, <3>3
      <4>2. window[i + 1] \in Nat /\ window[i + 1] # 0
        BY <1>2, <1>6, <2>1
      <4>3. QED
        BY <3>3, <4>1, <4>2 DEF Decremented
    <3>4. QED
      BY <3>1, <3>2, <3>3
  <2>2. QED
    BY <2>1
<1>. HIDE DEF after
<1>8. \A i \in DOMAIN after : i \in Nat /\ i >= 1
  BY <1>1, <1>5
<1>9. \A i \in DOMAIN after : after[i] >= window[i + 1] - 1 /\ after[i] \in 1 .. tFAW
  <2>1. ASSUME NEW i \in DOMAIN after
        PROVE  after[i] >= window[i + 1] - 1 /\ after[i] \in 1 .. tFAW
    <3>1. window[i + 1] \in Nat /\ window[i + 1] >= 1 /\ window[i + 1] <= tFAW
      BY <1>2, <1>6, <2>1
    <3>2. CASE i = 1
      BY <1>7, <2>1, <3>1, <3>2, TimingTypes
    <3>3. CASE i > 1
      <4>1. window[i + 1] >= 2
        BY <1>3, <1>6, <1>8, <2>1, <3>3
      <4>2. QED
        BY <1>7, <2>1, <3>1, <3>3, <4>1, TimingTypes
    <3>4. QED
      BY <1>8, <3>2, <3>3
  <2>2. QED
    BY <2>1
<1>10. HasRoomAtEnd(after)
  <2>1. ASSUME NEW i \in DOMAIN after, i > 1 PROVE after[i] < tFAW
    BY <1>2, <1>6, <1>7, <2>1, TimingTypes
  <2>2. QED
    BY <2>1 DEF HasRoomAtEnd
<1>11. \A i \in DOMAIN after : i > 1 => after[1] <= after[i]
  <2>1. ASSUME NEW i \in DOMAIN after, i > 1 PROVE after[1] <= after[i]
    <3>1. 1 \in DOMAIN after
      BY <1>1, <1>5, <2>1
    <3>2. after[1] = window[2] /\ 2 \in DOMAIN window
      <4>1. 1 + 1 \in DOMAIN window
        BY <1>6, <3>1
      <4>2. QED
        BY <1>7, <3>1, <4>1
    <3>3. after[i] = window[i + 1] - 1 /\ window[2] < window[i + 1]
      BY <1>3, <1>6, <1>7, <1>8, <2>1
    <3>4. QED
      BY <1>2, <1>6, <2>1, <3>2, <3>3
  <2>2. QED
    BY <2>1
<1>12. \A i, j \in DOMAIN after : 1 < i /\ i < j => after[i] < after[j]
  <2>1. ASSUME NEW i \in DOMAIN after, NEW j \in DOMAIN after, 1 < i, i < j
        PROVE  after[i] < after[j]
    <3>1. window[i + 1] < window[j + 1]
      BY <1>6, <1>8, <2>1 DEF Staggered
    <3>2. window[i + 1] \in Nat /\ window[j + 1] \in Nat
      BY <1>2, <1>6, <2>1
    <3>3. after[i] = window[i + 1] - 1 /\ after[j] = window[j + 1] - 1
      BY <1>7, <1>8, <2>1
    <3>4. QED
      BY <3>1, <3>2, <3>3
  <2>2. QED
    BY <2>1
<1>13. Len(after) <= 4
  BY <1>1, <1>5 DEF Staggered
<1>14. Staggered(after)
  BY <1>9, <1>11, <1>12, <1>13 DEF Staggered
<1>15. QED
  BY <1>5, <1>9, <1>10, <1>14 DEF after

\* history a cycle later, or what is left of it.
Older(history, later) ==
    \A y \in later : \E x \in history : y.age = x.age + 1

\* Over a cycle a window forgets nothing too early.
LEMMA WindowElapses ==
    ASSUME NEW window \in Seq(Nat), Staggered(window),
           NEW ages \in [DOMAIN window -> Nat],
           NEW history \in SUBSET [bank : Banks, age : Nat], Remembers(window, ages, history),
           NEW later \in SUBSET [bank : Banks, age : Nat], Older(history, later)
    PROVE  \E then \in [DOMAIN WindowAfter(window) -> Nat] :
              Remembers(WindowAfter(window), then, later)
<1>. DEFINE after == WindowAfter(window)
<1>1. /\ Len(window) \in Nat /\ DOMAIN window = 1 .. Len(window)
      /\ \A i \in DOMAIN window : window[i] \in Nat /\ ages[i] \in Nat
  BY LenProperties, ElementOfSeq
<1>2. \A i \in DOMAIN window : window[i] + ages[i] >= tFAW
  BY DEF Remembers
<1>3. tFAW \in Nat
  BY TimingTypes
<1>4. ASSUME NEW y \in later, y.age < tFAW
      PROVE  \E i \in DOMAIN window : ages[i] + 1 = y.age
  <2>1. PICK x \in history : y.age = x.age + 1
    BY <1>4 DEF Older
  <2>2. x.age \in Nat /\ x.age < tFAW
    BY <1>3, <1>4, <2>1
  <2>3. PICK i \in DOMAIN window : ages[i] = x.age
    BY <2>2 DEF Remembers
  <2>4. QED
    BY <2>1, <2>3
<1>5. CASE window # << >> /\ Head(window) = 1
  <2>1. /\ DOMAIN after = 1 .. Len(window) - 1
        /\ \A i \in DOMAIN after : after[i] >= window[i + 1] - 1
    BY <1>5, WindowShifts
  <2>2. after \in Seq(Nat)
    BY WindowAfterType
  <2>3. \A i \in DOMAIN after : after[i] \in Nat
    BY <2>2, ElementOfSeq, LenProperties
  <2>. DEFINE then == [i \in DOMAIN after |-> ages[i + 1] + 1]
  <2>. HIDE DEF after
  <2>4. \A i \in DOMAIN after : i + 1 \in DOMAIN window
    BY <1>1, <2>1
  <2>5. then \in [DOMAIN after -> Nat]
    BY <1>1, <2>4
  <2>6. \A i \in DOMAIN after : after[i] + then[i] >= tFAW
    <3>1. ASSUME NEW i \in DOMAIN after PROVE after[i] + then[i] >= tFAW
      <4>1. /\ after[i] \in Nat /\ window[i + 1] \in Nat /\ ages[i + 1] \in Nat
            /\ after[i] >= window[i + 1] - 1 /\ window[i + 1] + ages[i + 1] >= tFAW
        BY <1>1, <1>2, <2>1, <2>3, <2>4
      <4>2. then[i] = ages[i + 1] + 1
        OBVIOUS
      <4>3. QED
        BY <1>3, <4>1, <4>2
    <3>2. QED
      BY <3>1
  <2>7. ASSUME NEW y \in later, y.age < tFAW
        PROVE  \E i \in DOMAIN after : then[i] = y.age
    <3>1. PICK j \in DOMAIN window : ages[j] + 1 = y.age
      BY <1>4, <2>7
    <3>2. j # 1
      <4>1. window[1] = 1
        BY <1>5
      <4>2. ASSUME j = 1 PROVE FALSE
        <5>1. 1 + ages[1] >= tFAW /\ ages[1] + 1 = y.age
          BY <1>2, <3>1, <4>1, <4>2
        <5>2. ages[1] \in Nat
          BY <1>1, <3>1, <4>2
        <5>3. QED
          BY <1>3, <2>7, <5>1, <5>2
      <4>3. QED
        BY <4>2
    <3>3. j - 1 \in DOMAIN after /\ (j - 1) + 1 = j
      BY <1>1, <2>1, <3>1, <3>2
    <3>4. then[j - 1] = y.age
      BY <3>1, <3>3
    <3>5. QED
      BY <3>3, <3>4
  <2>8. Remembers(after, then, later)
    BY <2>6, <2>7 DEF Remembers
  <2>9. QED
    BY <2>5, <2>8 DEF after
<1>6. CASE ~ (window # << >> /\ Head(window) = 1)
  <2>1. after = [i \in 1 .. Len(window) |-> window[i] - 1]
    BY <1>6, WindowRuns
  <2>. DEFINE then == [i \in DOMAIN window |-> ages[i] + 1]
  <2>2. DOMAIN after = DOMAIN window /\ \A i \in DOMAIN window : after[i] = window[i] - 1
    BY <1>1, <2>1
  <2>. HIDE DEF after
  <2>3. then \in [DOMAIN after -> Nat]
    BY <1>1, <2>2
  <2>4. \A i \in DOMAIN after : after[i] + then[i] >= tFAW
    <3>1. ASSUME NEW i \in DOMAIN window PROVE after[i] + then[i] >= tFAW
      <4>1. /\ window[i] \in Nat /\ ages[i] \in Nat /\ window[i] + ages[i] >= tFAW
            /\ after[i] = window[i] - 1 /\ then[i] = ages[i] + 1
        BY <1>1, <1>2, <2>2
      <4>2. QED
        BY <1>3, <4>1
    <3>2. QED
      BY <2>2, <3>1
  <2>5. ASSUME NEW y \in later, y.age < tFAW
        PROVE  \E i \in DOMAIN after : then[i] = y.age
    <3>1. PICK i \in DOMAIN window : ages[i] + 1 = y.age
      BY <1>4, <2>5
    <3>2. QED
      BY <2>2, <3>1
  <2>6. Remembers(after, then, later)
    BY <2>4, <2>5 DEF Remembers
  <2>7. QED
    BY <2>3, <2>6 DEF after
<1>7. QED
  BY <1>5, <1>6

\* A new ACTIVATE is remembered by the entry it appends.
LEMMA WindowGrows ==
    ASSUME NEW window \in Seq(Nat), Staggered(window), HasRoomAtEnd(window), Len(window) < 4,
           NEW ages \in [DOMAIN window -> Nat],
           NEW history, Remembers(window, ages, history),
           NEW new, new.age = 0
    PROVE  /\ Staggered(Append(window, tFAW))
           /\ \E then \in [DOMAIN Append(window, tFAW) -> Nat] :
                 Remembers(Append(window, tFAW), then, history \union {new})
<1>. DEFINE after == Append(window, tFAW)
            n == Len(window)
            then == [i \in DOMAIN after |-> IF i = n + 1 THEN 0 ELSE ages[i]]
<1>1. n \in Nat /\ DOMAIN window = 1 .. n /\ tFAW \in Nat \ {0} /\ n <= 3
  <2>1. Len(window) \in Nat /\ DOMAIN window = 1 .. Len(window)
    BY LenProperties
  <2>2. tFAW \in Nat \ {0}
    BY TimingAssumption
  <2>3. Len(window) <= 3
    BY <2>1
  <2>4. QED
    BY <2>1, <2>2, <2>3
<1>2. /\ Len(after) = n + 1 /\ DOMAIN after = 1 .. n + 1
      /\ after[n + 1] = tFAW
      /\ \A i \in DOMAIN window : i \in DOMAIN after /\ after[i] = window[i]
  <2>1. after \in Seq(Nat) /\ Len(after) = n + 1
    BY <1>1, AppendProperties
  <2>2. \A i \in 1 .. n : after[i] = window[i]
    BY <1>1, AppendProperties
  <2>3. after[n + 1] = tFAW
    BY <1>1, AppendProperties
  <2>4. DOMAIN after = 1 .. n + 1
    BY <2>1, LenProperties
  <2>5. QED
    BY <1>1, <2>1, <2>2, <2>3, <2>4
<1>3. \A i \in DOMAIN after : i \in DOMAIN window \/ i = n + 1
  BY <1>1, <1>2
<1>4. \A i \in DOMAIN window : i \in Nat /\ window[i] \in 1 .. tFAW /\ i < n + 1
  BY <1>1 DEF Staggered
<1>5. then \in [DOMAIN after -> Nat]
  BY <1>3
<1>6. then[n + 1] = 0 /\ \A i \in DOMAIN window : then[i] = ages[i]
  BY <1>1, <1>2, <1>4
<1>. HIDE DEF after, then
<1>7. Staggered(after)
  <2>1. Len(after) <= 4
    BY <1>1, <1>2
  <2>2. \A i \in DOMAIN after : after[i] \in 1 .. tFAW
    BY <1>1, <1>2, <1>3, <1>4
  <2>3. ASSUME NEW i \in DOMAIN after, i > 1 PROVE after[1] <= after[i]
    <3>1. 1 \in DOMAIN window
      BY <1>1, <1>2, <2>3
    <3>2. CASE i \in DOMAIN window
      BY <1>2, <2>3, <3>1, <3>2 DEF Staggered
    <3>3. CASE i = n + 1
      BY <1>1, <1>2, <1>4, <3>1, <3>3
    <3>4. QED
      BY <1>3, <3>2, <3>3
  <2>4. ASSUME NEW i \in DOMAIN after, NEW j \in DOMAIN after, 1 < i, i < j
        PROVE  after[i] < after[j]
    <3>1. i \in DOMAIN window
      BY <1>1, <1>2, <2>4
    <3>2. CASE j \in DOMAIN window
      BY <1>2, <2>4, <3>1, <3>2 DEF Staggered
    <3>3. CASE j = n + 1
      BY <1>2, <2>4, <3>1, <3>3 DEF HasRoomAtEnd
    <3>4. QED
      BY <1>3, <3>2, <3>3
  <2>5. QED
    BY <2>1, <2>2, <2>3, <2>4 DEF Staggered
<1>8. Remembers(after, then, history \union {new})
  <2>1. ASSUME NEW i \in DOMAIN after PROVE after[i] + then[i] >= tFAW
    <3>1. CASE i \in DOMAIN window
      BY <1>2, <1>6, <3>1 DEF Remembers
    <3>2. CASE i = n + 1
      BY <1>1, <1>2, <1>6, <3>2
    <3>3. QED
      BY <1>3, <3>1, <3>2
  <2>2. ASSUME NEW x \in history \union {new}, x.age < tFAW
        PROVE  \E i \in DOMAIN after : then[i] = x.age
    <3>1. CASE x \in history
      <4>1. PICK i \in DOMAIN window : ages[i] = x.age
        BY <2>2, <3>1 DEF Remembers
      <4>2. QED
        BY <1>2, <1>6, <4>1
    <3>2. CASE x = new
      <4>1. n + 1 \in DOMAIN after
        BY <1>1, <1>2
      <4>2. QED
        BY <1>6, <3>2, <4>1
    <3>3. QED
      BY <3>1, <3>2
  <2>3. QED
    BY <2>1, <2>2 DEF Remembers
<1>9. QED
  BY <1>5, <1>7, <1>8 DEF after

-----------------------------------------------------------------------------
(* The banks over a cycle                                                  *)

\* The history of a rank a cycle later, when it receives nothing.
Aged(r) ==
    {y \in {[x EXCEPT !.age = @ + 1] : x \in activates[r]} : y.age < HistoryDepth}

LEMMA AgedOnce ==
    ASSUME HistoryOK, NEW r \in Ranks, NEW y \in Aged(r)
    PROVE  \E x \in activates[r] :
              /\ x \in [bank : Banks, age : Nat]
              /\ y = [x EXCEPT !.age = @ + 1]
              /\ y.bank = x.bank /\ y.age = x.age + 1
<1>1. PICK x \in activates[r] : y = [x EXCEPT !.age = @ + 1]
  BY DEF Aged
<1>2. x \in [bank : Banks, age : Nat]
  BY DEF HistoryOK
<1>3. y.bank = x.bank /\ y.age = x.age + 1
  BY <1>1, <1>2
<1>4. QED
  BY <1>1, <1>2, <1>3

LEMMA AgedType ==
    ASSUME HistoryOK, NEW r \in Ranks
    PROVE  /\ Aged(r) \in SUBSET [bank : Banks, age : Nat]
           /\ Older(activates[r], Aged(r))
           /\ \A y \in Aged(r) : y.age >= 1
           /\ \A y, z \in Aged(r) : y.age = z.age => y = z
<1>1. \A y \in Aged(r) : y \in [bank : Banks, age : Nat] /\ y.age >= 1
  <2>1. ASSUME NEW y \in Aged(r) PROVE y \in [bank : Banks, age : Nat] /\ y.age >= 1
    <3>1. PICK x \in activates[r] : /\ x \in [bank : Banks, age : Nat]
                                    /\ y = [x EXCEPT !.age = @ + 1]
                                    /\ y.bank = x.bank /\ y.age = x.age + 1
      BY AgedOnce
    <3>2. QED
      BY <3>1
  <2>2. QED
    BY <2>1
<1>2. Older(activates[r], Aged(r))
  BY AgedOnce DEF Older
<1>3. ASSUME NEW y \in Aged(r), NEW z \in Aged(r), y.age = z.age PROVE y = z
  <2>1. PICK x \in activates[r] : /\ x \in [bank : Banks, age : Nat]
                                  /\ y = [x EXCEPT !.age = @ + 1] /\ y.age = x.age + 1
    BY AgedOnce
  <2>2. PICK w \in activates[r] : /\ w \in [bank : Banks, age : Nat]
                                  /\ z = [w EXCEPT !.age = @ + 1] /\ z.age = w.age + 1
    BY AgedOnce
  <2>3. x.age = w.age
    <3>1. x.age \in Nat /\ w.age \in Nat /\ x.age + 1 = w.age + 1
      BY <1>3, <2>1, <2>2
    <3>2. QED
      BY <3>1
  <2>4. x = w
    BY <2>3 DEF HistoryOK
  <2>5. QED
    BY <2>1, <2>2, <2>4
<1>4. QED
  BY <1>1, <1>2, <1>3

LEMMA HeldElapses ==
    ASSUME NEW bank \in BankStates, NEW age \in Nat, Holds(bank, age)
    PROVE  Holds(Elapse(bank), age + 1)
<1>1. /\ bank.nextActivate \in Nat /\ bank.nextRead \in Nat /\ bank.nextWrite \in Nat
      /\ Elapse(bank).nextActivate = OneLess(bank.nextActivate)
      /\ Elapse(bank).nextRead = OneLess(bank.nextRead)
      /\ Elapse(bank).nextWrite = OneLess(bank.nextWrite)
  BY DEF BankStates, Elapse
<1>2. ASSUME NEW n \in Nat, NEW m \in Nat, n + age >= m - 1 PROVE OneLess(n) + (age + 1) >= m - 1
  BY <1>2 DEF OneLess
<1>3. tRC \in Nat /\ tRCD \in Nat
  BY TimingTypes
<1>4. QED
  BY <1>1, <1>2, <1>3 DEF Holds

\* A change of state is no change of what a bank waits for.
LEMMA WaitsNow ==
    ASSUME TypeOK, NEW r \in Ranks, NEW b \in Banks
    PROVE  /\ BanksNow[r][b] \in BankStates
           /\ BanksNow[r][b].nextActivate = bankStates[r][b].nextActivate
           /\ BanksNow[r][b].nextRead = bankStates[r][b].nextRead
           /\ BanksNow[r][b].nextWrite = bankStates[r][b].nextWrite
<1>1. BanksNow[r][b] \in BankStates
  BY BanksNowType DEF TypeOK
<1>2. bankStates[r][b] \in BankStates /\ BanksNow[r][b] = UpdateStateChange(bankStates[r][b])
  BY DEF TypeOK, ControllerTypeOK, BanksNow
<1>3. ASSUME NEW bank \in BankStates
      PROVE  /\ UpdateStateChange(bank).nextActivate = bank.nextActivate
             /\ UpdateStateChange(bank).nextRead = bank.nextRead
             /\ UpdateStateChange(bank).nextWrite = bank.nextWrite
  BY DEF UpdateStateChange, BankStates
<1>4. QED
  BY <1>1, <1>2, <1>3

\* The ACTIVATEs of the past hold these banks.
HeldIn(banks) == \A r \in Ranks : \A x \in activates[r] : Holds(banks[r][x.bank], x.age)

LEMMA HeldNow ==
    ASSUME TypeOK, HistoryOK, BanksHeld
    PROVE  HeldIn(BanksNow)
<1> SUFFICES ASSUME NEW r \in Ranks, NEW x \in activates[r]
             PROVE  Holds(BanksNow[r][x.bank], x.age)
  BY DEF HeldIn
<1>1. x.bank \in Banks
  BY DEF HistoryOK
<1>2. QED
  BY <1>1, WaitsNow DEF BanksHeld, Holds

\* A cycle later they hold them as before.
LEMMA HeldAfterTick ==
    ASSUME HistoryOK, NEW banks \in [Ranks -> [Banks -> BankStates]], HeldIn(banks),
           NEW r \in Ranks, NEW y \in Aged(r)
    PROVE  Holds(TickBanks(banks)[r][y.bank], y.age)
<1>1. PICK x \in activates[r] : /\ x \in [bank : Banks, age : Nat]
                                /\ y.bank = x.bank /\ y.age = x.age + 1
  BY AgedOnce
<1>2. x.bank \in Banks /\ x.age \in Nat
  BY <1>1
<1>3. Holds(banks[r][x.bank], x.age) /\ banks[r][x.bank] \in BankStates
  BY <1>2 DEF HeldIn
<1>4. TickBanks(banks)[r][x.bank] = Elapse(banks[r][x.bank])
  BY <1>2 DEF TickBanks
<1>5. QED
  BY <1>1, <1>2, <1>3, <1>4, HeldElapses

\* What a CAS needs, the ACTIVATEs of its bank have let through, and what it makes the
\* bank wait for instead is no shorter.
LEMMA HeldWhenClosed ==
    ASSUME NEW bank \in BankStates, NEW age \in Nat, Holds(bank, age),
           bank.nextRead = 0 \/ bank.nextWrite = 0,
           NEW type, NEW busy, NEW wait \in Nat,
           wait >= bank.nextActivate \/ wait = tCWL + BURST + tWR + tRP
    PROVE  Holds(Closing(bank, type, busy, wait), age)
<1>1. /\ Closing(bank, type, busy, wait).nextActivate = wait
      /\ Closing(bank, type, busy, wait).nextRead = wait
      /\ Closing(bank, type, busy, wait).nextWrite = wait
  BY DEF Closing, BankStates
<1>2. bank.nextActivate \in Nat
  BY DEF BankStates
<1>3. age >= tRCD - 1
  BY TimingTypes DEF Holds
<1>4. wait + age >= tRCD - 1
  BY <1>3, TimingTypes
<1>5. wait + age >= tRC - 1
  <2>1. CASE wait >= bank.nextActivate
    BY <1>2, <2>1, TimingTypes DEF Holds
  <2>2. CASE wait = tCWL + BURST + tWR + tRP
    BY <1>3, <2>2, TimingTypes, RowCycleAssumption
  <2>3. QED
    BY <2>1, <2>2
<1>6. QED
  BY <1>1, <1>4, <1>5 DEF Holds

LEMMA HeldWhenPostponed ==
    ASSUME NEW bank \in BankStates, NEW age \in Nat, Holds(bank, age),
           NEW read \in Int, NEW write \in Int
    PROVE  Holds(Postponed(bank, read, write), age)
<1>1. /\ Postponed(bank, read, write).nextActivate = bank.nextActivate
      /\ Postponed(bank, read, write).nextRead = Larger(bank.nextRead, read)
      /\ Postponed(bank, read, write).nextWrite = Larger(bank.nextWrite, write)
      /\ bank.nextRead \in Nat /\ bank.nextWrite \in Nat
  BY DEF Postponed, BankStates
<1>2. Larger(bank.nextRead, read) + age >= bank.nextRead + age
  BY <1>1 DEF Larger
<1>3. Larger(bank.nextWrite, write) + age >= bank.nextWrite + age
  BY <1>1 DEF Larger
<1>4. Larger(bank.nextRead, read) \in Int /\ Larger(bank.nextWrite, write) \in Int
  BY <1>1 DEF Larger
<1>5. QED
  BY <1>1, <1>2, <1>3, <1>4, TimingTypes DEF Holds

LEMMA HeldAfterRead ==
    ASSUME TypeOK, HistoryOK, BanksHeld, NEW p \in BusPacket,
           BanksNow[p.rank][p.bank].nextRead = 0
    PROVE  HeldIn(BanksAfterRead(p))
<1> SUFFICES ASSUME NEW r \in Ranks, NEW x \in activates[r]
             PROVE  Holds(BanksAfterRead(p)[r][x.bank], x.age)
  BY DEF HeldIn
<1>1. x.bank \in Banks /\ x.age \in Nat
  BY DEF HistoryOK
<1>. DEFINE bank == BanksNow[r][x.bank]
<1>2. bank \in BankStates /\ Holds(bank, x.age)
  BY <1>1, WaitsNow, HeldNow DEF HeldIn
<1>3. bank.nextActivate \in Nat
  BY <1>2 DEF BankStates
<1>4. BanksAfterRead(p)[r][x.bank] =
         IF r = p.rank /\ x.bank = p.bank
         THEN Closing(bank, "READ_P", tRTPc, ActivateAfterRead(bank))
         ELSE Postponed(bank, SameKindAgain(r = p.rank), tCL + BURST + tRTRS - tCWL)
  BY <1>1 DEF BanksAfterRead
<1>5. CASE r = p.rank /\ x.bank = p.bank
  <2>1. bank.nextRead = 0
    BY <1>5
  <2>2. ActivateAfterRead(bank) \in Nat /\ ActivateAfterRead(bank) >= bank.nextActivate
    BY <1>3, TimingTypes DEF ActivateAfterRead, Larger
  <2>. HIDE DEF bank
  <2>3. QED
    BY <1>1, <1>2, <1>4, <1>5, <2>1, <2>2, HeldWhenClosed
<1>6. CASE ~ (r = p.rank /\ x.bank = p.bank)
  <2>1. SameKindAgain(r = p.rank) \in Int /\ tCL + BURST + tRTRS - tCWL \in Int
    BY TimingTypes DEF SameKindAgain, Larger
  <2>. HIDE DEF bank
  <2>2. QED
    BY <1>1, <1>2, <1>4, <1>6, <2>1, HeldWhenPostponed
<1>7. QED
  BY <1>5, <1>6

LEMMA HeldAfterWrite ==
    ASSUME TypeOK, HistoryOK, BanksHeld, NEW p \in BusPacket,
           BanksNow[p.rank][p.bank].nextWrite = 0
    PROVE  HeldIn(BanksAfterWrite(p))
<1> SUFFICES ASSUME NEW r \in Ranks, NEW x \in activates[r]
             PROVE  Holds(BanksAfterWrite(p)[r][x.bank], x.age)
  BY DEF HeldIn
<1>1. x.bank \in Banks /\ x.age \in Nat
  BY DEF HistoryOK
<1>. DEFINE bank == BanksNow[r][x.bank]
            turn == IF r = p.rank THEN tWTR ELSE tRTRS - tCL
            wait == tCWL + BURST + tWR + tRP
<1>2. bank \in BankStates /\ Holds(bank, x.age)
  BY <1>1, WaitsNow, HeldNow DEF HeldIn
<1>3. BanksAfterWrite(p)[r][x.bank] =
         IF r = p.rank /\ x.bank = p.bank
         THEN Closing(bank, "WRITE_P", tCWL + BURST + tWR, wait)
         ELSE Postponed(bank, tCWL + BURST + turn, SameKindAgain(r = p.rank))
  BY <1>1 DEF BanksAfterWrite
<1>4. CASE r = p.rank /\ x.bank = p.bank
  <2>1. bank.nextWrite = 0 /\ wait \in Nat /\ wait = tCWL + BURST + tWR + tRP
    BY <1>4, TimingTypes
  <2>. HIDE DEF bank, wait
  <2>2. QED
    BY <1>1, <1>2, <1>3, <1>4, <2>1, HeldWhenClosed
<1>5. CASE ~ (r = p.rank /\ x.bank = p.bank)
  <2>1. SameKindAgain(r = p.rank) \in Int /\ tCWL + BURST + turn \in Int
    BY TimingTypes DEF SameKindAgain, Larger
  <2>. HIDE DEF bank, turn
  <2>2. QED
    BY <1>1, <1>2, <1>3, <1>5, <2>1, HeldWhenPostponed
<1>6. QED
  BY <1>4, <1>5

LEMMA HeldAfterActivate ==
    ASSUME TypeOK, HistoryOK, BanksHeld, NEW p \in BusPacket
    PROVE  /\ HeldIn(BanksAfterActivateCommand(p))
           /\ Holds(TickBanks(BanksAfterActivateCommand(p))[p.rank][p.bank], 0)
<1>0. p.rank \in Ranks /\ p.bank \in Banks
  BY DEF BusPacket
<1>. DEFINE opened(bank) ==
                [bank EXCEPT !.lastCommand = "ACTIVATE",
                             !.currentBankState = "ROW_ACTIVE",
                             !.openRowAddress = p.row,
                             !.nextActivate = tRC,
                             !.nextRead = Larger(@, tRCD),
                             !.nextWrite = Larger(@, tRCD)]
<1>1. ASSUME NEW bank \in BankStates
      PROVE  /\ opened(bank).nextActivate = tRC
             /\ opened(bank).nextRead = Larger(bank.nextRead, tRCD)
             /\ opened(bank).nextWrite = Larger(bank.nextWrite, tRCD)
             /\ bank.nextActivate \in Nat /\ bank.nextRead \in Nat /\ bank.nextWrite \in Nat
  BY DEF BankStates
<1>2. ASSUME NEW n \in Nat
      PROVE  /\ Larger(n, tRCD) \in Nat /\ Larger(n, tRCD) >= n /\ Larger(n, tRCD) >= tRCD
             /\ Larger(n, tRRD) \in Nat /\ Larger(n, tRRD) >= n
  BY TimingTypes DEF Larger
<1>3. HeldIn(BanksAfterActivateCommand(p))
  <2> SUFFICES ASSUME NEW r \in Ranks, NEW x \in activates[r]
               PROVE  Holds(BanksAfterActivateCommand(p)[r][x.bank], x.age)
    BY DEF HeldIn
  <2>1. x.bank \in Banks /\ x.age \in Nat
    BY DEF HistoryOK
  <2>. DEFINE bank == BanksNow[r][x.bank]
  <2>2. bank \in BankStates /\ Holds(bank, x.age)
    BY <2>1, WaitsNow, HeldNow DEF HeldIn
  <2>3. BanksAfterActivateCommand(p)[r][x.bank] =
           IF r # p.rank THEN bank
           ELSE IF x.bank # p.bank THEN [bank EXCEPT !.nextActivate = Larger(@, tRRD)]
           ELSE opened(bank)
    BY <2>1 DEF BanksAfterActivateCommand
  <2>. HIDE DEF bank
  <2>4. CASE r # p.rank
    BY <2>2, <2>3, <2>4
  <2>5. CASE r = p.rank /\ x.bank # p.bank
    <3>. DEFINE after == [bank EXCEPT !.nextActivate = Larger(@, tRRD)]
    <3>1. /\ after.nextActivate = Larger(bank.nextActivate, tRRD)
          /\ after.nextRead = bank.nextRead /\ after.nextWrite = bank.nextWrite
          /\ bank.nextActivate \in Nat
      BY <2>2 DEF BankStates
    <3>2. /\ Larger(bank.nextActivate, tRRD) \in Nat
          /\ Larger(bank.nextActivate, tRRD) >= bank.nextActivate
      BY <1>2, <3>1
    <3>3. BanksAfterActivateCommand(p)[r][x.bank] = after
      BY <2>3, <2>5
    <3>. HIDE DEF after
    <3>4. QED
      BY <2>1, <2>2, <3>1, <3>2, <3>3, TimingTypes DEF Holds
  <2>6. CASE r = p.rank /\ x.bank = p.bank
    <3>1. BanksAfterActivateCommand(p)[r][x.bank] = opened(bank)
      BY <2>3, <2>6
    <3>. HIDE DEF opened
    <3>2. /\ opened(bank).nextActivate = tRC
          /\ opened(bank).nextRead >= tRCD /\ opened(bank).nextWrite >= tRCD
          /\ opened(bank).nextRead \in Nat /\ opened(bank).nextWrite \in Nat
      BY <1>1, <1>2, <2>2
    <3>3. QED
      BY <2>1, <3>1, <3>2, TimingTypes DEF Holds
  <2>7. QED
    BY <2>4, <2>5, <2>6
<1>4. Holds(TickBanks(BanksAfterActivateCommand(p))[p.rank][p.bank], 0)
  <2>. DEFINE bank == BanksNow[p.rank][p.bank]
  <2>1. bank \in BankStates
    BY <1>0, WaitsNow
  <2>2. BanksAfterActivateCommand(p)[p.rank][p.bank] = opened(bank)
    BY <1>0 DEF BanksAfterActivateCommand
  <2>3. opened(bank) \in BankStates
    <3>1. BanksAfterActivateCommand(p) \in [Ranks -> [Banks -> BankStates]]
      BY BanksAfterTypes DEF TypeOK
    <3>. HIDE DEF bank, opened
    <3>2. QED
      BY <1>0, <2>2, <3>1
  <2>4. TickBanks(BanksAfterActivateCommand(p))[p.rank][p.bank] = Elapse(opened(bank))
    <3>. HIDE DEF bank, opened
    <3>1. QED
      BY <1>0, <2>2 DEF TickBanks
  <2>. HIDE DEF bank, opened
  <2>5. /\ opened(bank).nextActivate = tRC
        /\ opened(bank).nextRead >= tRCD /\ opened(bank).nextWrite >= tRCD
        /\ opened(bank).nextRead \in Nat /\ opened(bank).nextWrite \in Nat
    BY <1>1, <1>2, <2>1
  <2>6. /\ Elapse(opened(bank)).nextActivate = OneLess(tRC)
        /\ Elapse(opened(bank)).nextRead = OneLess(opened(bank).nextRead)
        /\ Elapse(opened(bank)).nextWrite = OneLess(opened(bank).nextWrite)
    BY <2>3, <2>5 DEF Elapse, BankStates
  <2>7. tRC \in Nat \ {0} /\ tRCD \in Nat \ {0}
    BY TimingAssumption
  <2>8. QED
    BY <2>4, <2>5, <2>6, <2>7 DEF Holds, OneLess
<1>5. QED
  BY <1>3, <1>4

LEMMA HeldAfterRefresh ==
    ASSUME TypeOK, HistoryOK, BanksHeld, NEW q \in Ranks,
           \A b \in Banks : Quiet(BanksNow[q][b])
    PROVE  HeldIn(BanksAfterRefresh(q))
<1> SUFFICES ASSUME NEW r \in Ranks, NEW x \in activates[r]
             PROVE  Holds(BanksAfterRefresh(q)[r][x.bank], x.age)
  BY DEF HeldIn
<1>1. x.bank \in Banks /\ x.age \in Nat
  BY DEF HistoryOK
<1>. DEFINE bank == BanksNow[r][x.bank]
<1>2. bank \in BankStates /\ Holds(bank, x.age)
  BY <1>1, WaitsNow, HeldNow DEF HeldIn
<1>3. BanksAfterRefresh(q)[r][x.bank] = IF r = q THEN Refreshing(bank) ELSE bank
  BY <1>1 DEF BanksAfterRefresh, BanksNow
<1>4. r = q => bank.nextActivate = 0
  BY <1>1 DEF Quiet
<1>. HIDE DEF bank
<1>5. CASE r = q
  <2>1. /\ Refreshing(bank).nextActivate = tRFC
        /\ Refreshing(bank).nextRead = bank.nextRead
        /\ Refreshing(bank).nextWrite = bank.nextWrite
    BY <1>2 DEF Refreshing, BankStates
  <2>2. x.age >= tRC - 1
    BY <1>1, <1>2, <1>4, <1>5, TimingTypes DEF Holds
  <2>3. QED
    BY <1>1, <1>2, <1>3, <1>5, <2>1, <2>2, TimingTypes DEF Holds
<1>6. CASE r # q
  BY <1>2, <1>3, <1>6
<1>7. QED
  BY <1>5, <1>6

-----------------------------------------------------------------------------
(* The history over a cycle                                                *)

\* Two ACTIVATEs of a bank stay as far apart as they were.
LEMMA AgedApart ==
    ASSUME HistoryOK, RowCycleTime, NEW r \in Ranks, NEW y \in Aged(r), NEW z \in Aged(r),
           y.bank = z.bank, y.age < z.age
    PROVE  z.age - y.age >= tRC
<1>1. PICK x \in activates[r] : /\ x \in [bank : Banks, age : Nat]
                                /\ y.bank = x.bank /\ y.age = x.age + 1
  BY AgedOnce
<1>2. PICK w \in activates[r] : /\ w \in [bank : Banks, age : Nat]
                                /\ z.bank = w.bank /\ z.age = w.age + 1
  BY AgedOnce
<1>3. x.age \in Nat /\ w.age \in Nat
  BY <1>1, <1>2
<1>. DEFINE m == x.age
            n == w.age
<1>4. m \in Nat /\ n \in Nat /\ y.age = m + 1 /\ z.age = n + 1
  BY <1>1, <1>2, <1>3
<1>. HIDE DEF m, n
<1>5. m < n /\ z.age - y.age = n - m
  BY <1>4
<1>6. n - m >= tRC
  BY <1>1, <1>2, <1>5 DEF RowCycleTime, m, n
<1>7. QED
  BY <1>5, <1>6

\* The cycle sends no ACTIVATE.
LEMMA NothingActivated ==
    ASSUME HistoryInv, activates' = [r \in Ranks |-> Aged(r)], tFAWWindow' = WindowNow,
           NEW banks \in [Ranks -> [Banks -> BankStates]], HeldIn(banks),
           bankStates' = TickBanks(banks)
    PROVE  HistoryOK' /\ WindowsRemember' /\ BanksHeld' /\ RowCycleTime'
<1>. USE DEF HistoryInv
<1>1. \A r \in Ranks : activates'[r] = Aged(r)
  OBVIOUS
<1>2. HistoryOK'
  <2>1. activates' \in [Ranks -> SUBSET [bank : Banks, age : Nat]]
    BY AgedType
  <2>2. ASSUME NEW r \in Ranks, NEW x \in activates'[r], NEW y \in activates'[r], x.age = y.age
        PROVE  x = y
    BY <1>1, <2>2, AgedType
  <2>3. QED
    BY <2>1, <2>2 DEF HistoryOK
<1>3. WindowsRemember'
  <2> SUFFICES ASSUME NEW r \in Ranks
               PROVE  /\ Staggered(tFAWWindow'[r])
                      /\ \E ages \in [DOMAIN tFAWWindow'[r] -> Nat] :
                            Remembers(tFAWWindow'[r], ages, activates'[r])
    BY DEF WindowsRemember
  <2>1. tFAWWindow'[r] = WindowAfter(tFAWWindow[r]) /\ tFAWWindow[r] \in Seq(Nat)
    BY DEF WindowNow, TypeOK, ControllerTypeOK
  <2>2. Staggered(WindowAfter(tFAWWindow[r]))
    BY <2>1, WindowRuns, WindowShifts DEF WindowsRemember
  <2>3. PICK ages \in [DOMAIN tFAWWindow[r] -> Nat] :
                Remembers(tFAWWindow[r], ages, activates[r])
    BY DEF WindowsRemember
  <2>4. /\ activates[r] \in SUBSET [bank : Banks, age : Nat]
        /\ Aged(r) \in SUBSET [bank : Banks, age : Nat]
        /\ Older(activates[r], Aged(r))
    BY AgedType DEF HistoryOK
  <2>5. \E then \in [DOMAIN WindowAfter(tFAWWindow[r]) -> Nat] :
            Remembers(WindowAfter(tFAWWindow[r]), then, Aged(r))
    BY <2>1, <2>3, <2>4, WindowElapses DEF WindowsRemember
  <2>6. QED
    BY <1>1, <2>1, <2>2, <2>5
<1>4. BanksHeld'
  BY <1>1, HeldAfterTick DEF BanksHeld
<1>5. RowCycleTime'
  BY <1>1, AgedApart DEF RowCycleTime
<1>6. QED
  BY <1>2, <1>3, <1>4, <1>5

\* The cycle sends the ACTIVATE p.
LEMMA OneActivated ==
    ASSUME HistoryInv, NEW p \in BusPacket, Quiet(BanksNow[p.rank][p.bank]),
           Len(WindowNow[p.rank]) < 4,
           activates' = [r \in Ranks |->
                            IF r = p.rank
                            THEN Aged(r) \union {[bank |-> p.bank, age |-> 0]}
                            ELSE Aged(r)],
           tFAWWindow' = [WindowNow EXCEPT ![p.rank] = Append(@, tFAW)],
           bankStates' = TickBanks(BanksAfterActivateCommand(p))
    PROVE  HistoryOK' /\ WindowsRemember' /\ BanksHeld' /\ RowCycleTime'
<1>. USE DEF HistoryInv
<1>. DEFINE new == [bank |-> p.bank, age |-> 0]
<1>1. p.rank \in Ranks /\ p.bank \in Banks
  BY DEF BusPacket
<1>2. /\ new \in [bank : Banks, age : Nat] /\ new.bank = p.bank /\ new.age = 0
      /\ activates'[p.rank] = Aged(p.rank) \union {new}
      /\ \A r \in Ranks : r # p.rank => activates'[r] = Aged(r)
  BY <1>1
<1>3. BanksAfterActivateCommand(p) \in [Ranks -> [Banks -> BankStates]]
  BY BanksAfterTypes DEF TypeOK
<1>. HIDE DEF new
<1>4. HistoryOK'
  <2>1. activates' \in [Ranks -> SUBSET [bank : Banks, age : Nat]]
    BY <1>2, AgedType DEF new
  <2>2. ASSUME NEW r \in Ranks, NEW x \in activates'[r], NEW y \in activates'[r], x.age = y.age
        PROVE  x = y
    <3>1. CASE x \in Aged(r) /\ y \in Aged(r)
      BY <2>2, <3>1, AgedType
    <3>2. CASE x = new /\ y = new
      BY <3>2
    <3>3. \A z \in Aged(r) : z.age >= 1
      BY AgedType
    <3>4. QED
      BY <1>2, <2>2, <3>1, <3>2, <3>3
  <2>3. QED
    BY <2>1, <2>2 DEF HistoryOK
<1>5. WindowsRemember'
  <2> SUFFICES ASSUME NEW r \in Ranks
               PROVE  /\ Staggered(tFAWWindow'[r])
                      /\ \E ages \in [DOMAIN tFAWWindow'[r] -> Nat] :
                            Remembers(tFAWWindow'[r], ages, activates'[r])
    BY DEF WindowsRemember
  <2>. DEFINE window == WindowAfter(tFAWWindow[r])
  <2>1. WindowNow[r] = window /\ tFAWWindow[r] \in Seq(Nat) /\ window \in Seq(Nat)
    BY WindowAfterType DEF WindowNow, TypeOK, ControllerTypeOK
  <2>2. Staggered(window) /\ HasRoomAtEnd(window)
    BY <2>1, WindowRuns, WindowShifts DEF WindowsRemember
  <2>3. PICK ages \in [DOMAIN tFAWWindow[r] -> Nat] :
                Remembers(tFAWWindow[r], ages, activates[r])
    BY DEF WindowsRemember
  <2>4. /\ activates[r] \in SUBSET [bank : Banks, age : Nat]
        /\ Aged(r) \in SUBSET [bank : Banks, age : Nat]
        /\ Older(activates[r], Aged(r))
    BY AgedType DEF HistoryOK
  <2>5. PICK then \in [DOMAIN window -> Nat] : Remembers(window, then, Aged(r))
    BY <2>1, <2>3, <2>4, WindowElapses DEF WindowsRemember
  <2>. HIDE DEF window
  <2>6. WindowNow \in [Ranks -> Seq(Nat)]
    BY WindowAfterType DEF WindowNow, TypeOK, ControllerTypeOK
  <2>7. CASE r = p.rank
    <3>1. tFAWWindow'[r] = Append(window, tFAW) /\ Len(window) < 4
      BY <2>1, <2>6, <2>7
    <3>2. activates'[r] = Aged(r) \union {new}
      BY <1>2, <2>7
    <3>3. /\ Staggered(Append(window, tFAW))
          /\ \E grown \in [DOMAIN Append(window, tFAW) -> Nat] :
                Remembers(Append(window, tFAW), grown, Aged(r) \union {new})
      BY <1>2, <2>1, <2>2, <2>5, <3>1, WindowGrows
    <3>4. QED
      BY <3>1, <3>2, <3>3
  <2>8. CASE r # p.rank
    <3>1. tFAWWindow'[r] = window /\ activates'[r] = Aged(r)
      BY <1>2, <2>1, <2>6, <2>8
    <3>2. QED
      BY <2>2, <2>5, <3>1
  <2>9. QED
    BY <2>7, <2>8
<1>6. HeldIn(BanksAfterActivateCommand(p))
  BY HeldAfterActivate
<1>7. BanksHeld'
  <2> SUFFICES ASSUME NEW r \in Ranks, NEW y \in activates'[r]
               PROVE  Holds(bankStates'[r][y.bank], y.age)
    BY DEF BanksHeld
  <2>1. CASE y \in Aged(r)
    BY <1>3, <1>6, <2>1, HeldAfterTick
  <2>2. CASE r = p.rank /\ y = new
    <3>1. Holds(bankStates'[p.rank][p.bank], 0)
      BY HeldAfterActivate
    <3>2. QED
      BY <1>2, <2>2, <3>1
  <2>3. QED
    BY <1>2, <2>1, <2>2
<1>8. RowCycleTime'
  <2>1. \A r \in Ranks : \A y \in Aged(r) : y.age \in Nat /\ y.age >= 1
    BY AgedType
  <2>2. ASSUME NEW r \in Ranks, NEW y \in Aged(r), NEW z \in Aged(r),
               y.bank = z.bank, y.age < z.age
        PROVE  z.age - y.age >= tRC
    BY <2>2, AgedApart
  <2>3. ASSUME NEW z \in Aged(p.rank), z.bank = p.bank PROVE z.age - 0 >= tRC
    <3>1. PICK w \in activates[p.rank] : /\ w \in [bank : Banks, age : Nat]
                                         /\ z.bank = w.bank /\ z.age = w.age + 1
      BY <1>1, AgedOnce
    <3>2. Holds(BanksNow[p.rank][p.bank], w.age)
      BY <1>1, <2>3, <3>1, HeldNow DEF HeldIn
    <3>3. 0 + w.age >= tRC - 1 /\ w.age \in Nat
      BY <3>1, <3>2 DEF Holds, Quiet
    <3>4. QED
      BY <3>1, <3>3, TimingTypes
  <2> SUFFICES ASSUME NEW r \in Ranks, NEW y \in activates'[r], NEW z \in activates'[r],
                      y.bank = z.bank, y.age < z.age
               PROVE  z.age - y.age >= tRC
    BY DEF RowCycleTime
  <2>4. CASE y \in Aged(r) /\ z \in Aged(r)
    BY <2>2, <2>4
  <2>5. CASE r = p.rank /\ y = new /\ z \in Aged(r)
    BY <1>2, <2>3, <2>5
  <2>6. CASE r = p.rank /\ z = new
    <3>1. y.age \in Nat
      BY <1>2, <2>1, <2>6
    <3>2. QED
      BY <1>2, <2>6, <3>1
  <2>7. QED
    BY <1>2, <2>4, <2>5, <2>6
<1>9. QED
  BY <1>4, <1>5, <1>7, <1>8

-----------------------------------------------------------------------------
(* The steps                                                               *)

LEMMA HistoryInit == MCInit => HistoryInv
<1> SUFFICES ASSUME MCInit PROVE HistoryInv
  OBVIOUS
<1>1. TypeOK
  BY InitTypeOK DEF MCInit
<1>2. CommandIsNew
  BY DEF MCInit, Init, CommandIsNew
<1>3. \A r \in Ranks : activates[r] = {}
  BY DEF MCInit
<1>4. HistoryOK
  BY <1>3 DEF MCInit, HistoryOK
<1>5. WindowsRemember
  <2> SUFFICES ASSUME NEW r \in Ranks
               PROVE  /\ Staggered(tFAWWindow[r])
                      /\ \E ages \in [DOMAIN tFAWWindow[r] -> Nat] :
                            Remembers(tFAWWindow[r], ages, activates[r])
    BY DEF WindowsRemember
  <2>1. tFAWWindow[r] = << >>
    BY DEF MCInit, Init, ControllerInit
  <2>2. Len(tFAWWindow[r]) = 0 /\ DOMAIN tFAWWindow[r] = {}
    BY <2>1, EmptySeq
  <2>. DEFINE ages == [i \in DOMAIN tFAWWindow[r] |-> 0]
  <2>3. ages \in [DOMAIN tFAWWindow[r] -> Nat]
    BY <2>2
  <2>4. Remembers(tFAWWindow[r], ages, activates[r])
    BY <1>3, <2>2 DEF Remembers
  <2>5. Staggered(tFAWWindow[r])
    BY <2>2 DEF Staggered
  <2>6. QED
    BY <2>3, <2>4, <2>5
<1>6. BanksHeld /\ RowCycleTime
  BY <1>3 DEF BanksHeld, RowCycleTime
<1>7. QED
  BY <1>1, <1>2, <1>4, <1>5, <1>6 DEF HistoryInv

\* What joins the history of a rank: the ACTIVATE that is on the bus after the cycle.
LEMMA HistoryGrows ==
    ASSUME activates' = [r \in Ranks |-> AgedActivates(r)], NEW p,
           inFlightCommandPacket' = p
    PROVE  activates' =
              [r \in Ranks |->
                 Aged(r) \union {[bank |-> q.bank, age |-> 0] :
                    q \in {q \in {p} \ {NULL} : q.busPacketType = "ACTIVATE" /\ q.rank = r}}]
<1>1. ASSUME NEW r \in Ranks
      PROVE  AgedActivates(r) =
                Aged(r) \union {[bank |-> q.bank, age |-> 0] :
                    q \in {q \in {p} \ {NULL} : q.busPacketType = "ACTIVATE" /\ q.rank = r}}
  BY DEF AgedActivates, Aged
<1>2. QED
  BY <1>1

LEMMA HistoryKept ==
    ASSUME activates' = [r \in Ranks |-> AgedActivates(r)],
           \/ inFlightCommandPacket' = NULL
           \/ inFlightCommandPacket'.busPacketType # "ACTIVATE"
    PROVE  activates' = [r \in Ranks |-> Aged(r)]
<1>. DEFINE p == inFlightCommandPacket'
<1>1. \A r \in Ranks :
         {[bank |-> q.bank, age |-> 0] :
             q \in {q \in {p} \ {NULL} : q.busPacketType = "ACTIVATE" /\ q.rank = r}} = {}
  OBVIOUS
<1>2. activates' =
         [r \in Ranks |->
             Aged(r) \union {[bank |-> q.bank, age |-> 0] :
                q \in {q \in {p} \ {NULL} : q.busPacketType = "ACTIVATE" /\ q.rank = r}}]
  BY HistoryGrows
<1>3. \A r \in Ranks : activates'[r] = Aged(r)
  BY <1>1, <1>2
<1>4. QED
  BY <1>2, <1>3

LEMMA HistoryTakes ==
    ASSUME activates' = [r \in Ranks |-> AgedActivates(r)],
           NEW p \in BusPacket, p.busPacketType = "ACTIVATE", inFlightCommandPacket' = p
    PROVE  activates' = [r \in Ranks |->
                            IF r = p.rank
                            THEN Aged(r) \union {[bank |-> p.bank, age |-> 0]}
                            ELSE Aged(r)]
<1>1. p # NULL
  BY PacketAssumption
<1>2. activates' =
         [r \in Ranks |->
             Aged(r) \union {[bank |-> q.bank, age |-> 0] :
                q \in {q \in {p} \ {NULL} : q.busPacketType = "ACTIVATE" /\ q.rank = r}}]
  BY HistoryGrows
<1>3. ASSUME NEW r \in Ranks
      PROVE  activates'[r] = IF r = p.rank
                             THEN Aged(r) \union {[bank |-> p.bank, age |-> 0]}
                             ELSE Aged(r)
  <2>1. CASE r = p.rank
    <3>1. {q \in {p} \ {NULL} : q.busPacketType = "ACTIVATE" /\ q.rank = r} = {p}
      BY <1>1, <2>1
    <3>2. QED
      BY <1>2, <2>1, <3>1
  <2>2. CASE r # p.rank
    <3>1. {[bank |-> q.bank, age |-> 0] :
             q \in {q \in {p} \ {NULL} : q.busPacketType = "ACTIVATE" /\ q.rank = r}} = {}
      BY <2>2
    <3>2. activates'[r] = Aged(r) \union {}
      BY <1>2, <3>1
    <3>3. QED
      BY <2>2, <3>2
  <2>3. QED
    BY <2>1, <2>2
<1>4. QED
  BY <1>2, <1>3

LEMMA HistoryCycle ==
    ASSUME HistoryInv, Cycling
    PROVE  HistoryInv'
<1>. USE DEF HistoryInv
<1>1. Update /\ activates' = [r \in Ranks |-> AgedActivates(r)]
  BY DEF Cycling
<1>2. TypeOK'
  BY <1>1, NextTypeOK DEF Next
<1>3. HeldIn(BanksNow) /\ BanksNow \in [Ranks -> [Banks -> BankStates]]
  BY HeldNow, BankTypes DEF TypeOK, ControllerTypeOK, BanksNow
<1>4. ASSUME NEW r \in Ranks, IssueRefresh(r) PROVE HistoryInv'
  <2>1. /\ inFlightCommandPacket' = RefreshPacket(r) /\ inFlightCommandCountdown' = tCMDS
        /\ bankStates' = TickBanks(BanksAfterRefresh(r)) /\ tFAWWindow' = WindowNow
        /\ RefreshIsIssuable(r)
    BY <1>4 DEF IssueRefresh, CommandStarts, ControllerRefresh
  <2>2. activates' = [q \in Ranks |-> Aged(q)]
    <3>1. RefreshPacket(r).busPacketType # "ACTIVATE"
      BY DEF RefreshPacket
    <3>2. QED
      BY <1>1, <2>1, <3>1, HistoryKept
  <2>3. HeldIn(BanksAfterRefresh(r))
    BY <2>1, HeldAfterRefresh DEF RefreshIsIssuable
  <2>4. BanksAfterRefresh(r) \in [Ranks -> [Banks -> BankStates]]
    BY <1>3, BankTypes DEF BanksAfterRefresh
  <2>5. HistoryOK' /\ WindowsRemember' /\ BanksHeld' /\ RowCycleTime'
    BY <2>1, <2>2, <2>3, <2>4, NothingActivated
  <2>6. QED
    BY <1>2, <2>1, <2>5, DeviceAssumption DEF CommandIsNew
<1>5. ASSUME NEW i \in DOMAIN commandQueue, IssueRead(i) \/ IssueWrite(i) \/ IssueActivate(i)
      PROVE  HistoryInv'
  <2>. DEFINE p == commandQueue[i]
              n == Queued
              m == OutstandingNow
  <2>1. /\ inFlightCommandPacket' = p /\ inFlightCommandCountdown' = tCMDS
        /\ ControllerRead(i, n, m) \/ ControllerWrite(i, n, m) \/ ControllerActivate(i, n, m)
    BY <1>5 DEF IssueRead, IssueWrite, IssueActivate, CommandStarts
  <2>2. p \in BusPacket
    BY ElementOfSeq, LenProperties DEF TypeOK, ControllerTypeOK
  <2>3. CommandIsNew'
    BY <2>1, DeviceAssumption DEF CommandIsNew
  <2>. HIDE DEF n, m
  <2>4. IsIssuable(p, n, m)
    BY <2>1 DEF ControllerRead, ControllerWrite, ControllerActivate, Selected, CanSend
  <2>5. CASE ControllerRead(i, n, m)
    <3>1. /\ p.busPacketType = "READ_P" /\ tFAWWindow' = WindowNow
          /\ bankStates' = TickBanks(BanksAfterRead(p))
      BY <2>5 DEF ControllerRead
    <3>2. BanksNow[p.rank][p.bank].nextRead = 0
      BY <2>4, <3>1 DEF IsIssuable, CASIsReady
    <3>. HIDE DEF p
    <3>3. HeldIn(BanksAfterRead(p))
      BY <2>2, <3>2, HeldAfterRead
    <3>4. activates' = [q \in Ranks |-> Aged(q)]
      BY <1>1, <2>1, <3>1, HistoryKept
    <3>5. BanksAfterRead(p) \in [Ranks -> [Banks -> BankStates]]
      BY <2>2, BanksAfterTypes DEF TypeOK
    <3>6. HistoryOK' /\ WindowsRemember' /\ BanksHeld' /\ RowCycleTime'
      BY <3>1, <3>3, <3>4, <3>5, NothingActivated
    <3>7. QED
      BY <1>2, <2>3, <3>6
  <2>6. CASE ControllerWrite(i, n, m)
    <3>1. /\ p.busPacketType = "WRITE_P" /\ tFAWWindow' = WindowNow
          /\ bankStates' = TickBanks(BanksAfterWrite(p))
      BY <2>6 DEF ControllerWrite
    <3>2. BanksNow[p.rank][p.bank].nextWrite = 0
      BY <2>4, <3>1 DEF IsIssuable, CASIsReady
    <3>. HIDE DEF p
    <3>3. HeldIn(BanksAfterWrite(p))
      BY <2>2, <3>2, HeldAfterWrite
    <3>4. activates' = [q \in Ranks |-> Aged(q)]
      BY <1>1, <2>1, <3>1, HistoryKept
    <3>5. BanksAfterWrite(p) \in [Ranks -> [Banks -> BankStates]]
      BY <2>2, BanksAfterTypes DEF TypeOK
    <3>6. HistoryOK' /\ WindowsRemember' /\ BanksHeld' /\ RowCycleTime'
      BY <3>1, <3>3, <3>4, <3>5, NothingActivated
    <3>7. QED
      BY <1>2, <2>3, <3>6
  <2>7. CASE ControllerActivate(i, n, m)
    <3>1. /\ p.busPacketType = "ACTIVATE"
          /\ tFAWWindow' = [WindowNow EXCEPT ![p.rank] = Append(@, tFAW)]
          /\ bankStates' = TickBanks(BanksAfterActivateCommand(p))
      BY <2>7 DEF ControllerActivate
    <3>2. Quiet(BanksNow[p.rank][p.bank]) /\ Len(WindowNow[p.rank]) < 4
      BY <2>4, <3>1 DEF IsIssuable, ActivateIsReady
    <3>. HIDE DEF p
    <3>3. activates' = [r \in Ranks |->
                           IF r = p.rank
                           THEN Aged(r) \union {[bank |-> p.bank, age |-> 0]}
                           ELSE Aged(r)]
      BY <1>1, <2>1, <2>2, <3>1, HistoryTakes
    <3>4. HistoryOK' /\ WindowsRemember' /\ BanksHeld' /\ RowCycleTime'
      BY <2>2, <3>1, <3>2, <3>3, OneActivated
    <3>5. QED
      BY <1>2, <2>3, <3>4
  <2>8. QED
    BY <2>1, <2>5, <2>6, <2>7
<1>6. CASE IssueNothing
  <2>1. inFlightCommandPacket' = NULL
    BY <1>6 DEF IssueNothing, NoCommandStarts, CommandIsNew, CommandArrives
  <2>2. bankStates' = TickBanks(BanksNow) /\ tFAWWindow' = WindowNow
    BY <1>6 DEF IssueNothing, ControllerIdle
  <2>3. activates' = [q \in Ranks |-> Aged(q)]
    BY <1>1, <2>1, HistoryKept
  <2>4. HistoryOK' /\ WindowsRemember' /\ BanksHeld' /\ RowCycleTime'
    BY <1>3, <2>2, <2>3, NothingActivated
  <2>5. QED
    BY <1>2, <2>1, <2>4 DEF CommandIsNew
<1>7. QED
  BY <1>1, <1>4, <1>5, <1>6 DEF Update

LEMMA HistoryNext == HistoryInv /\ [MCNext]_mcVars => HistoryInv'
<1> SUFFICES ASSUME HistoryInv, [MCNext]_mcVars PROVE HistoryInv'
  OBVIOUS
<1>1. CASE Cycling
  BY <1>1, HistoryCycle
<1>2. ASSUME \/ Arrival \/ Reading \/ UNCHANGED mcVars
      PROVE  HistoryInv'
  <2>1. [Next]_vars
    BY <1>2 DEF Arrival, Reading, Next, mcVars
  <2>2. TypeOK'
    BY <2>1, NextTypeOK DEF HistoryInv
  <2>3. /\ UNCHANGED <<activates, tFAWWindow, bankStates>>
        /\ UNCHANGED <<inFlightCommandPacket, inFlightCommandCountdown>>
    BY <1>2 DEF Arrival, Reading, AddTransaction, EnqueueCommands, TakeReturn, mcVars, vars,
                busVars, controllerVars
  <2>4. QED
    BY <2>2, <2>3 DEF HistoryInv, CommandIsNew, HistoryOK, WindowsRemember, BanksHeld, RowCycleTime
<1>3. QED
  BY <1>1, <1>2 DEF MCNext

\* No rank receives a fifth ACTIVATE within tFAW cycles, for every device, however long
\* the program runs: an entry of the tFAW window may outlive its ACTIVATE, because the loop
\* that ages the window passes over one, and never leaves before it
\* (SimpleController.cpp:228-236, :569).
THEOREM FourActivatesAtMost == MCSpec => []FourActivateWindow
<1>1. HistoryInv => FourActivateWindow
  <2> SUFFICES ASSUME HistoryInv, NEW r \in Ranks
               PROVE  Cardinality({x \in activates[r] : x.age < tFAW}) <= 4
    BY DEF FourActivateWindow
  <2>. DEFINE window == tFAWWindow[r]
              recent == {x \in activates[r] : x.age < tFAW}
  <2>1. PICK ages \in [DOMAIN window -> Nat] : Remembers(window, ages, activates[r])
    BY DEF HistoryInv, WindowsRemember
  <2>2. window \in Seq(Nat) /\ Len(window) \in Nat /\ DOMAIN window = 1 .. Len(window)
    BY LenProperties DEF HistoryInv, TypeOK, ControllerTypeOK
  <2>3. Len(window) <= 4
    BY DEF HistoryInv, WindowsRemember, Staggered
  <2>. HIDE DEF window
  <2>. DEFINE entry == [x \in recent |-> CHOOSE i \in DOMAIN window : ages[i] = x.age]
  <2>4. \A x \in recent : entry[x] \in DOMAIN window /\ ages[entry[x]] = x.age
    BY <2>1 DEF Remembers
  <2>5. \A x, y \in recent : x.age = y.age => x = y
    BY DEF HistoryInv, HistoryOK
  <2>6. entry \in Injection(recent, 1 .. Len(window))
    <3>1. DOMAIN entry = recent /\ entry \in [recent -> 1 .. Len(window)]
      BY <2>2, <2>4
    <3>. HIDE DEF entry, recent
    <3>2. \A x, y \in recent : entry[x] = entry[y] => x = y
      <4>1. ASSUME NEW x \in recent, NEW y \in recent, entry[x] = entry[y] PROVE x = y
        <5>1. x.age = y.age
          BY <2>4, <4>1
        <5>2. QED
          BY <2>5, <5>1
      <4>2. QED
        BY <4>1
    <3>3. QED
      BY <3>1, <3>2 DEF Injection, IsInjective
  <2>. HIDE DEF recent, entry
  <2>7. IsFiniteSet(1 .. Len(window)) /\ Cardinality(1 .. Len(window)) = Len(window)
    <3>1. 1 \in Int /\ Len(window) \in Int
      BY <2>2
    <3>2. /\ IsFiniteSet(1 .. Len(window))
          /\ Cardinality(1 .. Len(window)) =
                IF 1 > Len(window) THEN 0 ELSE Len(window) - 1 + 1
      BY <3>1, FS_Interval
    <3>3. QED
      BY <2>2, <3>2
  <2>8. IsFiniteSet(recent) /\ Cardinality(recent) <= Cardinality(1 .. Len(window))
    BY <2>6, <2>7, FS_Injection
  <2>9. Cardinality(recent) \in Nat
    BY <2>8, FS_CardinalityType
  <2>10. Cardinality(recent) <= 4
    BY <2>2, <2>3, <2>7, <2>8, <2>9
  <2>11. QED
    BY <2>10 DEF recent
<1>2. QED
  BY HistoryInit, HistoryNext, <1>1, PTL DEF MCSpec

\* A bank is never activated twice within tRC cycles, for every device whose written rows
\* stay open long enough (RowCycleAssumption): a WRITE_P replaces what the ACTIVATE has
\* set by what it asks for itself, and cannot be sent before tRCD
\* (SimpleController.cpp:418, :452-456).
THEOREM RowsCycleInTime == MCSpec => []RowCycleTime
<1>1. HistoryInv => RowCycleTime
  BY DEF HistoryInv
<1>2. QED
  BY HistoryInit, HistoryNext, <1>1, PTL DEF MCSpec

-----------------------------------------------------------------------------
(* No counter wraps                                                        *)

WindowsInv == TypeOK /\ \A r \in Ranks : Staggered(tFAWWindow[r])

\* The order of the entries has nothing to do with what they remember.
LEMMA WindowStaysStaggered ==
    ASSUME NEW window \in Seq(Nat), Staggered(window), HasRoomAtEnd(window), Len(window) < 4
    PROVE  Staggered(Append(window, tFAW))
<1>. DEFINE ages == [i \in DOMAIN window |-> tFAW]
            new == [age |-> 0]
<1>1. tFAW \in Nat
  BY TimingTypes
<1>2. Len(window) \in Nat /\ DOMAIN window = 1 .. Len(window)
      /\ \A i \in DOMAIN window : window[i] \in Nat
  BY LenProperties, ElementOfSeq
<1>3. ages \in [DOMAIN window -> Nat] /\ \A i \in DOMAIN window : ages[i] = tFAW
  BY <1>1
<1>. HIDE DEF ages
<1>4. Remembers(window, ages, {})
  BY <1>1, <1>2, <1>3 DEF Remembers
<1>5. new.age = 0
  OBVIOUS
<1>6. QED
  BY <1>3, <1>4, <1>5, WindowGrows

LEMMA WindowsNext == WindowsInv /\ [Next]_vars => WindowsInv'
<1> SUFFICES ASSUME WindowsInv, [Next]_vars PROVE WindowsInv'
  OBVIOUS
<1>1. TypeOK /\ TypeOK'
  BY NextTypeOK DEF WindowsInv
<1>2. SUFFICES ASSUME NEW r \in Ranks PROVE Staggered(tFAWWindow'[r])
  BY <1>1 DEF WindowsInv
<1>. DEFINE window == WindowAfter(tFAWWindow[r])
<1>3. /\ WindowNow \in [Ranks -> Seq(Nat)] /\ WindowNow[r] = window
      /\ window \in Seq(Nat) /\ tFAWWindow[r] \in Seq(Nat) /\ Staggered(tFAWWindow[r])
  BY <1>1, WindowAfterType DEF WindowNow, TypeOK, ControllerTypeOK, WindowsInv
<1>4. Staggered(window) /\ HasRoomAtEnd(window)
  BY <1>3, WindowRuns, WindowShifts
<1>. HIDE DEF window
<1>5. CASE tFAWWindow' = WindowNow
  BY <1>3, <1>4, <1>5
<1>6. ASSUME NEW i \in DOMAIN commandQueue, IssueActivate(i)
      PROVE  Staggered(tFAWWindow'[r])
  <2>. DEFINE p == commandQueue[i]
  <2>1. /\ tFAWWindow' = [WindowNow EXCEPT ![p.rank] = Append(@, tFAW)]
        /\ p.busPacketType = "ACTIVATE" /\ CanSend(i, Queued, OutstandingNow)
    BY <1>6 DEF IssueActivate, ControllerActivate, Selected
  <2>2. Len(WindowNow[p.rank]) < 4
    BY <2>1 DEF CanSend, IsIssuable, ActivateIsReady
  <2>. HIDE DEF p
  <2>3. CASE r = p.rank
    <3>1. tFAWWindow'[r] = Append(window, tFAW) /\ Len(window) < 4
      BY <1>3, <2>1, <2>2, <2>3
    <3>2. QED
      BY <1>3, <1>4, <3>1, WindowStaysStaggered
  <2>4. CASE r # p.rank
    <3>1. tFAWWindow'[r] = window
      BY <1>3, <2>1, <2>4
    <3>2. QED
      BY <1>4, <3>1
  <2>5. QED
    BY <2>3, <2>4
<1>7. CASE UNCHANGED tFAWWindow
  BY <1>3, <1>7
<1>8. \/ tFAWWindow' = WindowNow
      \/ \E i \in DOMAIN commandQueue : IssueActivate(i)
      \/ UNCHANGED tFAWWindow
  <2>1. CASE Update
    BY <2>1 DEF Update, IssueRefresh, ControllerRefresh, IssueRead, ControllerRead, IssueWrite,
                ControllerWrite, IssueNothing, ControllerIdle
  <2>2. CASE \/ \E t \in Transaction : AddTransaction(t)
             \/ TakeReturn \/ UNCHANGED vars
    BY <2>2 DEF AddTransaction, EnqueueCommands, TakeReturn, controllerVars, vars
  <2>3. QED
    BY <2>1, <2>2 DEF Next
<1>9. QED
  BY <1>5, <1>6, <1>7, <1>8

\* No unsigned counter of a channel is ever decremented at 0, for every device, geometry
\* and order of transactions: the bursts of a queue run out one after the other, of a
\* window's entries the first two at most run out together, and a read that returns has
\* been counted (Rank.cpp:61-70; SimpleController.cpp:228-236, :256-268;
\* DRAMChannel.cpp:136).
THEOREM NoCounterWraps == Spec => []CountersNeverWrap
<1>1. Init => WindowsInv
  <2>1. SUFFICES ASSUME Init, NEW r \in Ranks PROVE TypeOK /\ Staggered(tFAWWindow[r])
    BY InitTypeOK DEF WindowsInv
  <2>2. tFAWWindow[r] = << >>
    BY <2>1 DEF Init, ControllerInit
  <2>3. Len(tFAWWindow[r]) = 0 /\ DOMAIN tFAWWindow[r] = {}
    BY <2>2, EmptySeq
  <2>4. QED
    BY <2>1, <2>3, InitTypeOK DEF Staggered
<1>2. Spec => []WindowsInv
  BY <1>1, WindowsNext, PTL DEF Spec
<1>3. Spec => []IInv
  BY InitIInv, NextIInv, PTL DEF Spec
<1>4. ASSUME WindowsInv, TimingInv, IInv PROVE CountersNeverWrap
  <2>1. ASSUME NEW i \in DOMAIN writeBurstQueue PROVE writeBurstQueue[i].countdown > 0
    BY <1>4 DEF TimingInv, QueuesOrdered, Ordered
  <2>2. ASSUME NEW r \in Ranks, NEW i \in DOMAIN ranks[r].readReturnQueue
        PROVE  ranks[r].readReturnQueue[i].countdown > 0
    BY <1>4 DEF TimingInv, QueuesOrdered, Ordered
  <2>3. ASSUME NEW r \in Ranks, NEW i \in DOMAIN tFAWWindow[r] PROVE tFAWWindow[r][i] > 0
    BY <1>4 DEF WindowsInv, Staggered
  <2>4. ASSUME ReadReturns PROVE outstandingReads > 0
    <3>1. inFlightDataPacket.transactionID \in FlightIDs
      BY <2>4 DEF ReadReturns, DataArrives, FlightIDs, DataIDs, PacketIDs
    <3>2. /\ IsFiniteSet(FlightIDs) /\ Cardinality(FlightIDs) <= outstandingReads
          /\ outstandingReads \in Nat
      BY <1>4 DEF IInv, ReadsCounted, TypeOK
    <3>3. Cardinality(FlightIDs) \in Nat /\ Cardinality(FlightIDs) # 0
      BY <3>1, <3>2, FS_CardinalityType, FS_EmptySet
    <3>4. QED
      BY <3>2, <3>3
  <2>5. QED
    BY <2>1, <2>2, <2>3, <2>4 DEF CountersNeverWrap
<1>5. QED
  BY <1>2, <1>3, <1>4, TimingInvariant, PTL

=============================================================================
