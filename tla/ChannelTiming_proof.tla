------------------------ MODULE ChannelTiming_proof ------------------------
(***************************************************************************)
(* No exit of the channel is reachable, for every device that satisfies    *)
(* DeviceAssumption: the ranks accept every command (RankNeverRefuses),    *)
(* nothing collides on the buses (DataBusNeverCollides) and the bursts     *)
(* keep their distance (BurstsKeepApart).                                  *)
(*                                                                         *)
(* Two arguments meet here.  Each rank's own bookkeeping, once it has      *)
(* heard the command on the bus, is that of the controller or less strict; *)
(* and no bank of the controller lets a CAS through whose burst would come *)
(* too close to one already committed, wherever that one is: on a bus, in  *)
(* the write queue or in a rank.                                           *)
(***************************************************************************)
EXTENDS DRAMChannel_proof

-----------------------------------------------------------------------------
(* The banks of a rank                                                     *)

\* A rank's view of a bank whose row is open; its lastCommand is of no use.
Opened(bank) == bank.currentBankState = "ROW_ACTIVE" /\ bank.stateChangeCountdown = 0

\* A bank that is closing is idle before it may be activated.
RankSettled(bank) ==
    LET left == bank.stateChangeCountdown IN
    /\ left = 0 => bank.currentBankState \in {"IDLE", "ROW_ACTIVE"}
    /\ left > 0 =>
          \/ /\ bank.currentBankState = "ROW_ACTIVE"
             /\ bank.lastCommand \in {"READ_P", "WRITE_P"}
             /\ left + tRP <= bank.nextActivate
          \/ /\ bank.currentBankState \in {"PRECHARGING", "REFRESHING"}
             /\ bank.lastCommand \in {"PRECHARGE", "REFRESH"}
             /\ left <= bank.nextActivate

\* The rank's bank is open when the controller's is, and waits no longer.
Agrees(bank, own) ==
    /\ IsOpen(bank) <=> Opened(own)
    /\ IsOpen(bank) => own.openRowAddress = bank.openRowAddress
    /\ own.nextActivate <= bank.nextActivate
    /\ own.nextRead <= bank.nextRead
    /\ own.nextWrite <= bank.nextWrite

\* The same between two Updates, when the controller's clock is one cycle ahead.
Mirrors(bank, own) ==
    /\ IsOpen(bank) <=> Opened(own)
    /\ IsOpen(bank) => own.openRowAddress = bank.openRowAddress
    /\ OneLess(own.nextActivate) <= bank.nextActivate
    /\ OneLess(own.nextRead) <= bank.nextRead
    /\ OneLess(own.nextWrite) <= bank.nextWrite

\* The bank keeps the row of a write open until its data, t cycles away, is there.
Awaits(own, p, t) ==
    /\ own.currentBankState = "ROW_ACTIVE"
    /\ own.openRowAddress = p.row
    /\ own.stateChangeCountdown = t + tWR

-----------------------------------------------------------------------------
(* The bursts                                                              *)

\* A burst the channel has committed itself to, and the place it is at.
Slot(at, p, start) == [at |-> at, rank |-> p.rank, start |-> start]

DataSlots ==
    {Slot(<<"data", 0, 0>>, p, inFlightDataCountdown - BURST) :
        p \in {inFlightDataPacket} \ {NULL}}

CommandSlots ==
    {Slot(<<"command", 0, 0>>, p, tCL) :
        p \in {q \in {inFlightCommandPacket} \ {NULL} : q.busPacketType = "READ_P"}}

WriteSlots ==
    {Slot(<<"write", 0, i>>, writeBurstQueue[i].packet, writeBurstQueue[i].countdown) :
        i \in DOMAIN writeBurstQueue}

ReadSlots(queue, r) ==
    {Slot(<<"read", r, i>>, queue[i].packet, queue[i].countdown) : i \in DOMAIN queue}

\* Between two Updates, and when the buses have delivered.
Slots ==
    DataSlots \union CommandSlots \union WriteSlots
    \union UNION {ReadSlots(ranks[r].readReturnQueue, r) : r \in Ranks}

SlotsNow ==
    DataSlots \union WriteSlots
    \union UNION {ReadSlots(RanksNow[r].readReturnQueue, r) : r \in Ranks}

Gap(r, s) == IF r = s THEN 0 ELSE tRTRS

Apart(x, y) == x.start <= y.start => x.start + BURST + Gap(x.rank, y.rank) <= y.start

AllApart(slots) == \A x, y \in slots : x.at # y.at => Apart(x, y)

\* The cycles before a CAS can be sent to a bank: a bank that is not open has to be
\* activated first.
CASWait(bank, wait) ==
    IF IsOpen(bank) THEN wait ELSE Larger(wait, bank.nextActivate + tRCD)

\* No CAS is let through to the bank of rank r that comes too close to the burst.
Clears(bank, r, x) ==
    /\ x.start + BURST + Gap(x.rank, r) <= 1 + tCL + CASWait(bank, bank.nextRead)
    /\ x.start + BURST + Gap(x.rank, r) <= 1 + tCWL + CASWait(bank, bank.nextWrite)

\* The bursts of a queue are sent in its order, one at a time, within so many cycles.
Ordered(queue, within) ==
    /\ \A i \in DOMAIN queue : queue[i].countdown \in 1 .. within
    /\ \A i, j \in DOMAIN queue : i < j => queue[i].countdown < queue[j].countdown

-----------------------------------------------------------------------------
(* The inductive invariant                                                 *)

RankBanksMirror ==
    \A r \in Ranks, b \in Banks :
        /\ RankSettled(RanksAfterCommand[r].bankStates[b])
        /\ Mirrors(bankStates[r][b], RanksAfterCommand[r].bankStates[b])

BankOf(states, p) == states[p.rank].bankStates[p.bank]

WritesAwaited ==
    /\ \A i \in DOMAIN writeBurstQueue :
          Awaits(BankOf(RanksAfterCommand, writeBurstQueue[i].packet),
                 writeBurstQueue[i].packet, writeBurstQueue[i].countdown + BURST)
    /\ inFlightDataPacket # NULL /\ inFlightDataPacket.busPacketType = "WRITE_DATA" =>
          Awaits(BankOf(RanksAfterCommand, inFlightDataPacket),
                 inFlightDataPacket, inFlightDataCountdown)

CommandAccepted ==
    inFlightCommandPacket # NULL =>
        /\ inFlightCommandCountdown = 1
        /\ ~ Refuses(ranks[inFlightCommandPacket.rank], inFlightCommandPacket)

\* A countdown of the controller's banks is one of a command that has one.
CountdownsNamed ==
    \A r \in Ranks, b \in Banks :
        bankStates[r][b].stateChangeCountdown > 0 =>
            bankStates[r][b].lastCommand \in {"REFRESH", "READ_P", "WRITE_P", "PRECHARGE"}

QueuesOrdered ==
    /\ Ordered(writeBurstQueue, tCWL)
    /\ \A r \in Ranks : Ordered(ranks[r].readReturnQueue, tCL - 1)
    /\ inFlightDataPacket # NULL => inFlightDataCountdown \in 1 .. BURST

\* Write data comes from the controller only.
DataNamed ==
    /\ \A i \in DOMAIN writeBurstQueue :
          writeBurstQueue[i].packet.busPacketType = "WRITE_DATA"
    /\ \A r \in Ranks : \A i \in DOMAIN ranks[r].readReturnQueue :
          ranks[r].readReturnQueue[i].packet.busPacketType = "READ_DATA"

BurstsClear ==
    /\ AllApart(Slots)
    /\ \A x \in Slots, r \in Ranks, b \in Banks : Clears(bankStates[r][b], r, x)

TimingInv ==
    /\ QueueInv
    /\ error = "none"
    /\ RankBanksMirror
    /\ WritesAwaited
    /\ CommandAccepted
    /\ CountdownsNamed
    /\ QueuesOrdered
    /\ DataNamed
    /\ BurstsClear


-----------------------------------------------------------------------------
(* A cycle of a bank                                                       *)

LEMMA TimingPositive ==
    /\ tRCD >= 1 /\ tRP >= 1 /\ tRC >= 1 /\ tCL >= 1 /\ tCWL >= 1
    /\ tRRD >= 1 /\ tWR >= 1 /\ tWTR >= 1 /\ tRTP >= 1 /\ tRTPc >= 1
    /\ tCCD >= 1 /\ tRFC >= 1 /\ tRTRS >= 1 /\ BURST >= 1
    /\ tCMDS = 1
<1>1. \A t \in Nat \ {0} : t >= 1
  OBVIOUS
<1>2. QED
  BY <1>1, TimingAssumption, DeviceAssumption

LEMMA StateChangeWaits ==
    ASSUME NEW bank \in BankStates
    PROVE  LET now == UpdateStateChange(bank) IN
           /\ now.nextActivate = bank.nextActivate
           /\ now.nextRead = bank.nextRead
           /\ now.nextWrite = bank.nextWrite
<1>. DEFINE now == UpdateStateChange(bank)
<1>. SUFFICES /\ now.nextActivate = bank.nextActivate
              /\ now.nextRead = bank.nextRead /\ now.nextWrite = bank.nextWrite
  OBVIOUS
<1>1. bank.stateChangeCountdown \in Nat
  BY DEF BankStates
<1>2. CASE bank.stateChangeCountdown = 0
  BY <1>2 DEF UpdateStateChange
<1>3. CASE bank.stateChangeCountdown > 1
  <2>1. now = [bank EXCEPT !.stateChangeCountdown = @ - 1]
    BY <1>3 DEF UpdateStateChange
  <2>2. QED
    BY <2>1 DEF BankStates
<1>4. CASE bank.stateChangeCountdown = 1 /\ bank.lastCommand \in {"READ_P", "WRITE_P"}
  <2>1. now = [bank EXCEPT !.currentBankState = "PRECHARGING",
                           !.lastCommand = "PRECHARGE",
                           !.stateChangeCountdown = tRP]
    BY <1>4 DEF UpdateStateChange
  <2>2. QED
    BY <2>1 DEF BankStates
<1>5. CASE bank.stateChangeCountdown = 1 /\ bank.lastCommand \notin {"READ_P", "WRITE_P"}
  <2>1. now = [bank EXCEPT !.currentBankState = "IDLE", !.stateChangeCountdown = 0]
    BY <1>5 DEF UpdateStateChange
  <2>2. QED
    BY <2>1 DEF BankStates
<1>6. QED
  BY <1>1, <1>2, <1>3, <1>4, <1>5

\* What a cycle does to a rank's bank.
LEMMA RankAges ==
    ASSUME NEW own \in BankStates, RankSettled(own)
    PROVE  LET new == Elapse(UpdateStateChange(own)) IN
           /\ new \in BankStates
           /\ RankSettled(new)
           /\ Opened(new) <=> Opened(own)
           /\ Opened(own) => new.openRowAddress = own.openRowAddress
           /\ new.nextActivate = OneLess(own.nextActivate)
           /\ new.nextRead = OneLess(own.nextRead)
           /\ new.nextWrite = OneLess(own.nextWrite)
           /\ own.stateChangeCountdown > 1 =>
                 /\ new.currentBankState = own.currentBankState
                 /\ new.openRowAddress = own.openRowAddress
                 /\ new.stateChangeCountdown = own.stateChangeCountdown - 1
<1>. DEFINE now == UpdateStateChange(own)
            new == Elapse(now)
<1>1. now \in BankStates /\ new \in BankStates
  BY BankTypes
<1>2. /\ own.stateChangeCountdown \in Nat /\ own.nextActivate \in Nat
      /\ tRP \in Nat /\ tRP >= 1
  BY TimingPositive, TimingTypes DEF BankStates
<1>3. /\ now.nextActivate = own.nextActivate
      /\ now.nextRead = own.nextRead /\ now.nextWrite = own.nextWrite
  BY StateChangeWaits
<1>. HIDE DEF now
<1>4. /\ new.currentBankState = now.currentBankState
      /\ new.openRowAddress = now.openRowAddress
      /\ new.lastCommand = now.lastCommand
      /\ new.stateChangeCountdown = now.stateChangeCountdown
      /\ new.nextActivate = OneLess(own.nextActivate)
      /\ new.nextRead = OneLess(own.nextRead)
      /\ new.nextWrite = OneLess(own.nextWrite)
  BY <1>1, <1>3 DEF Elapse, BankStates
<1>. HIDE DEF new
<1>5. CASE own.stateChangeCountdown = 0
  <2>1. now = own
    BY <1>5 DEF UpdateStateChange, now
  <2>2. QED
    BY <1>1, <1>4, <1>5, <2>1 DEF RankSettled, Opened, new, now
<1>6. CASE own.stateChangeCountdown > 1
  <2>1. now = [own EXCEPT !.stateChangeCountdown = @ - 1]
    BY <1>6 DEF UpdateStateChange, now
  <2>2. /\ now.currentBankState = own.currentBankState
        /\ now.openRowAddress = own.openRowAddress
        /\ now.lastCommand = own.lastCommand
        /\ now.stateChangeCountdown = own.stateChangeCountdown - 1
    BY <2>1 DEF BankStates
  <2>3. RankSettled(new)
    BY <1>2, <1>4, <1>6, <2>2 DEF RankSettled, OneLess
  <2>4. ~ Opened(own) /\ ~ Opened(new)
    BY <1>2, <1>4, <1>6, <2>2 DEF Opened
  <2>5. QED
    BY <1>1, <1>4, <2>2, <2>3, <2>4 DEF new, now
<1>7. CASE own.stateChangeCountdown = 1
  <2>1. ~ Opened(own)
    BY <1>7 DEF Opened
  <2>2. CASE own.lastCommand \in {"READ_P", "WRITE_P"}
    <3>1. now = [own EXCEPT !.currentBankState = "PRECHARGING",
                            !.lastCommand = "PRECHARGE",
                            !.stateChangeCountdown = tRP]
      BY <1>7, <2>2 DEF UpdateStateChange, now
    <3>2. /\ now.currentBankState = "PRECHARGING" /\ now.lastCommand = "PRECHARGE"
          /\ now.stateChangeCountdown = tRP
      BY <3>1 DEF BankStates
    <3>3. 1 + tRP <= own.nextActivate
      BY <1>7, <2>2 DEF RankSettled
    <3>4. RankSettled(new) /\ ~ Opened(new)
      BY <1>2, <1>4, <3>2, <3>3 DEF RankSettled, Opened, OneLess
    <3>5. QED
      BY <1>1, <1>4, <1>7, <2>1, <3>4 DEF new, now
  <2>3. CASE own.lastCommand \notin {"READ_P", "WRITE_P"}
    <3>1. now = [own EXCEPT !.currentBankState = "IDLE", !.stateChangeCountdown = 0]
      BY <1>7, <2>3 DEF UpdateStateChange, now
    <3>2. now.currentBankState = "IDLE" /\ now.stateChangeCountdown = 0
      BY <3>1 DEF BankStates
    <3>3. RankSettled(new) /\ ~ Opened(new)
      BY <1>4, <3>2 DEF RankSettled, Opened
    <3>4. QED
      BY <1>1, <1>4, <1>7, <2>1, <3>3 DEF new, now
  <2>4. QED
    BY <2>2, <2>3
<1>8. QED
  BY <1>2, <1>5, <1>6, <1>7

\* When the controller decides, its view and the rank's are of the same cycle.
LEMMA MirrorsAgree ==
    ASSUME NEW bank \in BankStates, NEW own \in BankStates,
           Settled(bank), RankSettled(own), Mirrors(bank, own)
    PROVE  Agrees(UpdateStateChange(bank), Elapse(UpdateStateChange(own)))
<1>. DEFINE now == UpdateStateChange(bank)
            new == Elapse(UpdateStateChange(own))
<1>1. /\ now.nextActivate = bank.nextActivate
      /\ now.nextRead = bank.nextRead /\ now.nextWrite = bank.nextWrite
  BY StateChangeWaits
<1>2. Kept(bank, now)
  BY StateChangeKeeps
<1>3. /\ Opened(new) <=> Opened(own)
      /\ Opened(own) => new.openRowAddress = own.openRowAddress
      /\ new.nextActivate = OneLess(own.nextActivate)
      /\ new.nextRead = OneLess(own.nextRead)
      /\ new.nextWrite = OneLess(own.nextWrite)
  BY RankAges
<1>. HIDE DEF now, new
<1>4. Agrees(now, new)
  BY <1>1, <1>2, <1>3 DEF Agrees, Mirrors, Kept
<1>5. QED
  BY <1>4 DEF now, new

LEMMA AgreesMirrors ==
    ASSUME NEW bank \in BankStates, NEW own \in BankStates, Agrees(bank, own)
    PROVE  Mirrors(Elapse(bank), own)
<1>. DEFINE new == Elapse(bank)
<1>1. /\ new.nextActivate = OneLess(bank.nextActivate)
      /\ new.nextRead = OneLess(bank.nextRead) /\ new.nextWrite = OneLess(bank.nextWrite)
      /\ IsOpen(new) <=> IsOpen(bank)
      /\ new.openRowAddress = bank.openRowAddress
  BY DEF Elapse, IsOpen, BankStates
<1>2. /\ bank.nextActivate \in Nat /\ bank.nextRead \in Nat /\ bank.nextWrite \in Nat
      /\ own.nextActivate \in Nat /\ own.nextRead \in Nat /\ own.nextWrite \in Nat
  BY DEF BankStates
<1>. HIDE DEF new
<1>3. Mirrors(new, own)
  BY <1>1, <1>2 DEF Agrees, Mirrors, OneLess
<1>4. QED
  BY <1>3 DEF new

-----------------------------------------------------------------------------
(* A command and the bank it is sent to                                    *)

\* What a command changes in a rank's bank, the bank being open or closing.
Undisturbed(own, new) ==
    own.stateChangeCountdown > 0 =>
        /\ new.currentBankState = own.currentBankState
        /\ new.openRowAddress = own.openRowAddress
        /\ new.stateChangeCountdown = own.stateChangeCountdown

\* A command has changed the controller's bank and the rank's.
InStep(bank, own, after, new) ==
    /\ RankSettled(new)
    /\ Agrees(after, new)
    /\ Undisturbed(own, new)

\* A rank's bank is as idle, and as open, as the controller's.
LEMMA AgreedBank ==
    ASSUME NEW bank \in BankStates, NEW own \in BankStates,
           RankSettled(own), Agrees(bank, own)
    PROVE  /\ Quiet(bank) => Quiet(own) /\ own.stateChangeCountdown = 0
           /\ IsOpen(bank) =>
                 own.stateChangeCountdown = 0 /\ RowOpen(own, bank.openRowAddress)
           /\ bank.nextRead = 0 => own.nextRead = 0
           /\ bank.nextWrite = 0 => own.nextWrite = 0
<1>1. /\ own.stateChangeCountdown \in Nat /\ own.nextActivate \in Nat
      /\ own.nextRead \in Nat /\ own.nextWrite \in Nat
      /\ bank.nextActivate \in Nat /\ bank.nextRead \in Nat /\ bank.nextWrite \in Nat
  BY DEF BankStates
<1>2. tRP \in Nat /\ tRP >= 1
  BY TimingTypes, TimingPositive
<1>3. ASSUME Quiet(bank)
      PROVE  Quiet(own) /\ own.stateChangeCountdown = 0
  <2>1. bank.currentBankState = "IDLE" /\ bank.nextActivate = 0
    BY <1>3 DEF Quiet
  <2>2. own.nextActivate = 0
    BY <1>1, <2>1 DEF Agrees
  <2>3. own.stateChangeCountdown = 0
    BY <1>1, <1>2, <2>2 DEF RankSettled
  <2>4. ~ Opened(own)
    BY <2>1 DEF Agrees, IsOpen
  <2>5. own.currentBankState = "IDLE"
    BY <2>3, <2>4 DEF RankSettled, Opened
  <2>6. QED
    BY <2>2, <2>3, <2>5 DEF Quiet
<1>4. ASSUME IsOpen(bank)
      PROVE  own.stateChangeCountdown = 0 /\ RowOpen(own, bank.openRowAddress)
  BY <1>4 DEF Agrees, Opened, RowOpen
<1>5. QED
  BY <1>1, <1>3, <1>4 DEF Agrees

LEMMA RefreshInStep ==
    ASSUME NEW bank \in BankStates, NEW own \in BankStates,
           RankSettled(own), Agrees(bank, own), Quiet(bank)
    PROVE  InStep(bank, own, Refreshing(bank), Refreshing(own))
<1>. DEFINE after == Refreshing(bank)
            new == Refreshing(own)
<1>1. /\ after.currentBankState = "REFRESHING" /\ after.nextActivate = tRFC
      /\ after.nextRead = bank.nextRead /\ after.nextWrite = bank.nextWrite
  BY DEF Refreshing, BankStates
<1>2. /\ new.currentBankState = "REFRESHING" /\ new.nextActivate = tRFC
      /\ new.nextRead = own.nextRead /\ new.nextWrite = own.nextWrite
      /\ new.stateChangeCountdown = tRFC /\ new.lastCommand = "REFRESH"
  BY DEF Refreshing, BankStates
<1>3. own.stateChangeCountdown = 0
  BY AgreedBank
<1>4. tRFC \in Nat /\ tRFC >= 1
  BY TimingTypes, TimingPositive
<1>. HIDE DEF after, new
<1>5. RankSettled(new)
  BY <1>2, <1>4 DEF RankSettled
<1>6. ~ IsOpen(after) /\ ~ Opened(new)
  BY <1>1, <1>2 DEF IsOpen, Opened
<1>7. Agrees(after, new)
  BY <1>1, <1>2, <1>4, <1>6 DEF Agrees
<1>8. InStep(bank, own, after, new)
  BY <1>3, <1>5, <1>7 DEF InStep, Undisturbed
<1>9. QED
  BY <1>8 DEF after, new

\* A CAS closes the bank, and the rank's bank after the same or fewer cycles.
LEMMA CASInStep ==
    ASSUME NEW bank \in BankStates, NEW own \in BankStates,
           RankSettled(own), Agrees(bank, own), IsOpen(bank),
           NEW type \in {"READ_P", "WRITE_P"},
           NEW busy \in Nat, busy >= 1, NEW own_busy \in Nat, own_busy >= 1,
           NEW until \in Nat, own_busy + tRP <= until
    PROVE  LET after == Closing(bank, type, busy, until)
               new == [own EXCEPT !.lastCommand = type,
                                  !.stateChangeCountdown = own_busy,
                                  !.nextActivate = own_busy + tRP,
                                  !.nextRead = own_busy + tRP,
                                  !.nextWrite = own_busy + tRP]
           IN  InStep(bank, own, after, new)
<1>. DEFINE after == Closing(bank, type, busy, until)
            new == [own EXCEPT !.lastCommand = type,
                               !.stateChangeCountdown = own_busy,
                               !.nextActivate = own_busy + tRP,
                               !.nextRead = own_busy + tRP,
                               !.nextWrite = own_busy + tRP]
<1>1. /\ after.lastCommand = type /\ after.nextActivate = until
      /\ after.nextRead = until /\ after.nextWrite = until
  BY DEF Closing, BankStates
<1>2. /\ new.currentBankState = own.currentBankState
      /\ new.openRowAddress = own.openRowAddress
      /\ new.lastCommand = type
      /\ new.stateChangeCountdown = own_busy
      /\ new.nextActivate = own_busy + tRP
      /\ new.nextRead = own_busy + tRP /\ new.nextWrite = own_busy + tRP
  BY DEF BankStates
<1>3. /\ own.stateChangeCountdown = 0
      /\ own.currentBankState = "ROW_ACTIVE" /\ own.openRowAddress = bank.openRowAddress
  BY DEF Agrees, Opened
<1>4. tRP \in Nat
  BY TimingTypes
<1>. HIDE DEF after, new
<1>5. RankSettled(new)
  BY <1>2, <1>3, <1>4 DEF RankSettled
<1>6. ~ IsOpen(after) /\ ~ Opened(new)
  BY <1>1, <1>2 DEF IsOpen, Opened
<1>7. Agrees(after, new)
  BY <1>1, <1>2, <1>6 DEF Agrees
<1>8. InStep(bank, own, after, new)
  BY <1>3, <1>5, <1>7 DEF InStep, Undisturbed
<1>9. QED
  BY <1>8 DEF after, new

\* The other banks of the rank wait for tCCD at least.
LEMMA PostponedInStep ==
    ASSUME NEW bank \in BankStates, NEW own \in BankStates,
           RankSettled(own), Agrees(bank, own),
           NEW read \in Int, tCCD <= read, NEW write \in Int, tCCD <= write
    PROVE  InStep(bank, own, Postponed(bank, read, write),
                  [own EXCEPT !.nextRead = Larger(@, tCCD),
                              !.nextWrite = Larger(@, tCCD)])
<1>. DEFINE after == Postponed(bank, read, write)
            new == [own EXCEPT !.nextRead = Larger(@, tCCD),
                               !.nextWrite = Larger(@, tCCD)]
<1>1. /\ after.nextActivate = bank.nextActivate
      /\ after.nextRead = Larger(bank.nextRead, read)
      /\ after.nextWrite = Larger(bank.nextWrite, write)
      /\ IsOpen(after) <=> IsOpen(bank)
      /\ after.openRowAddress = bank.openRowAddress
  BY DEF Postponed, BankStates, IsOpen
<1>2. /\ new.currentBankState = own.currentBankState
      /\ new.openRowAddress = own.openRowAddress
      /\ new.lastCommand = own.lastCommand
      /\ new.stateChangeCountdown = own.stateChangeCountdown
      /\ new.nextActivate = own.nextActivate
      /\ new.nextRead = Larger(own.nextRead, tCCD)
      /\ new.nextWrite = Larger(own.nextWrite, tCCD)
  BY DEF BankStates
<1>3. /\ bank.nextRead \in Nat /\ bank.nextWrite \in Nat
      /\ own.nextRead \in Nat /\ own.nextWrite \in Nat /\ tCCD \in Nat
  BY TimingTypes DEF BankStates
<1>. HIDE DEF after, new
<1>4. RankSettled(new)
  BY <1>2 DEF RankSettled
<1>5. Opened(new) <=> Opened(own)
  BY <1>2 DEF Opened
<1>6. /\ new.nextRead <= after.nextRead /\ new.nextWrite <= after.nextWrite
  BY <1>1, <1>2, <1>3 DEF Agrees, Larger
<1>7. Agrees(after, new)
  BY <1>1, <1>2, <1>5, <1>6 DEF Agrees
<1>8. InStep(bank, own, after, new)
  BY <1>2, <1>4, <1>7 DEF InStep, Undisturbed
<1>9. QED
  BY <1>8 DEF after, new

\* Another rank hears nothing of the CAS.
LEMMA ElsewhereInStep ==
    ASSUME NEW bank \in BankStates, NEW own \in BankStates,
           RankSettled(own), Agrees(bank, own), NEW read \in Int, NEW write \in Int
    PROVE  InStep(bank, own, Postponed(bank, read, write), own)
<1>. DEFINE after == Postponed(bank, read, write)
<1>1. /\ after.nextActivate = bank.nextActivate
      /\ after.nextRead = Larger(bank.nextRead, read)
      /\ after.nextWrite = Larger(bank.nextWrite, write)
      /\ IsOpen(after) <=> IsOpen(bank)
      /\ after.openRowAddress = bank.openRowAddress
  BY DEF Postponed, BankStates, IsOpen
<1>2. /\ bank.nextRead \in Nat /\ bank.nextWrite \in Nat
      /\ own.nextRead \in Nat /\ own.nextWrite \in Nat
  BY DEF BankStates
<1>. HIDE DEF after
<1>3. own.nextRead <= after.nextRead /\ own.nextWrite <= after.nextWrite
  BY <1>1, <1>2 DEF Agrees, Larger
<1>4. Agrees(after, own)
  BY <1>1, <1>3 DEF Agrees
<1>5. InStep(bank, own, after, own)
  BY <1>4 DEF InStep, Undisturbed
<1>6. QED
  BY <1>5 DEF after

LEMMA ActivateInStep ==
    ASSUME NEW bank \in BankStates, NEW own \in BankStates,
           RankSettled(own), Agrees(bank, own), Quiet(bank), NEW row \in Rows
    PROVE  InStep(bank, own,
                  [bank EXCEPT !.lastCommand = "ACTIVATE",
                               !.currentBankState = "ROW_ACTIVE",
                               !.openRowAddress = row,
                               !.nextActivate = tRC,
                               !.nextRead = Larger(@, tRCD),
                               !.nextWrite = Larger(@, tRCD)],
                  [own EXCEPT !.currentBankState = "ROW_ACTIVE",
                              !.openRowAddress = row,
                              !.nextRead = tRCD,
                              !.nextWrite = tRCD,
                              !.nextActivate = tRC])
<1>. DEFINE after == [bank EXCEPT !.lastCommand = "ACTIVATE",
                                  !.currentBankState = "ROW_ACTIVE",
                                  !.openRowAddress = row,
                                  !.nextActivate = tRC,
                                  !.nextRead = Larger(@, tRCD),
                                  !.nextWrite = Larger(@, tRCD)]
            new == [own EXCEPT !.currentBankState = "ROW_ACTIVE",
                               !.openRowAddress = row,
                               !.nextRead = tRCD,
                               !.nextWrite = tRCD,
                               !.nextActivate = tRC]
<1>1. /\ after.currentBankState = "ROW_ACTIVE" /\ after.lastCommand = "ACTIVATE"
      /\ after.openRowAddress = row /\ after.nextActivate = tRC
      /\ after.nextRead = Larger(bank.nextRead, tRCD)
      /\ after.nextWrite = Larger(bank.nextWrite, tRCD)
  BY DEF BankStates
<1>2. /\ new.currentBankState = "ROW_ACTIVE" /\ new.openRowAddress = row
      /\ new.stateChangeCountdown = own.stateChangeCountdown
      /\ new.nextActivate = tRC /\ new.nextRead = tRCD /\ new.nextWrite = tRCD
  BY DEF BankStates
<1>3. own.stateChangeCountdown = 0
  BY AgreedBank
<1>4. /\ bank.nextRead \in Nat /\ bank.nextWrite \in Nat
      /\ tRCD \in Nat /\ tRC \in Nat
  BY TimingTypes DEF BankStates
<1>. HIDE DEF after, new
<1>5. RankSettled(new)
  BY <1>2, <1>3 DEF RankSettled
<1>6. IsOpen(after) /\ Opened(new)
  BY <1>1, <1>2, <1>3 DEF IsOpen, Opened
<1>7. new.nextRead <= after.nextRead /\ new.nextWrite <= after.nextWrite
  BY <1>1, <1>2, <1>4 DEF Larger
<1>8. Agrees(after, new)
  BY <1>1, <1>2, <1>4, <1>6, <1>7 DEF Agrees
<1>9. InStep(bank, own, after, new)
  BY <1>3, <1>5, <1>8 DEF InStep, Undisturbed
<1>10. QED
  BY <1>9 DEF after, new

LEMMA OtherActivateInStep ==
    ASSUME NEW bank \in BankStates, NEW own \in BankStates,
           RankSettled(own), Agrees(bank, own)
    PROVE  InStep(bank, own, [bank EXCEPT !.nextActivate = Larger(@, tRRD)],
                  [own EXCEPT !.nextActivate = Larger(@, tRRD)])
<1>. DEFINE after == [bank EXCEPT !.nextActivate = Larger(@, tRRD)]
            new == [own EXCEPT !.nextActivate = Larger(@, tRRD)]
<1>1. /\ after.nextActivate = Larger(bank.nextActivate, tRRD)
      /\ after.nextRead = bank.nextRead /\ after.nextWrite = bank.nextWrite
      /\ IsOpen(after) <=> IsOpen(bank)
      /\ after.openRowAddress = bank.openRowAddress
  BY DEF BankStates, IsOpen
<1>2. /\ new.currentBankState = own.currentBankState
      /\ new.openRowAddress = own.openRowAddress
      /\ new.lastCommand = own.lastCommand
      /\ new.stateChangeCountdown = own.stateChangeCountdown
      /\ new.nextActivate = Larger(own.nextActivate, tRRD)
      /\ new.nextRead = own.nextRead /\ new.nextWrite = own.nextWrite
  BY DEF BankStates
<1>3. /\ bank.nextActivate \in Nat /\ own.nextActivate \in Nat /\ tRRD \in Nat
      /\ own.stateChangeCountdown \in Nat /\ tRP \in Nat
  BY TimingTypes DEF BankStates
<1>. HIDE DEF after, new
<1>4. new.nextActivate >= own.nextActivate /\ new.nextActivate <= after.nextActivate
  BY <1>1, <1>2, <1>3 DEF Agrees, Larger
<1>5. new.nextActivate \in Nat
  BY <1>2, <1>3 DEF Larger
<1>6. RankSettled(new)
  BY <1>2, <1>3, <1>4, <1>5 DEF RankSettled
<1>7. Opened(new) <=> Opened(own)
  BY <1>2 DEF Opened
<1>8. Agrees(after, new)
  BY <1>1, <1>2, <1>4, <1>7 DEF Agrees
<1>9. InStep(bank, own, after, new)
  BY <1>2, <1>6, <1>8 DEF InStep, Undisturbed
<1>10. QED
  BY <1>9 DEF after, new

-----------------------------------------------------------------------------
(* The data bus delivers                                                   *)

LEMMA ReceivedBanks ==
    ASSUME NEW rank \in RankStates, NEW p \in BusPacket, NEW b \in Banks
    PROVE  LET new == ReceiveFromBus(rank, p).bankStates[b]
               own == rank.bankStates[b] IN
           /\ own \in BankStates
           /\ p.busPacketType = "REFRESH" => new = Refreshing(own)
           /\ p.busPacketType = "READ_P" =>
                 new = BanksAfterCAS(rank.bankStates, p, tRTP, tRTP)[b]
           /\ p.busPacketType = "WRITE_P" =>
                 new = BanksAfterCAS(rank.bankStates, p,
                                     tCWL + BURST + tWR, tCWL + BURST + tWR)[b]
           /\ p.busPacketType = "ACTIVATE" =>
                 new = BanksAfterActivate(rank.bankStates, p)[b]
           /\ p.busPacketType = "WRITE_DATA" =>
                 new = IF b = p.bank
                       THEN [own EXCEPT !.stateChangeCountdown = tWR,
                                        !.nextActivate = tWR + tRP]
                       ELSE own
<1>1. /\ rank.bankStates \in [Banks -> BankStates]
      /\ DOMAIN rank = {"bankStates", "readReturnQueue"}
  BY DEF RankStates
<1>2. ASSUME p.busPacketType = "REFRESH"
      PROVE  ReceiveFromBus(rank, p).bankStates[b] = Refreshing(rank.bankStates[b])
  <2>1. ReceiveFromBus(rank, p) =
           [rank EXCEPT !.bankStates = [c \in Banks |-> Refreshing(rank.bankStates[c])]]
    BY <1>2 DEF ReceiveFromBus
  <2>2. QED
    BY <1>1, <2>1
<1>3. ASSUME p.busPacketType = "READ_P"
      PROVE  ReceiveFromBus(rank, p).bankStates
                = BanksAfterCAS(rank.bankStates, p, tRTP, tRTP)
  BY <1>3 DEF ReceiveFromBus
<1>4. ASSUME p.busPacketType = "WRITE_P"
      PROVE  ReceiveFromBus(rank, p).bankStates
                = BanksAfterCAS(rank.bankStates, p, tCWL + BURST + tWR, tCWL + BURST + tWR)
  <2>1. ReceiveFromBus(rank, p) =
           [rank EXCEPT !.bankStates =
               BanksAfterCAS(rank.bankStates, p, tCWL + BURST + tWR, tCWL + BURST + tWR)]
    BY <1>4 DEF ReceiveFromBus
  <2>2. QED
    BY <1>1, <2>1
<1>5. ASSUME p.busPacketType = "ACTIVATE"
      PROVE  ReceiveFromBus(rank, p).bankStates = BanksAfterActivate(rank.bankStates, p)
  <2>1. ReceiveFromBus(rank, p) =
           [rank EXCEPT !.bankStates = BanksAfterActivate(rank.bankStates, p)]
    BY <1>5 DEF ReceiveFromBus
  <2>2. QED
    BY <1>1, <2>1
<1>6. ASSUME p.busPacketType = "WRITE_DATA"
      PROVE  ReceiveFromBus(rank, p).bankStates[b] =
                 IF b = p.bank
                 THEN [rank.bankStates[b] EXCEPT !.stateChangeCountdown = tWR,
                                                 !.nextActivate = tWR + tRP]
                 ELSE rank.bankStates[b]
  <2>1. ReceiveFromBus(rank, p) =
           [rank EXCEPT !.bankStates[p.bank].stateChangeCountdown = tWR,
                        !.bankStates[p.bank].nextActivate = tWR + tRP]
    BY <1>6 DEF ReceiveFromBus
  <2>2. p.bank \in Banks
    BY DEF BusPacket
  <2>3. ReceiveFromBus(rank, p).bankStates =
           [[rank.bankStates EXCEPT ![p.bank].stateChangeCountdown = tWR]
                EXCEPT ![p.bank].nextActivate = tWR + tRP]
    BY <1>1, <2>1
  <2>4. CASE b # p.bank
    BY <1>1, <2>2, <2>3, <2>4
  <2>5. CASE b = p.bank
    <3>1. [rank.bankStates EXCEPT ![p.bank].stateChangeCountdown = tWR][b]
             = [rank.bankStates[b] EXCEPT !.stateChangeCountdown = tWR]
      BY <1>1, <2>2, <2>5
    <3>2. ReceiveFromBus(rank, p).bankStates[b]
             = [[rank.bankStates[b] EXCEPT !.stateChangeCountdown = tWR]
                    EXCEPT !.nextActivate = tWR + tRP]
      BY <1>1, <2>2, <2>3, <2>5, <3>1
    <3>3. QED
      BY <2>5, <3>2
  <2>6. QED
    BY <2>4, <2>5
<1>7. rank.bankStates[b] \in BankStates
  BY <1>1
<1>8. QED
  BY <1>2, <1>3, <1>4, <1>5, <1>6, <1>7

\* The rank's bank closes tWR after the data has come, as was planned or earlier.
LEMMA WriteDelivered ==
    ASSUME NEW bank \in BankStates, NEW own \in BankStates, NEW p,
           RankSettled(own), Mirrors(bank, own), Awaits(own, p, 1)
    PROVE  LET new == [own EXCEPT !.stateChangeCountdown = tWR,
                                  !.nextActivate = tWR + tRP]
           IN  RankSettled(new) /\ Mirrors(bank, new)
<1>. DEFINE new == [own EXCEPT !.stateChangeCountdown = tWR,
                               !.nextActivate = tWR + tRP]
<1>1. /\ new.currentBankState = own.currentBankState
      /\ new.openRowAddress = own.openRowAddress
      /\ new.lastCommand = own.lastCommand
      /\ new.stateChangeCountdown = tWR /\ new.nextActivate = tWR + tRP
      /\ new.nextRead = own.nextRead /\ new.nextWrite = own.nextWrite
  BY DEF BankStates
<1>2. /\ own.currentBankState = "ROW_ACTIVE" /\ own.stateChangeCountdown = 1 + tWR
  BY DEF Awaits
<1>3. /\ tWR \in Nat /\ tWR >= 1 /\ tRP \in Nat
      /\ own.nextActivate \in Nat /\ bank.nextActivate \in Nat
  BY TimingTypes, TimingPositive DEF BankStates
<1>4. /\ own.lastCommand \in {"READ_P", "WRITE_P"}
      /\ 1 + tWR + tRP <= own.nextActivate
  BY <1>2, <1>3 DEF RankSettled
<1>. HIDE DEF new
<1>5. RankSettled(new)
  BY <1>1, <1>2, <1>3, <1>4 DEF RankSettled
<1>6. ~ Opened(own) /\ ~ Opened(new)
  BY <1>1, <1>2, <1>3 DEF Opened
<1>7. OneLess(new.nextActivate) <= OneLess(own.nextActivate)
  BY <1>1, <1>3, <1>4 DEF OneLess
<1>8. OneLess(new.nextActivate) <= bank.nextActivate
  <2>1. OneLess(new.nextActivate) \in Nat /\ OneLess(own.nextActivate) \in Nat
    BY <1>1, <1>3 DEF OneLess
  <2>2. QED
    BY <1>3, <1>7, <2>1 DEF Mirrors
<1>9. Mirrors(bank, new)
  BY <1>1, <1>6, <1>8 DEF Mirrors
<1>10. QED
  BY <1>5, <1>9 DEF new

LEMMA AwaitedBanks ==
    ASSUME TypeOK
    PROVE  /\ \A i \in DOMAIN writeBurstQueue :
                 /\ writeBurstQueue[i] \in Burst
                 /\ writeBurstQueue[i].packet \in BusPacket
                 /\ writeBurstQueue[i].packet.rank \in Ranks
                 /\ writeBurstQueue[i].packet.bank \in Banks
                 /\ writeBurstQueue[i].countdown \in Nat
           /\ inFlightDataPacket # NULL =>
                 /\ inFlightDataPacket \in BusPacket
                 /\ inFlightDataPacket.rank \in Ranks /\ inFlightDataPacket.bank \in Banks
           /\ inFlightCommandPacket # NULL =>
                 /\ inFlightCommandPacket \in BusPacket
                 /\ inFlightCommandPacket.rank \in Ranks
                 /\ inFlightCommandPacket.bank \in Banks
           /\ inFlightDataCountdown \in Nat
<1>1. \A p \in BusPacket : p.rank \in Ranks /\ p.bank \in Banks
  BY DEF BusPacket
<1>2. writeBurstQueue \in Seq(Burst)
  BY DEF TypeOK, ControllerTypeOK
<1>3. ASSUME NEW i \in DOMAIN writeBurstQueue
      PROVE  writeBurstQueue[i] \in Burst
  BY <1>2, ElementOfSeq, LenProperties
<1>4. \A e \in Burst : e.packet \in BusPacket /\ e.countdown \in Nat
  BY DEF Burst
<1>5. QED
  BY <1>1, <1>3, <1>4 DEF TypeOK

\* What the ranks' banks are when the controller decides.
LEMMA DataDelivered ==
    ASSUME TimingInv, NEW r \in Ranks, NEW b \in Banks
    PROVE  LET own == RanksAfterCommand[r].bankStates[b]
               new == RanksNow[r].bankStates[b]
               here == /\ WriteArrives
                       /\ inFlightDataPacket.rank = r /\ inFlightDataPacket.bank = b
           IN
           /\ own \in BankStates /\ new \in BankStates
           /\ RankSettled(new)
           /\ Mirrors(bankStates[r][b], new)
           /\ here => own.stateChangeCountdown = 1 + tWR
           /\ ~ here => new = own
<1>. DEFINE own == RanksAfterCommand[r].bankStates[b]
            new == RanksNow[r].bankStates[b]
            p == inFlightDataPacket
<1>1. RanksAfterCommand \in [Ranks -> RankStates] /\ RanksNow \in [Ranks -> RankStates]
  BY NowTypes DEF TimingInv, QueueInv
<1>2. own \in BankStates /\ new \in BankStates
  BY <1>1 DEF RankStates
<1>3. bankStates[r][b] \in BankStates
  BY DEF TimingInv, QueueInv, TypeOK, ControllerTypeOK
<1>4. RankSettled(own) /\ Mirrors(bankStates[r][b], own)
  BY DEF TimingInv, RankBanksMirror
<1>5. CASE ~ (WriteArrives /\ p.rank = r)
  <2>1. RanksNow[r] = RanksAfterCommand[r]
    BY <1>5 DEF RanksNow
  <2>2. QED
    BY <1>2, <1>4, <1>5, <2>1
<1>6. CASE WriteArrives /\ p.rank = r
  <2>1. /\ p # NULL /\ inFlightDataCountdown = 1 /\ p.busPacketType = "WRITE_DATA"
    BY <1>6 DEF WriteArrives, DataArrives
  <2>2. p \in BusPacket
    BY <2>1, AwaitedBanks DEF TimingInv, QueueInv
  <2>3. new = IF b = p.bank
              THEN [own EXCEPT !.stateChangeCountdown = tWR,
                               !.nextActivate = tWR + tRP]
              ELSE own
    <3>1. RanksNow[r] = ReceiveFromBus(RanksAfterCommand[r], p)
      BY <1>6 DEF RanksNow
    <3>2. RanksAfterCommand[r] \in RankStates
      BY <1>1
    <3>3. ReceiveFromBus(RanksAfterCommand[r], p).bankStates[b] =
             IF b = p.bank
             THEN [RanksAfterCommand[r].bankStates[b] EXCEPT
                      !.stateChangeCountdown = tWR, !.nextActivate = tWR + tRP]
             ELSE RanksAfterCommand[r].bankStates[b]
      BY <2>1, <2>2, <3>2, ReceivedBanks
    <3>4. QED
      BY <3>1, <3>3
  <2>4. CASE b # p.bank
    BY <1>2, <1>4, <2>3, <2>4
  <2>5. CASE b = p.bank
    <3>1. Awaits(own, p, 1)
      BY <1>6, <2>1, <2>5 DEF TimingInv, WritesAwaited, BankOf
    <3>. HIDE DEF own, new, p
    <3>2. RankSettled(new) /\ Mirrors(bankStates[r][b], new)
      BY <1>2, <1>3, <1>4, <2>3, <2>5, <3>1, WriteDelivered
    <3>3. own.stateChangeCountdown = 1 + tWR
      BY <3>1 DEF Awaits
    <3>4. QED
      BY <1>2, <1>6, <2>5, <3>2, <3>3 DEF own, new, p
  <2>6. QED
    BY <2>4, <2>5
<1>7. QED
  BY <1>5, <1>6

\* The writes that are still to come find their rows open afterwards.
LEMMA WritesStillAwaited ==
    ASSUME TimingInv
    PROVE  /\ \A i \in DOMAIN writeBurstQueue :
                 Awaits(BankOf(RanksNow, writeBurstQueue[i].packet),
                        writeBurstQueue[i].packet, writeBurstQueue[i].countdown + BURST)
           /\ (/\ inFlightDataPacket # NULL
               /\ inFlightDataPacket.busPacketType = "WRITE_DATA"
               /\ ~ DataArrives) =>
                 Awaits(BankOf(RanksNow, inFlightDataPacket),
                        inFlightDataPacket, inFlightDataCountdown)
<1>1. TypeOK /\ WritesAwaited /\ QueuesOrdered
  BY DEF TimingInv, QueueInv
<1>2. ASSUME NEW i \in DOMAIN writeBurstQueue
      PROVE  Awaits(BankOf(RanksNow, writeBurstQueue[i].packet),
                    writeBurstQueue[i].packet, writeBurstQueue[i].countdown + BURST)
  <2>. DEFINE q == writeBurstQueue[i].packet
              c == writeBurstQueue[i].countdown
              own == RanksAfterCommand[q.rank].bankStates[q.bank]
              new == RanksNow[q.rank].bankStates[q.bank]
  <2>1. q.rank \in Ranks /\ q.bank \in Banks /\ c \in Nat
    BY <1>1, AwaitedBanks
  <2>2. c >= 1
    BY <1>1, <2>1 DEF QueuesOrdered, Ordered
  <2>3. Awaits(own, q, c + BURST)
    BY <1>1 DEF WritesAwaited, BankOf
  <2>4. own.stateChangeCountdown # 1 + tWR
    <3>1. own.stateChangeCountdown = c + BURST + tWR
      BY <2>3 DEF Awaits
    <3>2. tWR \in Nat /\ BURST \in Nat /\ BURST >= 1
      BY TimingTypes, TimingPositive
    <3>. HIDE DEF own, c
    <3>3. QED
      BY <2>1, <2>2, <3>1, <3>2
  <2>5. new = own
    BY <2>1, <2>4, DataDelivered
  <2>6. QED
    BY <2>3, <2>5 DEF BankOf
<1>3. ASSUME inFlightDataPacket # NULL,
             inFlightDataPacket.busPacketType = "WRITE_DATA", ~ DataArrives
      PROVE  Awaits(BankOf(RanksNow, inFlightDataPacket),
                    inFlightDataPacket, inFlightDataCountdown)
  <2>1. RanksNow[inFlightDataPacket.rank] = RanksAfterCommand[inFlightDataPacket.rank]
    <3>1. inFlightDataPacket.rank \in Ranks
      BY <1>1, <1>3, AwaitedBanks
    <3>2. QED
      BY <1>3, <3>1 DEF RanksNow, WriteArrives
  <2>2. QED
    BY <1>1, <1>3, <2>1 DEF WritesAwaited, BankOf
<1>4. QED
  BY <1>2, <1>3

LEMMA RanksAccept == TimingInv => ~ RankRefuses
<1>. SUFFICES ASSUME TimingInv PROVE ~ RankRefuses
  OBVIOUS
<1>1. ~ (CommandArrives /\ Refuses(ranks[inFlightCommandPacket.rank], inFlightCommandPacket))
  BY DEF TimingInv, CommandAccepted, CommandArrives
<1>2. ASSUME WriteArrives
      PROVE  ~ Refuses(RanksAfterCommand[inFlightDataPacket.rank], inFlightDataPacket)
  <2>1. /\ inFlightDataPacket # NULL /\ inFlightDataPacket.busPacketType = "WRITE_DATA"
    BY <1>2 DEF WriteArrives, DataArrives
  <2>2. Awaits(BankOf(RanksAfterCommand, inFlightDataPacket),
               inFlightDataPacket, inFlightDataCountdown)
    BY <2>1 DEF TimingInv, WritesAwaited
  <2>3. RowOpen(BankOf(RanksAfterCommand, inFlightDataPacket), inFlightDataPacket.row)
    BY <2>2 DEF Awaits, RowOpen
  <2>4. QED
    BY <2>1, <2>3 DEF Refuses, BankOf
<1>3. ASSUME NEW r \in Ranks, NEW b \in Banks
      PROVE  /\ ~ StateChangeFails(bankStates[r][b])
             /\ ~ StateChangeFails(RanksNow[r].bankStates[b])
  <2>1. ~ StateChangeFails(bankStates[r][b])
    BY DEF TimingInv, CountdownsNamed, StateChangeFails
  <2>2. RankSettled(RanksNow[r].bankStates[b])
    BY DataDelivered
  <2>3. ~ StateChangeFails(RanksNow[r].bankStates[b])
    BY <2>2 DEF RankSettled, StateChangeFails
  <2>4. QED
    BY <2>1, <2>3
<1>4. QED
  BY <1>1, <1>2, <1>3 DEF RankRefuses

-----------------------------------------------------------------------------
(* The ranks advance                                                       *)

LEMMA RanksUpdated ==
    ASSUME TimingInv, NEW sendsCommand, NEW sendsCAS, Cycle(sendsCommand, sendsCAS),
           NEW r \in Ranks, NEW b \in Banks
    PROVE  LET own == RanksNow[r].bankStates[b]
               new == ranks'[r].bankStates[b] IN
           /\ own \in BankStates /\ new \in BankStates
           /\ BanksNow[r][b] \in BankStates
           /\ RankSettled(new)
           /\ Agrees(BanksNow[r][b], new)
           /\ own.stateChangeCountdown > 1 =>
                 /\ new.currentBankState = own.currentBankState
                 /\ new.openRowAddress = own.openRowAddress
                 /\ new.stateChangeCountdown = own.stateChangeCountdown - 1
<1>. DEFINE own == RanksNow[r].bankStates[b]
            bank == bankStates[r][b]
<1>1. TypeOK /\ BanksSettled
  BY DEF TimingInv, QueueInv
<1>2. RanksNow[r] \in RankStates
  BY <1>1, NowTypes
<1>3. ranks'[r].bankStates[b] = Elapse(UpdateStateChange(own))
  BY DEF Cycle, UpdateRank
<1>4. own \in BankStates /\ RankSettled(own) /\ Mirrors(bank, own)
  BY DataDelivered
<1>5. bank \in BankStates /\ Settled(bank)
  BY <1>1 DEF TypeOK, ControllerTypeOK, BanksSettled
<1>6. BanksNow[r][b] = UpdateStateChange(bank)
  BY DEF BanksNow
<1>7. BanksNow[r][b] \in BankStates
  BY <1>1, NowSettled
<1>. HIDE DEF own, bank
<1>8. Agrees(UpdateStateChange(bank), Elapse(UpdateStateChange(own)))
  BY <1>4, <1>5, MirrorsAgree
<1>9. /\ Elapse(UpdateStateChange(own)) \in BankStates
      /\ RankSettled(Elapse(UpdateStateChange(own)))
      /\ own.stateChangeCountdown > 1 =>
            /\ Elapse(UpdateStateChange(own)).currentBankState = own.currentBankState
            /\ Elapse(UpdateStateChange(own)).openRowAddress = own.openRowAddress
            /\ Elapse(UpdateStateChange(own)).stateChangeCountdown
                  = own.stateChangeCountdown - 1
  BY <1>4, RankAges
<1>10. QED
  BY <1>3, <1>4, <1>6, <1>7, <1>8, <1>9 DEF own

\* A bank that awaits write data awaits it one cycle less.
LEMMA AwaitsAges ==
    ASSUME TimingInv, NEW sendsCommand, NEW sendsCAS, Cycle(sendsCommand, sendsCAS),
           NEW p \in BusPacket, NEW t \in Nat, t >= 1, Awaits(BankOf(RanksNow, p), p, t)
    PROVE  Awaits(BankOf(ranks', p), p, t - 1)
<1>. DEFINE own == RanksNow[p.rank].bankStates[p.bank]
            new == ranks'[p.rank].bankStates[p.bank]
<1>1. p.rank \in Ranks /\ p.bank \in Banks
  BY DEF BusPacket
<1>2. /\ own.currentBankState = "ROW_ACTIVE" /\ own.openRowAddress = p.row
      /\ own.stateChangeCountdown = t + tWR
  BY DEF Awaits, BankOf
<1>3. tWR \in Nat /\ tWR >= 1
  BY TimingTypes, TimingPositive
<1>4. own.stateChangeCountdown > 1
  BY <1>2, <1>3
<1>5. /\ new.currentBankState = own.currentBankState
      /\ new.openRowAddress = own.openRowAddress
      /\ new.stateChangeCountdown = own.stateChangeCountdown - 1
  BY <1>1, <1>4, RanksUpdated
<1>6. new.stateChangeCountdown = (t - 1) + tWR
  BY <1>2, <1>3, <1>5
<1>7. QED
  BY <1>2, <1>5, <1>6 DEF Awaits, BankOf

\* A command reaches its rank in the next Update.
LEMMA CommandReaches ==
    ASSUME NEW p \in BusPacket, CommandStarts(p), NEW r \in Ranks
    PROVE  RanksAfterCommand'[r] =
              IF p.rank = r THEN ReceiveFromBus(ranks'[r], p) ELSE ranks'[r]
<1>1. inFlightCommandPacket' = p /\ inFlightCommandCountdown' = 1 /\ p # NULL
  BY PacketAssumption, TimingPositive DEF CommandStarts
<1>2. CommandArrives'
  BY <1>1 DEF CommandArrives
<1>3. QED
  BY <1>1, <1>2 DEF RanksAfterCommand

LEMMA NoCommandReaches ==
    ASSUME CommandAccepted, NoCommandStarts, NEW r \in Ranks
    PROVE  inFlightCommandPacket' = NULL /\ RanksAfterCommand'[r] = ranks'[r]
<1>1. inFlightCommandPacket' = NULL
  BY DEF CommandAccepted, NoCommandStarts, CommandArrives
<1>2. ~ CommandArrives'
  BY <1>1 DEF CommandArrives
<1>3. QED
  BY <1>1, <1>2 DEF RanksAfterCommand

\* The controller's banks and the ranks' after the decision.
AllInStep(after) ==
    \A r \in Ranks, b \in Banks :
        InStep(BanksNow[r][b], ranks'[r].bankStates[b],
               after[r][b], RanksAfterCommand'[r].bankStates[b])

LEMMA AfterCommandType == TypeOK => RanksAfterCommand \in [Ranks -> RankStates]
  BY NowTypes

LEMMA AfterCommandTypeNext == TypeOK' => RanksAfterCommand' \in [Ranks -> RankStates]
<1>1. TypeOK' => (RanksAfterCommand \in [Ranks -> RankStates])'
  BY AfterCommandType, PTL
<1>2. QED
  BY <1>1

LEMMA BanksStillMirror ==
    ASSUME TimingInv, TypeOK', NEW sendsCommand, NEW sendsCAS,
           Cycle(sendsCommand, sendsCAS),
           NEW after \in [Ranks -> [Banks -> BankStates]],
           bankStates' = TickBanks(after), AllInStep(after)
    PROVE  RankBanksMirror'
<1>1. RanksAfterCommand' \in [Ranks -> RankStates]
  BY AfterCommandTypeNext
<1>2. ASSUME NEW r \in Ranks, NEW b \in Banks
      PROVE  /\ RankSettled(RanksAfterCommand'[r].bankStates[b])
             /\ Mirrors(bankStates'[r][b], RanksAfterCommand'[r].bankStates[b])
  <2>. DEFINE own == RanksAfterCommand'[r].bankStates[b]
  <2>1. own \in BankStates /\ after[r][b] \in BankStates
    BY <1>1 DEF RankStates
  <2>2. RankSettled(own) /\ Agrees(after[r][b], own)
    BY DEF AllInStep, InStep
  <2>3. bankStates'[r][b] = Elapse(after[r][b])
    BY DEF TickBanks
  <2>. HIDE DEF own
  <2>4. Mirrors(Elapse(after[r][b]), own)
    BY <2>1, <2>2, AgreesMirrors
  <2>5. QED
    BY <2>2, <2>3, <2>4 DEF own
<1>3. QED
  BY <1>2 DEF RankBanksMirror

LEMMA AwaitsAfterCommand ==
    ASSUME NEW after, AllInStep(after), NEW p \in BusPacket, NEW t \in Nat,
           Awaits(BankOf(ranks', p), p, t)
    PROVE  Awaits(BankOf(RanksAfterCommand', p), p, t)
<1>1. p.rank \in Ranks /\ p.bank \in Banks
  BY DEF BusPacket
<1>2. BankOf(ranks', p).stateChangeCountdown > 0
  BY TimingTypes, TimingPositive DEF Awaits
<1>3. Undisturbed(BankOf(ranks', p), BankOf(RanksAfterCommand', p))
  BY <1>1 DEF AllInStep, InStep, BankOf
<1>4. QED
  BY <1>2, <1>3 DEF Undisturbed, Awaits

-----------------------------------------------------------------------------
(* The command that is sent                                                *)

LEMMA SelectedCAS ==
    ASSUME TimingInv, NEW i \in DOMAIN commandQueue, NEW queued, NEW outstanding,
           Selected(i, queued, outstanding), IsCAS(commandQueue[i])
    PROVE  LET p == commandQueue[i]
               bank == BanksNow[p.rank][p.bank] IN
           /\ p \in BusPacket
           /\ IsOpen(bank) /\ bank.openRowAddress = p.row
           /\ p.busPacketType = "READ_P" => bank.nextRead = 0
           /\ p.busPacketType = "WRITE_P" => bank.nextWrite = 0
           /\ waitingACTS # 0
<1>. DEFINE p == commandQueue[i]
            bank == BanksNow[p.rank][p.bank]
<1>1. /\ TypeOK /\ QueueAndBanks /\ QueueCounted /\ BanksSettled /\ LooseFindsRow
  BY DEF TimingInv, QueueInv, QueueAndBanks
<1>2. p \in BusPacket /\ p.rank \in Ranks /\ p.bank \in Banks
  BY <1>1, QueuePackets
<1>3. i - 1 \notin ACTs(commandQueue)
  BY <1>1, SelectedIsFree
<1>4. i \in CASs(commandQueue) /\ i \in Loose(commandQueue)
  BY <1>3 DEF CASs, Loose
<1>5. /\ IsOpen(bankStates[p.rank][p.bank])
      /\ bankStates[p.rank][p.bank].openRowAddress = p.row
  BY <1>1, <1>4 DEF LooseFindsRow
<1>6. IsOpen(bank) /\ bank.openRowAddress = p.row
  BY <1>1, <1>2, <1>5, NowSettled DEF Kept
<1>7. IsIssuable(p, queued, outstanding)
  BY DEF Selected, CanSend
<1>8. /\ p.busPacketType = "READ_P" => bank.nextRead = 0
      /\ p.busPacketType = "WRITE_P" => bank.nextWrite = 0
  BY <1>7 DEF IsIssuable, CASIsReady
<1>9. waitingACTS # 0
  <2>1. commandQueue \in Seq(BusPacket)
    BY <1>1, QueuePackets
  <2>2. IsFiniteSet(CASs(commandQueue))
    BY <2>1, PlacesType
  <2>3. Cardinality(CASs(commandQueue)) # 0
    BY <1>4, <2>2, FS_EmptySet
  <2>4. QED
    BY <1>1, <2>3 DEF QueueCounted
<1>10. QED
  BY <1>2, <1>6, <1>8, <1>9

LEMMA SelectedActivate ==
    ASSUME TimingInv, NEW i \in DOMAIN commandQueue, NEW queued, NEW outstanding,
           Selected(i, queued, outstanding), commandQueue[i].busPacketType = "ACTIVATE"
    PROVE  LET p == commandQueue[i] IN
           p \in BusPacket /\ Quiet(BanksNow[p.rank][p.bank])
<1>1. commandQueue[i] \in BusPacket
  BY QueuePackets DEF TimingInv, QueueInv
<1>2. IsIssuable(commandQueue[i], queued, outstanding)
  BY DEF Selected, CanSend
<1>3. QED
  BY <1>1, <1>2 DEF IsIssuable, ActivateIsReady

\* Each command finds its rank ready, and leaves it in step with the controller.
CommandInStep(p, after) ==
    /\ AllInStep(after)
    /\ ~ Refuses(ranks'[p.rank], p)

LEMMA NothingSent ==
    ASSUME TimingInv, NEW sendsCommand, NEW sendsCAS, Cycle(sendsCommand, sendsCAS),
           NoCommandStarts
    PROVE  AllInStep(BanksNow)
<1>1. ASSUME NEW r \in Ranks, NEW b \in Banks
      PROVE  InStep(BanksNow[r][b], ranks'[r].bankStates[b],
                    BanksNow[r][b], RanksAfterCommand'[r].bankStates[b])
  <2>1. RankSettled(ranks'[r].bankStates[b])
        /\ Agrees(BanksNow[r][b], ranks'[r].bankStates[b])
    BY RanksUpdated
  <2>2. RanksAfterCommand'[r] = ranks'[r]
    BY NoCommandReaches DEF TimingInv
  <2>3. QED
    BY <2>1, <2>2 DEF InStep, Undisturbed
<1>2. QED
  BY <1>1 DEF AllInStep

LEMMA RefreshSent ==
    ASSUME TimingInv, TypeOK', NEW sendsCommand, NEW sendsCAS,
           Cycle(sendsCommand, sendsCAS), NEW q \in Ranks, RefreshIsIssuable(q),
           CommandStarts(RefreshPacket(q))
    PROVE  CommandInStep(RefreshPacket(q), BanksAfterRefresh(q))
<1>. DEFINE p == RefreshPacket(q)
<1>1. p \in BusPacket /\ p.busPacketType = "REFRESH" /\ p.rank = q
  BY RefreshPacketType DEF RefreshPacket
<1>2. ASSUME NEW r \in Ranks, NEW b \in Banks
      PROVE  InStep(BanksNow[r][b], ranks'[r].bankStates[b],
                    BanksAfterRefresh(q)[r][b], RanksAfterCommand'[r].bankStates[b])
  <2>. DEFINE bank == BanksNow[r][b]
              own == ranks'[r].bankStates[b]
  <2>1. /\ bank \in BankStates /\ own \in BankStates
        /\ RankSettled(own) /\ Agrees(bank, own)
    BY RanksUpdated
  <2>2. RanksAfterCommand'[r] =
           IF q = r THEN ReceiveFromBus(ranks'[r], p) ELSE ranks'[r]
    <3>. HIDE DEF p
    <3>1. CommandStarts(p)
      BY DEF p
    <3>2. QED
      BY <1>1, <3>1, CommandReaches
  <2>3. CASE r = q
    <3>1. BanksAfterRefresh(q)[r][b] = Refreshing(bank)
      BY <2>3 DEF BanksAfterRefresh, BanksNow
    <3>2. RanksAfterCommand'[r].bankStates[b] = Refreshing(own)
      <4>1. ranks'[r] \in RankStates
        BY DEF TypeOK
      <4>2. ReceiveFromBus(ranks'[r], p).bankStates[b]
               = Refreshing(ranks'[r].bankStates[b])
        <5>. HIDE DEF p
        <5>1. QED
          BY <1>1, <4>1, ReceivedBanks
      <4>3. QED
        BY <2>2, <2>3, <4>2
    <3>3. Quiet(bank)
      BY <2>3 DEF RefreshIsIssuable
    <3>. HIDE DEF bank, own
    <3>4. InStep(bank, own, Refreshing(bank), Refreshing(own))
      BY <2>1, <3>3, RefreshInStep
    <3>5. QED
      BY <3>1, <3>2, <3>4 DEF bank, own
  <2>4. CASE r # q
    <3>1. BanksAfterRefresh(q)[r][b] = bank
      BY <2>4 DEF BanksAfterRefresh, BanksNow
    <3>2. RanksAfterCommand'[r].bankStates[b] = own
      BY <2>2, <2>4
    <3>3. QED
      BY <2>1, <3>1, <3>2 DEF InStep, Undisturbed
  <2>5. QED
    BY <2>3, <2>4
<1>3. ASSUME NEW b \in Banks
      PROVE  Quiet(ranks'[q].bankStates[b])
  <2>1. Quiet(BanksNow[q][b])
    BY DEF RefreshIsIssuable
  <2>2. /\ BanksNow[q][b] \in BankStates /\ ranks'[q].bankStates[b] \in BankStates
        /\ RankSettled(ranks'[q].bankStates[b])
        /\ Agrees(BanksNow[q][b], ranks'[q].bankStates[b])
    BY RanksUpdated
  <2>3. QED
    BY <2>1, <2>2, AgreedBank
<1>4. ~ Refuses(ranks'[p.rank], p)
  <2>. HIDE DEF p
  <2>1. QED
    BY <1>1, <1>3 DEF Refuses
<1>5. QED
  BY <1>2, <1>4 DEF CommandInStep, AllInStep

LEMMA ActivateSent ==
    ASSUME TimingInv, TypeOK', NEW sendsCommand, NEW sendsCAS,
           Cycle(sendsCommand, sendsCAS),
           NEW p \in BusPacket, p.busPacketType = "ACTIVATE",
           Quiet(BanksNow[p.rank][p.bank]), CommandStarts(p)
    PROVE  CommandInStep(p, BanksAfterActivateCommand(p))
<1>1. p.rank \in Ranks /\ p.bank \in Banks /\ p.row \in Rows
  BY DEF BusPacket
<1>2. ASSUME NEW r \in Ranks, NEW b \in Banks
      PROVE  InStep(BanksNow[r][b], ranks'[r].bankStates[b],
                    BanksAfterActivateCommand(p)[r][b],
                    RanksAfterCommand'[r].bankStates[b])
  <2>. DEFINE bank == BanksNow[r][b]
              own == ranks'[r].bankStates[b]
  <2>1. /\ bank \in BankStates /\ own \in BankStates
        /\ RankSettled(own) /\ Agrees(bank, own)
    BY RanksUpdated
  <2>2. RanksAfterCommand'[r] =
           IF p.rank = r THEN ReceiveFromBus(ranks'[r], p) ELSE ranks'[r]
    BY CommandReaches
  <2>3. ASSUME r = p.rank
        PROVE  RanksAfterCommand'[r].bankStates[b]
                  = BanksAfterActivate(ranks'[r].bankStates, p)[b]
    <3>1. ranks'[r] \in RankStates
      BY DEF TypeOK
    <3>2. ReceiveFromBus(ranks'[r], p).bankStates[b]
             = BanksAfterActivate(ranks'[r].bankStates, p)[b]
      BY <3>1, ReceivedBanks
    <3>3. QED
      BY <2>2, <2>3, <3>2
  <2>4. CASE r = p.rank /\ b = p.bank
    <3>. DEFINE after == [bank EXCEPT !.lastCommand = "ACTIVATE",
                                      !.currentBankState = "ROW_ACTIVE",
                                      !.openRowAddress = p.row,
                                      !.nextActivate = tRC,
                                      !.nextRead = Larger(@, tRCD),
                                      !.nextWrite = Larger(@, tRCD)]
                new == [own EXCEPT !.currentBankState = "ROW_ACTIVE",
                                   !.openRowAddress = p.row,
                                   !.nextRead = tRCD,
                                   !.nextWrite = tRCD,
                                   !.nextActivate = tRC]
    <3>1. BanksAfterActivateCommand(p)[r][b] = after
      BY <2>4 DEF BanksAfterActivateCommand
    <3>2. RanksAfterCommand'[r].bankStates[b] = new
      BY <2>3, <2>4 DEF BanksAfterActivate
    <3>3. Quiet(bank)
      BY <2>4
    <3>4. InStep(bank, own, after, new)
      <4>. HIDE DEF bank, own
      <4>1. QED
        BY <1>1, <2>1, <3>3, ActivateInStep
    <3>. HIDE DEF after, new
    <3>5. QED
      BY <3>1, <3>2, <3>4
  <2>5. CASE r = p.rank /\ b # p.bank
    <3>1. BanksAfterActivateCommand(p)[r][b] =
             [bank EXCEPT !.nextActivate = Larger(@, tRRD)]
      BY <2>5 DEF BanksAfterActivateCommand
    <3>2. RanksAfterCommand'[r].bankStates[b] =
             [own EXCEPT !.nextActivate = Larger(@, tRRD)]
      BY <2>3, <2>5 DEF BanksAfterActivate
    <3>. HIDE DEF bank, own
    <3>3. QED
      BY <2>1, <3>1, <3>2, OtherActivateInStep DEF bank, own
  <2>6. CASE r # p.rank
    <3>1. BanksAfterActivateCommand(p)[r][b] = bank
      BY <2>6 DEF BanksAfterActivateCommand
    <3>2. RanksAfterCommand'[r].bankStates[b] = own
      BY <2>2, <2>6
    <3>3. QED
      BY <2>1, <3>1, <3>2 DEF InStep, Undisturbed
  <2>7. QED
    BY <2>4, <2>5, <2>6
<1>3. Quiet(ranks'[p.rank].bankStates[p.bank])
  BY <1>1, RanksUpdated, AgreedBank
<1>4. ~ Refuses(ranks'[p.rank], p)
  BY <1>3 DEF Refuses
<1>5. QED
  BY <1>2, <1>4 DEF CommandInStep, AllInStep

LEMMA ReadSentInStep ==
    ASSUME TimingInv, TypeOK', NEW sendsCommand, NEW sendsCAS,
           Cycle(sendsCommand, sendsCAS),
           NEW p \in BusPacket, p.busPacketType = "READ_P", CommandStarts(p),
           IsOpen(BanksNow[p.rank][p.bank]),
           BanksNow[p.rank][p.bank].openRowAddress = p.row,
           BanksNow[p.rank][p.bank].nextRead = 0
    PROVE  CommandInStep(p, BanksAfterRead(p))
<1>1. p.rank \in Ranks /\ p.bank \in Banks
  BY DEF BusPacket
<1>2. ASSUME NEW r \in Ranks, NEW b \in Banks
      PROVE  InStep(BanksNow[r][b], ranks'[r].bankStates[b],
                    BanksAfterRead(p)[r][b],
                    RanksAfterCommand'[r].bankStates[b])
  <2>. DEFINE bank == BanksNow[r][b]
              own == ranks'[r].bankStates[b]
  <2>1. /\ bank \in BankStates /\ own \in BankStates
        /\ RankSettled(own) /\ Agrees(bank, own)
    BY RanksUpdated
  <2>2. RanksAfterCommand'[r] =
           IF p.rank = r THEN ReceiveFromBus(ranks'[r], p) ELSE ranks'[r]
    BY CommandReaches
  <2>3. ASSUME r = p.rank
        PROVE  RanksAfterCommand'[r].bankStates[b]
                  = BanksAfterCAS(ranks'[r].bankStates, p, tRTP, tRTP)[b]
    <3>1. ranks'[r] \in RankStates
      BY DEF TypeOK
    <3>2. ReceiveFromBus(ranks'[r], p).bankStates[b]
             = BanksAfterCAS(ranks'[r].bankStates, p, tRTP, tRTP)[b]
      BY <3>1, ReceivedBanks
    <3>3. QED
      BY <2>2, <2>3, <3>2
  <2>4. CASE r = p.rank /\ b = p.bank
    <3>. DEFINE after == Closing(bank, "READ_P", tRTPc, ActivateAfterRead(bank))
                new == [own EXCEPT !.lastCommand = "READ_P",
                                   !.stateChangeCountdown = tRTP,
                                   !.nextActivate = tRTP + tRP,
                                   !.nextRead = tRTP + tRP,
                                   !.nextWrite = tRTP + tRP]
    <3>1. BanksAfterRead(p)[r][b] = after
      BY <2>4 DEF BanksAfterRead
    <3>2. RanksAfterCommand'[r].bankStates[b] = new
      BY <2>3, <2>4 DEF BanksAfterCAS
    <3>3. IsOpen(bank)
      BY <2>4
    <3>4. /\ ActivateAfterRead(bank) \in Nat
          /\ tRTP + tRP <= ActivateAfterRead(bank)
      <4>1. bank.nextActivate \in Nat /\ tRTP \in Nat /\ tRP \in Nat
        BY <2>1, TimingTypes DEF BankStates
      <4>. HIDE DEF bank
      <4>2. QED
        BY <4>1 DEF ActivateAfterRead, Larger
    <3>5. InStep(bank, own, after, new)
      <4>1. tRTP \in Nat /\ tRTP >= 1 /\ tRTPc \in Nat /\ tRTPc >= 1
        BY TimingTypes, TimingPositive
      <4>. HIDE DEF bank, own
      <4>2. QED
        BY <2>1, <3>3, <3>4, <4>1, CASInStep
    <3>. HIDE DEF after, new
    <3>6. QED
      BY <3>1, <3>2, <3>5
  <2>5. CASE r = p.rank /\ b # p.bank
    <3>. DEFINE read == SameKindAgain(TRUE)
                write == tCL + BURST + tRTRS - tCWL
                after == Postponed(bank, read, write)
                new == [own EXCEPT !.nextRead = Larger(@, tCCD),
                                   !.nextWrite = Larger(@, tCCD)]
    <3>1. BanksAfterRead(p)[r][b] = after
      BY <2>5 DEF BanksAfterRead
    <3>2. RanksAfterCommand'[r].bankStates[b] = new
      BY <2>3, <2>5 DEF BanksAfterCAS
    <3>3. /\ read \in Int /\ tCCD <= read /\ write \in Int /\ tCCD <= write
      BY TimingTypes, DeviceAssumption DEF SameKindAgain, Larger
    <3>4. InStep(bank, own, after, new)
      <4>. HIDE DEF bank, own, read, write
      <4>1. QED
        BY <2>1, <3>3, PostponedInStep
    <3>. HIDE DEF after, new
    <3>5. QED
      BY <3>1, <3>2, <3>4
  <2>6. CASE r # p.rank
    <3>. DEFINE read == SameKindAgain(r = p.rank)
                write == tCL + BURST + tRTRS - tCWL
                after == Postponed(bank, read, write)
    <3>1. BanksAfterRead(p)[r][b] = after
      BY <2>6 DEF BanksAfterRead
    <3>2. RanksAfterCommand'[r].bankStates[b] = own
      BY <2>2, <2>6
    <3>3. read \in Int /\ write \in Int
      BY TimingTypes DEF SameKindAgain, Larger
    <3>4. InStep(bank, own, after, own)
      <4>. HIDE DEF bank, own, read, write
      <4>1. QED
        BY <2>1, <3>3, ElsewhereInStep
    <3>. HIDE DEF after
    <3>5. QED
      BY <3>1, <3>2, <3>4
  <2>7. QED
    BY <2>4, <2>5, <2>6
<1>3. /\ RowOpen(ranks'[p.rank].bankStates[p.bank], p.row)
      /\ ranks'[p.rank].bankStates[p.bank].nextRead = 0
  BY <1>1, RanksUpdated, AgreedBank
<1>4. ~ Refuses(ranks'[p.rank], p)
  BY <1>3 DEF Refuses
<1>5. QED
  BY <1>2, <1>4 DEF CommandInStep, AllInStep

\* The rank keeps the bank of a WRITE open for its data.
LEMMA WriteSentInStep ==
    ASSUME TimingInv, TypeOK', NEW sendsCommand, NEW sendsCAS,
           Cycle(sendsCommand, sendsCAS),
           NEW p \in BusPacket, p.busPacketType = "WRITE_P", CommandStarts(p),
           IsOpen(BanksNow[p.rank][p.bank]),
           BanksNow[p.rank][p.bank].openRowAddress = p.row,
           BanksNow[p.rank][p.bank].nextWrite = 0
    PROVE  /\ CommandInStep(p, BanksAfterWrite(p))
           /\ Awaits(BankOf(RanksAfterCommand', p), p, tCWL + BURST)
<1>. DEFINE busy == tCWL + BURST + tWR
<1>1. p.rank \in Ranks /\ p.bank \in Banks
  BY DEF BusPacket
<1>2. ASSUME NEW r \in Ranks, NEW b \in Banks
      PROVE  /\ InStep(BanksNow[r][b], ranks'[r].bankStates[b],
                       BanksAfterWrite(p)[r][b],
                       RanksAfterCommand'[r].bankStates[b])
             /\ (r = p.rank /\ b = p.bank) =>
                   Awaits(RanksAfterCommand'[r].bankStates[b], p, tCWL + BURST)
  <2>. DEFINE bank == BanksNow[r][b]
              own == ranks'[r].bankStates[b]
  <2>1. /\ bank \in BankStates /\ own \in BankStates
        /\ RankSettled(own) /\ Agrees(bank, own)
    BY RanksUpdated
  <2>2. RanksAfterCommand'[r] =
           IF p.rank = r THEN ReceiveFromBus(ranks'[r], p) ELSE ranks'[r]
    BY CommandReaches
  <2>3. ASSUME r = p.rank
        PROVE  RanksAfterCommand'[r].bankStates[b]
                  = BanksAfterCAS(ranks'[r].bankStates, p, busy, busy)[b]
    <3>1. ranks'[r] \in RankStates
      BY DEF TypeOK
    <3>2. ReceiveFromBus(ranks'[r], p).bankStates[b]
             = BanksAfterCAS(ranks'[r].bankStates, p, busy, busy)[b]
      BY <3>1, ReceivedBanks
    <3>3. QED
      BY <2>2, <2>3, <3>2
  <2>4. CASE r = p.rank /\ b = p.bank
    <3>. DEFINE after == Closing(bank, "WRITE_P", busy, busy + tRP)
                new == [own EXCEPT !.lastCommand = "WRITE_P",
                                   !.stateChangeCountdown = busy,
                                   !.nextActivate = busy + tRP,
                                   !.nextRead = busy + tRP,
                                   !.nextWrite = busy + tRP]
    <3>1. BanksAfterWrite(p)[r][b] = after
      BY <2>4 DEF BanksAfterWrite
    <3>2. RanksAfterCommand'[r].bankStates[b] = new
      BY <2>3, <2>4 DEF BanksAfterCAS
    <3>3. IsOpen(bank) /\ bank.openRowAddress = p.row
      BY <2>4
    <3>4. /\ InStep(bank, own, after, new)
          /\ new.currentBankState = "ROW_ACTIVE"
          /\ new.openRowAddress = bank.openRowAddress
          /\ new.stateChangeCountdown = busy
      <4>1. busy \in Nat /\ busy >= 1 /\ busy + tRP \in Nat /\ busy + tRP <= busy + tRP
        BY TimingTypes, TimingPositive
      <4>2. /\ new.currentBankState = own.currentBankState
            /\ new.openRowAddress = own.openRowAddress
            /\ new.stateChangeCountdown = busy
        BY <2>1 DEF BankStates
      <4>3. Opened(own) /\ own.openRowAddress = bank.openRowAddress
        BY <2>1, <3>3 DEF Agrees
      <4>4. InStep(bank, own, after, new)
        <5>. HIDE DEF bank, own, busy
        <5>1. QED
          BY <2>1, <3>3, <4>1, CASInStep
      <4>. HIDE DEF bank, own, busy, after, new
      <4>5. QED
        BY <4>2, <4>3, <4>4 DEF Opened
    <3>. HIDE DEF after, new
    <3>5. Awaits(new, p, tCWL + BURST)
      BY <3>3, <3>4, TimingTypes DEF Awaits
    <3>6. QED
      BY <3>1, <3>2, <3>4, <3>5
  <2>5. CASE r = p.rank /\ b # p.bank
    <3>. DEFINE read == tCWL + BURST + tWTR
                write == SameKindAgain(TRUE)
                after == Postponed(bank, read, write)
                new == [own EXCEPT !.nextRead = Larger(@, tCCD),
                                   !.nextWrite = Larger(@, tCCD)]
    <3>1. BanksAfterWrite(p)[r][b] = after
      BY <2>5 DEF BanksAfterWrite
    <3>2. RanksAfterCommand'[r].bankStates[b] = new
      BY <2>3, <2>5 DEF BanksAfterCAS
    <3>3. /\ read \in Int /\ tCCD <= read /\ write \in Int /\ tCCD <= write
      BY TimingTypes, DeviceAssumption DEF SameKindAgain, Larger
    <3>4. InStep(bank, own, after, new)
      <4>. HIDE DEF bank, own, read, write
      <4>1. QED
        BY <2>1, <3>3, PostponedInStep
    <3>. HIDE DEF after, new
    <3>5. QED
      BY <2>5, <3>1, <3>2, <3>4
  <2>6. CASE r # p.rank
    <3>. DEFINE read == tCWL + BURST + (tRTRS - tCL)
                write == SameKindAgain(r = p.rank)
                after == Postponed(bank, read, write)
    <3>1. BanksAfterWrite(p)[r][b] = after
      BY <2>6 DEF BanksAfterWrite
    <3>2. RanksAfterCommand'[r].bankStates[b] = own
      BY <2>2, <2>6
    <3>3. read \in Int /\ write \in Int
      BY TimingTypes DEF SameKindAgain, Larger
    <3>4. InStep(bank, own, after, own)
      <4>. HIDE DEF bank, own, read, write
      <4>1. QED
        BY <2>1, <3>3, ElsewhereInStep
    <3>. HIDE DEF after
    <3>5. QED
      BY <2>6, <3>1, <3>2, <3>4
  <2>7. QED
    BY <2>4, <2>5, <2>6
<1>3. /\ RowOpen(ranks'[p.rank].bankStates[p.bank], p.row)
      /\ ranks'[p.rank].bankStates[p.bank].nextWrite = 0
  BY <1>1, RanksUpdated, AgreedBank
<1>4. ~ Refuses(ranks'[p.rank], p)
  BY <1>3 DEF Refuses
<1>5. QED
  BY <1>1, <1>2, <1>4 DEF CommandInStep, AllInStep, BankOf

-----------------------------------------------------------------------------
(* The queues of bursts                                                    *)

\* Where the i-th burst of a queue was before the cycle.
WasAt(queue, i) == IF HeadIsDue(queue) THEN i + 1 ELSE i

LEMMA BurstPlaces ==
    ASSUME NEW queue \in Seq(Burst)
    PROVE  /\ DOMAIN queue = 1 .. Len(queue) /\ Len(queue) \in Nat
           /\ \A i \in DOMAIN queue :
                 /\ queue[i] \in Burst /\ queue[i].packet \in BusPacket
                 /\ queue[i].countdown \in Nat
           /\ queue # << >> => 1 \in DOMAIN queue /\ Head(queue) = queue[1]
<1>1. DOMAIN queue = 1 .. Len(queue) /\ Len(queue) \in Nat
  BY LenProperties
<1>2. ASSUME NEW i \in DOMAIN queue
      PROVE  queue[i] \in Burst
  BY <1>1, ElementOfSeq
<1>3. \A e \in Burst : e.packet \in BusPacket /\ e.countdown \in Nat
  BY DEF Burst
<1>4. queue # << >> => 1 \in DOMAIN queue /\ Head(queue) = queue[1]
  <2>1. queue # << >> => Len(queue) >= 1
    BY <1>1, EmptySeq
  <2>2. QED
    BY <1>1, <2>1
<1>5. QED
  BY <1>1, <1>2, <1>3, <1>4

\* Every burst but the one that is sent moves on by a cycle.
LEMMA BurstsMoveOn ==
    ASSUME NEW queue \in Seq(Burst), NEW within \in Nat, Ordered(queue, within),
           NEW i \in DOMAIN AfterCountDown(queue)
    PROVE  LET after == AfterCountDown(queue)
               w == WasAt(queue, i) IN
           /\ i \in Nat /\ i >= 1
           /\ w \in DOMAIN queue
           /\ after[i].packet = queue[w].packet
           /\ after[i].countdown = queue[w].countdown - 1
           /\ after[i].countdown \in 1 .. within - 1
<1>. DEFINE after == AfterCountDown(queue)
            w == WasAt(queue, i)
<1>1. /\ DOMAIN queue = 1 .. Len(queue) /\ Len(queue) \in Nat
      /\ \A j \in DOMAIN queue : queue[j] \in Burst /\ queue[j].countdown \in Nat
      /\ queue # << >> => 1 \in DOMAIN queue /\ Head(queue) = queue[1]
  BY BurstPlaces
<1>2. w \in DOMAIN queue /\ after[i].packet = queue[w].packet
  BY AfterCountDownPacket DEF WasAt
<1>3. /\ CountDown(queue) \in Seq(Burst) /\ Len(CountDown(queue)) = Len(queue)
  BY CountDownType
<1>4. \A j \in DOMAIN queue :
         CountDown(queue)[j].countdown = Decremented(queue[j].countdown)
  BY <1>1 DEF CountDown, Burst
<1>5. /\ i \in Nat /\ i >= 1
      /\ after[i] = CountDown(queue)[w]
  <2>1. CASE HeadIsDue(queue)
    <3>1. after = Tail(CountDown(queue)) /\ Len(queue) >= 1
      BY <1>1, <2>1 DEF AfterCountDown, HeadIsDue
    <3>2. CountDown(queue) # << >>
      BY <1>3, <3>1, EmptySeq
    <3>3. DOMAIN after = 1 .. Len(queue) - 1 /\ after[i] = CountDown(queue)[i + 1]
      BY <1>1, <1>3, <3>1, <3>2
    <3>4. QED
      BY <1>1, <2>1, <3>3 DEF WasAt
  <2>2. CASE ~ HeadIsDue(queue)
    <3>1. after = CountDown(queue) /\ DOMAIN after = DOMAIN queue
      BY <2>2 DEF AfterCountDown, CountDown
    <3>2. QED
      BY <1>1, <2>2, <3>1 DEF WasAt
  <2>3. QED
    BY <2>1, <2>2
<1>6. queue[w].countdown \in 1 .. within /\ queue[w].countdown >= 2
  <2>1. queue[w].countdown \in 1 .. within
    BY <1>2 DEF Ordered
  <2>2. CASE HeadIsDue(queue)
    <3>1. w = i + 1 /\ queue[1].countdown = 1 /\ 1 \in DOMAIN queue
      BY <1>1, <2>2 DEF WasAt, HeadIsDue
    <3>2. queue[1].countdown < queue[w].countdown
      BY <1>2, <1>5, <3>1 DEF Ordered
    <3>3. QED
      BY <2>1, <3>1, <3>2
  <2>3. CASE ~ HeadIsDue(queue)
    <3>1. w = i /\ queue # << >>
      BY <1>1, <1>2, <2>3, EmptySeq DEF WasAt
    <3>2. queue[1].countdown # 1 /\ queue[1].countdown \in 1 .. within /\ 1 \in DOMAIN queue
      BY <1>1, <2>3, <3>1 DEF HeadIsDue, Ordered
    <3>3. w # 1 => queue[1].countdown < queue[w].countdown
      BY <1>1, <1>2, <1>5, <3>1, <3>2 DEF Ordered
    <3>4. QED
      BY <2>1, <3>2, <3>3
  <2>4. QED
    BY <2>2, <2>3
<1>7. after[i].countdown = queue[w].countdown - 1
  BY <1>2, <1>4, <1>5, <1>6 DEF Decremented
<1>8. QED
  BY <1>2, <1>5, <1>6, <1>7

LEMMA StillOrdered ==
    ASSUME NEW queue \in Seq(Burst), NEW within \in Nat, Ordered(queue, within)
    PROVE  Ordered(AfterCountDown(queue), within - 1)
<1>. DEFINE after == AfterCountDown(queue)
<1>1. \A i \in DOMAIN after : after[i].countdown \in 1 .. within - 1
  BY BurstsMoveOn
<1>2. ASSUME NEW i \in DOMAIN after, NEW j \in DOMAIN after, i < j
      PROVE  after[i].countdown < after[j].countdown
  <2>. DEFINE v == WasAt(queue, i)
              w == WasAt(queue, j)
  <2>1. /\ i \in Nat /\ v \in DOMAIN queue
        /\ after[i].countdown = queue[v].countdown - 1
        /\ j \in Nat /\ w \in DOMAIN queue
        /\ after[j].countdown = queue[w].countdown - 1
    BY BurstsMoveOn
  <2>2. v < w
    BY <1>2, <2>1 DEF WasAt
  <2>3. queue[v].countdown < queue[w].countdown
    BY <2>1, <2>2 DEF Ordered
  <2>4. queue[v].countdown \in Nat /\ queue[w].countdown \in Nat
    BY <2>1, BurstPlaces
  <2>5. QED
    BY <2>1, <2>3, <2>4
<1>3. QED
  BY <1>1, <1>2 DEF Ordered

LEMMA BurstAppended ==
    ASSUME NEW queue \in Seq(Burst), NEW e \in Burst
    PROVE  LET after == Append(queue, e) IN
           /\ after \in Seq(Burst)
           /\ DOMAIN after = 1 .. Len(queue) + 1
           /\ Len(queue) + 1 \notin DOMAIN queue
           /\ \A i \in DOMAIN after :
                 after[i] = IF i \in DOMAIN queue THEN queue[i] ELSE e
           /\ \A i \in DOMAIN after : i \in DOMAIN queue \/ i = Len(queue) + 1
<1>1. DOMAIN queue = 1 .. Len(queue) /\ Len(queue) \in Nat
  BY LenProperties
<1>2. QED
  BY <1>1, AppendProperties

LEMMA OrderedAppended ==
    ASSUME NEW queue \in Seq(Burst), NEW e \in Burst, NEW within \in Nat, within >= 1,
           Ordered(queue, within - 1), e.countdown = within
    PROVE  Ordered(Append(queue, e), within)
<1>. DEFINE after == Append(queue, e)
<1>1. /\ DOMAIN after = 1 .. Len(queue) + 1
      /\ DOMAIN queue = 1 .. Len(queue) /\ Len(queue) \in Nat
      /\ \A i \in DOMAIN after :
            after[i] = IF i \in DOMAIN queue THEN queue[i] ELSE e
  BY BurstAppended, BurstPlaces
<1>. HIDE DEF after
<1>2. \A i \in DOMAIN queue : queue[i].countdown \in 1 .. within - 1
  BY DEF Ordered
<1>3. ASSUME NEW i \in DOMAIN after
      PROVE  after[i].countdown \in 1 .. within
  BY <1>1, <1>2
<1>4. ASSUME NEW i \in DOMAIN after, NEW j \in DOMAIN after, i < j
      PROVE  after[i].countdown < after[j].countdown
  <2>1. i \in DOMAIN queue /\ after[i] = queue[i]
    BY <1>1, <1>4
  <2>2. CASE j \in DOMAIN queue
    BY <1>1, <1>4, <2>1, <2>2 DEF Ordered
  <2>3. CASE j \notin DOMAIN queue
    BY <1>1, <1>2, <2>1, <2>3
  <2>4. QED
    BY <2>2, <2>3
<1>5. QED
  BY <1>3, <1>4 DEF Ordered, after

\* A rank's queue when the READ on the bus, if it is for this rank, has arrived.
ReadArrives(r) ==
    /\ CommandArrives /\ inFlightCommandPacket.rank = r
    /\ inFlightCommandPacket.busPacketType = "READ_P"

ArrivedRead == [packet |-> AsType(inFlightCommandPacket, "READ_DATA"), countdown |-> tCL]

LEMMA RankQueueNow ==
    ASSUME TypeOK, NEW r \in Ranks
    PROVE  /\ ranks[r].readReturnQueue \in Seq(Burst)
           /\ RanksNow[r].readReturnQueue \in Seq(Burst)
           /\ RanksNow[r].readReturnQueue =
                 IF ReadArrives(r) THEN Append(ranks[r].readReturnQueue, ArrivedRead)
                                   ELSE ranks[r].readReturnQueue
           /\ ReadArrives(r) =>
                 /\ ArrivedRead \in Burst /\ ArrivedRead.countdown = tCL
                 /\ ArrivedRead.packet.busPacketType = "READ_DATA"
                 /\ ArrivedRead.packet.rank = inFlightCommandPacket.rank
<1>1. /\ ranks[r] \in RankStates /\ RanksAfterCommand[r] \in RankStates
      /\ RanksNow[r] \in RankStates
  BY NowTypes DEF TypeOK
<1>2. \A x \in RankStates : x.readReturnQueue \in Seq(Burst)
  BY DEF RankStates
<1>3. RanksNow[r].readReturnQueue = RanksAfterCommand[r].readReturnQueue
  <2>1. CASE WriteArrives /\ inFlightDataPacket.rank = r
    <3>1. inFlightDataPacket \in BusPacket /\ inFlightDataPacket.busPacketType = "WRITE_DATA"
      BY <2>1, AwaitedBanks DEF WriteArrives, DataArrives
    <3>2. RanksNow[r] = ReceiveFromBus(RanksAfterCommand[r], inFlightDataPacket)
      BY <2>1 DEF RanksNow
    <3>3. QED
      BY <1>1, <3>1, <3>2, ReceivedReads
  <2>2. CASE ~ (WriteArrives /\ inFlightDataPacket.rank = r)
    BY <2>2 DEF RanksNow
  <2>3. QED
    BY <2>1, <2>2
<1>4. RanksAfterCommand[r].readReturnQueue =
         IF ReadArrives(r) THEN Append(ranks[r].readReturnQueue, ArrivedRead)
                           ELSE ranks[r].readReturnQueue
  <2>1. CASE CommandArrives /\ inFlightCommandPacket.rank = r
    <3>1. inFlightCommandPacket \in BusPacket
      BY <2>1, AwaitedBanks DEF CommandArrives
    <3>2. RanksAfterCommand[r] = ReceiveFromBus(ranks[r], inFlightCommandPacket)
      BY <2>1 DEF RanksAfterCommand
    <3>3. QED
      BY <1>1, <2>1, <3>1, <3>2, ReceivedReads DEF ReadArrives, ArrivedRead
  <2>2. CASE ~ (CommandArrives /\ inFlightCommandPacket.rank = r)
    BY <2>2 DEF RanksAfterCommand, ReadArrives
  <2>3. QED
    BY <2>1, <2>2
<1>5. ASSUME ReadArrives(r)
      PROVE  /\ ArrivedRead \in Burst /\ ArrivedRead.countdown = tCL
             /\ ArrivedRead.packet.busPacketType = "READ_DATA"
             /\ ArrivedRead.packet.rank = inFlightCommandPacket.rank
  <2>1. inFlightCommandPacket \in BusPacket
    BY <1>5, AwaitedBanks DEF ReadArrives, CommandArrives
  <2>2. AsType(inFlightCommandPacket, "READ_DATA") \in BusPacket
    BY <2>1, AsTypeType DEF BusPacketTypes
  <2>3. /\ AsType(inFlightCommandPacket, "READ_DATA").busPacketType = "READ_DATA"
        /\ AsType(inFlightCommandPacket, "READ_DATA").rank = inFlightCommandPacket.rank
    BY <2>1 DEF AsType, BusPacket
  <2>4. QED
    BY <2>2, <2>3, TimingTypes DEF ArrivedRead, Burst
<1>6. QED
  BY <1>1, <1>2, <1>3, <1>4, <1>5

\* Every rank's queue when the buses have delivered.
LEMMA RankQueueOrdered ==
    ASSUME TimingInv, NEW r \in Ranks
    PROVE  /\ Ordered(RanksNow[r].readReturnQueue, tCL)
           /\ \A i \in DOMAIN RanksNow[r].readReturnQueue :
                 RanksNow[r].readReturnQueue[i].packet.busPacketType = "READ_DATA"
<1>. DEFINE queue == ranks[r].readReturnQueue
            now == RanksNow[r].readReturnQueue
<1>1. /\ TypeOK /\ Ordered(queue, tCL - 1)
      /\ \A i \in DOMAIN queue : queue[i].packet.busPacketType = "READ_DATA"
  BY DEF TimingInv, QueueInv, QueuesOrdered, DataNamed
<1>2. /\ queue \in Seq(Burst)
      /\ now = IF ReadArrives(r) THEN Append(queue, ArrivedRead) ELSE queue
      /\ ReadArrives(r) =>
            /\ ArrivedRead \in Burst /\ ArrivedRead.countdown = tCL
            /\ ArrivedRead.packet.busPacketType = "READ_DATA"
  BY <1>1, RankQueueNow
<1>3. tCL \in Nat /\ tCL >= 1
  BY TimingTypes, TimingPositive
<1>. HIDE DEF queue, now
<1>4. CASE ReadArrives(r)
  <2>1. Ordered(now, tCL)
    BY <1>1, <1>2, <1>3, <1>4, OrderedAppended
  <2>2. \A i \in DOMAIN now : now[i].packet.busPacketType = "READ_DATA"
    BY <1>1, <1>2, <1>4, BurstAppended
  <2>3. QED
    BY <2>1, <2>2 DEF now
<1>5. CASE ~ ReadArrives(r)
  <2>1. Ordered(queue, tCL)
    BY <1>1, <1>3 DEF Ordered
  <2>2. QED
    BY <1>1, <1>2, <1>5, <2>1 DEF now
<1>6. QED
  BY <1>4, <1>5

-----------------------------------------------------------------------------
(* The bursts move on                                                      *)

\* Burst x is burst u, so many cycles later.
Moved(x, u, cycles) == x.rank = u.rank /\ x.start = u.start - cycles

SlotType(x) == x.rank \in Ranks /\ x.start \in Int

LEMMA GapType ==
    ASSUME NEW r \in Ranks, NEW s \in Ranks
    PROVE  Gap(r, s) \in Nat /\ Gap(r, s) = (IF r = s THEN 0 ELSE tRTRS) /\ Gap(r, r) = 0
  BY TimingTypes DEF Gap

LEMMA MovedApart ==
    ASSUME NEW x, NEW y, NEW u, NEW v, NEW cycles \in Int, SlotType(u), SlotType(v),
           Moved(x, u, cycles), Moved(y, v, cycles), Apart(u, v)
    PROVE  Apart(x, y)
<1>1. Gap(u.rank, v.rank) \in Nat
  BY GapType DEF SlotType
<1>2. u.start \in Int /\ v.start \in Int
  BY DEF SlotType
<1>3. BURST \in Nat
  BY TimingTypes
<1>4. QED
  BY <1>1, <1>2, <1>3 DEF Apart, Moved

\* The waits of a bank, for a READ and for a WRITE.
ReadWait(bank) == CASWait(bank, bank.nextRead)
WriteWait(bank) == CASWait(bank, bank.nextWrite)

LEMMA WaitTypes ==
    ASSUME NEW bank \in BankStates
    PROVE  /\ ReadWait(bank) \in Nat /\ WriteWait(bank) \in Nat
           /\ bank.nextRead <= ReadWait(bank) /\ bank.nextWrite <= WriteWait(bank)
           /\ ~ IsOpen(bank) =>
                 /\ bank.nextActivate + tRCD <= ReadWait(bank)
                 /\ bank.nextActivate + tRCD <= WriteWait(bank)
<1>1. /\ bank.nextActivate \in Nat /\ bank.nextRead \in Nat /\ bank.nextWrite \in Nat
      /\ tRCD \in Nat
  BY TimingTypes DEF BankStates
<1>2. QED
  BY <1>1 DEF ReadWait, WriteWait, CASWait, Larger

\* A bank clears a burst as long as it waits no less.
LEMMA WaitsClear ==
    ASSUME NEW bank \in BankStates, NEW after \in BankStates, NEW r \in Ranks, NEW u,
           SlotType(u), Clears(bank, r, u),
           ReadWait(bank) <= ReadWait(after), WriteWait(bank) <= WriteWait(after)
    PROVE  Clears(after, r, u)
<1>1. /\ ReadWait(bank) \in Nat /\ WriteWait(bank) \in Nat
      /\ ReadWait(after) \in Nat /\ WriteWait(after) \in Nat
  BY WaitTypes
<1>2. /\ Gap(u.rank, r) \in Nat /\ u.start \in Int
      /\ tCL \in Nat /\ tCWL \in Nat /\ BURST \in Nat
  BY GapType, TimingTypes DEF SlotType
<1>3. /\ u.start + BURST + Gap(u.rank, r) <= 1 + tCL + ReadWait(bank)
      /\ u.start + BURST + Gap(u.rank, r) <= 1 + tCWL + WriteWait(bank)
  BY DEF Clears, ReadWait, WriteWait
<1>4. /\ u.start + BURST + Gap(u.rank, r) <= 1 + tCL + ReadWait(after)
      /\ u.start + BURST + Gap(u.rank, r) <= 1 + tCWL + WriteWait(after)
  BY <1>1, <1>2, <1>3
<1>5. QED
  BY <1>4 DEF Clears, ReadWait, WriteWait

\* A cycle brings the burst and the CASs nearer alike.
LEMMA CycleClears ==
    ASSUME NEW bank \in BankStates, NEW r \in Ranks, NEW u, NEW x,
           SlotType(u), Moved(x, u, 1), Clears(bank, r, u)
    PROVE  Clears(Elapse(bank), r, x)
<1>. DEFINE new == Elapse(bank)
<1>1. /\ new.nextActivate = OneLess(bank.nextActivate)
      /\ new.nextRead = OneLess(bank.nextRead) /\ new.nextWrite = OneLess(bank.nextWrite)
      /\ IsOpen(new) <=> IsOpen(bank)
  BY DEF Elapse, IsOpen, BankStates
<1>2. /\ bank.nextActivate \in Nat /\ bank.nextRead \in Nat /\ bank.nextWrite \in Nat
      /\ tRCD \in Nat /\ tRCD >= 1
  BY TimingTypes, TimingPositive DEF BankStates
<1>. HIDE DEF new
<1>3. ASSUME NEW n \in Nat
      PROVE  CASWait(bank, n) - 1 <= CASWait(new, OneLess(n))
  BY <1>1, <1>2 DEF CASWait, Larger, OneLess
<1>4. /\ ReadWait(bank) - 1 <= ReadWait(new) /\ WriteWait(bank) - 1 <= WriteWait(new)
  BY <1>1, <1>2, <1>3 DEF ReadWait, WriteWait
<1>5. /\ ReadWait(bank) \in Nat /\ WriteWait(bank) \in Nat
      /\ ReadWait(new) \in Nat /\ WriteWait(new) \in Nat
  <2>1. new \in BankStates
    BY BankTypes DEF new
  <2>2. QED
    BY <2>1, WaitTypes
<1>6. /\ Gap(u.rank, r) \in Nat /\ u.start \in Int /\ x.rank = u.rank
      /\ x.start = u.start - 1
      /\ tCL \in Nat /\ tCWL \in Nat /\ BURST \in Nat
  BY GapType, TimingTypes DEF SlotType, Moved
<1>7. /\ u.start + BURST + Gap(u.rank, r) <= 1 + tCL + ReadWait(bank)
      /\ u.start + BURST + Gap(u.rank, r) <= 1 + tCWL + WriteWait(bank)
  BY DEF Clears, ReadWait, WriteWait
<1>8. /\ x.start + BURST + Gap(x.rank, r) <= 1 + tCL + ReadWait(new)
      /\ x.start + BURST + Gap(x.rank, r) <= 1 + tCWL + WriteWait(new)
  BY <1>4, <1>5, <1>6, <1>7
<1>9. QED
  BY <1>8 DEF Clears, ReadWait, WriteWait, new

-----------------------------------------------------------------------------
(* A command keeps later CASs clear of every burst, and of its own         *)

LEMMA ClearsNow ==
    ASSUME TypeOK, BanksSettled, NEW r \in Ranks, NEW b \in Banks, NEW u,
           Clears(bankStates[r][b], r, u)
    PROVE  Clears(BanksNow[r][b], r, u)
<1>1. bankStates[r][b] \in BankStates /\ BanksNow[r][b] = UpdateStateChange(bankStates[r][b])
  BY DEF TypeOK, ControllerTypeOK, BanksNow
<1>2. /\ BanksNow[r][b].nextActivate = bankStates[r][b].nextActivate
      /\ BanksNow[r][b].nextRead = bankStates[r][b].nextRead
      /\ BanksNow[r][b].nextWrite = bankStates[r][b].nextWrite
  BY <1>1, StateChangeWaits
<1>3. IsOpen(BanksNow[r][b]) <=> IsOpen(bankStates[r][b])
  BY NowSettled DEF Kept
<1>4. QED
  BY <1>2, <1>3 DEF Clears, CASWait

LEMMA PostponedWaits ==
    ASSUME NEW bank \in BankStates, NEW read \in Int, NEW write \in Int
    PROVE  LET after == Postponed(bank, read, write) IN
           /\ after \in BankStates
           /\ ReadWait(bank) <= ReadWait(after) /\ WriteWait(bank) <= WriteWait(after)
           /\ read <= ReadWait(after) /\ write <= WriteWait(after)
<1>. DEFINE after == Postponed(bank, read, write)
<1>1. /\ bank.nextActivate \in Nat /\ bank.nextRead \in Nat /\ bank.nextWrite \in Nat
      /\ tRCD \in Nat
  BY TimingTypes DEF BankStates
<1>2. /\ after.nextActivate = bank.nextActivate
      /\ after.nextRead = Larger(bank.nextRead, read)
      /\ after.nextWrite = Larger(bank.nextWrite, write)
      /\ IsOpen(after) <=> IsOpen(bank)
  BY DEF Postponed, BankStates, IsOpen
<1>3. Larger(bank.nextRead, read) \in Nat /\ Larger(bank.nextWrite, write) \in Nat
  BY <1>1 DEF Larger
<1>4. after \in BankStates
  BY <1>3 DEF Postponed, BankStates
<1>. HIDE DEF after
<1>5. /\ ReadWait(bank) <= ReadWait(after) /\ read <= ReadWait(after)
  BY <1>1, <1>2 DEF ReadWait, CASWait, Larger
<1>6. /\ WriteWait(bank) <= WriteWait(after) /\ write <= WriteWait(after)
  BY <1>1, <1>2 DEF WriteWait, CASWait, Larger
<1>7. QED
  BY <1>4, <1>5, <1>6 DEF after

LEMMA ClosingWaits ==
    ASSUME NEW bank \in BankStates, NEW type \in {"READ_P", "WRITE_P"},
           NEW busy \in Nat, NEW until \in Nat
    PROVE  LET after == Closing(bank, type, busy, until) IN
           ReadWait(after) = until + tRCD /\ WriteWait(after) = until + tRCD
<1>. DEFINE after == Closing(bank, type, busy, until)
<1>1. /\ after.lastCommand = type /\ after.nextActivate = until
      /\ after.nextRead = until /\ after.nextWrite = until
  BY DEF Closing, BankStates
<1>2. tRCD \in Nat
  BY TimingTypes
<1>. HIDE DEF after
<1>3. ~ IsOpen(after)
  BY <1>1 DEF IsOpen
<1>4. ReadWait(after) = until + tRCD /\ WriteWait(after) = until + tRCD
  BY <1>1, <1>2, <1>3 DEF ReadWait, WriteWait, CASWait, Larger
<1>5. QED
  BY <1>4 DEF after

\* What a decision has to keep: later CASs clear of every burst, of its own too.
KeepsClear(after) ==
    \A r \in Ranks, b \in Banks : \A u :
        SlotType(u) /\ Clears(BanksNow[r][b], r, u) => Clears(after[r][b], r, u)

ClearsOwn(after, n) ==
    \A r \in Ranks, b \in Banks : Clears(after[r][b], r, n)

LEMMA ReadKeepsClear ==
    ASSUME TimingInv, NEW p \in BusPacket,
           IsOpen(BanksNow[p.rank][p.bank]), BanksNow[p.rank][p.bank].nextRead = 0,
           NEW n, n.rank = p.rank, n.start = tCL + 1
    PROVE  KeepsClear(BanksAfterRead(p)) /\ ClearsOwn(BanksAfterRead(p), n)
<1>1. p.rank \in Ranks /\ p.bank \in Banks
  BY DEF BusPacket
<1>2. TypeOK /\ BanksSettled
  BY DEF TimingInv, QueueInv
<1>3. SlotType(n)
  BY <1>1, TimingTypes DEF SlotType
<1>4. ASSUME NEW r \in Ranks, NEW b \in Banks
      PROVE  /\ \A u : SlotType(u) /\ Clears(BanksNow[r][b], r, u)
                         => Clears(BanksAfterRead(p)[r][b], r, u)
             /\ Clears(BanksAfterRead(p)[r][b], r, n)
  <2>. DEFINE bank == BanksNow[r][b]
  <2>1. bank \in BankStates
    BY <1>2, NowSettled
  <2>2. CASE r = p.rank /\ b = p.bank
    <3>. DEFINE until == ActivateAfterRead(bank)
                after == Closing(bank, "READ_P", tRTPc, until)
    <3>1. BanksAfterRead(p)[r][b] = after
      BY <2>2 DEF BanksAfterRead
    <3>2. until \in Nat /\ tRTP + tRP <= until
      <4>1. bank.nextActivate \in Nat /\ tRTP \in Nat /\ tRP \in Nat
        BY <2>1, TimingTypes DEF BankStates
      <4>. HIDE DEF bank
      <4>2. QED
        BY <4>1 DEF ActivateAfterRead, Larger
    <3>3. ReadWait(after) = until + tRCD /\ WriteWait(after) = until + tRCD
      <4>. HIDE DEF bank, until
      <4>1. QED
        BY <2>1, <3>2, ClosingWaits, TimingTypes
    <3>. HIDE DEF after, until
    <3>4. ASSUME NEW u, SlotType(u), Clears(bank, r, u)
          PROVE  Clears(after, r, u)
      <4>1. IsOpen(bank) /\ bank.nextRead = 0
        BY <2>2
      <4>2. u.start + BURST + Gap(u.rank, r) <= 1 + tCL
        BY <3>4, <4>1, TimingTypes DEF Clears, CASWait
      <4>3. u.start \in Int /\ Gap(u.rank, r) \in Nat
        BY <3>4, GapType DEF SlotType
      <4>4. /\ u.start + BURST + Gap(u.rank, r) <= 1 + tCL + ReadWait(after)
            /\ u.start + BURST + Gap(u.rank, r) <= 1 + tCWL + WriteWait(after)
        <5>1. tCL + BURST <= until + tRCD + tCWL
          BY <3>2, TimingTypes, DeviceAssumption
        <5>2. QED
          BY <3>2, <3>3, <4>2, <4>3, <5>1, TimingTypes
      <4>5. QED
        BY <4>4 DEF Clears, ReadWait, WriteWait
    <3>5. Clears(after, r, n)
      <4>1. Gap(n.rank, r) = 0
        BY <2>2, GapType
      <4>2. /\ tCL + BURST <= until + tRCD + tCWL /\ BURST <= until + tRCD
        BY <3>2, TimingTypes, DeviceAssumption
      <4>3. /\ n.start + BURST + Gap(n.rank, r) <= 1 + tCL + ReadWait(after)
            /\ n.start + BURST + Gap(n.rank, r) <= 1 + tCWL + WriteWait(after)
        BY <3>2, <3>3, <4>1, <4>2, TimingTypes
      <4>4. QED
        BY <4>3 DEF Clears, ReadWait, WriteWait
    <3>6. QED
      BY <3>1, <3>4, <3>5
  <2>3. CASE ~ (r = p.rank /\ b = p.bank)
    <3>. DEFINE read == SameKindAgain(r = p.rank)
                write == tCL + BURST + tRTRS - tCWL
                after == Postponed(bank, read, write)
    <3>1. BanksAfterRead(p)[r][b] = after
      BY <2>3 DEF BanksAfterRead
    <3>2. /\ read \in Int /\ write \in Int
          /\ BURST + Gap(n.rank, r) <= read
          /\ tCL + BURST + Gap(n.rank, r) <= tCWL + write
      <4>1. Gap(n.rank, r) = IF r = p.rank THEN 0 ELSE tRTRS
        BY DEF Gap
      <4>2. /\ read = IF r = p.rank THEN Larger(tCCD, BURST) ELSE BURST + tRTRS
            /\ Larger(tCCD, BURST) \in Nat /\ BURST <= Larger(tCCD, BURST)
        BY TimingTypes DEF SameKindAgain, Larger
      <4>. HIDE DEF read
      <4>3. QED
        BY <4>1, <4>2, TimingTypes
    <3>3. /\ after \in BankStates
          /\ ReadWait(bank) <= ReadWait(after) /\ WriteWait(bank) <= WriteWait(after)
          /\ read <= ReadWait(after) /\ write <= WriteWait(after)
      <4>. HIDE DEF bank, read, write
      <4>1. QED
        BY <2>1, <3>2, PostponedWaits
    <3>. HIDE DEF after, bank, read, write
    <3>4. \A u : SlotType(u) /\ Clears(bank, r, u) => Clears(after, r, u)
      BY <2>1, <3>3, WaitsClear
    <3>5. Clears(after, r, n)
      <4>1. ReadWait(after) \in Nat /\ WriteWait(after) \in Nat /\ Gap(n.rank, r) \in Nat
        BY <1>1, <3>3, WaitTypes, GapType
      <4>2. /\ n.start + BURST + Gap(n.rank, r) <= 1 + tCL + ReadWait(after)
            /\ n.start + BURST + Gap(n.rank, r) <= 1 + tCWL + WriteWait(after)
        BY <3>2, <3>3, <4>1, TimingTypes
      <4>3. QED
        BY <4>2 DEF Clears, ReadWait, WriteWait
    <3>6. QED
      BY <3>1, <3>4, <3>5 DEF bank
  <2>4. QED
    BY <2>2, <2>3
<1>5. QED
  BY <1>4 DEF KeepsClear, ClearsOwn

LEMMA WriteKeepsClear ==
    ASSUME TimingInv, NEW p \in BusPacket,
           IsOpen(BanksNow[p.rank][p.bank]), BanksNow[p.rank][p.bank].nextWrite = 0,
           NEW n, n.rank = p.rank, n.start = tCWL + 1
    PROVE  KeepsClear(BanksAfterWrite(p)) /\ ClearsOwn(BanksAfterWrite(p), n)
<1>1. p.rank \in Ranks /\ p.bank \in Banks
  BY DEF BusPacket
<1>2. TypeOK /\ BanksSettled
  BY DEF TimingInv, QueueInv
<1>3. ASSUME NEW r \in Ranks, NEW b \in Banks
      PROVE  /\ \A u : SlotType(u) /\ Clears(BanksNow[r][b], r, u)
                         => Clears(BanksAfterWrite(p)[r][b], r, u)
             /\ Clears(BanksAfterWrite(p)[r][b], r, n)
  <2>. DEFINE bank == BanksNow[r][b]
  <2>1. bank \in BankStates
    BY <1>2, NowSettled
  <2>2. CASE r = p.rank /\ b = p.bank
    <3>. DEFINE busy == tCWL + BURST + tWR
                until == busy + tRP
                after == Closing(bank, "WRITE_P", busy, until)
    <3>1. BanksAfterWrite(p)[r][b] = after
      BY <2>2 DEF BanksAfterWrite
    <3>2. busy \in Nat /\ until \in Nat /\ tCWL + BURST <= until
      BY TimingTypes
    <3>3. ReadWait(after) = until + tRCD /\ WriteWait(after) = until + tRCD
      <4>. HIDE DEF bank, busy, until
      <4>1. QED
        BY <2>1, <3>2, ClosingWaits
    <3>. HIDE DEF after, busy, until
    <3>4. ASSUME NEW u, SlotType(u), Clears(bank, r, u)
          PROVE  Clears(after, r, u)
      <4>1. IsOpen(bank) /\ bank.nextWrite = 0
        BY <2>2
      <4>2. u.start + BURST + Gap(u.rank, r) <= 1 + tCWL
        BY <3>4, <4>1, TimingTypes DEF Clears, CASWait
      <4>3. u.start \in Int /\ Gap(u.rank, r) \in Nat
        BY <3>4, GapType DEF SlotType
      <4>4. /\ u.start + BURST + Gap(u.rank, r) <= 1 + tCL + ReadWait(after)
            /\ u.start + BURST + Gap(u.rank, r) <= 1 + tCWL + WriteWait(after)
        BY <3>2, <3>3, <4>2, <4>3, TimingTypes
      <4>5. QED
        BY <4>4 DEF Clears, ReadWait, WriteWait
    <3>5. Clears(after, r, n)
      <4>1. Gap(n.rank, r) = 0
        BY <2>2, GapType
      <4>2. /\ n.start + BURST + Gap(n.rank, r) <= 1 + tCL + ReadWait(after)
            /\ n.start + BURST + Gap(n.rank, r) <= 1 + tCWL + WriteWait(after)
        BY <3>2, <3>3, <4>1, TimingTypes
      <4>3. QED
        BY <4>2 DEF Clears, ReadWait, WriteWait
    <3>6. QED
      BY <3>1, <3>4, <3>5
  <2>3. CASE ~ (r = p.rank /\ b = p.bank)
    <3>. DEFINE read == tCWL + BURST + (IF r = p.rank THEN tWTR ELSE tRTRS - tCL)
                write == SameKindAgain(r = p.rank)
                after == Postponed(bank, read, write)
    <3>1. BanksAfterWrite(p)[r][b] = after
      BY <2>3 DEF BanksAfterWrite
    <3>2. /\ read \in Int /\ write \in Int
          /\ tCWL + BURST + Gap(n.rank, r) <= tCL + read
          /\ BURST + Gap(n.rank, r) <= write
      <4>1. Gap(n.rank, r) = IF r = p.rank THEN 0 ELSE tRTRS
        BY DEF Gap
      <4>2. /\ write = IF r = p.rank THEN Larger(tCCD, BURST) ELSE BURST + tRTRS
            /\ Larger(tCCD, BURST) \in Nat /\ BURST <= Larger(tCCD, BURST)
        BY TimingTypes DEF SameKindAgain, Larger
      <4>. HIDE DEF write
      <4>3. QED
        BY <4>1, <4>2, TimingTypes
    <3>3. /\ after \in BankStates
          /\ ReadWait(bank) <= ReadWait(after) /\ WriteWait(bank) <= WriteWait(after)
          /\ read <= ReadWait(after) /\ write <= WriteWait(after)
      <4>. HIDE DEF bank, read, write
      <4>1. QED
        BY <2>1, <3>2, PostponedWaits
    <3>. HIDE DEF after, bank, read, write
    <3>4. \A u : SlotType(u) /\ Clears(bank, r, u) => Clears(after, r, u)
      BY <2>1, <3>3, WaitsClear
    <3>5. Clears(after, r, n)
      <4>1. ReadWait(after) \in Nat /\ WriteWait(after) \in Nat /\ Gap(n.rank, r) \in Nat
        BY <1>1, <3>3, WaitTypes, GapType
      <4>2. /\ n.start + BURST + Gap(n.rank, r) <= 1 + tCL + ReadWait(after)
            /\ n.start + BURST + Gap(n.rank, r) <= 1 + tCWL + WriteWait(after)
        BY <3>2, <3>3, <4>1, TimingTypes
      <4>3. QED
        BY <4>2 DEF Clears, ReadWait, WriteWait
    <3>6. QED
      BY <3>1, <3>4, <3>5 DEF bank
  <2>4. QED
    BY <2>2, <2>3
<1>4. QED
  BY <1>3 DEF KeepsClear, ClearsOwn

LEMMA OthersKeepClear ==
    ASSUME TimingInv
    PROVE  /\ KeepsClear(BanksNow)
           /\ \A q \in Ranks : RefreshIsIssuable(q) => KeepsClear(BanksAfterRefresh(q))
           /\ \A p \in BusPacket :
                 Quiet(BanksNow[p.rank][p.bank]) => KeepsClear(BanksAfterActivateCommand(p))
<1>1. TypeOK /\ BanksSettled
  BY DEF TimingInv, QueueInv
<1>2. ASSUME NEW q \in Ranks, RefreshIsIssuable(q), NEW r \in Ranks, NEW b \in Banks,
             NEW u, SlotType(u), Clears(BanksNow[r][b], r, u)
      PROVE  Clears(BanksAfterRefresh(q)[r][b], r, u)
  <2>. DEFINE bank == BanksNow[r][b]
              after == Refreshing(bank)
  <2>1. bank \in BankStates /\ after \in BankStates
    BY <1>1, NowSettled, BankTypes
  <2>2. CASE r = q
    <3>1. BanksAfterRefresh(q)[r][b] = after
      BY <2>2 DEF BanksAfterRefresh, BanksNow
    <3>2. Quiet(bank)
      BY <1>2, <2>2 DEF RefreshIsIssuable
    <3>3. /\ after.currentBankState = "REFRESHING" /\ after.nextActivate = tRFC
          /\ after.nextRead = bank.nextRead /\ after.nextWrite = bank.nextWrite
      BY <2>1 DEF Refreshing, BankStates
    <3>4. /\ bank.nextRead \in Nat /\ bank.nextWrite \in Nat /\ bank.nextActivate = 0
          /\ tRFC \in Nat /\ tRCD \in Nat
      BY <2>1, <3>2, TimingTypes DEF BankStates, Quiet
    <3>. HIDE DEF after, bank
    <3>5. ~ IsOpen(bank) /\ ~ IsOpen(after)
      BY <3>2, <3>3 DEF Quiet, IsOpen
    <3>6. ReadWait(bank) <= ReadWait(after) /\ WriteWait(bank) <= WriteWait(after)
      BY <3>3, <3>4, <3>5 DEF ReadWait, WriteWait, CASWait, Larger
    <3>7. Clears(after, r, u)
      BY <1>2, <2>1, <3>6, WaitsClear DEF bank
    <3>8. QED
      BY <3>1, <3>7
  <2>3. CASE r # q
    <3>1. BanksAfterRefresh(q)[r][b] = bank
      BY <2>3 DEF BanksAfterRefresh, BanksNow
    <3>2. QED
      BY <1>2, <3>1
  <2>4. QED
    BY <2>2, <2>3
<1>3. ASSUME NEW p \in BusPacket, Quiet(BanksNow[p.rank][p.bank]),
             NEW r \in Ranks, NEW b \in Banks,
             NEW u, SlotType(u), Clears(BanksNow[r][b], r, u)
      PROVE  Clears(BanksAfterActivateCommand(p)[r][b], r, u)
  <2>. DEFINE bank == BanksNow[r][b]
              after == BanksAfterActivateCommand(p)[r][b]
  <2>1. bank \in BankStates /\ after \in BankStates
    BY <1>1, NowSettled, BanksAfterTypes DEF TypeOK
  <2>2. /\ bank.nextActivate \in Nat /\ bank.nextRead \in Nat /\ bank.nextWrite \in Nat
        /\ tRCD \in Nat /\ tRRD \in Nat
    BY <2>1, TimingTypes DEF BankStates
  <2>3. CASE r = p.rank /\ b = p.bank
    <3>1. after = [bank EXCEPT !.lastCommand = "ACTIVATE",
                               !.currentBankState = "ROW_ACTIVE",
                               !.openRowAddress = p.row,
                               !.nextActivate = tRC,
                               !.nextRead = Larger(@, tRCD),
                               !.nextWrite = Larger(@, tRCD)]
      BY <2>3 DEF BanksAfterActivateCommand
    <3>2. /\ after.currentBankState = "ROW_ACTIVE" /\ after.lastCommand = "ACTIVATE"
          /\ after.nextRead = Larger(bank.nextRead, tRCD)
          /\ after.nextWrite = Larger(bank.nextWrite, tRCD)
      BY <2>1, <3>1 DEF BankStates
    <3>3. Quiet(bank)
      BY <1>3, <2>3
    <3>. HIDE DEF after, bank
    <3>4. ~ IsOpen(bank) /\ IsOpen(after) /\ bank.nextActivate = 0
      BY <3>2, <3>3 DEF Quiet, IsOpen
    <3>5. ReadWait(bank) <= ReadWait(after) /\ WriteWait(bank) <= WriteWait(after)
      BY <2>2, <3>2, <3>4 DEF ReadWait, WriteWait, CASWait, Larger
    <3>6. Clears(after, r, u)
      BY <1>3, <2>1, <3>5, WaitsClear DEF bank
    <3>7. QED
      BY <3>6 DEF after
  <2>4. CASE r = p.rank /\ b # p.bank
    <3>1. after = [bank EXCEPT !.nextActivate = Larger(@, tRRD)]
      BY <2>4 DEF BanksAfterActivateCommand
    <3>2. /\ after.nextActivate = Larger(bank.nextActivate, tRRD)
          /\ after.nextRead = bank.nextRead /\ after.nextWrite = bank.nextWrite
          /\ IsOpen(after) <=> IsOpen(bank)
      BY <2>1, <3>1 DEF BankStates, IsOpen
    <3>. HIDE DEF after, bank
    <3>3. ReadWait(bank) <= ReadWait(after) /\ WriteWait(bank) <= WriteWait(after)
      BY <2>2, <3>2 DEF ReadWait, WriteWait, CASWait, Larger
    <3>4. Clears(after, r, u)
      BY <1>3, <2>1, <3>3, WaitsClear DEF bank
    <3>5. QED
      BY <3>4 DEF after
  <2>5. CASE r # p.rank
    <3>1. after = bank
      BY <2>5 DEF BanksAfterActivateCommand
    <3>2. QED
      BY <1>3, <3>1
  <2>6. QED
    BY <2>3, <2>4, <2>5
<1>4. QED
  BY <1>2, <1>3 DEF KeepsClear

-----------------------------------------------------------------------------
(* The bursts when the buses have delivered                                *)

\* The place in its rank's queue that the READ on the bus takes.
ReadPlace ==
    <<"read", inFlightCommandPacket.rank,
      Len(ranks[inFlightCommandPacket.rank].readReturnQueue) + 1>>

ReadIsArriving == CommandArrives /\ inFlightCommandPacket.busPacketType = "READ_P"

\* Where a burst was before the buses delivered.
Departure(at) ==
    IF ReadIsArriving /\ at = ReadPlace THEN <<"command", 0, 0>> ELSE at

LEMMA SlotFields ==
    ASSUME NEW at, NEW p, NEW start
    PROVE  /\ Slot(at, p, start).at = at /\ Slot(at, p, start).rank = p.rank
           /\ Slot(at, p, start).start = start
  BY DEF Slot

LEMMA SlotsTyped ==
    ASSUME TypeOK, NEW u \in Slots
    PROVE  SlotType(u)
<1>1. \A p \in BusPacket : p.rank \in Ranks
  BY DEF BusPacket
<1>2. ASSUME NEW at, NEW p \in BusPacket, NEW start \in Int, u = Slot(at, p, start)
      PROVE  SlotType(u)
  BY <1>1, <1>2 DEF Slot, SlotType
<1>3. BURST \in Nat /\ tCL \in Nat
  BY TimingTypes
<1>4. CASE u \in DataSlots
  <2>1. PICK p \in {inFlightDataPacket} \ {NULL} :
           u = Slot(<<"data", 0, 0>>, p, inFlightDataCountdown - BURST)
    BY <1>4 DEF DataSlots
  <2>2. p \in BusPacket /\ inFlightDataCountdown - BURST \in Int
    BY <1>3, <2>1 DEF TypeOK
  <2>3. QED
    BY <1>2, <2>1, <2>2
<1>5. CASE u \in CommandSlots
  <2>1. PICK p \in {q \in {inFlightCommandPacket} \ {NULL} : q.busPacketType = "READ_P"} :
           u = Slot(<<"command", 0, 0>>, p, tCL)
    BY <1>5 DEF CommandSlots
  <2>2. p \in BusPacket
    BY <2>1 DEF TypeOK
  <2>3. QED
    BY <1>2, <1>3, <2>1, <2>2
<1>6. CASE u \in WriteSlots
  <2>1. PICK i \in DOMAIN writeBurstQueue :
           u = Slot(<<"write", 0, i>>, writeBurstQueue[i].packet, writeBurstQueue[i].countdown)
    BY <1>6 DEF WriteSlots
  <2>2. writeBurstQueue[i].packet \in BusPacket /\ writeBurstQueue[i].countdown \in Int
    BY AwaitedBanks
  <2>3. QED
    BY <1>2, <2>1, <2>2
<1>7. ASSUME NEW r \in Ranks, u \in ReadSlots(ranks[r].readReturnQueue, r)
      PROVE  SlotType(u)
  <2>. DEFINE queue == ranks[r].readReturnQueue
  <2>1. PICK i \in DOMAIN queue :
           u = Slot(<<"read", r, i>>, queue[i].packet, queue[i].countdown)
    BY <1>7 DEF ReadSlots
  <2>2. queue \in Seq(Burst)
    BY RankQueueNow
  <2>3. queue[i].packet \in BusPacket /\ queue[i].countdown \in Int
    BY <2>2, BurstPlaces
  <2>4. QED
    BY <1>2, <2>1, <2>3
<1>8. QED
  BY <1>4, <1>5, <1>6, <1>7 DEF Slots

\* What the bursts are that a rank has to return.
LEMMA ReadSlotOf ==
    ASSUME NEW queue, NEW r, NEW u
    PROVE  u \in ReadSlots(queue, r) <=>
              \E i \in DOMAIN queue :
                 u = Slot(<<"read", r, i>>, queue[i].packet, queue[i].countdown)
  BY DEF ReadSlots

\* Every burst was there before the buses delivered.
LEMMA SlotsDeparted ==
    ASSUME TypeOK, NEW x \in SlotsNow
    PROVE  /\ \E u \in Slots : Moved(x, u, 0) /\ u.at = Departure(x.at)
           /\ x.at # <<"command", 0, 0>>
<1>1. ASSUME x \in Slots, Departure(x.at) = x.at
      PROVE  \E u \in Slots : Moved(x, u, 0) /\ u.at = Departure(x.at)
  <2>1. x.start \in Int
    BY <1>1, SlotsTyped DEF SlotType
  <2>2. Moved(x, x, 0)
    BY <2>1 DEF Moved
  <2>3. QED
    BY <1>1, <2>2
<1>2. CASE x \in DataSlots
  <2>1. x.at = <<"data", 0, 0>>
    BY <1>2, SlotFields DEF DataSlots
  <2>2. x.at # ReadPlace /\ x.at # <<"command", 0, 0>>
    BY <2>1 DEF ReadPlace
  <2>3. x \in Slots
    BY <1>2 DEF Slots
  <2>4. Departure(x.at) = x.at
    BY <2>2 DEF Departure
  <2>5. QED
    BY <1>1, <2>2, <2>3, <2>4
<1>3. CASE x \in WriteSlots
  <2>1. PICK i \in DOMAIN writeBurstQueue :
           x = Slot(<<"write", 0, i>>, writeBurstQueue[i].packet, writeBurstQueue[i].countdown)
    BY <1>3 DEF WriteSlots
  <2>2. x.at # ReadPlace /\ x.at # <<"command", 0, 0>>
    BY <2>1, SlotFields DEF ReadPlace
  <2>3. x \in Slots
    BY <1>3 DEF Slots
  <2>4. Departure(x.at) = x.at
    BY <2>2 DEF Departure
  <2>5. QED
    BY <1>1, <2>2, <2>3, <2>4
<1>4. ASSUME NEW r \in Ranks, x \in ReadSlots(RanksNow[r].readReturnQueue, r)
      PROVE  /\ \E u \in Slots : Moved(x, u, 0) /\ u.at = Departure(x.at)
             /\ x.at # <<"command", 0, 0>>
  <2>. DEFINE queue == ranks[r].readReturnQueue
              now == RanksNow[r].readReturnQueue
  <2>1. PICK i \in DOMAIN now :
           x = Slot(<<"read", r, i>>, now[i].packet, now[i].countdown)
    BY <1>4, ReadSlotOf
  <2>2. x.at = <<"read", r, i>> /\ x.at # <<"command", 0, 0>>
    BY <2>1, SlotFields
  <2>3. /\ queue \in Seq(Burst)
        /\ now = IF ReadArrives(r) THEN Append(queue, ArrivedRead) ELSE queue
        /\ ReadArrives(r) =>
              /\ ArrivedRead \in Burst /\ ArrivedRead.countdown = tCL
              /\ ArrivedRead.packet.rank = inFlightCommandPacket.rank
    BY RankQueueNow
  <2>4. DOMAIN queue = 1 .. Len(queue) /\ Len(queue) \in Nat
    BY <2>3, BurstPlaces
  <2>5. CASE i \in DOMAIN queue
    <3>1. now[i] = queue[i]
      <4>. HIDE DEF queue, now
      <4>1. QED
        BY <2>1, <2>3, <2>5, BurstAppended
    <3>2. x \in Slots
      <4>1. x \in ReadSlots(queue, r)
        BY <2>1, <2>5, <3>1, ReadSlotOf
      <4>2. QED
        BY <4>1 DEF Slots
    <3>3. Departure(x.at) = x.at
      <4>1. ASSUME x.at = ReadPlace
            PROVE  FALSE
        <5>1. r = inFlightCommandPacket.rank /\ i = Len(queue) + 1
          BY <2>2, <4>1 DEF ReadPlace
        <5>2. QED
          BY <2>4, <2>5, <5>1
      <4>2. QED
        BY <4>1 DEF Departure
    <3>4. QED
      BY <1>1, <2>2, <3>2, <3>3
  <2>6. CASE i \notin DOMAIN queue
    <3>1. ReadArrives(r) /\ i = Len(queue) + 1 /\ now[i] = ArrivedRead
      <4>. HIDE DEF queue, now
      <4>1. QED
        BY <2>1, <2>3, <2>6, BurstAppended
    <3>2. inFlightCommandPacket.rank = r /\ ReadIsArriving /\ inFlightCommandPacket # NULL
      BY <3>1 DEF ReadArrives, ReadIsArriving, CommandArrives
    <3>3. Departure(x.at) = <<"command", 0, 0>>
      BY <2>2, <3>1, <3>2 DEF Departure, ReadPlace
    <3>. DEFINE u == Slot(<<"command", 0, 0>>, inFlightCommandPacket, tCL)
    <3>4. u \in Slots
      BY <3>2 DEF Slots, CommandSlots, ReadIsArriving
    <3>5. u.at = <<"command", 0, 0>> /\ u.rank = inFlightCommandPacket.rank /\ u.start = tCL
      BY SlotFields
    <3>6. x.rank = inFlightCommandPacket.rank /\ x.start = tCL
      BY <2>1, <2>3, <3>1, SlotFields
    <3>. HIDE DEF u
    <3>7. Moved(x, u, 0)
      BY <3>5, <3>6, TimingTypes DEF Moved
    <3>8. QED
      BY <2>2, <3>3, <3>4, <3>5, <3>7
  <2>7. QED
    BY <2>5, <2>6
<1>5. QED
  BY <1>2, <1>3, <1>4 DEF SlotsNow, Departure, ReadPlace

\* The bursts keep apart, and later CASs keep clear of them.
LEMMA SlotsNowClear ==
    ASSUME TimingInv
    PROVE  /\ \A x \in SlotsNow : SlotType(x)
           /\ AllApart(SlotsNow)
           /\ \A x \in SlotsNow, r \in Ranks, b \in Banks : Clears(BanksNow[r][b], r, x)
<1>1. TypeOK /\ BanksSettled /\ BurstsClear
  BY DEF TimingInv, QueueInv
<1>2. ASSUME NEW x \in SlotsNow
      PROVE  /\ SlotType(x)
             /\ \A r \in Ranks, b \in Banks : Clears(BanksNow[r][b], r, x)
  <2>1. PICK u \in Slots : Moved(x, u, 0)
    BY <1>1, <1>2, SlotsDeparted
  <2>2. SlotType(u)
    BY <1>1, SlotsTyped
  <2>3. x.rank = u.rank /\ x.start = u.start
    BY <2>1, <2>2 DEF Moved, SlotType
  <2>4. ASSUME NEW r \in Ranks, NEW b \in Banks
        PROVE  Clears(BanksNow[r][b], r, x)
    <3>1. Clears(bankStates[r][b], r, u)
      BY <1>1 DEF BurstsClear
    <3>2. Clears(bankStates[r][b], r, x)
      BY <2>3, <3>1 DEF Clears
    <3>3. QED
      BY <1>1, <3>2, ClearsNow
  <2>5. QED
    BY <2>2, <2>3, <2>4 DEF SlotType
<1>3. ASSUME NEW x \in SlotsNow, NEW y \in SlotsNow, x.at # y.at
      PROVE  Apart(x, y)
  <2>1. PICK u \in Slots : Moved(x, u, 0) /\ u.at = Departure(x.at)
    BY <1>1, SlotsDeparted
  <2>2. PICK v \in Slots : Moved(y, v, 0) /\ v.at = Departure(y.at)
    BY <1>1, SlotsDeparted
  <2>3. x.at # <<"command", 0, 0>> /\ y.at # <<"command", 0, 0>>
    BY <1>1, SlotsDeparted
  <2>4. u.at # v.at
    BY <1>3, <2>1, <2>2, <2>3 DEF Departure
  <2>5. Apart(u, v)
    BY <1>1, <2>4 DEF BurstsClear, AllApart
  <2>6. SlotType(u) /\ SlotType(v)
    BY <1>1, SlotsTyped
  <2>7. QED
    BY <2>1, <2>2, <2>5, <2>6, MovedApart
<1>4. QED
  BY <1>2, <1>3 DEF AllApart

-----------------------------------------------------------------------------
(* Nothing collides                                                        *)

\* The bursts that start in this cycle.
LEMMA DueSlots ==
    ASSUME TypeOK
    PROVE  /\ WriteIsDue =>
                 \E x \in SlotsNow : /\ x.at = <<"write", 0, 1>> /\ x.start = 1
                                     /\ x.rank = DueWrite.rank
           /\ \A r \in ReturningRanks :
                 \E x \in SlotsNow : /\ x.at = <<"read", r, 1>> /\ x.start = 1
                                     /\ x.rank = ReturnedPacket(RanksNow[r]).rank
<1>1. ASSUME WriteIsDue
      PROVE  \E x \in SlotsNow : /\ x.at = <<"write", 0, 1>> /\ x.start = 1
                                 /\ x.rank = DueWrite.rank
  <2>1. /\ writeBurstQueue \in Seq(Burst) /\ writeBurstQueue # << >>
        /\ Head(writeBurstQueue).countdown = 1
    BY <1>1 DEF TypeOK, ControllerTypeOK, WriteIsDue, HeadIsDue
  <2>2. 1 \in DOMAIN writeBurstQueue /\ Head(writeBurstQueue) = writeBurstQueue[1]
    BY <2>1, BurstPlaces
  <2>. DEFINE x == Slot(<<"write", 0, 1>>, writeBurstQueue[1].packet,
                        writeBurstQueue[1].countdown)
  <2>3. x \in SlotsNow
    BY <2>2 DEF SlotsNow, WriteSlots
  <2>4. x.at = <<"write", 0, 1>> /\ x.start = 1 /\ x.rank = DueWrite.rank
    BY <2>1, <2>2, SlotFields DEF DueWrite
  <2>5. QED
    BY <2>3, <2>4
<1>2. ASSUME NEW r \in ReturningRanks
      PROVE  \E x \in SlotsNow : /\ x.at = <<"read", r, 1>> /\ x.start = 1
                                 /\ x.rank = ReturnedPacket(RanksNow[r]).rank
  <2>. DEFINE queue == RanksNow[r].readReturnQueue
              x == Slot(<<"read", r, 1>>, queue[1].packet, queue[1].countdown)
  <2>1. r \in Ranks /\ queue # << >> /\ Head(queue).countdown = 1
    BY DEF ReturningRanks, ReturnIsDue, HeadIsDue
  <2>2. queue \in Seq(Burst)
    BY <2>1, RankQueueNow
  <2>3. 1 \in DOMAIN queue /\ Head(queue) = queue[1]
    BY <2>1, <2>2, BurstPlaces
  <2>4. x \in SlotsNow
    <3>1. x \in ReadSlots(queue, r)
      BY <2>3, ReadSlotOf
    <3>2. QED
      BY <2>1, <3>1 DEF SlotsNow
  <2>5. x.at = <<"read", r, 1>> /\ x.start = 1 /\ x.rank = ReturnedPacket(RanksNow[r]).rank
    BY <2>1, <2>3, SlotFields DEF ReturnedPacket
  <2>6. QED
    BY <2>4, <2>5
<1>3. QED
  BY <1>1, <1>2

\* No two bursts start in the same cycle.
LEMMA OneStarts ==
    ASSUME TimingInv, NEW x \in SlotsNow, NEW y \in SlotsNow,
           x.start = 1, y.start = 1
    PROVE  x.at = y.at
<1>1. SlotType(x) /\ SlotType(y) /\ (x.at # y.at => Apart(x, y))
  BY SlotsNowClear DEF AllApart
<1>2. Gap(x.rank, y.rank) \in Nat /\ BURST \in Nat /\ BURST >= 1
  BY <1>1, GapType, TimingTypes, TimingPositive DEF SlotType
<1>3. QED
  BY <1>1, <1>2 DEF Apart

LEMMA BusesClear ==
    ASSUME TimingInv
    PROVE  ~ DataBusCollides /\ CommandBusFree
<1>1. TypeOK
  BY DEF TimingInv, QueueInv
<1>2. ASSUME ~ DataBusFree
      PROVE  ~ WriteIsDue /\ ReturningRanks = {}
  <2>1. /\ inFlightDataPacket # NULL /\ inFlightDataCountdown # 1
        /\ inFlightDataCountdown \in 1 .. BURST
    BY <1>2 DEF DataBusFree, DataArrives, TimingInv, QueuesOrdered
  <2>. DEFINE d == Slot(<<"data", 0, 0>>, inFlightDataPacket, inFlightDataCountdown - BURST)
  <2>2. d \in SlotsNow
    BY <2>1 DEF SlotsNow, DataSlots
  <2>3. d.at = <<"data", 0, 0>> /\ d.start = inFlightDataCountdown - BURST
    BY SlotFields
  <2>. HIDE DEF d
  <2>4. ASSUME NEW y \in SlotsNow, y.start = 1
        PROVE  y.at = <<"data", 0, 0>>
    <3>1. SlotType(d) /\ SlotType(y) /\ (d.at # y.at => Apart(d, y))
      BY <2>2, SlotsNowClear DEF AllApart
    <3>2. Gap(d.rank, y.rank) \in Nat /\ BURST \in Nat /\ BURST >= 1
      BY <3>1, GapType, TimingTypes, TimingPositive DEF SlotType
    <3>3. QED
      BY <2>1, <2>3, <2>4, <3>1, <3>2 DEF Apart
  <2>5. ~ WriteIsDue
    <3>1. <<"write", 0, 1>> # <<"data", 0, 0>>
      OBVIOUS
    <3>2. QED
      BY <1>1, <2>4, <3>1, DueSlots
  <2>6. ReturningRanks = {}
    <3>1. \A r : <<"read", r, 1>> # <<"data", 0, 0>>
      OBVIOUS
    <3>2. \A r : r \notin ReturningRanks
      BY <1>1, <2>4, <3>1, DueSlots
    <3>3. QED
      BY <3>2
  <2>7. QED
    BY <2>5, <2>6
<1>3. ASSUME WriteIsDue
      PROVE  ReturningRanks = {}
  <2>1. \A r : <<"read", r, 1>> # <<"write", 0, 1>>
    OBVIOUS
  <2>2. \A r : r \notin ReturningRanks
    BY <1>1, <1>3, <2>1, DueSlots, OneStarts
  <2>3. QED
    BY <2>2
<1>4. ~ (Cardinality(ReturningRanks) > 1)
  <2>1. ASSUME NEW r \in ReturningRanks, NEW s \in ReturningRanks
        PROVE  r = s
    <3>1. <<"read", r, 1>> = <<"read", s, 1>>
      BY <1>1, DueSlots, OneStarts
    <3>2. QED
      BY <3>1
  <2>2. CASE ReturningRanks = {}
    BY <2>2, FS_EmptySet
  <2>3. CASE ReturningRanks # {}
    <3>1. PICK r \in ReturningRanks : TRUE
      BY <2>3
    <3>2. ReturningRanks = {r}
      BY <2>1, <3>1
    <3>3. Cardinality({r}) = 1
      BY FS_Singleton
    <3>4. QED
      BY <3>2, <3>3
  <2>4. QED
    BY <2>2, <2>3
<1>5. CommandBusFree
  BY DEF TimingInv, CommandAccepted, CommandBusFree, CommandArrives
<1>6. QED
  BY <1>2, <1>3, <1>4, <1>5 DEF DataBusCollides

\* So the simulator does not exit.
LEMMA NoError ==
    ASSUME TimingInv, NEW sendsCommand, NEW sendsCAS, Cycle(sendsCommand, sendsCAS),
           sendsCAS => waitingACTS # 0
    PROVE  error' = "none"
<1>1. ~ RankRefuses /\ ~ DataBusCollides /\ CommandBusFree
  BY RanksAccept, BusesClear
<1>2. error' = CASE RankRefuses -> "rank refused"
                 [] DataBusCollides -> "data bus collision"
                 [] sendsCommand /\ ~ CommandBusFree -> "command bus collision"
                 [] sendsCAS /\ waitingACTS = 0 -> "negative waitingACTS"
                 [] OTHER -> "none"
  BY DEF Cycle
<1>3. QED
  BY <1>1, <1>2

-----------------------------------------------------------------------------
(* A cycle of the bursts                                                   *)

\* The places a burst may be at after the cycle.
Places ==
    {<<"data", 0, 0>>, <<"command", 0, 0>>}
    \union {<<"write", 0, i>> : i \in Nat \ {0}}
    \union {<<"read", r, i>> : r \in Ranks, i \in Nat \ {0}}

Returning == CHOOSE r \in ReturningRanks : TRUE

\* Where the burst was before it; "sent" is a CAS of this cycle.
DataOrigin ==
    IF WriteIsDue THEN <<"write", 0, 1>>
    ELSE IF ReturningRanks # {} THEN <<"read", Returning, 1>>
    ELSE <<"data", 0, 0>>

WriteOrigin(i) ==
    IF i \in DOMAIN AfterCountDown(writeBurstQueue)
    THEN <<"write", 0, WasAt(writeBurstQueue, i)>>
    ELSE <<"sent", 0, i>>

ReadOrigin(r, i) == <<"read", r, WasAt(RanksNow[r].readReturnQueue, i)>>

Origin(at) ==
    CASE at[1] = "data" -> DataOrigin
      [] at[1] = "command" -> <<"sent", 0, 0>>
      [] at[1] = "write" -> WriteOrigin(at[3])
      [] at[1] = "read" -> ReadOrigin(at[2], at[3])

LEMMA OriginValues ==
    /\ Origin(<<"data", 0, 0>>) = DataOrigin
    /\ Origin(<<"command", 0, 0>>) = <<"sent", 0, 0>>
    /\ \A i : Origin(<<"write", 0, i>>) = WriteOrigin(i)
    /\ \A r, i : Origin(<<"read", r, i>>) = ReadOrigin(r, i)
  BY DEF Origin

LEMMA WriteOriginsApart ==
    ASSUME NEW i \in Nat \ {0}
    PROVE  /\ WriteOrigin(i) # DataOrigin
           /\ WriteOrigin(i) # <<"sent", 0, 0>>
           /\ \A r, j : WriteOrigin(i) # ReadOrigin(r, j)
           /\ \A j \in Nat \ {0} : WriteOrigin(i) = WriteOrigin(j) => i = j
<1>1. WriteIsDue => WasAt(writeBurstQueue, i) # 1
  BY DEF WriteIsDue, WasAt
<1>2. WriteOrigin(i) # DataOrigin
  BY <1>1 DEF WriteOrigin, DataOrigin
<1>3. WriteOrigin(i) # <<"sent", 0, 0>>
  BY DEF WriteOrigin
<1>4. \A r, j : WriteOrigin(i) # ReadOrigin(r, j)
  BY DEF WriteOrigin, ReadOrigin
<1>5. ASSUME NEW j \in Nat \ {0}, WriteOrigin(i) = WriteOrigin(j)
      PROVE  i = j
  BY <1>5 DEF WriteOrigin, WasAt
<1>6. QED
  BY <1>2, <1>3, <1>4, <1>5

LEMMA ReadOriginsApart ==
    ASSUME NEW r \in Ranks, NEW i \in Nat \ {0}
    PROVE  /\ ReadOrigin(r, i) # DataOrigin
           /\ ReadOrigin(r, i) # <<"sent", 0, 0>>
           /\ \A s \in Ranks, j \in Nat \ {0} :
                 ReadOrigin(r, i) = ReadOrigin(s, j) => r = s /\ i = j
<1>1. r \in ReturningRanks => WasAt(RanksNow[r].readReturnQueue, i) # 1
  BY DEF ReturningRanks, ReturnIsDue, WasAt
<1>2. ReadOrigin(r, i) # DataOrigin
  <2>1. CASE WriteIsDue
    BY <2>1 DEF ReadOrigin, DataOrigin
  <2>2. CASE ~ WriteIsDue /\ ReturningRanks # {}
    <3>1. Returning \in ReturningRanks
      BY <2>2 DEF Returning
    <3>2. ASSUME ReadOrigin(r, i) = <<"read", Returning, 1>>
          PROVE  FALSE
      <4>1. r = Returning /\ WasAt(RanksNow[r].readReturnQueue, i) = 1
        BY <3>2 DEF ReadOrigin
      <4>2. QED
        BY <1>1, <3>1, <4>1
    <3>3. QED
      BY <2>2, <3>2 DEF DataOrigin
  <2>3. CASE ~ WriteIsDue /\ ReturningRanks = {}
    BY <2>3 DEF ReadOrigin, DataOrigin
  <2>4. QED
    BY <2>1, <2>2, <2>3
<1>3. ReadOrigin(r, i) # <<"sent", 0, 0>>
  BY DEF ReadOrigin
<1>4. ASSUME NEW s \in Ranks, NEW j \in Nat \ {0}, ReadOrigin(r, i) = ReadOrigin(s, j)
      PROVE  r = s /\ i = j
  <2>1. r = s /\ WasAt(RanksNow[r].readReturnQueue, i) = WasAt(RanksNow[s].readReturnQueue, j)
    BY <1>4 DEF ReadOrigin
  <2>2. WasAt(RanksNow[r].readReturnQueue, i) = WasAt(RanksNow[r].readReturnQueue, j)
    BY <2>1
  <2>3. i = j
    BY <2>2 DEF WasAt
  <2>4. QED
    BY <2>1, <2>3
<1>5. QED
  BY <1>2, <1>3, <1>4

LEMMA OriginsApart ==
    ASSUME NEW x \in Places, NEW y \in Places, Origin(x) = Origin(y)
    PROVE  x = y
<1>1. DataOrigin # <<"sent", 0, 0>>
  BY DEF DataOrigin
<1>2. ASSUME NEW z \in Places
      PROVE  \/ z = <<"data", 0, 0>>
             \/ z = <<"command", 0, 0>>
             \/ \E i \in Nat \ {0} : z = <<"write", 0, i>>
             \/ \E r \in Ranks, i \in Nat \ {0} : z = <<"read", r, i>>
  BY DEF Places
<1>3. CASE x = <<"data", 0, 0>>
  <2>1. \A z \in Places : z # x => Origin(z) # DataOrigin
    BY <1>1, <1>2, <1>3, OriginValues, WriteOriginsApart, ReadOriginsApart
  <2>2. QED
    BY <1>3, <2>1, OriginValues
<1>4. CASE x = <<"command", 0, 0>>
  <2>1. \A z \in Places : z # x => Origin(z) # <<"sent", 0, 0>>
    BY <1>1, <1>2, <1>4, OriginValues, WriteOriginsApart, ReadOriginsApart
  <2>2. QED
    BY <1>4, <2>1, OriginValues
<1>5. CASE \E i \in Nat \ {0} : x = <<"write", 0, i>>
  <2>1. PICK i \in Nat \ {0} : x = <<"write", 0, i>>
    BY <1>5
  <2>2. Origin(x) = WriteOrigin(i)
    BY <2>1, OriginValues
  <2>3. \A z \in Places : z # x => Origin(z) # WriteOrigin(i)
    BY <1>2, <2>1, OriginValues, WriteOriginsApart
  <2>4. QED
    BY <2>2, <2>3
<1>6. CASE \E r \in Ranks, i \in Nat \ {0} : x = <<"read", r, i>>
  <2>1. PICK r \in Ranks, i \in Nat \ {0} : x = <<"read", r, i>>
    BY <1>6
  <2>2. Origin(x) = ReadOrigin(r, i)
    BY <2>1, OriginValues
  <2>3. \A z \in Places : z # x => Origin(z) # ReadOrigin(r, i)
    BY <1>2, <2>1, OriginValues, WriteOriginsApart, ReadOriginsApart
  <2>4. QED
    BY <2>2, <2>3
<1>7. QED
  BY <1>2, <1>3, <1>4, <1>5, <1>6

\* The bursts of a CAS sent in this cycle, and the queue it may have joined.
SentOnly(sent) ==
    /\ \A x \in CommandSlots' :
          \E u \in sent : Moved(x, u, 1) /\ u.at = <<"sent", 0, 0>>
    /\ \A x \in WriteSlots' :
          LET after == AfterCountDown(writeBurstQueue) IN
          \/ \E i \in DOMAIN after :
                x = Slot(<<"write", 0, i>>, after[i].packet, after[i].countdown)
          \/ \E i \in Nat \ {0} :
                /\ i \notin DOMAIN after /\ x.at = <<"write", 0, i>>
                /\ \E u \in sent : Moved(x, u, 1) /\ u.at = <<"sent", 0, i>>

LEMMA DataOriginates ==
    ASSUME TimingInv, NEW sendsCommand, NEW sendsCAS, Cycle(sendsCommand, sendsCAS),
           NEW x \in DataSlots'
    PROVE  \E u \in SlotsNow : Moved(x, u, 1) /\ u.at = DataOrigin
<1>1. /\ inFlightDataPacket' # NULL
      /\ x = Slot(<<"data", 0, 0>>, inFlightDataPacket', inFlightDataCountdown' - BURST)
  BY DEF DataSlots
<1>2. x.rank = inFlightDataPacket'.rank /\ x.start = inFlightDataCountdown' - BURST
  BY <1>1, SlotFields
<1>3. DataBusAdvances /\ TypeOK
  BY DEF Cycle, TimingInv, QueueInv
<1>4. BURST \in Nat
  BY TimingTypes
<1>5. CASE WriteIsDue
  <2>1. inFlightDataPacket' = DueWrite /\ inFlightDataCountdown' = BURST
    BY <1>3, <1>5 DEF DataBusAdvances, DataStarts
  <2>2. PICK u \in SlotsNow : /\ u.at = <<"write", 0, 1>> /\ u.start = 1
                              /\ u.rank = DueWrite.rank
    BY <1>3, <1>5, DueSlots
  <2>3. Moved(x, u, 1)
    BY <1>2, <1>4, <2>1, <2>2 DEF Moved
  <2>4. QED
    BY <1>5, <2>2, <2>3 DEF DataOrigin
<1>6. CASE ~ WriteIsDue /\ ReturningRanks # {}
  <2>1. /\ inFlightDataPacket' = ReturnedPacket(RanksNow[Returning])
        /\ inFlightDataCountdown' = BURST
    BY <1>3, <1>6 DEF DataBusAdvances, DataStarts, Returning
  <2>2. Returning \in ReturningRanks
    BY <1>6 DEF Returning
  <2>3. PICK u \in SlotsNow : /\ u.at = <<"read", Returning, 1>> /\ u.start = 1
                              /\ u.rank = ReturnedPacket(RanksNow[Returning]).rank
    BY <1>3, <2>2, DueSlots
  <2>4. Moved(x, u, 1)
    BY <1>2, <1>4, <2>1, <2>3 DEF Moved
  <2>5. QED
    BY <1>6, <2>3, <2>4 DEF DataOrigin
<1>7. CASE ~ WriteIsDue /\ ReturningRanks = {}
  <2>1. /\ inFlightDataPacket' = IF DataArrives THEN NULL ELSE inFlightDataPacket
        /\ inFlightDataCountdown' = OneLess(inFlightDataCountdown)
    BY <1>3, <1>7 DEF DataBusAdvances
  <2>2. inFlightDataPacket # NULL /\ inFlightDataPacket' = inFlightDataPacket
    BY <1>1, <2>1
  <2>3. inFlightDataCountdown \in 1 .. BURST
    BY <2>2 DEF TimingInv, QueuesOrdered
  <2>4. inFlightDataCountdown' = inFlightDataCountdown - 1
    BY <2>1, <2>3 DEF OneLess
  <2>. DEFINE u == Slot(<<"data", 0, 0>>, inFlightDataPacket, inFlightDataCountdown - BURST)
  <2>5. u \in SlotsNow
    BY <2>2 DEF SlotsNow, DataSlots
  <2>6. /\ u.at = <<"data", 0, 0>> /\ u.rank = inFlightDataPacket.rank
        /\ u.start = inFlightDataCountdown - BURST
    BY SlotFields
  <2>. HIDE DEF u
  <2>7. Moved(x, u, 1)
    BY <1>2, <1>4, <2>2, <2>3, <2>4, <2>6 DEF Moved
  <2>8. QED
    BY <1>7, <2>5, <2>6, <2>7 DEF DataOrigin
<1>8. QED
  BY <1>5, <1>6, <1>7

LEMMA PlaceKinds ==
    /\ <<"data", 0, 0>> \in Places /\ <<"command", 0, 0>> \in Places
    /\ \A i \in Nat \ {0} : <<"write", 0, i>> \in Places
    /\ \A r \in Ranks : \A i \in Nat \ {0} : <<"read", r, i>> \in Places
  BY DEF Places

\* Every burst comes from one of the last cycle, or from the CAS sent in this one.
LEMMA SlotsOriginate ==
    ASSUME TimingInv, NEW sendsCommand, NEW sendsCAS, Cycle(sendsCommand, sendsCAS),
           NEW sent, SentOnly(sent), NEW x \in Slots'
    PROVE  /\ x.at \in Places
           /\ \E u \in SlotsNow \union sent : Moved(x, u, 1) /\ u.at = Origin(x.at)
<1>1. /\ TypeOK /\ writeBurstQueue \in Seq(Burst)
      /\ tCL \in Nat /\ tCWL \in Nat
      /\ Ordered(writeBurstQueue, tCWL)
  BY TimingTypes DEF TimingInv, QueueInv, TypeOK, ControllerTypeOK, QueuesOrdered
<1>2. CASE x \in DataSlots'
  <2>1. x.at = <<"data", 0, 0>>
    BY <1>2, SlotFields DEF DataSlots
  <2>2. \E u \in SlotsNow : Moved(x, u, 1) /\ u.at = DataOrigin
    BY <1>2, DataOriginates
  <2>3. x.at \in Places
    BY <2>1, PlaceKinds
  <2>4. QED
    BY <2>1, <2>2, <2>3, OriginValues
<1>3. CASE x \in CommandSlots'
  <2>1. x.at = <<"command", 0, 0>>
    BY <1>3, SlotFields DEF CommandSlots
  <2>2. \E u \in sent : Moved(x, u, 1) /\ u.at = <<"sent", 0, 0>>
    BY <1>3 DEF SentOnly
  <2>3. x.at \in Places
    BY <2>1, PlaceKinds
  <2>4. QED
    BY <2>1, <2>2, <2>3, OriginValues
<1>4. CASE x \in WriteSlots'
  <2>. DEFINE after == AfterCountDown(writeBurstQueue)
  <2>1. ASSUME NEW i \in DOMAIN after,
               x = Slot(<<"write", 0, i>>, after[i].packet, after[i].countdown)
        PROVE  /\ x.at \in Places
               /\ \E u \in SlotsNow : Moved(x, u, 1) /\ u.at = Origin(x.at)
    <3>. DEFINE w == WasAt(writeBurstQueue, i)
                u == Slot(<<"write", 0, w>>, writeBurstQueue[w].packet,
                          writeBurstQueue[w].countdown)
    <3>1. /\ Moved(x, u, 1) /\ x.at = <<"write", 0, i>> /\ u.at = <<"write", 0, w>>
          /\ w \in DOMAIN writeBurstQueue /\ i \in Nat \ {0}
      <4>1. /\ i \in Nat /\ i >= 1 /\ w \in DOMAIN writeBurstQueue
            /\ after[i].packet = writeBurstQueue[w].packet
            /\ after[i].countdown = writeBurstQueue[w].countdown - 1
        BY <1>1, <2>1, BurstsMoveOn
      <4>. HIDE DEF w, after
      <4>2. QED
        BY <2>1, <4>1, SlotFields DEF Moved
    <3>2. u \in SlotsNow
      BY <3>1 DEF SlotsNow, WriteSlots
    <3>3. Origin(x.at) = <<"write", 0, w>>
      BY <2>1, <3>1, OriginValues DEF WriteOrigin
    <3>4. x.at \in Places
      BY <3>1, PlaceKinds
    <3>. HIDE DEF u, w
    <3>5. QED
      BY <3>1, <3>2, <3>3, <3>4
  <2>2. ASSUME NEW i \in Nat \ {0}, i \notin DOMAIN after, x.at = <<"write", 0, i>>,
               \E u \in sent : Moved(x, u, 1) /\ u.at = <<"sent", 0, i>>
        PROVE  /\ x.at \in Places
               /\ \E u \in sent : Moved(x, u, 1) /\ u.at = Origin(x.at)
    <3>1. Origin(x.at) = <<"sent", 0, i>>
      BY <2>2, OriginValues DEF WriteOrigin
    <3>2. x.at \in Places
      BY <2>2, PlaceKinds
    <3>3. QED
      BY <2>2, <3>1, <3>2
  <2>3. \/ \E i \in DOMAIN after :
              x = Slot(<<"write", 0, i>>, after[i].packet, after[i].countdown)
        \/ \E i \in Nat \ {0} :
              /\ i \notin DOMAIN after /\ x.at = <<"write", 0, i>>
              /\ \E u \in sent : Moved(x, u, 1) /\ u.at = <<"sent", 0, i>>
    BY <1>4 DEF SentOnly
  <2>. HIDE DEF after
  <2>4. QED
    BY <2>1, <2>2, <2>3
<1>5. ASSUME NEW r \in Ranks, x \in ReadSlots(ranks'[r].readReturnQueue, r)
      PROVE  /\ x.at \in Places
             /\ \E u \in SlotsNow : Moved(x, u, 1) /\ u.at = Origin(x.at)
  <2>. DEFINE queue == RanksNow[r].readReturnQueue
              after == AfterCountDown(queue)
  <2>1. ranks'[r].readReturnQueue = after
    BY DEF Cycle, UpdateRank
  <2>2. queue \in Seq(Burst) /\ Ordered(queue, tCL)
    BY <1>1, RankQueueNow, RankQueueOrdered
  <2>3. PICK i \in DOMAIN after :
           x = Slot(<<"read", r, i>>, after[i].packet, after[i].countdown)
    BY <1>5, <2>1, ReadSlotOf
  <2>. DEFINE w == WasAt(queue, i)
              u == Slot(<<"read", r, w>>, queue[w].packet, queue[w].countdown)
  <2>4. /\ Moved(x, u, 1) /\ x.at = <<"read", r, i>> /\ u.at = <<"read", r, w>>
        /\ w \in DOMAIN queue /\ i \in Nat \ {0}
    <3>1. /\ i \in Nat /\ i >= 1 /\ w \in DOMAIN queue
          /\ after[i].packet = queue[w].packet
          /\ after[i].countdown = queue[w].countdown - 1
      <4>. HIDE DEF queue
      <4>1. QED
        BY <1>1, <2>2, <2>3, BurstsMoveOn
    <3>. HIDE DEF w, after, queue
    <3>2. QED
      BY <2>3, <3>1, SlotFields DEF Moved
  <2>5. u \in SlotsNow
    <3>1. u \in ReadSlots(queue, r)
      BY <2>4, ReadSlotOf
    <3>2. QED
      BY <3>1 DEF SlotsNow
  <2>6. Origin(x.at) = <<"read", r, w>>
    BY <2>4, OriginValues DEF ReadOrigin
  <2>7. x.at \in Places
    BY <2>4, PlaceKinds
  <2>. HIDE DEF u, w
  <2>8. QED
    BY <2>4, <2>5, <2>6, <2>7
<1>6. x \in DataSlots' \/ x \in CommandSlots' \/ x \in WriteSlots'
      \/ \E r \in Ranks : x \in ReadSlots(ranks'[r].readReturnQueue, r)
  BY DEF Slots, ReadSlots
<1>7. QED
  BY <1>2, <1>3, <1>4, <1>5, <1>6

\* The bursts are clear after the cycle when the new one is.
LEMMA BurstsStayClear ==
    ASSUME TimingInv, NEW sendsCommand, NEW sendsCAS, Cycle(sendsCommand, sendsCAS),
           NEW after \in [Ranks -> [Banks -> BankStates]],
           bankStates' = TickBanks(after), KeepsClear(after),
           NEW sent, SentOnly(sent),
           \A n \in sent : SlotType(n) /\ ClearsOwn(after, n),
           \A n \in sent : \A x \in SlotsNow :
              x.start + BURST + Gap(x.rank, n.rank) <= n.start,
           \A m, n \in sent : m = n
    PROVE  BurstsClear'
<1>1. /\ \A x \in SlotsNow : SlotType(x)
      /\ AllApart(SlotsNow)
      /\ \A x \in SlotsNow, r \in Ranks, b \in Banks : Clears(BanksNow[r][b], r, x)
  BY SlotsNowClear
<1>2. BURST \in Nat /\ BURST >= 1
  BY TimingTypes, TimingPositive
<1>3. \A u \in SlotsNow \union sent : SlotType(u)
  BY <1>1
<1>4. ASSUME NEW u \in SlotsNow \union sent, NEW v \in SlotsNow \union sent, u.at # v.at
      PROVE  Apart(u, v)
  <2>1. /\ u.start \in Int /\ v.start \in Int
        /\ Gap(u.rank, v.rank) \in Nat /\ Gap(v.rank, u.rank) \in Nat
    BY <1>3, GapType DEF SlotType
  <2>2. CASE u \in SlotsNow /\ v \in SlotsNow
    BY <1>1, <1>4, <2>2 DEF AllApart
  <2>3. CASE u \in SlotsNow /\ v \in sent
    <3>1. u.start + BURST + Gap(u.rank, v.rank) <= v.start
      BY <2>3
    <3>2. QED
      BY <3>1 DEF Apart
  <2>4. CASE u \in sent /\ v \in SlotsNow
    <3>1. v.start + BURST + Gap(v.rank, u.rank) <= u.start
      BY <2>4
    <3>2. QED
      BY <1>2, <2>1, <3>1 DEF Apart
  <2>5. CASE u \in sent /\ v \in sent
    BY <1>4, <2>5
  <2>6. QED
    BY <2>2, <2>3, <2>4, <2>5
<1>5. ASSUME NEW x \in Slots', NEW y \in Slots', x.at # y.at
      PROVE  Apart(x, y)
  <2>1. x.at \in Places /\ y.at \in Places
    BY SlotsOriginate
  <2>2. PICK u \in SlotsNow \union sent : Moved(x, u, 1) /\ u.at = Origin(x.at)
    BY SlotsOriginate
  <2>3. PICK v \in SlotsNow \union sent : Moved(y, v, 1) /\ v.at = Origin(y.at)
    BY SlotsOriginate
  <2>4. u.at # v.at
    BY <1>5, <2>1, <2>2, <2>3, OriginsApart
  <2>5. Apart(u, v)
    BY <1>4, <2>4
  <2>6. QED
    BY <1>3, <2>2, <2>3, <2>5, MovedApart
<1>6. ASSUME NEW x \in Slots', NEW r \in Ranks, NEW b \in Banks
      PROVE  Clears(bankStates'[r][b], r, x)
  <2>1. PICK u \in SlotsNow \union sent : Moved(x, u, 1)
    BY SlotsOriginate
  <2>2. SlotType(u)
    BY <1>3
  <2>3. Clears(after[r][b], r, u)
    <3>1. CASE u \in sent
      BY <3>1 DEF ClearsOwn
    <3>2. CASE u \in SlotsNow
      BY <1>1, <2>2, <3>2 DEF KeepsClear
    <3>3. QED
      BY <3>1, <3>2
  <2>4. bankStates'[r][b] = Elapse(after[r][b]) /\ after[r][b] \in BankStates
    BY DEF TickBanks
  <2>5. QED
    BY <2>1, <2>2, <2>3, <2>4, CycleClears
<1>7. AllApart(Slots')
  BY <1>5 DEF AllApart
<1>8. QED
  BY <1>6, <1>7 DEF BurstsClear

-----------------------------------------------------------------------------
(* The invariant is inductive                                              *)

Named(bank) ==
    bank.stateChangeCountdown > 0 =>
        bank.lastCommand \in {"REFRESH", "READ_P", "WRITE_P", "PRECHARGE"}

LEMMA NamedNow ==
    ASSUME TypeOK, CountdownsNamed, NEW r \in Ranks, NEW b \in Banks
    PROVE  Named(BanksNow[r][b])
<1>. DEFINE bank == bankStates[r][b]
            now == UpdateStateChange(bank)
<1>1. BanksNow[r][b] = now
  BY DEF BanksNow
<1>2. bank \in BankStates /\ Named(bank)
  BY DEF TypeOK, ControllerTypeOK, CountdownsNamed, Named
<1>3. bank.stateChangeCountdown \in Nat
  BY <1>2 DEF BankStates
<1>4. CASE bank.stateChangeCountdown = 0
  <2>1. now = bank
    BY <1>4 DEF UpdateStateChange
  <2>2. QED
    BY <1>1, <1>2, <2>1
<1>5. CASE bank.stateChangeCountdown > 1
  <2>1. now = [bank EXCEPT !.stateChangeCountdown = @ - 1]
    BY <1>5 DEF UpdateStateChange
  <2>2. now.lastCommand = bank.lastCommand
    BY <1>2, <2>1 DEF BankStates
  <2>3. QED
    BY <1>1, <1>2, <1>3, <1>5, <2>2 DEF Named
<1>6. CASE bank.stateChangeCountdown = 1 /\ bank.lastCommand \in {"READ_P", "WRITE_P"}
  <2>1. now = [bank EXCEPT !.currentBankState = "PRECHARGING",
                           !.lastCommand = "PRECHARGE",
                           !.stateChangeCountdown = tRP]
    BY <1>6 DEF UpdateStateChange
  <2>2. now.lastCommand = "PRECHARGE"
    BY <1>2, <2>1 DEF BankStates
  <2>3. QED
    BY <1>1, <2>2 DEF Named
<1>7. CASE bank.stateChangeCountdown = 1 /\ bank.lastCommand \notin {"READ_P", "WRITE_P"}
  <2>1. now = [bank EXCEPT !.currentBankState = "IDLE", !.stateChangeCountdown = 0]
    BY <1>7 DEF UpdateStateChange
  <2>2. now.stateChangeCountdown = 0
    BY <1>2, <2>1 DEF BankStates
  <2>3. QED
    BY <1>1, <2>2 DEF Named
<1>8. QED
  BY <1>3, <1>4, <1>5, <1>6, <1>7

LEMMA CountdownsStayNamed ==
    ASSUME NEW after \in [Ranks -> [Banks -> BankStates]],
           \A r \in Ranks, b \in Banks : Named(after[r][b]),
           bankStates' = TickBanks(after)
    PROVE  CountdownsNamed'
<1>1. ASSUME NEW r \in Ranks, NEW b \in Banks
      PROVE  /\ bankStates'[r][b].stateChangeCountdown = after[r][b].stateChangeCountdown
             /\ bankStates'[r][b].lastCommand = after[r][b].lastCommand
  <2>1. bankStates'[r][b] = Elapse(after[r][b]) /\ after[r][b] \in BankStates
    BY DEF TickBanks
  <2>2. QED
    BY <2>1 DEF Elapse, BankStates
<1>2. QED
  BY <1>1 DEF CountdownsNamed, Named

LEMMA AllNamed ==
    ASSUME TypeOK, CountdownsNamed, BanksSettled
    PROVE  /\ \A r \in Ranks, b \in Banks : Named(BanksNow[r][b])
           /\ \A q \in Ranks : \A r \in Ranks, b \in Banks :
                 Named(BanksAfterRefresh(q)[r][b])
           /\ \A p \in BusPacket : \A r \in Ranks, b \in Banks :
                 /\ Named(BanksAfterRead(p)[r][b])
                 /\ Named(BanksAfterWrite(p)[r][b])
                 /\ Quiet(BanksNow[p.rank][p.bank]) =>
                       Named(BanksAfterActivateCommand(p)[r][b])
<1>1. ASSUME NEW r \in Ranks, NEW b \in Banks
      PROVE  /\ BanksNow[r][b] \in BankStates /\ Named(BanksNow[r][b])
             /\ Settled(BanksNow[r][b])
  BY NamedNow, NowSettled
<1>2. ASSUME NEW bank \in BankStates, Named(bank), NEW m, NEW n
      PROVE  /\ Named(Refreshing(bank)) /\ Named(Postponed(bank, m, n))
             /\ Named(Closing(bank, "READ_P", m, n)) /\ Named(Closing(bank, "WRITE_P", m, n))
             /\ Named([bank EXCEPT !.nextActivate = m])
  <2>1. Refreshing(bank).lastCommand = "REFRESH"
    BY DEF Refreshing, BankStates
  <2>2. /\ Postponed(bank, m, n).stateChangeCountdown = bank.stateChangeCountdown
        /\ Postponed(bank, m, n).lastCommand = bank.lastCommand
    BY DEF Postponed, BankStates
  <2>3. /\ Closing(bank, "READ_P", m, n).lastCommand = "READ_P"
        /\ Closing(bank, "WRITE_P", m, n).lastCommand = "WRITE_P"
    BY DEF Closing, BankStates
  <2>4. /\ [bank EXCEPT !.nextActivate = m].stateChangeCountdown = bank.stateChangeCountdown
        /\ [bank EXCEPT !.nextActivate = m].lastCommand = bank.lastCommand
    BY DEF BankStates
  <2>5. Named(Refreshing(bank))
    BY <2>1 DEF Named
  <2>6. Named(Postponed(bank, m, n))
    BY <1>2, <2>2 DEF Named
  <2>7. Named(Closing(bank, "READ_P", m, n)) /\ Named(Closing(bank, "WRITE_P", m, n))
    BY <2>3 DEF Named
  <2>8. Named([bank EXCEPT !.nextActivate = m])
    BY <1>2, <2>4 DEF Named
  <2>9. QED
    BY <2>5, <2>6, <2>7, <2>8
<1>3. ASSUME NEW q \in Ranks, NEW r \in Ranks, NEW b \in Banks
      PROVE  Named(BanksAfterRefresh(q)[r][b])
  <2>1. BanksAfterRefresh(q)[r][b] =
           IF r = q THEN Refreshing(BanksNow[r][b]) ELSE BanksNow[r][b]
    BY DEF BanksAfterRefresh, BanksNow
  <2>2. QED
    BY <1>1, <1>2, <2>1
<1>4. ASSUME NEW p \in BusPacket, NEW r \in Ranks, NEW b \in Banks
      PROVE  Named(BanksAfterRead(p)[r][b]) /\ Named(BanksAfterWrite(p)[r][b])
  <2>. DEFINE bank == BanksNow[r][b]
              here == r = p.rank /\ b = p.bank
  <2>1. BanksAfterRead(p)[r][b] =
           IF here THEN Closing(bank, "READ_P", tRTPc, ActivateAfterRead(bank))
           ELSE Postponed(bank, SameKindAgain(r = p.rank), tCL + BURST + tRTRS - tCWL)
    BY DEF BanksAfterRead
  <2>2. BanksAfterWrite(p)[r][b] =
           IF here
           THEN Closing(bank, "WRITE_P", tCWL + BURST + tWR, tCWL + BURST + tWR + tRP)
           ELSE Postponed(bank,
                          tCWL + BURST + (IF r = p.rank THEN tWTR ELSE tRTRS - tCL),
                          SameKindAgain(r = p.rank))
    BY DEF BanksAfterWrite
  <2>3. bank \in BankStates /\ Named(bank)
    BY <1>1
  <2>. HIDE DEF bank, here
  <2>4. ASSUME NEW m, NEW n
        PROVE  /\ Named(Closing(bank, "READ_P", m, n))
               /\ Named(Closing(bank, "WRITE_P", m, n))
               /\ Named(Postponed(bank, m, n))
    BY <1>2, <2>3
  <2>5. Named(BanksAfterRead(p)[r][b])
    <3>1. CASE here
      BY <2>1, <2>4, <3>1
    <3>2. CASE ~ here
      BY <2>1, <2>4, <3>2
    <3>3. QED
      BY <3>1, <3>2
  <2>6. Named(BanksAfterWrite(p)[r][b])
    <3>1. CASE here
      BY <2>2, <2>4, <3>1
    <3>2. CASE ~ here
      BY <2>2, <2>4, <3>2
    <3>3. QED
      BY <3>1, <3>2
  <2>7. QED
    BY <2>5, <2>6
<1>5. ASSUME NEW p \in BusPacket, Quiet(BanksNow[p.rank][p.bank]),
             NEW r \in Ranks, NEW b \in Banks
      PROVE  Named(BanksAfterActivateCommand(p)[r][b])
  <2>. DEFINE bank == BanksNow[r][b]
              after == BanksAfterActivateCommand(p)[r][b]
  <2>1. CASE r = p.rank /\ b = p.bank
    <3>1. after.stateChangeCountdown = bank.stateChangeCountdown
      BY <1>1, <2>1 DEF BanksAfterActivateCommand, BankStates
    <3>2. bank.stateChangeCountdown = 0
      BY <1>1, <1>5, <2>1 DEF Settled, Quiet
    <3>3. QED
      BY <3>1, <3>2 DEF Named
  <2>2. CASE r = p.rank /\ b # p.bank
    <3>1. \E m : after = [bank EXCEPT !.nextActivate = m]
      BY <2>2 DEF BanksAfterActivateCommand
    <3>2. QED
      BY <1>1, <1>2, <3>1
  <2>3. CASE r # p.rank
    <3>1. after = bank
      BY <2>3 DEF BanksAfterActivateCommand
    <3>2. QED
      BY <1>1, <3>1
  <2>4. QED
    BY <2>1, <2>2, <2>3
<1>6. QED
  BY <1>1, <1>3, <1>4, <1>5


-----------------------------------------------------------------------------
(* The queues after the cycle                                              *)

LEMMA RankQueuesStayOrdered ==
    ASSUME TimingInv, NEW sendsCommand, NEW sendsCAS, Cycle(sendsCommand, sendsCAS),
           NEW r \in Ranks
    PROVE  /\ Ordered(ranks'[r].readReturnQueue, tCL - 1)
           /\ \A i \in DOMAIN ranks'[r].readReturnQueue :
                 ranks'[r].readReturnQueue[i].packet.busPacketType = "READ_DATA"
<1>. DEFINE queue == RanksNow[r].readReturnQueue
            after == AfterCountDown(queue)
<1>1. ranks'[r].readReturnQueue = after
  BY DEF Cycle, UpdateRank
<1>2. /\ queue \in Seq(Burst) /\ Ordered(queue, tCL)
      /\ \A i \in DOMAIN queue : queue[i].packet.busPacketType = "READ_DATA"
  BY RankQueueNow, RankQueueOrdered DEF TimingInv, QueueInv
<1>3. tCL \in Nat
  BY TimingTypes
<1>. HIDE DEF queue
<1>4. Ordered(after, tCL - 1)
  BY <1>2, <1>3, StillOrdered
<1>5. \A i \in DOMAIN after : after[i].packet.busPacketType = "READ_DATA"
  BY <1>2, AfterCountDownPacket
<1>6. QED
  BY <1>1, <1>4, <1>5

\* What is on the data bus after the cycle; the bank of write data awaits it.
LEMMA DataMovesOn ==
    ASSUME TimingInv, NEW sendsCommand, NEW sendsCAS, Cycle(sendsCommand, sendsCAS),
           inFlightDataPacket' # NULL
    PROVE  /\ inFlightDataCountdown' \in 1 .. BURST
           /\ inFlightDataPacket' \in BusPacket
           /\ inFlightDataPacket'.busPacketType = "WRITE_DATA" =>
                 Awaits(BankOf(ranks', inFlightDataPacket'),
                        inFlightDataPacket', inFlightDataCountdown')
<1>1. TypeOK /\ DataBusAdvances /\ writeBurstQueue \in Seq(Burst)
  BY DEF TimingInv, QueueInv, Cycle, TypeOK, ControllerTypeOK
<1>2. BURST \in Nat /\ BURST >= 1
  BY TimingTypes, TimingPositive
<1>3. inFlightDataPacket' \in BusPacket
  BY <1>1, CycleType
<1>4. CASE WriteIsDue
  <2>1. inFlightDataPacket' = DueWrite /\ inFlightDataCountdown' = BURST
    BY <1>1, <1>4 DEF DataBusAdvances, DataStarts
  <2>2. /\ 1 \in DOMAIN writeBurstQueue
        /\ DueWrite = writeBurstQueue[1].packet /\ writeBurstQueue[1].countdown = 1
    BY <1>1, <1>4, BurstPlaces DEF WriteIsDue, HeadIsDue, DueWrite
  <2>3. Awaits(BankOf(RanksNow, DueWrite), DueWrite, 1 + BURST)
    BY <2>2, WritesStillAwaited
  <2>4. Awaits(BankOf(ranks', DueWrite), DueWrite, (1 + BURST) - 1)
    <3>1. DueWrite \in BusPacket /\ 1 + BURST \in Nat /\ 1 + BURST >= 1
      BY <1>2, <1>3, <2>1
    <3>2. QED
      BY <2>3, <3>1, AwaitsAges
  <2>5. (1 + BURST) - 1 = BURST
    BY <1>2
  <2>6. QED
    BY <1>2, <1>3, <2>1, <2>4, <2>5
<1>5. CASE ~ WriteIsDue /\ ReturningRanks # {}
  <2>1. /\ inFlightDataPacket' = ReturnedPacket(RanksNow[Returning])
        /\ inFlightDataCountdown' = BURST
    BY <1>1, <1>5 DEF DataBusAdvances, DataStarts, Returning
  <2>2. Returning \in Ranks /\ ReturnIsDue(RanksNow[Returning])
    BY <1>5 DEF Returning, ReturningRanks
  <2>. DEFINE queue == RanksNow[Returning].readReturnQueue
  <2>3. queue \in Seq(Burst) /\ queue # << >>
    BY <1>1, <2>2, RankQueueNow DEF ReturnIsDue, HeadIsDue
  <2>4. 1 \in DOMAIN queue /\ Head(queue) = queue[1]
    BY <2>3, BurstPlaces
  <2>5. inFlightDataPacket'.busPacketType = "READ_DATA"
    BY <2>1, <2>2, <2>4, RankQueueOrdered DEF ReturnedPacket
  <2>6. QED
    BY <1>2, <1>3, <2>1, <2>5
<1>6. CASE ~ WriteIsDue /\ ReturningRanks = {}
  <2>1. /\ inFlightDataPacket' = IF DataArrives THEN NULL ELSE inFlightDataPacket
        /\ inFlightDataCountdown' = OneLess(inFlightDataCountdown)
    BY <1>1, <1>6 DEF DataBusAdvances
  <2>2. ~ DataArrives /\ inFlightDataPacket # NULL /\ inFlightDataPacket' = inFlightDataPacket
    BY <2>1
  <2>3. inFlightDataCountdown \in 1 .. BURST /\ inFlightDataCountdown # 1
    BY <2>2 DEF TimingInv, QueuesOrdered, DataArrives
  <2>4. inFlightDataCountdown' = inFlightDataCountdown - 1
    BY <2>1, <2>3 DEF OneLess
  <2>5. ASSUME inFlightDataPacket.busPacketType = "WRITE_DATA"
        PROVE  Awaits(BankOf(ranks', inFlightDataPacket), inFlightDataPacket,
                      inFlightDataCountdown - 1)
    <3>1. Awaits(BankOf(RanksNow, inFlightDataPacket), inFlightDataPacket,
                 inFlightDataCountdown)
      BY <2>2, <2>5, WritesStillAwaited
    <3>2. /\ inFlightDataPacket \in BusPacket /\ inFlightDataCountdown \in Nat
          /\ inFlightDataCountdown >= 1
      BY <1>2, <1>3, <2>2, <2>3
    <3>3. QED
      BY <3>1, <3>2, AwaitsAges
  <2>6. inFlightDataCountdown - 1 \in 1 .. BURST
    BY <1>2, <2>3
  <2>7. QED
    BY <1>3, <2>2, <2>4, <2>5, <2>6
<1>7. QED
  BY <1>4, <1>5, <1>6

LEMMA WritesMoveOn ==
    ASSUME TimingInv, NEW sendsCommand, NEW sendsCAS, Cycle(sendsCommand, sendsCAS)
    PROVE  LET queue == AfterCountDown(writeBurstQueue) IN
           /\ queue \in Seq(Burst)
           /\ Ordered(queue, tCWL - 1)
           /\ \A i \in DOMAIN queue :
                 /\ queue[i].packet.busPacketType = "WRITE_DATA"
                 /\ Awaits(BankOf(ranks', queue[i].packet),
                           queue[i].packet, queue[i].countdown + BURST)
<1>. DEFINE queue == AfterCountDown(writeBurstQueue)
<1>1. /\ writeBurstQueue \in Seq(Burst) /\ Ordered(writeBurstQueue, tCWL)
      /\ \A i \in DOMAIN writeBurstQueue :
            writeBurstQueue[i].packet.busPacketType = "WRITE_DATA"
  BY DEF TimingInv, QueueInv, TypeOK, ControllerTypeOK, QueuesOrdered, DataNamed
<1>2. tCWL \in Nat /\ BURST \in Nat /\ BURST >= 1
  BY TimingTypes, TimingPositive
<1>3. queue \in Seq(Burst) /\ Ordered(queue, tCWL - 1)
  BY <1>1, <1>2, AfterCountDownType, StillOrdered
<1>4. ASSUME NEW i \in DOMAIN queue
      PROVE  /\ queue[i].packet.busPacketType = "WRITE_DATA"
             /\ Awaits(BankOf(ranks', queue[i].packet),
                       queue[i].packet, queue[i].countdown + BURST)
  <2>. DEFINE w == WasAt(writeBurstQueue, i)
              p == writeBurstQueue[w].packet
              c == writeBurstQueue[w].countdown
  <2>1. /\ w \in DOMAIN writeBurstQueue
        /\ queue[i].packet = p /\ queue[i].countdown = c - 1
    BY <1>1, <1>2, BurstsMoveOn
  <2>2. p \in BusPacket /\ c \in Nat
    BY <1>1, <2>1, BurstPlaces
  <2>3. Awaits(BankOf(RanksNow, p), p, c + BURST)
    BY <2>1, WritesStillAwaited
  <2>4. p.busPacketType = "WRITE_DATA"
    BY <1>1, <2>1
  <2>. HIDE DEF w, p, c, queue
  <2>5. Awaits(BankOf(ranks', p), p, (c + BURST) - 1)
    <3>1. c + BURST \in Nat /\ c + BURST >= 1
      BY <1>2, <2>2
    <3>2. QED
      BY <2>2, <2>3, <3>1, AwaitsAges
  <2>6. (c + BURST) - 1 = (c - 1) + BURST
    BY <1>2, <2>2
  <2>7. QED
    BY <2>1, <2>4, <2>5, <2>6
<1>5. QED
  BY <1>3, <1>4


-----------------------------------------------------------------------------
(* The decision                                                            *)

\* The writes of the queue come in order, and are awaited.
WritesInStep ==
    /\ Ordered(writeBurstQueue, tCWL)
    /\ \A i \in DOMAIN writeBurstQueue :
          /\ writeBurstQueue[i].packet.busPacketType = "WRITE_DATA"
          /\ Awaits(BankOf(RanksAfterCommand, writeBurstQueue[i].packet),
                    writeBurstQueue[i].packet, writeBurstQueue[i].countdown + BURST)

\* What a decision has to respect: the ranks, the writes, the bursts.
UpdateRespects(after, sent) ==
    /\ after \in [Ranks -> [Banks -> BankStates]]
    /\ bankStates' = TickBanks(after)
    /\ AllInStep(after)
    /\ KeepsClear(after)
    /\ \A r \in Ranks, b \in Banks : Named(after[r][b])
    /\ SentOnly(sent)
    /\ \A n \in sent : SlotType(n) /\ ClearsOwn(after, n)
    /\ \A n \in sent : \A x \in SlotsNow : x.start + BURST + Gap(x.rank, n.rank) <= n.start
    /\ \A m, n \in sent : m = n

LEMMA UpdateStays ==
    ASSUME TimingInv, QueueInv', NEW sendsCommand, NEW sendsCAS,
           Cycle(sendsCommand, sendsCAS), sendsCAS => waitingACTS # 0,
           CommandAccepted', WritesInStep',
           NEW after, NEW sent, UpdateRespects(after, sent)
    PROVE  TimingInv'
<1>1. TypeOK'
  BY DEF QueueInv
<1>2. error' = "none"
  BY NoError
<1>3. RankBanksMirror'
  BY <1>1, BanksStillMirror DEF UpdateRespects
<1>4. CountdownsNamed'
  BY CountdownsStayNamed DEF UpdateRespects
<1>5. BurstsClear'
  BY BurstsStayClear DEF UpdateRespects
<1>6. ASSUME inFlightDataPacket' # NULL, inFlightDataPacket'.busPacketType = "WRITE_DATA"
      PROVE  Awaits(BankOf(RanksAfterCommand', inFlightDataPacket'),
                    inFlightDataPacket', inFlightDataCountdown')
  <2>1. /\ inFlightDataPacket' \in BusPacket /\ inFlightDataCountdown' \in 1 .. BURST
        /\ Awaits(BankOf(ranks', inFlightDataPacket'),
                  inFlightDataPacket', inFlightDataCountdown')
    BY <1>6, DataMovesOn
  <2>2. inFlightDataCountdown' \in Nat
    BY <2>1, TimingTypes
  <2>3. AllInStep(after)
    BY DEF UpdateRespects
  <2>4. QED
    BY <2>1, <2>2, <2>3, AwaitsAfterCommand
<1>7. WritesAwaited'
  BY <1>6 DEF WritesAwaited, WritesInStep
<1>8. /\ \A r \in Ranks :
            /\ Ordered(ranks'[r].readReturnQueue, tCL - 1)
            /\ \A i \in DOMAIN ranks'[r].readReturnQueue :
                  ranks'[r].readReturnQueue[i].packet.busPacketType = "READ_DATA"
      /\ inFlightDataPacket' # NULL => inFlightDataCountdown' \in 1 .. BURST
  BY RankQueuesStayOrdered, DataMovesOn
<1>9. QueuesOrdered' /\ DataNamed'
  BY <1>8 DEF QueuesOrdered, DataNamed, WritesInStep
<1>10. QED
  BY <1>2, <1>3, <1>4, <1>5, <1>7, <1>9 DEF TimingInv

LEMMA NoWriteSent ==
    ASSUME TimingInv, NEW sendsCommand, NEW sendsCAS, Cycle(sendsCommand, sendsCAS),
           NEW after, AllInStep(after),
           writeBurstQueue' = AfterCountDown(writeBurstQueue)
    PROVE  /\ WritesInStep'
           /\ \A x \in WriteSlots' : \E i \in DOMAIN AfterCountDown(writeBurstQueue) :
                 x = Slot(<<"write", 0, i>>, AfterCountDown(writeBurstQueue)[i].packet,
                          AfterCountDown(writeBurstQueue)[i].countdown)
<1>. DEFINE queue == AfterCountDown(writeBurstQueue)
<1>1. /\ queue \in Seq(Burst) /\ Ordered(queue, tCWL - 1)
      /\ \A i \in DOMAIN queue :
            /\ queue[i].packet.busPacketType = "WRITE_DATA"
            /\ Awaits(BankOf(ranks', queue[i].packet),
                      queue[i].packet, queue[i].countdown + BURST)
  BY WritesMoveOn
<1>2. tCWL \in Nat /\ BURST \in Nat
  BY TimingTypes
<1>. HIDE DEF queue
<1>3. Ordered(queue, tCWL)
  BY <1>1, <1>2 DEF Ordered
<1>4. ASSUME NEW i \in DOMAIN queue
      PROVE  Awaits(BankOf(RanksAfterCommand', queue[i].packet),
                    queue[i].packet, queue[i].countdown + BURST)
  <2>1. queue[i].packet \in BusPacket /\ queue[i].countdown \in Nat
    BY <1>1, BurstPlaces
  <2>2. queue[i].countdown + BURST \in Nat
    BY <1>2, <2>1
  <2>3. QED
    BY <1>1, <2>1, <2>2, AwaitsAfterCommand
<1>5. writeBurstQueue' = queue
  BY DEF queue
<1>6. WritesInStep'
  BY <1>1, <1>3, <1>4, <1>5 DEF WritesInStep
<1>7. \A x \in WriteSlots' : \E i \in DOMAIN queue :
         x = Slot(<<"write", 0, i>>, queue[i].packet, queue[i].countdown)
  BY <1>5 DEF WriteSlots
<1>8. QED
  BY <1>6, <1>7 DEF queue

\* No burst is sent by a REFRESH, an ACTIVATE, or no command at all.
LEMMA NoCASSent ==
    ASSUME TimingInv, NEW sendsCommand, NEW sendsCAS, Cycle(sendsCommand, sendsCAS),
           NEW after, AllInStep(after),
           writeBurstQueue' = AfterCountDown(writeBurstQueue),
           \/ inFlightCommandPacket' = NULL
           \/ inFlightCommandPacket'.busPacketType # "READ_P"
    PROVE  SentOnly({})
<1>1. CommandSlots' = {}
  BY DEF CommandSlots
<1>2. QED
  BY <1>1, NoWriteSent DEF SentOnly

\* A command is at its rank in the next Update.
LEMMA CommandStaysAccepted ==
    ASSUME NEW p \in BusPacket, CommandStarts(p), ~ Refuses(ranks'[p.rank], p)
    PROVE  CommandAccepted'
<1>1. inFlightCommandPacket' = p /\ inFlightCommandCountdown' = 1
  BY TimingPositive DEF CommandStarts
<1>2. QED
  BY <1>1 DEF CommandAccepted

LEMMA RefreshStays ==
    ASSUME TimingInv, QueueInv', NEW q \in Ranks, IssueRefresh(q)
    PROVE  TimingInv'
<1>. DEFINE p == RefreshPacket(q)
            after == BanksAfterRefresh(q)
<1>1. TypeOK /\ TypeOK' /\ ControllerTypeOK /\ BanksSettled /\ CountdownsNamed
  BY DEF TimingInv, QueueInv, TypeOK
<1>2. /\ Cycle(TRUE, FALSE) /\ CommandStarts(p) /\ RefreshIsIssuable(q)
      /\ bankStates' = TickBanks(after)
      /\ writeBurstQueue' = AfterCountDown(writeBurstQueue)
  BY DEF IssueRefresh, ControllerRefresh
<1>3. p \in BusPacket /\ p.busPacketType = "REFRESH"
  BY RefreshPacketType DEF RefreshPacket
<1>4. AllInStep(after) /\ ~ Refuses(ranks'[p.rank], p)
  BY <1>1, <1>2, RefreshSent DEF CommandInStep
<1>5. after \in [Ranks -> [Banks -> BankStates]]
  BY <1>1, <1>3, BanksAfterTypes
<1>6. KeepsClear(after)
  BY <1>2, OthersKeepClear
<1>7. \A r \in Ranks, b \in Banks : Named(after[r][b])
  BY <1>1, AllNamed
<1>. HIDE DEF p, after
<1>8. CommandAccepted' /\ inFlightCommandPacket' = p
  BY <1>2, <1>3, <1>4, CommandStaysAccepted DEF CommandStarts
<1>9. SentOnly({}) /\ WritesInStep'
  BY <1>2, <1>3, <1>4, <1>8, NoCASSent, NoWriteSent
<1>10. UpdateRespects(after, {})
  BY <1>2, <1>4, <1>5, <1>6, <1>7, <1>9 DEF UpdateRespects
<1>11. QED
  BY <1>2, <1>8, <1>9, <1>10, UpdateStays

LEMMA ActivateStays ==
    ASSUME TimingInv, QueueInv', NEW i \in DOMAIN commandQueue, IssueActivate(i)
    PROVE  TimingInv'
<1>. DEFINE p == commandQueue[i]
            after == BanksAfterActivateCommand(p)
<1>1. TypeOK /\ TypeOK' /\ ControllerTypeOK /\ BanksSettled /\ CountdownsNamed
  BY DEF TimingInv, QueueInv, TypeOK
<1>2. /\ Cycle(TRUE, FALSE) /\ CommandStarts(p)
      /\ Selected(i, Queued, OutstandingNow) /\ p.busPacketType = "ACTIVATE"
      /\ bankStates' = TickBanks(after)
      /\ writeBurstQueue' = AfterCountDown(writeBurstQueue)
  BY DEF IssueActivate, ControllerActivate
<1>3. p \in BusPacket /\ Quiet(BanksNow[p.rank][p.bank])
  BY <1>2, SelectedActivate
<1>4. AllInStep(after) /\ ~ Refuses(ranks'[p.rank], p)
  BY <1>1, <1>2, <1>3, ActivateSent DEF CommandInStep
<1>5. after \in [Ranks -> [Banks -> BankStates]]
  BY <1>1, <1>3, BanksAfterTypes
<1>6. KeepsClear(after)
  BY <1>3, OthersKeepClear
<1>7. \A r \in Ranks, b \in Banks : Named(after[r][b])
  BY <1>1, <1>3, AllNamed
<1>. HIDE DEF p, after
<1>8. CommandAccepted' /\ inFlightCommandPacket' = p
  BY <1>2, <1>3, <1>4, CommandStaysAccepted DEF CommandStarts
<1>9. SentOnly({}) /\ WritesInStep'
  BY <1>2, <1>4, <1>8, NoCASSent, NoWriteSent
<1>10. UpdateRespects(after, {})
  BY <1>2, <1>4, <1>5, <1>6, <1>7, <1>9 DEF UpdateRespects
<1>11. QED
  BY <1>2, <1>8, <1>9, <1>10, UpdateStays

LEMMA IdleStays ==
    ASSUME TimingInv, QueueInv', IssueNothing
    PROVE  TimingInv'
<1>1. TypeOK /\ ControllerTypeOK /\ BanksSettled /\ CountdownsNamed /\ CommandAccepted
  BY DEF TimingInv, QueueInv, TypeOK
<1>2. /\ Cycle(FALSE, FALSE) /\ NoCommandStarts
      /\ bankStates' = TickBanks(BanksNow)
      /\ writeBurstQueue' = AfterCountDown(writeBurstQueue)
  BY DEF IssueNothing, ControllerIdle
<1>3. AllInStep(BanksNow)
  BY <1>2, NothingSent
<1>4. BanksNow \in [Ranks -> [Banks -> BankStates]]
  <2>1. PICK r \in Ranks : TRUE
    BY GeometryAssumption DEF Ranks
  <2>2. QED
    BY <1>1, RefreshPacketType, BanksAfterTypes
<1>5. KeepsClear(BanksNow)
  BY OthersKeepClear
<1>6. \A r \in Ranks, b \in Banks : Named(BanksNow[r][b])
  BY <1>1, AllNamed
<1>7. inFlightCommandPacket' = NULL
  <2>1. PICK r \in Ranks : TRUE
    BY GeometryAssumption DEF Ranks
  <2>2. QED
    BY <1>1, <1>2, NoCommandReaches
<1>8. CommandAccepted'
  BY <1>7 DEF CommandAccepted
<1>9. SentOnly({}) /\ WritesInStep'
  BY <1>2, <1>3, <1>7, NoCASSent, NoWriteSent
<1>10. UpdateRespects(BanksNow, {})
  BY <1>2, <1>3, <1>4, <1>5, <1>6, <1>9 DEF UpdateRespects
<1>11. QED
  BY <1>2, <1>8, <1>9, <1>10, UpdateStays


\* An open bank whose wait is over has room for the burst of its CAS.
LEMMA CASIsClear ==
    ASSUME TimingInv, NEW p \in BusPacket, IsOpen(BanksNow[p.rank][p.bank]),
           NEW x \in SlotsNow
    PROVE  /\ BanksNow[p.rank][p.bank].nextRead = 0 =>
                 x.start + BURST + Gap(x.rank, p.rank) <= tCL + 1
           /\ BanksNow[p.rank][p.bank].nextWrite = 0 =>
                 x.start + BURST + Gap(x.rank, p.rank) <= tCWL + 1
<1>. DEFINE bank == BanksNow[p.rank][p.bank]
<1>1. p.rank \in Ranks /\ p.bank \in Banks
  BY DEF BusPacket
<1>2. Clears(bank, p.rank, x)
  BY <1>1, SlotsNowClear
<1>3. tCL \in Nat /\ tCWL \in Nat
  BY TimingTypes
<1>. HIDE DEF bank
<1>4. /\ bank.nextRead = 0 =>
            x.start + BURST + Gap(x.rank, p.rank) <= 1 + tCL + 0
      /\ bank.nextWrite = 0 =>
            x.start + BURST + Gap(x.rank, p.rank) <= 1 + tCWL + 0
  <2>1. IsOpen(bank)
    BY DEF bank
  <2>2. QED
    BY <1>2, <2>1 DEF Clears, CASWait
<1>5. 1 + tCL + 0 = tCL + 1 /\ 1 + tCWL + 0 = tCWL + 1
  BY <1>3
<1>6. QED
  BY <1>4, <1>5 DEF bank

LEMMA ReadStays ==
    ASSUME TimingInv, QueueInv', NEW i \in DOMAIN commandQueue, IssueRead(i)
    PROVE  TimingInv'
<1>. DEFINE p == commandQueue[i]
            after == BanksAfterRead(p)
            n == Slot(<<"sent", 0, 0>>, p, tCL + 1)
<1>1. TypeOK /\ TypeOK' /\ ControllerTypeOK /\ BanksSettled /\ CountdownsNamed
  BY DEF TimingInv, QueueInv, TypeOK
<1>2. /\ Cycle(TRUE, TRUE) /\ CommandStarts(p)
      /\ Selected(i, Queued, OutstandingNow) /\ p.busPacketType = "READ_P"
      /\ bankStates' = TickBanks(after)
      /\ writeBurstQueue' = AfterCountDown(writeBurstQueue)
  BY DEF IssueRead, ControllerRead
<1>3. /\ p \in BusPacket /\ IsOpen(BanksNow[p.rank][p.bank])
      /\ BanksNow[p.rank][p.bank].openRowAddress = p.row
      /\ BanksNow[p.rank][p.bank].nextRead = 0
      /\ waitingACTS # 0
  BY <1>2, SelectedCAS DEF IsCAS
<1>4. AllInStep(after) /\ ~ Refuses(ranks'[p.rank], p)
  BY <1>1, <1>2, <1>3, ReadSentInStep DEF CommandInStep
<1>5. after \in [Ranks -> [Banks -> BankStates]]
  BY <1>1, <1>3, BanksAfterTypes
<1>6. n.at = <<"sent", 0, 0>> /\ n.rank = p.rank /\ n.start = tCL + 1
  BY SlotFields
<1>7. KeepsClear(after) /\ ClearsOwn(after, n)
  <2>. HIDE DEF n
  <2>1. QED
    BY <1>3, <1>6, ReadKeepsClear
<1>8. \A r \in Ranks, b \in Banks : Named(after[r][b])
  BY <1>1, <1>3, AllNamed
<1>9. \A x \in SlotsNow : x.start + BURST + Gap(x.rank, p.rank) <= tCL + 1
  BY <1>3, CASIsClear
<1>10. p.rank \in Ranks /\ tCL \in Nat
  BY <1>3, TimingTypes DEF BusPacket
<1>. HIDE DEF p, after, n
<1>11. CommandAccepted' /\ inFlightCommandPacket' = p
  BY <1>2, <1>3, <1>4, CommandStaysAccepted DEF CommandStarts
<1>12. /\ WritesInStep'
       /\ \A x \in WriteSlots' : \E j \in DOMAIN AfterCountDown(writeBurstQueue) :
             x = Slot(<<"write", 0, j>>, AfterCountDown(writeBurstQueue)[j].packet,
                      AfterCountDown(writeBurstQueue)[j].countdown)
  BY <1>2, <1>4, NoWriteSent
<1>13. SentOnly({n})
  <2>1. ASSUME NEW x \in CommandSlots' PROVE Moved(x, n, 1)
    <3>1. x = Slot(<<"command", 0, 0>>, p, tCL)
      BY <1>11, <2>1 DEF CommandSlots
    <3>2. x.rank = p.rank /\ x.start = tCL
      BY <3>1, SlotFields
    <3>3. QED
      BY <1>6, <1>10, <3>2 DEF Moved
  <2>2. QED
    BY <1>6, <1>12, <2>1 DEF SentOnly
<1>14. SlotType(n)
  BY <1>6, <1>10 DEF SlotType
<1>15. \A x \in SlotsNow : x.start + BURST + Gap(x.rank, n.rank) <= n.start
  BY <1>6, <1>9
<1>16. UpdateRespects(after, {n})
  BY <1>2, <1>4, <1>5, <1>7, <1>8, <1>13, <1>14, <1>15 DEF UpdateRespects
<1>17. QED
  BY <1>2, <1>3, <1>11, <1>12, <1>16, UpdateStays

\* The burst that a WRITE adds to the queue.
LEMMA WriteJoins ==
    ASSUME TimingInv, NEW sendsCommand, NEW sendsCAS, Cycle(sendsCommand, sendsCAS),
           NEW after, AllInStep(after), NEW p \in BusPacket,
           Awaits(BankOf(RanksAfterCommand', p), p, tCWL + BURST),
           writeBurstQueue' = Append(AfterCountDown(writeBurstQueue),
                                     [packet |-> AsType(p, "WRITE_DATA"),
                                      countdown |-> tCWL])
    PROVE  LET queue == AfterCountDown(writeBurstQueue)
               last == Len(queue) + 1 IN
           /\ WritesInStep'
           /\ last \in Nat \ {0} /\ last \notin DOMAIN queue
           /\ \A x \in WriteSlots' :
                 \/ \E i \in DOMAIN queue :
                       x = Slot(<<"write", 0, i>>, queue[i].packet, queue[i].countdown)
                 \/ x.at = <<"write", 0, last>> /\ x.rank = p.rank /\ x.start = tCWL
<1>. DEFINE queue == AfterCountDown(writeBurstQueue)
            last == Len(queue) + 1
            e == [packet |-> AsType(p, "WRITE_DATA"), countdown |-> tCWL]
            new == Append(queue, e)
<1>1. /\ queue \in Seq(Burst) /\ Ordered(queue, tCWL - 1)
      /\ \A i \in DOMAIN queue :
            /\ queue[i].packet.busPacketType = "WRITE_DATA"
            /\ Awaits(BankOf(ranks', queue[i].packet),
                      queue[i].packet, queue[i].countdown + BURST)
  BY WritesMoveOn
<1>2. tCWL \in Nat /\ tCWL >= 1 /\ BURST \in Nat
  BY TimingTypes, TimingPositive
<1>3. /\ e.packet.busPacketType = "WRITE_DATA" /\ e.packet.rank = p.rank
      /\ e.packet.bank = p.bank /\ e.packet.row = p.row /\ e.countdown = tCWL
  BY DEF AsType, BusPacket
<1>4. e \in Burst
  BY <1>2, AsTypeType DEF Burst, BusPacketTypes
<1>. HIDE DEF queue, e
<1>5. Awaits(BankOf(RanksAfterCommand', e.packet), e.packet, e.countdown + BURST)
  BY <1>3 DEF Awaits, BankOf
<1>6. Ordered(new, tCWL)
  BY <1>1, <1>2, <1>3, <1>4, OrderedAppended
<1>7. /\ DOMAIN queue = 1 .. Len(queue) /\ Len(queue) \in Nat
      /\ last \notin DOMAIN queue
      /\ \A i \in DOMAIN new : new[i] = IF i \in DOMAIN queue THEN queue[i] ELSE e
      /\ \A i \in DOMAIN new : i \in DOMAIN queue \/ i = last
  BY <1>1, <1>4, BurstAppended, BurstPlaces
<1>. HIDE DEF new
<1>8. ASSUME NEW i \in DOMAIN queue
      PROVE  Awaits(BankOf(RanksAfterCommand', queue[i].packet),
                    queue[i].packet, queue[i].countdown + BURST)
  <2>1. queue[i].packet \in BusPacket /\ queue[i].countdown \in Nat
    BY <1>1, BurstPlaces
  <2>2. queue[i].countdown + BURST \in Nat
    BY <1>2, <2>1
  <2>3. QED
    BY <1>1, <2>1, <2>2, AwaitsAfterCommand
<1>9. writeBurstQueue' = new
  BY DEF new, queue, e
<1>10. ASSUME NEW i \in DOMAIN new
       PROVE  /\ new[i].packet.busPacketType = "WRITE_DATA"
              /\ Awaits(BankOf(RanksAfterCommand', new[i].packet),
                        new[i].packet, new[i].countdown + BURST)
  <2>1. CASE i \in DOMAIN queue
    <3>1. new[i] = queue[i]
      BY <1>7, <2>1
    <3>2. QED
      BY <1>1, <1>8, <2>1, <3>1
  <2>2. CASE i \notin DOMAIN queue
    <3>1. new[i] = e
      BY <1>7, <2>2
    <3>2. QED
      BY <1>3, <1>5, <3>1
  <2>3. QED
    BY <2>1, <2>2
<1>11. WritesInStep'
  BY <1>6, <1>9, <1>10 DEF WritesInStep
<1>12. ASSUME NEW x \in WriteSlots'
       PROVE  \/ \E i \in DOMAIN queue :
                    x = Slot(<<"write", 0, i>>, queue[i].packet, queue[i].countdown)
              \/ x.at = <<"write", 0, last>> /\ x.rank = p.rank /\ x.start = tCWL
  <2>1. PICK i \in DOMAIN new : x = Slot(<<"write", 0, i>>, new[i].packet, new[i].countdown)
    BY <1>9 DEF WriteSlots
  <2>2. CASE i \in DOMAIN queue
    BY <1>7, <2>1, <2>2
  <2>3. CASE i \notin DOMAIN queue
    <3>1. i = last /\ new[i] = e
      BY <1>7, <2>3
    <3>2. QED
      BY <1>3, <2>1, <3>1, SlotFields
  <2>4. QED
    BY <2>2, <2>3
<1>13. last \in Nat \ {0}
  BY <1>7
<1>14. QED
  BY <1>7, <1>11, <1>12, <1>13 DEF queue

LEMMA WriteStays ==
    ASSUME TimingInv, QueueInv', NEW i \in DOMAIN commandQueue, IssueWrite(i)
    PROVE  TimingInv'
<1>. DEFINE p == commandQueue[i]
            after == BanksAfterWrite(p)
            queue == AfterCountDown(writeBurstQueue)
            last == Len(queue) + 1
            n == Slot(<<"sent", 0, last>>, p, tCWL + 1)
<1>1. TypeOK /\ TypeOK' /\ ControllerTypeOK /\ BanksSettled /\ CountdownsNamed
  BY DEF TimingInv, QueueInv, TypeOK
<1>2. /\ Cycle(TRUE, TRUE) /\ CommandStarts(p)
      /\ Selected(i, Queued, OutstandingNow) /\ p.busPacketType = "WRITE_P"
      /\ bankStates' = TickBanks(after)
      /\ writeBurstQueue' = Append(queue, [packet |-> AsType(p, "WRITE_DATA"),
                                           countdown |-> tCWL])
  BY DEF IssueWrite, ControllerWrite
<1>3. /\ p \in BusPacket /\ IsOpen(BanksNow[p.rank][p.bank])
      /\ BanksNow[p.rank][p.bank].openRowAddress = p.row
      /\ BanksNow[p.rank][p.bank].nextWrite = 0
      /\ waitingACTS # 0
  BY <1>2, SelectedCAS DEF IsCAS
<1>4. /\ AllInStep(after) /\ ~ Refuses(ranks'[p.rank], p)
      /\ Awaits(BankOf(RanksAfterCommand', p), p, tCWL + BURST)
  BY <1>1, <1>2, <1>3, WriteSentInStep DEF CommandInStep
<1>5. after \in [Ranks -> [Banks -> BankStates]]
  BY <1>1, <1>3, BanksAfterTypes
<1>6. n.at = <<"sent", 0, last>> /\ n.rank = p.rank /\ n.start = tCWL + 1
  BY SlotFields
<1>7. KeepsClear(after) /\ ClearsOwn(after, n)
  <2>. HIDE DEF n
  <2>1. QED
    BY <1>3, <1>6, WriteKeepsClear
<1>8. \A r \in Ranks, b \in Banks : Named(after[r][b])
  BY <1>1, <1>3, AllNamed
<1>9. \A x \in SlotsNow : x.start + BURST + Gap(x.rank, p.rank) <= tCWL + 1
  BY <1>3, CASIsClear
<1>10. p.rank \in Ranks /\ tCWL \in Nat
  BY <1>3, TimingTypes DEF BusPacket
<1>. HIDE DEF p, after, n
<1>11. CommandAccepted' /\ inFlightCommandPacket' = p
  BY <1>2, <1>3, <1>4, CommandStaysAccepted DEF CommandStarts
<1>12. /\ WritesInStep'
       /\ last \in Nat \ {0} /\ last \notin DOMAIN queue
       /\ \A x \in WriteSlots' :
             \/ \E j \in DOMAIN queue :
                   x = Slot(<<"write", 0, j>>, queue[j].packet, queue[j].countdown)
             \/ x.at = <<"write", 0, last>> /\ x.rank = p.rank /\ x.start = tCWL
  BY <1>2, <1>3, <1>4, WriteJoins
<1>. HIDE DEF last
<1>13. SentOnly({n})
  <2>1. CommandSlots' = {}
    BY <1>2, <1>11 DEF CommandSlots
  <2>2. ASSUME NEW x \in WriteSlots',
               x.at = <<"write", 0, last>>, x.rank = p.rank, x.start = tCWL
        PROVE  \E u \in {n} : Moved(x, u, 1) /\ u.at = <<"sent", 0, last>>
    BY <1>6, <1>10, <2>2 DEF Moved
  <2>3. QED
    BY <1>12, <2>1, <2>2 DEF SentOnly
<1>14. SlotType(n)
  BY <1>6, <1>10 DEF SlotType
<1>15. \A x \in SlotsNow : x.start + BURST + Gap(x.rank, n.rank) <= n.start
  BY <1>6, <1>9
<1>16. UpdateRespects(after, {n})
  BY <1>2, <1>4, <1>5, <1>7, <1>8, <1>13, <1>14, <1>15 DEF UpdateRespects
<1>17. QED
  BY <1>2, <1>3, <1>11, <1>12, <1>16, UpdateStays

-----------------------------------------------------------------------------
(* The invariant holds                                                     *)

LEMMA TimingInit == Init => TimingInv
<1>. SUFFICES ASSUME Init PROVE TimingInv
  OBVIOUS
<1>1. QueueInv
  BY InitTypeOK, QueueInit DEF QueueInv, QueueAndBanks
<1>2. /\ ranks = [r \in Ranks |-> NewRank] /\ error = "none"
      /\ inFlightCommandPacket = NULL /\ inFlightDataPacket = NULL
      /\ bankStates = [r \in Ranks |-> [b \in Banks |-> IdleBank]]
      /\ writeBurstQueue = << >>
  BY DEF Init, ControllerInit
<1>3. \A r \in Ranks : RanksAfterCommand[r] = NewRank
  BY <1>2 DEF RanksAfterCommand, CommandArrives
<1>4. /\ RankSettled(IdleBank) /\ Mirrors(IdleBank, IdleBank)
      /\ IdleBank.stateChangeCountdown = 0
  BY DEF RankSettled, Mirrors, IsOpen, Opened, OneLess, IdleBank
<1>5. \A b \in Banks : NewRank.bankStates[b] = IdleBank
  BY DEF NewRank
<1>6. RankBanksMirror
  BY <1>2, <1>3, <1>4, <1>5 DEF RankBanksMirror
<1>7. WritesAwaited /\ CommandAccepted
  BY <1>2 DEF WritesAwaited, CommandAccepted
<1>8. CountdownsNamed
  BY <1>2, <1>4 DEF CountdownsNamed
<1>9. NewRank.readReturnQueue = << >>
  BY DEF NewRank
<1>10. QueuesOrdered /\ DataNamed
  BY <1>2, <1>9 DEF QueuesOrdered, DataNamed, Ordered
<1>11. Slots = {}
  <2>1. DataSlots = {} /\ CommandSlots = {} /\ WriteSlots = {}
    BY <1>2 DEF DataSlots, CommandSlots, WriteSlots
  <2>2. ASSUME NEW r \in Ranks
        PROVE  ReadSlots(ranks[r].readReturnQueue, r) = {}
    <3>1. ranks[r].readReturnQueue = << >>
      BY <1>2, <1>9
    <3>2. DOMAIN ranks[r].readReturnQueue = {}
      BY <3>1
    <3>3. \A u : u \notin ReadSlots(ranks[r].readReturnQueue, r)
      BY <3>2, ReadSlotOf
    <3>4. QED
      BY <3>3
  <2>3. QED
    BY <2>1, <2>2 DEF Slots
<1>12. BurstsClear
  BY <1>11 DEF BurstsClear, AllApart
<1>13. QED
  BY <1>1, <1>2, <1>6, <1>7, <1>8, <1>10, <1>12 DEF TimingInv

\* Between two Updates the banks, the ranks, the buses and the bursts stand still.
LEMMA TimingUnchanged ==
    ASSUME TimingInv, QueueInv', UNCHANGED <<busVars, bankStates, writeBurstQueue, error>>
    PROVE  TimingInv'
<1>1. /\ ranks' = ranks /\ bankStates' = bankStates
      /\ inFlightCommandPacket' = inFlightCommandPacket
      /\ inFlightCommandCountdown' = inFlightCommandCountdown
      /\ inFlightDataPacket' = inFlightDataPacket
      /\ inFlightDataCountdown' = inFlightDataCountdown
      /\ writeBurstQueue' = writeBurstQueue /\ error' = error
  BY DEF busVars
<1>2. RanksAfterCommand' = RanksAfterCommand
  BY <1>1 DEF RanksAfterCommand, CommandArrives
<1>3. RankBanksMirror' /\ WritesAwaited'
  BY <1>1, <1>2 DEF TimingInv, RankBanksMirror, WritesAwaited
<1>4. CommandAccepted' /\ CountdownsNamed' /\ QueuesOrdered' /\ DataNamed'
  BY <1>1 DEF TimingInv, CommandAccepted, CountdownsNamed, QueuesOrdered, DataNamed
<1>5. Slots' = Slots
  BY <1>1 DEF Slots, DataSlots, CommandSlots, WriteSlots, ReadSlots
<1>6. BurstsClear'
  BY <1>1, <1>5 DEF TimingInv, BurstsClear
<1>7. QED
  BY <1>1, <1>3, <1>4, <1>6 DEF TimingInv

LEMMA TimingNext == TimingInv /\ [Next]_vars => TimingInv'
<1>1. SUFFICES ASSUME TimingInv, [Next]_vars PROVE TimingInv'
  OBVIOUS
<1>2. QueueInv'
  BY <1>1, QueueNext DEF TimingInv
<1>3. ASSUME NEW t \in Transaction, AddTransaction(t) PROVE TimingInv'
  BY <1>1, <1>2, <1>3, TimingUnchanged DEF AddTransaction, EnqueueCommands
<1>4. CASE TakeReturn
  BY <1>1, <1>2, <1>4, TimingUnchanged DEF TakeReturn, controllerVars
<1>5. ASSUME NEW r \in Ranks, IssueRefresh(r) PROVE TimingInv'
  BY <1>1, <1>2, <1>5, RefreshStays
<1>6. ASSUME NEW i \in DOMAIN commandQueue, IssueRead(i) PROVE TimingInv'
  BY <1>1, <1>2, <1>6, ReadStays
<1>7. ASSUME NEW i \in DOMAIN commandQueue, IssueWrite(i) PROVE TimingInv'
  BY <1>1, <1>2, <1>7, WriteStays
<1>8. ASSUME NEW i \in DOMAIN commandQueue, IssueActivate(i) PROVE TimingInv'
  BY <1>1, <1>2, <1>8, ActivateStays
<1>9. CASE IssueNothing
  BY <1>1, <1>2, <1>9, IdleStays
<1>10. CASE UNCHANGED vars
  BY <1>1, <1>2, <1>10, TimingUnchanged DEF vars, controllerVars
<1>11. QED
  BY <1>1, <1>3, <1>4, <1>5, <1>6, <1>7, <1>8, <1>9, <1>10 DEF Next, Update

LEMMA TimingInvariant == Spec => []TimingInv
<1>1. Init => TimingInv
  BY TimingInit
<1>2. TimingInv /\ [Next]_vars => TimingInv'
  BY TimingNext
<1>3. QED
  BY <1>1, <1>2, PTL DEF Spec


-----------------------------------------------------------------------------
(* What it says of the channel                                             *)

\* The controller's decisions suit the ranks: the exits of Rank::ReceiveFromBus and
\* of the banks' state machine (Rank.cpp:82-205, BankState.cpp:76) cannot be reached,
\* for every device, geometry, queue size and order of transactions.
THEOREM RanksNeverRefuse == Spec => []RankNeverRefuses
<1>1. TimingInv => RankNeverRefuses
  BY DEF TimingInv, RankNeverRefuses
<1>2. QED
  BY <1>1, TimingInvariant, PTL

\* Neither does a command or a burst find its bus taken (DRAMChannel.cpp:226-256).
THEOREM BusesNeverCollide == Spec => []DataBusNeverCollides
<1>1. TimingInv => DataBusNeverCollides
  BY DEF TimingInv, DataBusNeverCollides
<1>2. QED
  BY <1>1, TimingInvariant, PTL

\* And the controller never counts fewer transactions than it sends: no exit(0) of a
\* channel can be reached at all.
THEOREM ChannelNeverExits == Spec => [](error = "none")
<1>1. TimingInv => error = "none"
  BY DEF TimingInv
<1>2. QED
  BY <1>1, TimingInvariant, PTL

\* The burst at a place.
BurstAt(at) ==
    LET queue == IF at[1] = "write" THEN writeBurstQueue
                                    ELSE ranks[at[2]].readReturnQueue IN
    CASE at[1] = "data" ->
           [id |-> inFlightDataPacket.transactionID, rank |-> inFlightDataPacket.rank,
            start |-> inFlightDataCountdown - BURST]
      [] at[1] = "command" ->
           [id |-> inFlightCommandPacket.transactionID, rank |-> inFlightCommandPacket.rank,
            start |-> tCL]
      [] OTHER ->
           [id |-> queue[at[3]].packet.transactionID, rank |-> queue[at[3]].packet.rank,
            start |-> queue[at[3]].countdown]

LEMMA BurstIsSlot ==
    ASSUME TimingInv, NEW x \in Bursts
    PROVE  \E u \in Slots : u.rank = x.rank /\ u.start = x.start /\ x = BurstAt(u.at)
<1>1. writeBurstQueue \in Seq(Burst)
  BY DEF TimingInv, QueueInv, TypeOK, ControllerTypeOK
<1>2. CASE x \in {[id |-> inFlightDataPacket.transactionID,
                   rank |-> inFlightDataPacket.rank,
                   start |-> inFlightDataCountdown - BURST] :
                      z \in {inFlightDataPacket} \ {NULL}}
  <2>. DEFINE u == Slot(<<"data", 0, 0>>, inFlightDataPacket, inFlightDataCountdown - BURST)
  <2>1. /\ inFlightDataPacket # NULL
        /\ x = [id |-> inFlightDataPacket.transactionID, rank |-> inFlightDataPacket.rank,
                start |-> inFlightDataCountdown - BURST]
    BY <1>2
  <2>2. u \in Slots
    BY <2>1 DEF Slots, DataSlots
  <2>3. /\ u.at = <<"data", 0, 0>> /\ u.rank = inFlightDataPacket.rank
        /\ u.start = inFlightDataCountdown - BURST
    BY SlotFields
  <2>. HIDE DEF u
  <2>4. BurstAt(<<"data", 0, 0>>) = x
    BY <2>1 DEF BurstAt
  <2>5. u.rank = x.rank /\ u.start = x.start
    BY <2>1, <2>3
  <2>6. QED
    BY <2>2, <2>3, <2>4, <2>5
<1>3. ASSUME NEW p \in {q \in {inFlightCommandPacket} \ {NULL} : q.busPacketType = "READ_P"},
             x = [id |-> p.transactionID, rank |-> p.rank,
                  start |-> inFlightCommandCountdown + tCL - 1]
      PROVE  \E u \in Slots : u.rank = x.rank /\ u.start = x.start /\ x = BurstAt(u.at)
  <2>. DEFINE u == Slot(<<"command", 0, 0>>, p, tCL)
  <2>1. inFlightCommandPacket # NULL /\ p = inFlightCommandPacket
    BY <1>3
  <2>2. inFlightCommandCountdown + tCL - 1 = tCL
    <3>1. inFlightCommandCountdown = 1 /\ tCL \in Nat
      BY <2>1, TimingTypes DEF TimingInv, CommandAccepted
    <3>2. QED
      BY <3>1
  <2>3. u \in Slots
    BY <1>3 DEF Slots, CommandSlots
  <2>4. /\ u.at = <<"command", 0, 0>> /\ u.rank = p.rank /\ u.start = tCL
    BY SlotFields
  <2>. HIDE DEF u
  <2>5. BurstAt(<<"command", 0, 0>>) = x
    BY <1>3, <2>1, <2>2 DEF BurstAt
  <2>6. u.rank = x.rank /\ u.start = x.start
    BY <1>3, <2>2, <2>4
  <2>7. QED
    BY <2>3, <2>4, <2>5, <2>6
<1>4. ASSUME NEW e \in PacketsOf(writeBurstQueue)
                       \union UNION {PacketsOf(ranks[r].readReturnQueue) : r \in Ranks},
             x = [id |-> e.packet.transactionID, rank |-> e.packet.rank,
                  start |-> e.countdown]
      PROVE  \E u \in Slots : u.rank = x.rank /\ u.start = x.start /\ x = BurstAt(u.at)
  <2>1. CASE e \in PacketsOf(writeBurstQueue)
    <3>1. PICK i \in DOMAIN writeBurstQueue : e = writeBurstQueue[i]
      BY <2>1 DEF PacketsOf
    <3>. DEFINE u == Slot(<<"write", 0, i>>, writeBurstQueue[i].packet,
                          writeBurstQueue[i].countdown)
    <3>2. u \in Slots
      BY <3>1 DEF Slots, WriteSlots
    <3>3. /\ u.at = <<"write", 0, i>> /\ u.rank = e.packet.rank /\ u.start = e.countdown
      BY <3>1, SlotFields
    <3>. HIDE DEF u
    <3>4. BurstAt(<<"write", 0, i>>) = x
      BY <1>4, <3>1 DEF BurstAt
    <3>5. u.rank = x.rank /\ u.start = x.start
      BY <1>4, <3>3
    <3>6. QED
      BY <3>2, <3>3, <3>4, <3>5
  <2>2. ASSUME NEW r \in Ranks, e \in PacketsOf(ranks[r].readReturnQueue)
        PROVE  \E u \in Slots : u.rank = x.rank /\ u.start = x.start /\ x = BurstAt(u.at)
    <3>. DEFINE queue == ranks[r].readReturnQueue
    <3>1. PICK i \in DOMAIN queue : e = queue[i]
      BY <2>2 DEF PacketsOf
    <3>. DEFINE u == Slot(<<"read", r, i>>, queue[i].packet, queue[i].countdown)
    <3>2. u \in Slots
      <4>1. u \in ReadSlots(queue, r)
        BY <3>1, ReadSlotOf
      <4>2. QED
        BY <4>1 DEF Slots
    <3>3. /\ u.at = <<"read", r, i>> /\ u.rank = e.packet.rank /\ u.start = e.countdown
      BY <3>1, SlotFields
    <3>. HIDE DEF u
    <3>4. BurstAt(<<"read", r, i>>) = x
      BY <1>4, <3>1 DEF BurstAt
    <3>5. u.rank = x.rank /\ u.start = x.start
      BY <1>4, <3>3
    <3>6. QED
      BY <3>2, <3>3, <3>4, <3>5
  <2>3. QED
    BY <1>4, <2>1, <2>2
<1>5. QED
  BY <1>2, <1>3, <1>4 DEF Bursts

\* The bursts a channel commits itself to never overlap, and those of different ranks
\* have tRTRS cycles in between, reads and writes alike; a change of direction within a
\* rank costs the bus nothing.  The waits that
\* SimpleController sets with each command (SimpleController.cpp:348-479) are enough.
THEOREM BurstsStayApart == Spec => []BurstsKeepApart
<1>1. TimingInv => BurstsKeepApart
  <2>1. SUFFICES ASSUME TimingInv, NEW x \in Bursts, NEW y \in Bursts,
                        x # y, x.start <= y.start
                 PROVE  y.start >= x.start + BURST + (IF x.rank = y.rank THEN 0 ELSE tRTRS)
    BY DEF BurstsKeepApart
  <2>2. PICK u \in Slots : u.rank = x.rank /\ u.start = x.start /\ x = BurstAt(u.at)
    BY <2>1, BurstIsSlot
  <2>3. PICK v \in Slots : v.rank = y.rank /\ v.start = y.start /\ y = BurstAt(v.at)
    BY <2>1, BurstIsSlot
  <2>4. u.at # v.at
    BY <2>1, <2>2, <2>3
  <2>5. Apart(u, v)
    BY <2>1, <2>4 DEF TimingInv, BurstsClear, AllApart
  <2>6. SlotType(u) /\ SlotType(v)
    BY <2>1, SlotsTyped DEF TimingInv, QueueInv
  <2>7. u.start + BURST + Gap(u.rank, v.rank) <= v.start
    BY <2>1, <2>2, <2>3, <2>5 DEF Apart
  <2>8. u.start \in Int /\ v.start \in Int /\ BURST \in Nat /\ tRTRS \in Nat
    BY <2>6, TimingTypes DEF SlotType
  <2>9. QED
    BY <2>2, <2>3, <2>7, <2>8 DEF Gap
<1>2. QED
  BY <1>1, TimingInvariant, PTL

=============================================================================
