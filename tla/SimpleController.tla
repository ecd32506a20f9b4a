-------------------------- MODULE SimpleController --------------------------
(***************************************************************************)
(* The controller of one DRAM channel (SimpleController.cpp).  It turns    *)
(* each transaction into an ACTIVATE and a CAS with auto-precharge, sends  *)
(* at most one command per cycle, the first in its queue that the timing   *)
(* of the device allows, and refreshes each rank periodically.             *)
(*                                                                         *)
(* Update is cut here into what it computes before it decides (the ...Now  *)
(* operators) and one action per decision.  The channel (DRAMChannel)      *)
(* conjoins the chosen action with what happens on the buses and in the    *)
(* ranks in the same cycle; "queued" and "outstanding" are the size of its *)
(* return queue and the reads still to be returned when the controller     *)
(* takes its turn.                                                         *)
(***************************************************************************)
EXTENDS BankState, FiniteSets

VARIABLES
    commandQueue,         \* packets waiting to be sent
    bankStates,           \* the controller's view of every bank
    writeBurstQueue,      \* write data to send, with its countdown
    tFAWWindow,           \* per rank, the cycles left of each recent ACTIVATE
    refreshCounters,      \* per rank, the cycles until a refresh is due
    waitingACTS           \* transactions whose CAS has not been sent

controllerVars == <<commandQueue, bankStates, writeBurstQueue, tFAWWindow,
                    refreshCounters, waitingACTS>>

ControllerTypeOK ==
    /\ commandQueue \in Seq(BusPacket)
    /\ bankStates \in [Ranks -> [Banks -> BankStates]]
    /\ writeBurstQueue \in Seq(Burst)
    /\ tFAWWindow \in [Ranks -> Seq(Nat)]
    /\ refreshCounters \in [Ranks -> Nat]
    /\ waitingACTS \in Int

ControllerInit ==
    /\ commandQueue = << >>
    /\ bankStates = [r \in Ranks |-> [b \in Banks |-> IdleBank]]
    /\ writeBurstQueue = << >>
    /\ tFAWWindow = [r \in Ranks |-> << >>]
    /\ refreshCounters =
          [r \in Ranks |-> (REFRESH_PERIOD \div NUM_RANKS) * (r + 1)]
    /\ waitingACTS = 0

-----------------------------------------------------------------------------
(* AddTransaction                                                          *)

PacketOf(t, type) ==
    [busPacketType |-> type, transactionID |-> t.transactionID,
     rank |-> t.rank, bank |-> t.bank, row |-> t.row,
     fromLogicOp |-> t.originatedFromLogicOp]

CommandsOf(t) ==
    << PacketOf(t, "ACTIVATE"),
       PacketOf(t, IF t.transactionType = "DATA_READ" THEN "READ_P" ELSE "WRITE_P") >>

\* Bug: every transaction goes to the head of the queue.
EnqueueAtHead(t) ==
    /\ commandQueue' = CommandsOf(t) \o commandQueue
    /\ waitingACTS' = waitingACTS + 1
    /\ UNCHANGED <<bankStates, writeBurstQueue, tFAWWindow, refreshCounters>>

EnqueueCommands(t) ==
    /\ commandQueue' = IF GIVE_LOGIC_PRIORITY /\ t.originatedFromLogicOp
                       THEN CommandsOf(t) \o commandQueue
                       ELSE commandQueue \o CommandsOf(t)
    /\ waitingACTS' = waitingACTS + 1
    /\ UNCHANGED <<bankStates, writeBurstQueue, tFAWWindow, refreshCounters>>

-----------------------------------------------------------------------------
(* Update, before the decision                                             *)

\* Bug: an entry is compared with 0 before it is decremented, and outlives its last cycle.
WindowAfterLate(window) ==
    IF window # << >> /\ Head(window) = 0
    THEN [i \in 1 .. Len(window) - 1 |->
             IF i = 1 THEN window[2] ELSE Decremented(window[i + 1])]
    ELSE [i \in 1 .. Len(window) |-> Decremented(window[i])]

\* The loop over a window erases the expired head while it advances its index,
\* so the entry that moves to the head keeps its value for one more cycle.
WindowAfter(window) ==
    IF window # << >> /\ Head(window) = 1
    THEN [i \in 1 .. Len(window) - 1 |->
             IF i = 1 THEN window[2] ELSE Decremented(window[i + 1])]
    ELSE [i \in 1 .. Len(window) |-> Decremented(window[i])]

WindowNow == [r \in Ranks |-> WindowAfter(tFAWWindow[r])]

BanksNow == [r \in Ranks |-> [b \in Banks |-> UpdateStateChange(bankStates[r][b])]]

RefreshNow == [r \in Ranks |-> OneLess(refreshCounters[r])]

WriteIsDue == HeadIsDue(writeBurstQueue)

DueWrite == Head(writeBurstQueue).packet

\* The clock ticks at the end of Update.
TickBanks(banks) == [r \in Ranks |-> [b \in Banks |-> Elapse(banks[r][b])]]

-----------------------------------------------------------------------------
(* The decision                                                            *)

\* Bug: the banks are not looked at.
RefreshIsDue(r) ==
    RefreshNow[r] = 0 /\ \A q \in Ranks : q < r => RefreshNow[q] > 0

\* The first rank that is due decides: when it cannot be refreshed yet,
\* canIssueRefresh stays false for the ranks after it.
RefreshIsIssuable(r) ==
    /\ RefreshNow[r] = 0
    /\ \A q \in Ranks : q < r => RefreshNow[q] > 0
    /\ \A b \in Banks : Quiet(BanksNow[r][b])

NoRefreshIsIssuable == \A r \in Ranks : ~ RefreshIsIssuable(r)

\* Bug: the reads on their way are forgotten (the condition commented out in the code).
HasRoomForQueued(queued, outstanding) == queued < CHANNEL_RETURN_Q_MAX

\* The return queue has room for the data of one more read.
HasRoom(queued, outstanding) == queued + outstanding < CHANNEL_RETURN_Q_MAX

\* Bug: the bank's timing is not looked at.
RowIsOpen(bank, row, wait) == RowOpen(bank, row)

CASIsReady(bank, row, wait) == RowOpen(bank, row) /\ wait = 0

\* Bug: a due refresh does not hold the ACTIVATEs to its rank back.
ActivateIsReadyAnyTime(p) ==
    /\ Quiet(BanksNow[p.rank][p.bank])
    /\ Len(WindowNow[p.rank]) < 4

\* Bug: the window admits five.
ActivateIsReadyInFive(p) ==
    /\ Quiet(BanksNow[p.rank][p.bank])
    /\ RefreshNow[p.rank] > 0
    /\ Len(WindowNow[p.rank]) < 5

ActivateIsReady(p) ==
    /\ Quiet(BanksNow[p.rank][p.bank])
    /\ RefreshNow[p.rank] > 0
    /\ Len(WindowNow[p.rank]) < 4

IsIssuable(p, queued, outstanding) ==
    LET bank == BanksNow[p.rank][p.bank] IN
    CASE p.busPacketType = "READ_P" ->
           CASIsReady(bank, p.row, bank.nextRead) /\ HasRoom(queued, outstanding)
      [] p.busPacketType = "WRITE_P" ->
           CASIsReady(bank, p.row, bank.nextWrite) /\ HasRoom(queued, outstanding)
      [] p.busPacketType = "ACTIVATE" -> ActivateIsReady(p)
      [] OTHER -> FALSE

\* A command never goes ahead of its own ACTIVATE.
FollowsItsActivate(i) ==
    i > 1 /\ commandQueue[i].transactionID = commandQueue[i - 1].transactionID

\* Bug: the scan does not skip the CAS whose ACTIVATE is still in the queue.
CanSendAhead(i, queued, outstanding) == IsIssuable(commandQueue[i], queued, outstanding)

CanSend(i, queued, outstanding) ==
    IsIssuable(commandQueue[i], queued, outstanding) /\ ~ FollowsItsActivate(i)

\* The scan of the queue stops at its i-th packet and sends it.
Selected(i, queued, outstanding) ==
    /\ NoRefreshIsIssuable
    /\ CanSend(i, queued, outstanding)
    /\ \A j \in 1 .. i - 1 : ~ CanSend(j, queued, outstanding)

\* Bug: the packet after the i-th is removed.
WithoutNext(queue, i) ==
    [j \in 1 .. Len(queue) - 1 |-> IF j <= i THEN queue[j] ELSE queue[j + 1]]

Without(queue, i) ==
    [j \in 1 .. Len(queue) - 1 |-> IF j < i THEN queue[j] ELSE queue[j + 1]]

-----------------------------------------------------------------------------
(* The bookkeeping of the command that is sent                             *)

\* The bank a CAS closes: no CAS to it before its next ACTIVATE.
Closing(bank, type, busy, untilActivate) ==
    [bank EXCEPT !.lastCommand = type,
                 !.stateChangeCountdown = busy,
                 !.nextActivate = untilActivate,
                 !.nextRead = untilActivate,
                 !.nextWrite = untilActivate]

\* Bug: only reads wait.
ReadPostponed(bank, read, write) == [bank EXCEPT !.nextRead = Larger(@, read)]

\* The other banks wait for the data bus to be free for their own burst.
Postponed(bank, read, write) ==
    [bank EXCEPT !.nextRead = Larger(@, read), !.nextWrite = Larger(@, write)]

\* Bug: no cycles to hand the data bus to another rank.
BurstToBurst(sameRank) == Larger(tCCD, BURST)

\* From a CAS to the next one of its kind.
SameKindAgain(sameRank) == IF sameRank THEN Larger(tCCD, BURST) ELSE BURST + tRTRS

\* Bug: what the bank's ACTIVATE has set is overwritten.
PrechargeAfterRead(bank) == tRTP + tRP

\* From a READ to the next ACTIVATE of its bank.
ActivateAfterRead(bank) == Larger(bank.nextActivate, tRTP + tRP)

BanksAfterRead(p) ==
    [r \in Ranks |-> [b \in Banks |->
        LET bank == BanksNow[r][b] IN
        IF r = p.rank /\ b = p.bank
        THEN Closing(bank, "READ_P", tRTPc, ActivateAfterRead(bank))
        ELSE Postponed(bank, SameKindAgain(r = p.rank), tCL + BURST + tRTRS - tCWL)]]

BanksAfterWrite(p) ==
    [r \in Ranks |-> [b \in Banks |->
        LET bank == BanksNow[r][b] IN
        IF r = p.rank /\ b = p.bank
        THEN Closing(bank, "WRITE_P", tCWL + BURST + tWR, tCWL + BURST + tWR + tRP)
        ELSE Postponed(bank,
                       tCWL + BURST + (IF r = p.rank THEN tWTR ELSE tRTRS - tCL),
                       SameKindAgain(r = p.rank))]]

BanksAfterActivateCommand(p) ==
    [r \in Ranks |-> [b \in Banks |->
        LET bank == BanksNow[r][b] IN
        IF r # p.rank THEN bank
        ELSE IF b # p.bank
        THEN [bank EXCEPT !.nextActivate = Larger(@, tRRD)]
        ELSE [bank EXCEPT !.lastCommand = "ACTIVATE",
                          !.currentBankState = "ROW_ACTIVE",
                          !.openRowAddress = p.row,
                          !.nextActivate = tRC,
                          !.nextRead = Larger(@, tRCD),
                          !.nextWrite = Larger(@, tRCD)]]]

BanksAfterRefresh(r) ==
    [BanksNow EXCEPT ![r] = [b \in Banks |-> Refreshing(BanksNow[r][b])]]

-----------------------------------------------------------------------------
(* Update, one action per decision                                         *)

RefreshPacket(r) ==
    [busPacketType |-> "REFRESH", transactionID |-> NULL, rank |-> r,
     bank |-> CHOOSE b \in Banks : TRUE, row |-> CHOOSE row \in Rows : TRUE,
     fromLogicOp |-> FALSE]

ControllerRefresh(r) ==
    /\ RefreshIsIssuable(r)
    /\ bankStates' = TickBanks(BanksAfterRefresh(r))
    /\ refreshCounters' = [RefreshNow EXCEPT ![r] = REFRESH_PERIOD]
    /\ tFAWWindow' = WindowNow
    /\ writeBurstQueue' = AfterCountDown(writeBurstQueue)
    /\ UNCHANGED <<commandQueue, waitingACTS>>

ControllerRead(i, queued, outstanding) ==
    /\ Selected(i, queued, outstanding)
    /\ commandQueue[i].busPacketType = "READ_P"
    /\ waitingACTS' = waitingACTS - 1
    /\ bankStates' = TickBanks(BanksAfterRead(commandQueue[i]))
    /\ commandQueue' = Without(commandQueue, i)
    /\ writeBurstQueue' = AfterCountDown(writeBurstQueue)
    /\ tFAWWindow' = WindowNow
    /\ refreshCounters' = RefreshNow

ControllerWrite(i, queued, outstanding) ==
    /\ Selected(i, queued, outstanding)
    /\ commandQueue[i].busPacketType = "WRITE_P"
    /\ waitingACTS' = waitingACTS - 1
    /\ writeBurstQueue' = Append(AfterCountDown(writeBurstQueue),
                                 [packet |-> AsType(commandQueue[i], "WRITE_DATA"),
                                  countdown |-> tCWL])
    /\ bankStates' = TickBanks(BanksAfterWrite(commandQueue[i]))
    /\ commandQueue' = Without(commandQueue, i)
    /\ tFAWWindow' = WindowNow
    /\ refreshCounters' = RefreshNow

ControllerActivate(i, queued, outstanding) ==
    /\ Selected(i, queued, outstanding)
    /\ commandQueue[i].busPacketType = "ACTIVATE"
    /\ bankStates' = TickBanks(BanksAfterActivateCommand(commandQueue[i]))
    /\ tFAWWindow' = [WindowNow EXCEPT ![commandQueue[i].rank] = Append(@, tFAW)]
    /\ commandQueue' = Without(commandQueue, i)
    /\ writeBurstQueue' = AfterCountDown(writeBurstQueue)
    /\ refreshCounters' = RefreshNow
    /\ UNCHANGED waitingACTS

ControllerIdle(queued, outstanding) ==
    /\ NoRefreshIsIssuable
    /\ \A i \in DOMAIN commandQueue : ~ CanSend(i, queued, outstanding)
    /\ bankStates' = TickBanks(BanksNow)
    /\ tFAWWindow' = WindowNow
    /\ writeBurstQueue' = AfterCountDown(writeBurstQueue)
    /\ refreshCounters' = RefreshNow
    /\ UNCHANGED <<commandQueue, waitingACTS>>

=============================================================================
