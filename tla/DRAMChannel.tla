---------------------------- MODULE DRAMChannel -----------------------------
(***************************************************************************)
(* One DRAM channel (DRAMChannel.cpp): the controller, its ranks, the      *)
(* command and data buses between them and the queue of returned reads.    *)
(*                                                                         *)
(* DRAMChannel::Update is one step, because nothing runs between its       *)
(* parts: the buses deliver, the controller decides, the ranks advance.    *)
(* Between two Updates the main BOB controller adds transactions and takes *)
(* the reads that have reached the return queue; the logic layer adds its  *)
(* own transactions, before the controller's turn in Update, when the work *)
(* queue is still as the last Update left it.                              *)
(*                                                                         *)
(* The code calls exit(0) when a bus or a rank is misused; error records   *)
(* that, and the channel stops.                                            *)
(***************************************************************************)
EXTENDS SimpleController, Rank

VARIABLES
    ranks,
    inFlightCommandPacket, inFlightCommandCountdown,
    inFlightDataPacket, inFlightDataCountdown,
    readReturnQueue,
    outstandingReads,     \* reads sent whose data has not been returned
    error                 \* why the simulator exited

busVars == <<ranks, inFlightCommandPacket, inFlightCommandCountdown,
             inFlightDataPacket, inFlightDataCountdown>>
vars == <<controllerVars, busVars, readReturnQueue, outstandingReads, error>>

Errors == {"none", "rank refused", "command bus collision",
           "data bus collision", "negative waitingACTS"}

TypeOK ==
    /\ ControllerTypeOK
    /\ ranks \in [Ranks -> RankStates]
    /\ inFlightCommandPacket \in BusPacket \union {NULL}
    /\ inFlightCommandCountdown \in Nat
    /\ inFlightDataPacket \in BusPacket \union {NULL}
    /\ inFlightDataCountdown \in Nat
    /\ readReturnQueue \in Seq(BusPacket)
    /\ outstandingReads \in Nat
    /\ error \in Errors

Init ==
    /\ ControllerInit
    /\ ranks = [r \in Ranks |-> NewRank]
    /\ inFlightCommandPacket = NULL /\ inFlightCommandCountdown = 0
    /\ inFlightDataPacket = NULL /\ inFlightDataCountdown = 0
    /\ readReturnQueue = << >>
    /\ outstandingReads = 0
    /\ error = "none"

-----------------------------------------------------------------------------
(* Between two Updates                                                     *)

PacketsOf(queue) == {queue[i] : i \in DOMAIN queue}
BurstsOf(queue) == {queue[i].packet : i \in DOMAIN queue}

PacketsOnBuses == {inFlightCommandPacket, inFlightDataPacket} \ {NULL}

\* The packets of the channel, whose transactions' ids are in use.
PacketsInChannel ==
    PacketsOf(commandQueue) \union BurstsOf(writeBurstQueue)
    \union PacketsOnBuses \union PacketsOf(readReturnQueue)
    \union UNION {BurstsOf(ranks[r].readReturnQueue) : r \in Ranks}

LiveIDs == {p.transactionID : p \in PacketsInChannel}

\* AddTransaction accepts the transaction; it returns false, and changes
\* nothing, when the work queue is full.
AddTransaction(t) ==
    /\ error = "none"
    /\ t.transactionID \notin LiveIDs
    /\ waitingACTS < CHANNEL_WORK_Q_MAX
    /\ EnqueueCommands(t)
    /\ UNCHANGED <<busVars, readReturnQueue, outstandingReads, error>>

\* The main controller removes the read whose response it has transferred.
TakeReturn ==
    /\ error = "none"
    /\ readReturnQueue # << >>
    /\ readReturnQueue' = Tail(readReturnQueue)
    /\ UNCHANGED <<controllerVars, busVars, outstandingReads, error>>

-----------------------------------------------------------------------------
(* Update: the buses deliver                                               *)

CommandArrives == inFlightCommandPacket # NULL /\ inFlightCommandCountdown = 1
DataArrives == inFlightDataPacket # NULL /\ inFlightDataCountdown = 1
WriteArrives == DataArrives /\ inFlightDataPacket.busPacketType = "WRITE_DATA"

\* A read of the logic layer is handed to it; others join the return queue.
ReadReturns ==
    /\ DataArrives
    /\ inFlightDataPacket.busPacketType = "READ_DATA"
    /\ ~ inFlightDataPacket.fromLogicOp

RanksAfterCommand ==
    [r \in Ranks |->
        IF CommandArrives /\ inFlightCommandPacket.rank = r
        THEN ReceiveFromBus(ranks[r], inFlightCommandPacket)
        ELSE ranks[r]]

RanksNow ==
    [r \in Ranks |->
        IF WriteArrives /\ inFlightDataPacket.rank = r
        THEN ReceiveFromBus(RanksAfterCommand[r], inFlightDataPacket)
        ELSE RanksAfterCommand[r]]

\* Bug: the data that has come back goes to the head of the return queue.
ReturnedFirst == IF ReadReturns THEN << inFlightDataPacket >> \o readReturnQueue
                                ELSE readReturnQueue

ReturnQueueNow == IF ReadReturns THEN Append(readReturnQueue, inFlightDataPacket)
                                 ELSE readReturnQueue

\* Bug: the slot of a read that has returned is not given back.
OutstandingStill == outstandingReads

OutstandingNow == IF ReadReturns THEN Decremented(outstandingReads)
                                 ELSE outstandingReads

RankRefuses ==
    \/ /\ CommandArrives
       /\ Refuses(ranks[inFlightCommandPacket.rank], inFlightCommandPacket)
    \/ /\ WriteArrives
       /\ Refuses(RanksAfterCommand[inFlightDataPacket.rank], inFlightDataPacket)
    \/ \E r \in Ranks, b \in Banks : \/ StateChangeFails(bankStates[r][b])
                                     \/ StateChangeFails(RanksNow[r].bankStates[b])

-----------------------------------------------------------------------------
(* Update: what is put on the buses                                        *)

CommandBusFree == inFlightCommandPacket = NULL \/ CommandArrives
DataBusFree == inFlightDataPacket = NULL \/ DataArrives

ReturningRanks == {r \in Ranks : ReturnIsDue(RanksNow[r])}

DataBusCollides ==
    \/ ~ DataBusFree /\ (WriteIsDue \/ ReturningRanks # {})
    \/ WriteIsDue /\ ReturningRanks # {}
    \/ Cardinality(ReturningRanks) > 1

DataStarts(p) ==
    /\ inFlightDataPacket' = p
    /\ inFlightDataCountdown' = BURST

DataBusAdvances ==
    IF WriteIsDue THEN DataStarts(DueWrite)
    ELSE IF ReturningRanks # {}
    THEN DataStarts(ReturnedPacket(RanksNow[CHOOSE r \in ReturningRanks : TRUE]))
    ELSE /\ inFlightDataPacket' = IF DataArrives THEN NULL ELSE inFlightDataPacket
         /\ inFlightDataCountdown' = OneLess(inFlightDataCountdown)

CommandStarts(p) ==
    /\ inFlightCommandPacket' = p
    /\ inFlightCommandCountdown' = tCMDS

NoCommandStarts ==
    /\ inFlightCommandPacket' = IF CommandArrives THEN NULL ELSE inFlightCommandPacket
    /\ inFlightCommandCountdown' = OneLess(inFlightCommandCountdown)

\* What every Update does besides the controller's decision.
Cycle(sendsCommand, sendsCAS) ==
    /\ error = "none"
    /\ ranks' = [r \in Ranks |-> UpdateRank(RanksNow[r])]
    /\ DataBusAdvances
    /\ readReturnQueue' = ReturnQueueNow
    /\ error' = CASE RankRefuses -> "rank refused"
                  [] DataBusCollides -> "data bus collision"
                  [] sendsCommand /\ ~ CommandBusFree -> "command bus collision"
                  [] sendsCAS /\ waitingACTS = 0 -> "negative waitingACTS"
                  [] OTHER -> "none"

-----------------------------------------------------------------------------
(* Update, one action per decision of the controller                       *)

Queued == Len(ReturnQueueNow)

IssueRefresh(r) ==
    /\ Cycle(TRUE, FALSE)
    /\ ControllerRefresh(r)
    /\ CommandStarts(RefreshPacket(r))
    /\ outstandingReads' = OutstandingNow

IssueRead(i) ==
    /\ Cycle(TRUE, TRUE)
    /\ ControllerRead(i, Queued, OutstandingNow)
    /\ CommandStarts(commandQueue[i])
    /\ outstandingReads' = OutstandingNow + 1

IssueWrite(i) ==
    /\ Cycle(TRUE, TRUE)
    /\ ControllerWrite(i, Queued, OutstandingNow)
    /\ CommandStarts(commandQueue[i])
    /\ outstandingReads' = OutstandingNow

IssueActivate(i) ==
    /\ Cycle(TRUE, FALSE)
    /\ ControllerActivate(i, Queued, OutstandingNow)
    /\ CommandStarts(commandQueue[i])
    /\ outstandingReads' = OutstandingNow

IssueNothing ==
    /\ Cycle(FALSE, FALSE)
    /\ ControllerIdle(Queued, OutstandingNow)
    /\ NoCommandStarts
    /\ outstandingReads' = OutstandingNow

Update ==
    \/ \E r \in Ranks : IssueRefresh(r)
    \/ \E i \in DOMAIN commandQueue :
          IssueRead(i) \/ IssueWrite(i) \/ IssueActivate(i)
    \/ IssueNothing

Next ==
    \/ \E t \in Transaction : AddTransaction(t)
    \/ TakeReturn
    \/ Update

Spec == Init /\ [][Next]_vars

-----------------------------------------------------------------------------
(* Properties: the work queue and the banks                                *)

CASPositions == {i \in DOMAIN commandQueue : IsCAS(commandQueue[i])}

\* The CAS at position i has seen its own ACTIVATE leave the queue.
AwaitedBy(i, r, b) ==
    /\ i \in CASPositions
    /\ ~ FollowsItsActivate(i)
    /\ commandQueue[i].rank = r /\ commandQueue[i].bank = b

\* The controller opened the bank and has not sent a CAS to it since.
IsOpen(bank) == bank.currentBankState = "ROW_ACTIVE" /\ bank.lastCommand = "ACTIVATE"

\* A bank is opened for exactly one CAS: as long as its row is open that CAS,
\* and no other, is in the queue with its ACTIVATE gone, and every such CAS finds
\* its own row open (the scan and the skip of SimpleController.cpp:330-337, with
\* ACTIVATEs of both queue ends).
OpenBankAwaitsItsCAS ==
    \A r \in Ranks, b \in Banks :
        /\ \A i \in DOMAIN commandQueue : AwaitedBy(i, r, b) =>
              /\ IsOpen(bankStates[r][b])
              /\ bankStates[r][b].openRowAddress = commandQueue[i].row
              /\ \A j \in DOMAIN commandQueue : AwaitedBy(j, r, b) => j = i
        /\ IsOpen(bankStates[r][b]) => \E i \in DOMAIN commandQueue : AwaitedBy(i, r, b)

\* waitingACTS, which guards the work queue, counts the transactions whose CAS
\* is still to be sent, whatever the order they leave in, and never passes the
\* bound (SimpleController.cpp:356, :402, :661; DRAMChannel.cpp:200).
WorkQueueAccounted ==
    /\ waitingACTS = Cardinality(CASPositions)
    /\ waitingACTS \in 0 .. CHANNEL_WORK_Q_MAX

\* Two transactions to the same bank keep the order they arrived in: a CAS never
\* leaves the queue before an older one to its bank, unless the older position
\* belongs to the logic layer, which takes the head of the queue.
SameBankInOrder ==
    [][\A i \in CASPositions :
          (commandQueue' = Without(commandQueue, i)) =>
              \A j \in CASPositions :
                  (/\ j < i
                   /\ commandQueue[j].rank = commandQueue[i].rank
                   /\ commandQueue[j].bank = commandQueue[i].bank)
                  => commandQueue[j].fromLogicOp]_vars

-----------------------------------------------------------------------------
(* Properties: the buses and the ranks                                     *)

\* The rank's own bookkeeping, one command transfer behind the controller's,
\* accepts every command and every write burst (the exit(0) of Rank.cpp:82-205
\* and of BankState.cpp:76 are unreachable).
RankNeverRefuses == error # "rank refused"

\* Reads coming back from any rank and writes leaving the controller never meet
\* on the data bus (the exit(0) of DRAMChannel.cpp:248-256).
DataBusNeverCollides == error \notin {"data bus collision", "command bus collision"}

\* The bursts the channel has committed itself to, with the cycles until each
\* reaches the data bus; negative while it is being transferred.
Bursts ==
    {[id |-> inFlightDataPacket.transactionID, rank |-> inFlightDataPacket.rank,
      start |-> inFlightDataCountdown - BURST] : x \in {inFlightDataPacket} \ {NULL}}
    \union
    {[id |-> e.packet.transactionID, rank |-> e.packet.rank, start |-> e.countdown] :
        e \in PacketsOf(writeBurstQueue)
              \union UNION {PacketsOf(ranks[r].readReturnQueue) : r \in Ranks}}
    \union
    {[id |-> p.transactionID, rank |-> p.rank,
      start |-> inFlightCommandCountdown + tCL - 1] :
        p \in {q \in {inFlightCommandPacket} \ {NULL} : q.busPacketType = "READ_P"}}

\* Committed bursts never overlap, and bursts of different ranks are tRTRS
\* cycles apart (Globals.h:272), whichever of them are reads and writes.
BurstsKeepApart ==
    \A x, y \in Bursts :
        (x # y /\ x.start <= y.start) =>
            y.start >= x.start + BURST + (IF x.rank = y.rank THEN 0 ELSE tRTRS)

-----------------------------------------------------------------------------
(* Properties: the return queue                                            *)

\* The data already returned and the data of every read sent never exceed what
\* the return queue holds (Globals.h:175; SimpleController.cpp:558).
ReturnQueueBounded ==
    Len(readReturnQueue) + outstandingReads <= CHANNEL_RETURN_Q_MAX

ReadsInFlight ==
    {p \in PacketsOnBuses : p.busPacketType \in {"READ_P", "READ_DATA"}}
    \union UNION {BurstsOf(ranks[r].readReturnQueue) : r \in Ranks}

\* Each slot of the return queue counted as outstanding is owed to a read that is
\* still on its way, so a slot is given back once its read has been answered
\* (SimpleController.cpp:355, DRAMChannel.cpp:134).
ReadsAccounted == outstandingReads = Cardinality(ReadsInFlight)

\* The unsigned counters that Update decrements without looking at them are not 0 by
\* then.  Only the head of a queue of bursts is ever looked at and removed, and the loop
\* over a window passes over the entry behind the one it erases: of three that ran out
\* together the third would wrap to the largest unsigned (Rank.cpp:61-70,
\* SimpleController.cpp:228-236, :256-268; DRAMChannel.cpp:136).
CountersNeverWrap ==
    /\ \A i \in DOMAIN writeBurstQueue : writeBurstQueue[i].countdown > 0
    /\ \A r \in Ranks :
          /\ \A i \in DOMAIN ranks[r].readReturnQueue : ranks[r].readReturnQueue[i].countdown > 0
          /\ \A i \in DOMAIN tFAWWindow[r] : tFAWWindow[r][i] > 0
    /\ ReadReturns => outstandingReads > 0

\* What Globals.h:175 says of CHANNEL_RETURN_Q_MAX: it is the response data the
\* return queue holds.  A queue that is empty, with no read on its way to it,
\* then holds back no command.  (It does: a read of the logic layer takes a slot
\* in SimpleController.cpp:355 that DRAMChannel.cpp:127-130 never gives back.)
EmptyReturnQueueAdmits ==
    (readReturnQueue = << >> /\ ReadsInFlight = {}) =>
        outstandingReads < CHANNEL_RETURN_Q_MAX

=============================================================================
