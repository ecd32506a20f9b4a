-------------------------- MODULE MCChannelStream ---------------------------
(***************************************************************************)
(* DRAMChannel for TLC under traffic without end and without a pause: the  *)
(* work queue is always full, with one write, to one of WriteRanks, and    *)
(* otherwise reads, from any of ReadRanks, and a read leaves the return    *)
(* queue as soon as it is there.  The next transaction arrives when a CAS  *)
(* has left the queue.                                                     *)
(***************************************************************************)
EXTENDS DRAMChannel

CONSTANTS
    WriteRanks, ReadRanks,   \* where the stream's transactions go
    Margin                   \* cycles before a refresh in which no more reads come

ASSUME StreamAssumption == WriteRanks \subseteq Ranks /\ ReadRanks \subseteq Ranks

WriteWaits == \E p \in PacketsOf(commandQueue) : p.busPacketType = "WRITE_P"

QueueIsFull == waitingACTS = CHANNEL_WORK_Q_MAX

StreamTransaction(id, r, b, row) ==
    [transactionType |-> IF WriteWaits THEN "DATA_READ" ELSE "DATA_WRITE",
     transactionID |-> id, rank |-> r, bank |-> b, row |-> row,
     originatedFromLogicOp |-> FALSE]

\* A transaction takes the first id that is not in use.
StreamGoesOn ==
    /\ ~ QueueIsFull
    /\ \E id \in {CHOOSE id \in TransactionIDs : id \notin LiveIDs},
          r \in IF WriteWaits THEN ReadRanks ELSE WriteRanks, b \in Banks, row \in Rows :
          AddTransaction(StreamTransaction(id, r, b, row))

Cycling == QueueIsFull /\ readReturnQueue = << >> /\ Update

StreamNext == StreamGoesOn \/ Cycling \/ TakeReturn

\* The CPU sends as much as it can; the simulator updates the channel in every DRAM
\* cycle (BOB.cpp:739-765), and the response link takes the reads.
StreamSpec == Init /\ [][StreamNext]_vars /\ WF_vars(StreamNext)

-----------------------------------------------------------------------------
(* One of these streams, for the timing of a real device: the reads keep   *)
(* away from a rank that is refreshed, or will be within Margin cycles,    *)
(* and take turns over the banks.  The banks are numbered, and so are the  *)
(* ids, by bank: a bank has one transaction at a time.                     *)

AwakeRanks ==
    {r \in ReadRanks : /\ refreshCounters[r] > Margin
                       /\ \A b \in Banks : bankStates[r][b].currentBankState # "REFRESHING"}

\* The rank that is read before it has to pause.
RankToRead ==
    LET choice == IF AwakeRanks = {} THEN ReadRanks ELSE AwakeRanks
    IN CHOOSE r \in choice : \A q \in choice : refreshCounters[r] <= refreshCounters[q]

BusyFor(r, b) == bankStates[r][b].nextActivate + bankStates[r][b].stateChangeCountdown

\* The bank without a transaction that can be opened first.
BankOf(r) ==
    LET free == {b \in Banks : \A p \in PacketsOf(commandQueue) : p.rank # r \/ p.bank # b}
        first == {b \in free : \A c \in free : BusyFor(r, b) <= BusyFor(r, c)}
    IN CHOOSE b \in first : \A c \in first : b <= c

AvoidingGoesOn ==
    /\ ~ QueueIsFull
    /\ \E r \in IF WriteWaits THEN {RankToRead} ELSE WriteRanks, row \in Rows :
          \E b \in {BankOf(r)} :
             AddTransaction(StreamTransaction(Cardinality(Banks) * r + b, r, b, row))

AvoidingNext == AvoidingGoesOn \/ Cycling \/ TakeReturn

AvoidingSpec == Init /\ [][AvoidingNext]_vars /\ WF_vars(AvoidingNext)

-----------------------------------------------------------------------------

\* "Everyone who needs a refresh" receives one (SimpleController.cpp:272): a rank whose
\* refresh is due is refreshed in the end.  A read that is sent postpones a write by
\* more cycles than the next read has to wait (SimpleController.cpp:371-390), so that a
\* stream of reads may keep a write, its bank and the refresh of its rank waiting.
\* While the first rank waits no other is refreshed, while the second waits only the
\* first is (:282-287), and the reads run dry; while a later one waits the ranks before
\* it take turns in being refreshed and being read, and nothing stops the reads.
RefreshesRecur ==
    \A r \in Ranks : refreshCounters[r] = 0 ~> refreshCounters[r] = REFRESH_PERIOD

\* The stream's writes reach their rank, again and again: there is always one in the
\* queue, which a due refresh lets through when it stops the reads that postpone it.
WritesComplete ==
    []<>(\E p \in {inFlightDataPacket} \ {NULL} : p.busPacketType = "WRITE_DATA")

\* The id looked at; in time every read of the stream is in the situations its reads are in.
Watched == CHOOSE id \in TransactionIDs : TRUE

\* Every read the controller accepts reaches the return queue, also from a rank that
\* stops its reads because a refresh is due and has to wait for another rank's.
ReadsReturn ==
    (\E p \in PacketsOf(commandQueue) :
        p.transactionID = Watched /\ p.busPacketType = "READ_P")
      ~> \E p \in PacketsOf(readReturnQueue) : p.transactionID = Watched

=============================================================================
