------------------------- MODULE ChannelRefinement --------------------------
(***************************************************************************)
(* DRAMChannel, with its commands, banks, ranks and buses, implements the  *)
(* untimed DRAMService that the modules of the main controller compose     *)
(* with, as long as the logic layer is silent.                             *)
(***************************************************************************)
EXTENDS DRAMChannel

VARIABLE service          \* ServiceView, kept beside the channel

\* The transaction a packet was made from.
Requested(p) ==
    [transactionType |-> IF p.busPacketType \in {"READ_P", "READ_DATA"}
                         THEN "DATA_READ" ELSE "DATA_WRITE",
     transactionID |-> p.transactionID, rank |-> p.rank, bank |-> p.bank,
     row |-> p.row, originatedFromLogicOp |-> p.fromLogicOp]

RequestedBy(queue) == [i \in DOMAIN queue |-> Requested(queue[i])]

\* A read whose command has been sent, with the cycles until its data reaches the data
\* bus; negative while it is being transferred.
UnderWay(p, cycles) == [request |-> Requested(p), start |-> cycles]

ReadsOnCommandBus ==
    {UnderWay(p, inFlightCommandCountdown + tCL - 1) :
        p \in {q \in {inFlightCommandPacket} \ {NULL} : q.busPacketType = "READ_P"}}

ReadsOfQueue(queue) == {UnderWay(e.packet, e.countdown) : e \in PacketsOf(queue)}

ReadsOnDataBus ==
    {UnderWay(p, inFlightDataCountdown - BURST) :
        p \in {q \in {inFlightDataPacket} \ {NULL} : q.busPacketType = "READ_DATA"}}

ReadsUnderWay ==
    ReadsOnCommandBus \union ReadsOnDataBus
    \union UNION {ReadsOfQueue(ranks[r].readReturnQueue) : r \in Ranks}

\* The reads in the order of their data: the i-th is the one with i - 1 before it.
Before(x, reads) == {y \in reads : y.start < x.start}

InOrder(reads) ==
    [i \in 1 .. Cardinality(reads) |->
        CHOOSE x \in reads : Cardinality(Before(x, reads)) = i - 1]

RequestsOf(reads) == [i \in DOMAIN reads |-> reads[i].request]

CASsQueued == {p \in PacketsOf(commandQueue) : IsCAS(p)}

\* The channel of DRAMService that this one stands for.
ServiceView ==
    [work |-> {Requested(p) : p \in CASsQueued},
     logicWrites |-> 0,
     issued |-> RequestsOf(InOrder(ReadsUnderWay)),
     readReturnQueue |-> RequestedBy(readReturnQueue),
     logicOps |-> << >>,
     logicLeft |-> 0,
     pendingLogicResponse |-> NULL]

ServiceInit == service = ServiceView
ServiceFollows == service' = ServiceView'

Service ==
    INSTANCE DRAMService WITH ch <- service, PageCount <- 0, Requests <- Transaction

\* What the main controller relies on: no transaction is lost or answered twice, data
\* comes back in the order the reads were sent in, though it comes from different ranks
\* over one bus, and no CAS is sent before there is room for its data.
ImplementsService == Service!Spec

=============================================================================
