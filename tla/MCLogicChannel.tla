--------------------------- MODULE MCLogicChannel ---------------------------
(***************************************************************************)
(* LogicChannel for TLC.  The CPU sends MaxOperations logic operations,    *)
(* each at most MaxGap cycles after the one before it, and MaxRequests     *)
(* reads and writes at any time before the channel has done its work.      *)
(* They use two addresses of one bank and different rows, whose second     *)
(* pages are in one rank and in two.                                       *)
(*                                                                         *)
(* older has the pairs of transactions whose CAS is still to be sent, the  *)
(* one accepted first before the other; work has the addresses read and    *)
(* written for the current operation, in the order they were accepted.     *)
(***************************************************************************)
EXTENDS LogicChannel, SequencesExt

CONSTANTS MaxRequests, MaxOperations, MaxGap, MaxPages,
    here, there           \* two addresses

ASSUME GeometryIsPowers == AddressAssumption

\* The channel's geometry is the mapping's, and the mapping's rows are the device's.
ASSUME GeometryIsMapped ==
    /\ Banks = 0 .. NUM_BANKS - 1 /\ Rows = 0 .. NUM_ROWS - 1
    /\ mappingScheme \in AddressMappingSchemes
    /\ QEMU_MEMORY_SIZE \in 0 .. PowerOf2[2 * UINT_BITS] - 1
    /\ rowBitWidth \in 0 .. log2(NUM_ROWS)

ASSUME TrafficAssumption ==
    /\ Origins = BOOLEAN
    /\ here \in Nat /\ there \in Nat /\ MaxPages \in Nat
    /\ NULL \notin Int /\ NULL \notin LogicOperations

VARIABLES requests, operations, gap, older, work

mcVars == <<allVars, requests, operations, gap, older, work>>

Operation(type, address, arguments) ==
    [transactionType |-> "LOGIC_OPERATION", logicType |-> type, address |-> address,
     arguments |-> arguments]

\* A fill, a copy of what it fills, a walk; the two that read also with nothing to do.
Operations ==
    {Operation("PAGE_FILL", here, <<MaxPages, 0>>)}
    \union {Operation("MEM_COPY", here, <<there, n>>) : n \in {0, MaxPages}}
    \union {Operation("PAGE_TABLE_WALK", here, tables) : tables \in {<< >>, <<here, there>>}}

\* The transactions whose CAS is still to be sent.
Pending == {commandQueue[i].transactionID : i \in CASPositions}

OlderThanNew == {<<id, FreeID>> : id \in Pending}

NoWork == [DATA_READ |-> << >>, DATA_WRITE |-> << >>]

-----------------------------------------------------------------------------

Busy == layer.currentTransaction # NULL \/ layer.pendingLogicOpsQueue # << >>

RequestArrives ==
    /\ requests > 0
    /\ \E type \in DataTypes : AddRequest(here, type)
    /\ older' = older \union OlderThanNew
    /\ requests' = requests - 1
    /\ UNCHANGED <<operations, gap, work>>

OperationArrives ==
    /\ operations > 0
    /\ \E op \in Operations : AddOperation(op)
    /\ operations' = operations - 1
    /\ gap' = 0
    /\ UNCHANGED <<requests, older, work>>

Takes ==
    /\ TakeRead \/ TakeLogicResponse
    /\ UNCHANGED <<requests, operations, gap, older, work>>

LayerRuns ==
    /\ LayerUpdate
    /\ LET sent == waitingACTS' > waitingACTS IN
       /\ older' = IF sent THEN older \union OlderThanNew ELSE older
       /\ work' = CASE sent -> [work EXCEPT ![Offered.transactionType] =
                                    Append(@, Offered.address)]
                    [] ResponseIsOffered /\ pendingLogicResponse = NULL -> NoWork
                    [] OTHER -> work
    /\ UNCHANGED <<requests, operations, gap>>

ChannelRuns ==
    /\ ChannelUpdate
    /\ older' = {pair \in older : pair[1] \in Pending' /\ pair[2] \in Pending'}
    /\ IF gap = MaxGap \/ operations = 0
       THEN operations' = 0 /\ gap' = 0
       ELSE gap' = gap + 1 /\ UNCHANGED operations
    /\ requests' = IF operations' = 0 /\ ~ Busy /\ commandQueue = << >> THEN 0 ELSE requests
    /\ UNCHANGED work

MCInit ==
    /\ LogicInit
    /\ requests = MaxRequests /\ operations = MaxOperations /\ gap = 0
    /\ older = {} /\ work = NoWork

MCNext == RequestArrives \/ OperationArrives \/ Takes \/ LayerRuns \/ ChannelRuns

\* The channel is updated in every DRAM cycle (BOB.cpp:739-765), and the response link
\* takes what the channel has for it (BOB.cpp:581-733); strongly, because it does so
\* between the Updates only.
MCSpec ==
    /\ MCInit /\ [][MCNext]_mcVars
    /\ WF_mcVars(LayerRuns \/ ChannelRuns) /\ SF_mcVars(Takes)

-----------------------------------------------------------------------------

\* The layer never exits: no datum comes back when no operation, or one that asks for
\* none, is being carried out, whatever the delays of the channel and however soon the
\* next operation follows (LogicLayerInterface.cpp:208-269).
LayerNeverExits == layer.error = "none"

LogicReadsInChannel ==
    {p \in PacketsOf(commandQueue) \union ReadsInFlight :
        p.fromLogicOp /\ p.busPacketType \in {"READ_P", "READ_DATA"}}

\* The places of n pages from start on, as the layer works them out.
PagesFrom(start, n) == [i \in 1 .. n |-> start + (i - 1) * LogicStride]

\* What the operation stands for has been sent, no more and no less: the pages of a
\* fill, in order; the pages of a copy, read in order, and one write for each to the
\* place of the destination that corresponds, in any order (the data of two banks may
\* change places); the tables of a walk, in order.
CarriedOut(op) ==
    CASE op.logicType = "PAGE_FILL" ->
           /\ work.DATA_READ = << >>
           /\ work.DATA_WRITE = PagesFrom(op.address, op.arguments[1])
      [] op.logicType = "MEM_COPY" ->
           /\ work.DATA_READ = PagesFrom(op.address, op.arguments[2])
           /\ Len(work.DATA_WRITE) = op.arguments[2]
           /\ ToSet(work.DATA_WRITE) = ToSet(PagesFrom(op.arguments[1], op.arguments[2]))
      [] op.logicType = "PAGE_TABLE_WALK" ->
           work.DATA_WRITE = << >> /\ work.DATA_READ = op.arguments

\* A response leaves the layer only when its operation has been carried out and no datum
\* of it is still to come, though the requests leave one by one, compete with the CPU's
\* for the work queue, and the data that comes back is counted, not identified.
ResponseAfterWork ==
    [][(pendingLogicResponse = NULL /\ pendingLogicResponse' # NULL) =>
          /\ CarriedOut(pendingLogicResponse')
          /\ LogicReadsInChannel = {} /\ layer.newOperationQueue = << >>]_mcVars

Older(i, j) == <<commandQueue[i].transactionID, commandQueue[j].transactionID>> \in older

\* Only a transaction of the logic layer overtakes one the channel has accepted before it
\* for the same bank (SimpleController.cpp:611-634); a read of the CPU that follows the
\* response of a fill therefore reads the filled page, whose writes may still be queued.
OnlyLogicOvertakes ==
    [][\A i, j \in CASPositions :
          (/\ commandQueue' = Without(commandQueue, j)
           /\ Older(i, j)
           /\ commandQueue[i].rank = commandQueue[j].rank
           /\ commandQueue[i].bank = commandQueue[j].bank)
          => commandQueue[j].fromLogicOp]_mcVars

-----------------------------------------------------------------------------

\* An operation that asks for no data and waits for it: its completion is only looked at
\* when a datum comes back (LogicLayerInterface.cpp:238, :254).
WaitsForNothing ==
    LET op == layer.currentTransaction IN
    /\ op # NULL
    /\ \/ op.logicType = "MEM_COPY" /\ op.arguments[2] = 0
       \/ op.logicType = "PAGE_TABLE_WALK" /\ op.arguments = << >>

\* The layer gets through all its operations, each with a response (ResponseAfterWork),
\* unless it is caught in one that reads nothing, which holds it and all that follow
\* for ever (the return queue is large enough here for the slots channel_leak shows lost).
OperationsAnswered == Busy ~> (~ Busy \/ WaitsForNothing)

=============================================================================
