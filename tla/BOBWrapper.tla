----------------------------- MODULE BOBWrapper -----------------------------
(***************************************************************************)
(* The CPU's side of the simulator (BOBWrapper.cpp): requests the CPU puts *)
(* on a port, whose header takes one cycle to reach the port's input       *)
(* buffer and whose data keeps the port busy, and responses transferred    *)
(* from a port's output buffer until their callback.  Together with BOB it *)
(* is the whole memory system, its channels reduced to ChannelService.     *)
(*                                                                         *)
(* accepted holds the ids of the requests whose callback (readDone,        *)
(* writeDone or logicDone) is still to come.                               *)
(***************************************************************************)
EXTENDS BOB

CONSTANTS
    portHeuristic,        \* how FindOpenPort chooses
    Cores                 \* the cores of the CPU

ASSUME WrapperAssumption ==
    /\ portHeuristic \in {"FIRST_AVAILABLE", "ROUND_ROBIN", "PER_CORE"}
    /\ Cores \subseteq Nat

VARIABLES
    portRoundRobin,       \* the port FindOpenPort tries next
    inFlightRequest, inFlightRequestHeaderCounter, inFlightRequestCounter,
    inFlightResponse, inFlightResponseCounter,
    accepted

cpuVars == <<inFlightRequest, inFlightRequestHeaderCounter, inFlightRequestCounter,
             inFlightResponse, inFlightResponseCounter, portRoundRobin>>
vars == <<bobVars, cpuVars, accepted>>

TypeOK ==
    /\ pc \in {"cpu", "serdes", "inputs", "returns", "channels", "wrapper"}
    /\ turn \in Nat
    /\ inputBuffer \in [Ports -> Seq(Request)]
    /\ inputBusyCountdown \in [Ports -> Nat]
    /\ outputBuffer \in [Ports -> Seq(Request)]
    /\ outputBusyCountdown \in [Ports -> Nat]
    /\ priorityPort \in Ports
    /\ priorityLinkBus \in [Ports -> Links]
    /\ serDesBufferRequest \in [Links -> Maybe(Request)]
    /\ serDesBufferResponse \in [Links -> Maybe(Request)]
    /\ inFlightRequestLink \in [Links -> Maybe(Request)]
    /\ inFlightRequestLinkCountdowns \in [Links -> Nat]
    /\ inFlightResponseLink \in [Links -> Maybe(Request)]
    /\ inFlightResponseLinkCountdowns \in [Links -> Nat]
    /\ responseLinkRoundRobin \in [Links -> 0 .. CHANNELS_PER_LINK_BUS - 1]
    /\ pendingReads \in SUBSET Request
    /\ channels \in [Channels ->
          [work : SUBSET Request, logicWrites : Nat, issued : Seq(Request),
           readReturnQueue : Seq(Request), logicOps : Seq(Request), logicLeft : Nat,
           pendingLogicResponse : Maybe(Request)]]
    /\ refused \in SUBSET TransactionIDs
    /\ error \in BOBErrors
    /\ inFlightRequest \in [Ports -> Maybe(Request)]
    /\ inFlightRequestHeaderCounter \in [Ports -> Nat]
    /\ inFlightRequestCounter \in [Ports -> Nat]
    /\ inFlightResponse \in [Ports -> Maybe(Request)]
    /\ inFlightResponseCounter \in [Ports -> Nat]
    /\ portRoundRobin \in Ports
    /\ accepted \in SUBSET TransactionIDs

Init ==
    /\ BOBInit
    /\ inFlightRequest = [p \in Ports |-> NULL]
    /\ inFlightRequestHeaderCounter = [p \in Ports |-> 0]
    /\ inFlightRequestCounter = [p \in Ports |-> 0]
    /\ inFlightResponse = [p \in Ports |-> NULL]
    /\ inFlightResponseCounter = [p \in Ports |-> 0]
    /\ portRoundRobin = 0
    /\ accepted = {}

-----------------------------------------------------------------------------
(* The places a request can be in                                          *)

Elements(queue) == {queue[i] : i \in DOMAIN queue}

IDs(S) == {t.transactionID : t \in S \ {NULL}}

\* A request is on its port until its header has arrived, then in the buffer.
OnPort(p) == IF inFlightRequestHeaderCounter[p] > 0 THEN {inFlightRequest[p]} ELSE {}

\* A request stays in the SerDes buffer while it crosses the link.
BeforeChannel ==
    {serDesBufferRequest[l] : l \in Links}
    \union UNION {OnPort(p) \union Elements(inputBuffer[p]) : p \in Ports}

InChannel(c) ==
    channels[c].work \union Elements(channels[c].issued)
    \union Elements(channels[c].logicOps) \union {channels[c].pendingLogicResponse}

\* A read stays at the head of the return queue while it crosses the link.
Returned(c) == Elements(channels[c].readReturnQueue)

AfterChannel ==
    {inFlightResponseLink[l] : l \in Links} \union {serDesBufferResponse[l] : l \in Links}
    \union UNION {Elements(outputBuffer[p]) : p \in Ports}

InSystem ==
    IDs(BeforeChannel) \union IDs(AfterChannel)
    \union UNION {IDs(InChannel(c) \union Returned(c)) : c \in Channels}

-----------------------------------------------------------------------------
(* The CPU                                                                 *)

\* Bug: one request too many.
isPortAvailableOneMore(p) ==
    inFlightRequestCounter[p] = 0 /\ Len(inputBuffer[p]) <= PORT_QUEUE_DEPTH

isPortAvailable(p) ==
    inFlightRequestCounter[p] = 0 /\ Len(inputBuffer[p]) < PORT_QUEUE_DEPTH

PutOnPort(p, id, type, c) ==
    LET t == [transactionID |-> id, portID |-> p, mappedChannel |-> c,
              transactionType |-> type]
    IN /\ pc = "cpu" /\ error = "none"
       /\ id \notin accepted \union refused \union InSystem
       /\ type \in RequestTypes
       /\ isPortAvailable(p)
       /\ inFlightRequest' = [inFlightRequest EXCEPT ![p] = t]
       /\ inFlightRequestHeaderCounter' = [inFlightRequestHeaderCounter EXCEPT ![p] = 1]
       /\ inFlightRequestCounter' =
             [inFlightRequestCounter EXCEPT ![p] = RequestPortCycles(t)]
       /\ accepted' = accepted \union {id}
       /\ UNCHANGED <<bobVars, inFlightResponse, inFlightResponseCounter>>

\* AddTransaction(trans, port): a simulation that chooses the port itself
\* (RandomStreamSim.cpp) keeps a request the port does not take.
AddTransaction(p, id, type, c) ==
    PutOnPort(p, id, type, c) /\ UNCHANGED portRoundRobin

Distance(p) == (p - portRoundRobin) % NUM_PORTS

\* The port for a request of the core, if one is open.
FindOpenPort(coreID) ==
    LET open == {p \in Ports : isPortAvailable(p)}
    IN CASE portHeuristic = "FIRST_AVAILABLE" -> {p \in open : \A q \in open : p <= q}
         [] portHeuristic = "PER_CORE" -> open \intersect {coreID % NUM_PORTS}
         [] portHeuristic = "ROUND_ROBIN" ->
              {p \in open : \A q \in open : Distance(p) <= Distance(q)}

\* A search that finds no port ends where it began.
RoundRobinAfter(p) ==
    IF portHeuristic = "ROUND_ROBIN" THEN (p + 1) % NUM_PORTS ELSE portRoundRobin

\* AddTransaction(addr, isWrite, coreID, logicOperation): a CPU simulator (MARSS)
\* leaves the port to the heuristic; with none open the request is turned away.
AddRequest(coreID, id, type, c) ==
    \E p \in FindOpenPort(coreID) :
        PutOnPort(p, id, type, c) /\ portRoundRobin' = RoundRobinAfter(p)

-----------------------------------------------------------------------------
(* The rest of BOBWrapper::Update                                          *)

HeaderArrives(p) == inFlightRequestHeaderCounter[p] = 1
ResponseEnds(p) == inFlightResponseCounter[p] = 1

\* Bug: the response that has been transferred stays.
OutputKept(p) == outputBuffer[p]

\* The output buffer once the response that ends has left it.
OutputAfter(p) == IF ResponseEnds(p) THEN Tail(outputBuffer[p]) ELSE outputBuffer[p]

\* Bug: the next response starts a cycle late.
StartsResponseLate(p) == OutputAfter(p) # << >> /\ inFlightResponseCounter[p] = 0

StartsResponse(p) == OutputAfter(p) # << >> /\ inFlightResponseCounter[p] <= 1

WrapperUpdate ==
    /\ pc = "wrapper" /\ error = "none"
    /\ pc' = "cpu"
    /\ inputBuffer' =
          [p \in Ports |-> IF HeaderArrives(p) THEN Append(inputBuffer[p], inFlightRequest[p])
                                               ELSE inputBuffer[p]]
    /\ inFlightRequestHeaderCounter' =
          [p \in Ports |-> OneLess(inFlightRequestHeaderCounter[p])]
    /\ inFlightRequestCounter' = [p \in Ports |-> OneLess(inFlightRequestCounter[p])]
    /\ inFlightRequest' =
          [p \in Ports |-> IF inFlightRequestCounter[p] = 1 THEN NULL ELSE inFlightRequest[p]]
    /\ accepted' = accepted \ {inFlightResponse[p].transactionID : p \in
                                  {q \in Ports : ResponseEnds(q)}}
    /\ outputBuffer' = [p \in Ports |-> OutputAfter(p)]
    /\ inFlightResponse' =
          [p \in Ports |-> IF StartsResponse(p) THEN Head(OutputAfter(p))
                           ELSE IF ResponseEnds(p) THEN NULL ELSE inFlightResponse[p]]
    /\ inFlightResponseCounter' =
          [p \in Ports |-> IF StartsResponse(p) THEN ResponsePortCycles(Head(OutputAfter(p)))
                           ELSE OneLess(inFlightResponseCounter[p])]
    /\ UNCHANGED <<portRoundRobin, turn, inputBusyCountdown, outputBusyCountdown, priorityPort,
                   priorityLinkBus, requestLinkVars, responseLinkVars, pendingReads,
                   channels, refused, error>>

-----------------------------------------------------------------------------
(* The memory system                                                       *)

\* A write is done for the CPU when its WRITE_P is put on the command bus.
WritesSent(before, after) ==
    IDs({t \in before.work \ after.work : t.transactionType = "DATA_WRITE"})

ChannelStep ==
    \E ch \in AfterUpdate(channels[turn]) :
        /\ UpdateChannel(ch)
        /\ accepted' = accepted \ WritesSent(channels[turn], ch)

BOBUpdate ==
    \/ AdvanceBuses /\ UNCHANGED <<cpuVars, accepted>>
    \/ MoveSerDes /\ UNCHANGED <<cpuVars, accepted>>
    \/ \E i \in DOMAIN inputBuffer[priorityPort] :
          SendRequest(i) /\ UNCHANGED <<cpuVars, accepted>>
    \/ SendNothing /\ UNCHANGED <<cpuVars, accepted>>
    \/ StartResponses /\ UNCHANGED <<cpuVars, accepted>>
    \/ pc = "channels" /\ ChannelStep /\ UNCHANGED cpuVars

CPUStep ==
    \E id \in TransactionIDs, type \in RequestTypes, c \in Channels :
        \/ \E p \in Ports : AddTransaction(p, id, type, c)
        \/ \E coreID \in Cores : AddRequest(coreID, id, type, c)

Next == CPUStep \/ BOBUpdate \/ WrapperUpdate

Spec == Init /\ [][Next]_vars

-----------------------------------------------------------------------------
(* Properties                                                              *)

\* No request is lost, forgotten or invented: the CPU waits for a callback for
\* exactly the requests that are somewhere between its ports and their answer.
RequestsConserved == accepted = InSystem

\* The exit(0) paths of BOB::Update are unreachable and no read is removed from an
\* empty return queue (BOB.cpp:342, :352, :376, :435, :616, :627, :675, :680).
BOBNeverExits == error = "none"

\* The work queue still has room when a request, sent because it had, has crossed
\* the link (BOB.cpp:506 and the ignored answer at :326).
NothingRefused == refused = {}

\* The response that has crossed a link is the head of the return queue, which is
\* what BOB.cpp:352 removes.
LinkTransfersHead ==
    \A l \in Links :
        inFlightResponseLink[l] # NULL =>
            LET t == inFlightResponseLink[l]
                queue == channels[t.mappedChannel].readReturnQueue
            IN queue # << >> /\ Head(queue).transactionID = t.transactionID

\* A request is only taken when there is room for it once its header has arrived, a
\* cycle after the room was looked for (BOBWrapper.cpp:209, :379).
InputBuffersBounded ==
    \A p \in Ports :
        Len(inputBuffer[p]) + inFlightRequestHeaderCounter[p] <= PORT_QUEUE_DEPTH

OnResponseLink ==
    IDs({t \in {inFlightResponseLink[l] : l \in Links} \ {NULL} :
            t.transactionType = "RETURN_DATA"})

IsRead(t) == t # NULL /\ t.transactionType = "DATA_READ"

ReadsSentToChannels ==
    IDs({t \in {serDesBufferRequest[l] : l \in Links} : IsRead(t)})
    \union UNION {IDs({t \in InChannel(c) : IsRead(t)} \union Returned(c)) : c \in Channels}

\* The pending reads, searched for every read that comes back, are the reads
\* between the SerDes buffer and the return queue's tail: all that were sent and
\* are not on their way back (BOB.cpp:522, :688).
PendingReadsMatch ==
    /\ IDs(pendingReads) \union OnResponseLink = ReadsSentToChannels
    /\ IDs(pendingReads) \intersect OnResponseLink = {}

\* Two clocks run for the same transfer, outputBusyCountdown in BOB and
\* inFlightResponseCounter in the wrapper; they agree, so a port is given a response
\* only when it has delivered the last one, and transfers the one it was given.
ResponsePortsInStep ==
    pc = "cpu" =>
        \A p \in Ports :
            /\ Len(outputBuffer[p]) <= 1
            /\ outputBuffer[p] = << >> <=> inFlightResponse[p] = NULL
            /\ outputBuffer[p] # << >> => inFlightResponse[p] = outputBuffer[p][1]
            /\ inFlightResponseCounter[p] = outputBusyCountdown[p]
            /\ \A i \in DOMAIN outputBuffer[p] : outputBuffer[p][i].portID = p

=============================================================================
