-------------------------------- MODULE BOB ---------------------------------
(***************************************************************************)
(* The main BOB controller (BOB.cpp): its ports, the SerDes buffers and    *)
(* link buses to the channels, and the reads it waits for.                 *)
(*                                                                         *)
(* BOB::Update runs its parts one after the other; pc names the next one   *)
(* and turn the port or channel whose turn it is within it:                *)
(*    cpu -> serdes -> inputs (per port) -> returns -> channels (per       *)
(*    channel) -> wrapper -> cpu                                           *)
(* The CPU adds requests while pc = "cpu"; "wrapper" is the part of        *)
(* BOBWrapper::Update that follows.  Work on different ports or links      *)
(* touches different state unless an action says otherwise, so a loop over *)
(* them is one step.                                                       *)
(***************************************************************************)
EXTENDS ChannelService

CONSTANTS
    NUM_PORTS, NUM_LINK_BUSES, CHANNELS_PER_LINK_BUS,
    PORT_QUEUE_DEPTH,
    PORT_WIDTH, TRANSACTION_SIZE,                       \* bytes
    REQUEST_LINK_BUS_WIDTH, RESPONSE_LINK_BUS_WIDTH,    \* bits
    RD_REQUEST_PACKET_OVERHEAD, RD_RESPONSE_PACKET_OVERHEAD,
    WR_REQUEST_PACKET_OVERHEAD, LOGIC_RESPONSE_PACKET_OVERHEAD,   \* bytes
    LINK_BUS_USE_DDR, LINK_CPU_CLK_RATIO,
    TransactionIDs,
    RequestTypes          \* the types of request the CPU may issue

Ports == 0 .. NUM_PORTS - 1
Links == 0 .. NUM_LINK_BUSES - 1
Channels == 0 .. NUM_LINK_BUSES * CHANNELS_PER_LINK_BUS - 1

LinkOf(c) == c \div CHANNELS_PER_LINK_BUS

ASSUME BOBAssumption ==
    /\ \A n \in {NUM_PORTS, NUM_LINK_BUSES, CHANNELS_PER_LINK_BUS, PORT_QUEUE_DEPTH,
                 PORT_WIDTH, TRANSACTION_SIZE, REQUEST_LINK_BUS_WIDTH,
                 RESPONSE_LINK_BUS_WIDTH, RD_REQUEST_PACKET_OVERHEAD,
                 RD_RESPONSE_PACKET_OVERHEAD, WR_REQUEST_PACKET_OVERHEAD,
                 LOGIC_RESPONSE_PACKET_OVERHEAD, LINK_CPU_CLK_RATIO} : n \in Nat \ {0}
    /\ TRANSACTION_SIZE >= PORT_WIDTH
    /\ LINK_BUS_USE_DDR \in BOOLEAN
    /\ RequestTypes \subseteq {"DATA_READ", "DATA_WRITE", "LOGIC_OPERATION"}

Request ==
    [transactionID : TransactionIDs, portID : Ports, mappedChannel : Channels,
     transactionType : {"DATA_READ", "DATA_WRITE", "LOGIC_OPERATION",
                        "RETURN_DATA", "LOGIC_RESPONSE"}]

ASSUME NullAssumption == NULL \notin Request

VARIABLES
    pc, turn,
    inputBuffer, inputBusyCountdown,          \* per port
    outputBuffer, outputBusyCountdown,
    priorityPort, priorityLinkBus,
    serDesBufferRequest, serDesBufferResponse,            \* per link
    inFlightRequestLink, inFlightRequestLinkCountdowns,
    inFlightResponseLink, inFlightResponseLinkCountdowns,
    responseLinkRoundRobin,
    pendingReads,         \* reads sent to a channel and not yet on their way back
    channels,
    refused,              \* requests a channel refused (their pointer is dropped)
    error                 \* why the simulator exited

portVars == <<inputBuffer, inputBusyCountdown, outputBuffer, outputBusyCountdown>>
requestLinkVars == <<serDesBufferRequest, inFlightRequestLink, inFlightRequestLinkCountdowns>>
responseLinkVars == <<serDesBufferResponse, inFlightResponseLink,
                      inFlightResponseLinkCountdowns, responseLinkRoundRobin>>
bobVars == <<pc, turn, portVars, priorityPort, priorityLinkBus, requestLinkVars,
             responseLinkVars, pendingReads, channels, refused, error>>

BOBErrors == {"none", "response SerDes collision", "request link busy",
              "response link busy", "countdown is 0", "empty return queue"}

\* The exits for a transaction of the wrong type (BOB.cpp:417-421, :472-475, :542-546;
\* BOBWrapper.cpp:440-444, :470-476) are not among them: Request names the kinds there
\* are, each exit is the default of a case distinction that the models make over what a
\* request or a response can be.

\* Bug: a bus that is free is counted on.
OneLessAlways(n) == n - 1

OneLess(n) == IF n = 0 THEN 0 ELSE n - 1
Maybe(S) == S \union {NULL}

BOBInit ==
    /\ pc = "cpu" /\ turn = 0
    /\ inputBuffer = [p \in Ports |-> << >>]
    /\ inputBusyCountdown = [p \in Ports |-> 0]
    /\ outputBuffer = [p \in Ports |-> << >>]
    /\ outputBusyCountdown = [p \in Ports |-> 0]
    /\ priorityPort = 0
    /\ priorityLinkBus = [p \in Ports |-> 0]
    /\ serDesBufferRequest = [l \in Links |-> NULL]
    /\ serDesBufferResponse = [l \in Links |-> NULL]
    /\ inFlightRequestLink = [l \in Links |-> NULL]
    /\ inFlightRequestLinkCountdowns = [l \in Links |-> 0]
    /\ inFlightResponseLink = [l \in Links |-> NULL]
    /\ inFlightResponseLinkCountdowns = [l \in Links |-> 0]
    /\ responseLinkRoundRobin = [l \in Links |-> 0]
    /\ pendingReads = {}
    /\ channels = [c \in Channels |-> NewChannel]
    /\ refused = {}
    /\ error = "none"

-----------------------------------------------------------------------------
(* The buses advance; what has crossed a link is delivered                 *)

RequestArrives(l) == inFlightRequestLinkCountdowns[l] = 1
ResponseArrives(l) == inFlightResponseLinkCountdowns[l] = 1

Delivered(c) ==
    {l \in Links : RequestArrives(l) /\ inFlightRequestLink[l].mappedChannel = c}

\* The channel's answer to AddTransaction is ignored.
AfterRequest(c) ==
    IF \E l \in Delivered(c) : Accepts(channels[c], inFlightRequestLink[l])
    THEN Accept(channels[c], inFlightRequestLink[CHOOSE l \in Delivered(c) : TRUE])
    ELSE channels[c]

\* The head of the return queue is removed, whatever the response was.
AfterResponse(c) ==
    IF \E l \in Links : ResponseArrives(l) /\ inFlightResponseLink[l].mappedChannel = c
    THEN WithoutReturn(AfterRequest(c))
    ELSE AfterRequest(c)

RemovesNothing(l) ==
    ResponseArrives(l) /\ channels[inFlightResponseLink[l].mappedChannel].readReturnQueue = << >>

AdvanceBuses ==
    /\ pc = "cpu" /\ error = "none"
    /\ pc' = "serdes"
    /\ inputBusyCountdown' = [p \in Ports |-> OneLess(inputBusyCountdown[p])]
    /\ outputBusyCountdown' = [p \in Ports |-> OneLess(outputBusyCountdown[p])]
    /\ inFlightRequestLinkCountdowns' =
          [l \in Links |-> OneLess(inFlightRequestLinkCountdowns[l])]
    /\ inFlightRequestLink' =
          [l \in Links |-> IF RequestArrives(l) THEN NULL ELSE inFlightRequestLink[l]]
    /\ serDesBufferRequest' =
          [l \in Links |-> IF RequestArrives(l) THEN NULL ELSE serDesBufferRequest[l]]
    /\ inFlightResponseLinkCountdowns' =
          [l \in Links |-> OneLess(inFlightResponseLinkCountdowns[l])]
    /\ inFlightResponseLink' =
          [l \in Links |-> IF ResponseArrives(l) THEN NULL ELSE inFlightResponseLink[l]]
    /\ serDesBufferResponse' =
          [l \in Links |-> IF ResponseArrives(l) THEN inFlightResponseLink[l]
                                                 ELSE serDesBufferResponse[l]]
    /\ refused' = refused \union
          {inFlightRequestLink[l].transactionID : l \in {k \in Links :
              /\ RequestArrives(k)
              /\ ~ Accepts(channels[inFlightRequestLink[k].mappedChannel],
                           inFlightRequestLink[k])}}
    /\ IF \E l \in Links : ResponseArrives(l) /\ serDesBufferResponse[l] # NULL
       THEN error' = "response SerDes collision" /\ UNCHANGED channels
       ELSE IF \E l \in Links : RemovesNothing(l)
       THEN error' = "empty return queue" /\ UNCHANGED channels
       ELSE channels' = [c \in Channels |-> AfterResponse(c)] /\ UNCHANGED error
    /\ UNCHANGED <<turn, inputBuffer, outputBuffer, priorityPort, priorityLinkBus,
                   responseLinkRoundRobin, pendingReads>>

-----------------------------------------------------------------------------
(* SerDes to request link, SerDes to output port                           *)

CeilDiv(m, n) == (m \div n) + (IF m % n = 0 THEN 0 ELSE 1)

\* CPU cycles a packet of so many bytes occupies a link of so many lanes.
LinkCycles(bytes, width) ==
    LET cycles == CeilDiv(bytes * 8, width)
    IN CeilDiv(IF LINK_BUS_USE_DDR THEN CeilDiv(cycles, 2) ELSE cycles, LINK_CPU_CLK_RATIO)

RequestCycles(t) ==
    LinkCycles(CASE t.transactionType = "DATA_READ" -> RD_REQUEST_PACKET_OVERHEAD
                 [] t.transactionType = "DATA_WRITE" ->
                        WR_REQUEST_PACKET_OVERHEAD + TRANSACTION_SIZE
                 [] OTHER -> TRANSACTION_SIZE,
               REQUEST_LINK_BUS_WIDTH)

StartsRequest(l) ==
    serDesBufferRequest[l] # NULL /\ inFlightRequestLinkCountdowns[l] = 0

\* The response port p takes in this cycle, if there is one.
TakesResponse(p) ==
    /\ outputBusyCountdown[p] = 0
    /\ serDesBufferResponse[priorityLinkBus[p]] # NULL
    /\ serDesBufferResponse[priorityLinkBus[p]].portID = p

ResponsePortCycles(t) ==
    IF t.transactionType = "RETURN_DATA" THEN TRANSACTION_SIZE \div PORT_WIDTH ELSE 1

MoveSerDes ==
    /\ pc = "serdes" /\ error = "none"
    /\ pc' = "inputs" /\ turn' = 0
    /\ error' = IF \E l \in Links : StartsRequest(l) /\ inFlightRequestLink[l] # NULL
                THEN "request link busy"
                ELSE IF \E l \in Links : /\ StartsRequest(l)
                                         /\ RequestCycles(serDesBufferRequest[l]) = 0
                THEN "countdown is 0" ELSE "none"
    /\ inFlightRequestLink' =
          [l \in Links |-> IF StartsRequest(l) THEN serDesBufferRequest[l]
                                               ELSE inFlightRequestLink[l]]
    /\ inFlightRequestLinkCountdowns' =
          [l \in Links |-> IF StartsRequest(l) THEN RequestCycles(serDesBufferRequest[l])
                                               ELSE inFlightRequestLinkCountdowns[l]]
    /\ outputBuffer' =
          [p \in Ports |-> IF TakesResponse(p)
                           THEN Append(outputBuffer[p], serDesBufferResponse[priorityLinkBus[p]])
                           ELSE outputBuffer[p]]
    /\ outputBusyCountdown' =
          [p \in Ports |-> IF TakesResponse(p)
                           THEN ResponsePortCycles(serDesBufferResponse[priorityLinkBus[p]])
                           ELSE outputBusyCountdown[p]]
    /\ serDesBufferResponse' =
          [l \in Links |-> IF \E p \in Ports : TakesResponse(p) /\ priorityLinkBus[p] = l
                           THEN NULL ELSE serDesBufferResponse[l]]
    /\ priorityLinkBus' =
          [p \in Ports |-> IF outputBusyCountdown[p] = 0
                           THEN (priorityLinkBus[p] + 1) % NUM_LINK_BUSES
                           ELSE priorityLinkBus[p]]
    /\ UNCHANGED <<inputBuffer, inputBusyCountdown, priorityPort, serDesBufferRequest,
                   inFlightResponseLink, inFlightResponseLinkCountdowns,
                   responseLinkRoundRobin, pendingReads, channels, refused>>

-----------------------------------------------------------------------------
(* Input ports to SerDes: NUM_PORTS turns, each of the port with priority  *)

\* Bug: the channel's work queue is not looked at.
SerDesIsFree(t) == serDesBufferRequest[LinkOf(t.mappedChannel)] = NULL

Sendable(t) ==
    /\ serDesBufferRequest[LinkOf(t.mappedChannel)] = NULL
    /\ WaitingACTS(channels[t.mappedChannel]) < CHANNEL_WORK_Q_MAX

\* The port's buffer is searched out of order.
SendsAt(p, i) ==
    /\ inputBusyCountdown[p] = 0
    /\ i \in DOMAIN inputBuffer[p]
    /\ Sendable(inputBuffer[p][i])
    /\ \A j \in 1 .. i - 1 : ~ Sendable(inputBuffer[p][j])

RequestPortCycles(t) ==
    IF t.transactionType = "DATA_READ" THEN 1 ELSE TRANSACTION_SIZE \div PORT_WIDTH

Without(queue, i) ==
    [j \in 1 .. Len(queue) - 1 |-> IF j < i THEN queue[j] ELSE queue[j + 1]]

\* priorityPort is advanced once per turn, and once more after the last turn.
EndTurn(step) ==
    /\ priorityPort' = (priorityPort + step + (IF turn = NUM_PORTS - 1 THEN 1 ELSE 0))
                       % NUM_PORTS
    /\ IF turn = NUM_PORTS - 1 THEN pc' = "returns" /\ turn' = 0
                               ELSE turn' = turn + 1 /\ UNCHANGED pc

SendRequest(i) ==
    LET p == priorityPort
        t == inputBuffer[p][i]
    IN /\ pc = "inputs" /\ error = "none"
       /\ SendsAt(p, i)
       /\ serDesBufferRequest' = [serDesBufferRequest EXCEPT ![LinkOf(t.mappedChannel)] = t]
       /\ pendingReads' = IF t.transactionType = "DATA_READ"
                          THEN pendingReads \union {t} ELSE pendingReads
       /\ inputBusyCountdown' = [inputBusyCountdown EXCEPT ![p] = RequestPortCycles(t)]
       /\ inputBuffer' = [inputBuffer EXCEPT ![p] = Without(@, i)]
       /\ EndTurn(2)
       /\ UNCHANGED <<outputBuffer, outputBusyCountdown, priorityLinkBus,
                      inFlightRequestLink, inFlightRequestLinkCountdowns,
                      responseLinkVars, channels, refused, error>>

SendNothing ==
    /\ pc = "inputs" /\ error = "none"
    /\ \A i \in DOMAIN inputBuffer[priorityPort] : ~ SendsAt(priorityPort, i)
    /\ EndTurn(1)
    /\ UNCHANGED <<portVars, priorityLinkBus, requestLinkVars, responseLinkVars,
                   pendingReads, channels, refused, error>>

-----------------------------------------------------------------------------
(* Channel return queues to response links                                 *)

\* Bug: any read in the return queue will do.
PendingReadsOf(c) ==
    {t \in pendingReads : \E i \in DOMAIN channels[c].readReturnQueue :
        t.transactionID = channels[c].readReturnQueue[i].transactionID}

\* The pending read whose data is at the head of the return queue.
PendingReadOf(c) ==
    {t \in pendingReads :
        /\ channels[c].readReturnQueue # << >>
        /\ t.transactionID = Head(channels[c].readReturnQueue).transactionID}

HasLogicResponse(c) == channels[c].pendingLogicResponse # NULL
HasResponse(c) == HasLogicResponse(c) \/ PendingReadOf(c) # {}

\* The channel that is z places after the one whose turn it is on link l.
RoundRobin(l, z) ==
    (l * CHANNELS_PER_LINK_BUS) + ((responseLinkRoundRobin[l] + z) % CHANNELS_PER_LINK_BUS)

\* Bug: the response that waits for its port is not looked at.
LinkIsQuiet(l) == inFlightResponseLinkCountdowns[l] = 0

LinkIsFree(l) ==
    inFlightResponseLinkCountdowns[l] = 0 /\ serDesBufferResponse[l] = NULL

\* Bug: only the channel whose turn it is.
RespondsInTurn(l, z) == z = 0 /\ LinkIsFree(l) /\ HasResponse(RoundRobin(l, 0))

\* The first channel after the one whose turn it is that has a response.
Responds(l, z) ==
    /\ LinkIsFree(l)
    /\ z \in 0 .. CHANNELS_PER_LINK_BUS - 1
    /\ HasResponse(RoundRobin(l, z))
    /\ \A y \in 0 .. z - 1 : ~ HasResponse(RoundRobin(l, y))

\* The channel that starts a response on link l, if any.
ResponderOf(l) ==
    {RoundRobin(l, z) : z \in {y \in 0 .. CHANNELS_PER_LINK_BUS - 1 : Responds(l, y)}}

Responders == UNION {ResponderOf(l) : l \in Links}

ResponseOf(c) ==
    IF HasLogicResponse(c) THEN channels[c].pendingLogicResponse
    ELSE [(CHOOSE t \in PendingReadOf(c) : TRUE) EXCEPT !.transactionType = "RETURN_DATA"]

ResponseCycles(t) ==
    LinkCycles(IF t.transactionType = "LOGIC_RESPONSE" THEN LOGIC_RESPONSE_PACKET_OVERHEAD
               ELSE RD_RESPONSE_PACKET_OVERHEAD + TRANSACTION_SIZE,
               RESPONSE_LINK_BUS_WIDTH)

\* A read leaves the turn to the next channel, a logic response does not.
NextRoundRobin(c) ==
    (c + (IF HasLogicResponse(c) THEN 0 ELSE 1)) % CHANNELS_PER_LINK_BUS

StartResponses ==
    /\ pc = "returns" /\ error = "none"
    /\ pc' = "channels" /\ turn' = 0
    /\ error' = IF \E c \in Responders : inFlightResponseLink[LinkOf(c)] # NULL
                THEN "response link busy"
                ELSE IF \E c \in Responders : ResponseCycles(ResponseOf(c)) = 0
                THEN "countdown is 0" ELSE "none"
    /\ inFlightResponseLink' =
          [l \in Links |-> IF ResponderOf(l) = {} THEN inFlightResponseLink[l]
                           ELSE ResponseOf(CHOOSE c \in ResponderOf(l) : TRUE)]
    /\ inFlightResponseLinkCountdowns' =
          [l \in Links |-> IF ResponderOf(l) = {} THEN inFlightResponseLinkCountdowns[l]
                           ELSE ResponseCycles(ResponseOf(CHOOSE c \in ResponderOf(l) : TRUE))]
    /\ responseLinkRoundRobin' =
          [l \in Links |-> IF ResponderOf(l) = {} THEN responseLinkRoundRobin[l]
                           ELSE NextRoundRobin(CHOOSE c \in ResponderOf(l) : TRUE)]
    /\ pendingReads' = pendingReads \
          UNION {PendingReadOf(c) : c \in {d \in Responders : ~ HasLogicResponse(d)}}
    /\ channels' = [c \in Channels |-> IF c \in Responders /\ HasLogicResponse(c)
                                       THEN [channels[c] EXCEPT !.pendingLogicResponse = NULL]
                                       ELSE channels[c]]
    /\ UNCHANGED <<portVars, priorityPort, priorityLinkBus, requestLinkVars,
                   serDesBufferResponse, refused>>

-----------------------------------------------------------------------------
(* The channels, at DRAM speed: in most CPU cycles they are not updated    *)

UpdateChannel(ch) ==
    /\ pc = "channels" /\ error = "none"
    /\ ch \in AfterUpdate(channels[turn])
    /\ channels' = [channels EXCEPT ![turn] = ch]
    /\ IF turn = NUM_LINK_BUSES * CHANNELS_PER_LINK_BUS - 1
       THEN pc' = "wrapper" /\ turn' = 0
       ELSE turn' = turn + 1 /\ UNCHANGED pc
    /\ UNCHANGED <<portVars, priorityPort, priorityLinkBus, requestLinkVars,
                   responseLinkVars, pendingReads, refused, error>>

=============================================================================
