-------------------------- MODULE BOBWrapper_proof --------------------------
(***************************************************************************)
(* Theorems about BOBWrapper, for every number of ports, links and         *)
(* channels, every size of the queues and packets and every port           *)
(* heuristic: the input buffers; the room in the work queues; the wires;   *)
(* and the requests, each followed from its port to its callback.  What is *)
(* said of the input buffers and the wires is about any traffic, the rest  *)
(* about traffic without logic operations: with them bob_refused shows a   *)
(* request refused and bob_lost_read a read lost.                          *)
(***************************************************************************)
EXTENDS BOBWrapper, SequenceTheorems, FiniteSetTheorems, TLAPS

-----------------------------------------------------------------------------
(* The constants                                                           *)

LEMMA SizeTypes ==
    /\ NUM_PORTS \in Nat \ {0} /\ NUM_LINK_BUSES \in Nat \ {0}
    /\ CHANNELS_PER_LINK_BUS \in Nat \ {0} /\ PORT_QUEUE_DEPTH \in Nat \ {0}
    /\ TRANSACTION_SIZE \in Nat \ {0} /\ PORT_WIDTH \in Nat \ {0}
    /\ TRANSACTION_SIZE >= PORT_WIDTH
  BY BOBAssumption

\* A port is busy for at least a cycle with a request.
LEMMA RequestOccupiesPort ==
    ASSUME NEW t
    PROVE  RequestPortCycles(t) \in Nat \ {0}
<1>1. TRANSACTION_SIZE \div PORT_WIDTH \in Nat \ {0}
  BY SizeTypes
<1>2. QED
  BY <1>1 DEF RequestPortCycles

LEMMA WithoutType ==
    ASSUME NEW S, NEW queue \in Seq(S), NEW i \in 1 .. Len(queue)
    PROVE  /\ Without(queue, i) \in Seq(S)
           /\ Len(Without(queue, i)) = Len(queue) - 1
<1>1. Len(queue) \in Nat /\ Len(queue) - 1 \in Nat
  BY LenProperties
<1>2. ASSUME NEW j \in 1 .. Len(queue) - 1
      PROVE  (IF j < i THEN queue[j] ELSE queue[j + 1]) \in S
  BY <1>1, ElementOfSeq
<1>3. QED
  BY <1>1, <1>2, SeqDef DEF Without

-----------------------------------------------------------------------------
(* The input buffers                                                       *)

CPURequest == {t \in Request : t.transactionType \in RequestTypes}

\* The port that takes a request is busy until its header has arrived, so the next
\* request finds it in the buffer when it looks for room.
PortsInv ==
    /\ inputBuffer \in [Ports -> Seq(CPURequest)]
    /\ inFlightRequest \in [Ports -> Maybe(CPURequest)]
    /\ inFlightRequestHeaderCounter \in [Ports -> {0, 1}]
    /\ inFlightRequestCounter \in [Ports -> Nat]
    /\ priorityPort \in Ports
    /\ \A p \in Ports : inFlightRequestHeaderCounter[p] = 1 =>
           inFlightRequest[p] \in CPURequest /\ inFlightRequestCounter[p] > 0
    /\ InputBuffersBounded

LEMMA PortsInit == Init => PortsInv
  BY SizeTypes, EmptySeq, LenProperties
     DEF Init, BOBInit, PortsInv, InputBuffersBounded, Ports, Maybe

\* A request enters a port that has room for it and no header under way.
LEMMA PortsCPU ==
    ASSUME PortsInv,
           NEW p \in Ports, NEW id \in TransactionIDs, NEW type \in RequestTypes,
           NEW c \in Channels, PutOnPort(p, id, type, c)
    PROVE  PortsInv'
<1> DEFINE t == [transactionID |-> id, portID |-> p, mappedChannel |-> c,
                 transactionType |-> type]
<1>1. t \in CPURequest
  BY BOBAssumption DEF Request, CPURequest
<1>2. RequestPortCycles(t) \in Nat \ {0}
  BY RequestOccupiesPort
<1>3. inFlightRequestHeaderCounter[p] = 0
  BY DEF PutOnPort, isPortAvailable, PortsInv
<1>4. Len(inputBuffer[p]) \in Nat /\ Len(inputBuffer[p]) < PORT_QUEUE_DEPTH
  BY LenProperties DEF PutOnPort, isPortAvailable, PortsInv
<1>5. /\ inputBuffer' = inputBuffer /\ priorityPort' = priorityPort
      /\ inFlightRequest' = [inFlightRequest EXCEPT ![p] = t]
      /\ inFlightRequestHeaderCounter' = [inFlightRequestHeaderCounter EXCEPT ![p] = 1]
      /\ inFlightRequestCounter' = [inFlightRequestCounter EXCEPT ![p] = RequestPortCycles(t)]
  BY DEF PutOnPort, bobVars, portVars
<1> HIDE DEF t
<1>6. InputBuffersBounded'
  BY <1>4, <1>5, SizeTypes DEF PortsInv, InputBuffersBounded
<1>7. \A q \in Ports : (inFlightRequestHeaderCounter[q] = 1)' =>
          (inFlightRequest[q] \in CPURequest /\ inFlightRequestCounter[q] > 0)'
  BY <1>1, <1>2, <1>5 DEF PortsInv
<1>8. QED
  BY <1>1, <1>2, <1>5, <1>6, <1>7 DEF PortsInv, Maybe

\* A header that arrives makes way for the request in the buffer.
LEMMA PortsWrapper ==
    ASSUME PortsInv, WrapperUpdate
    PROVE  PortsInv'
<1>1. /\ priorityPort' = priorityPort
      /\ inputBuffer' = [p \in Ports |->
            IF HeaderArrives(p) THEN Append(inputBuffer[p], inFlightRequest[p])
                                ELSE inputBuffer[p]]
      /\ inFlightRequestHeaderCounter' =
            [p \in Ports |-> OneLess(inFlightRequestHeaderCounter[p])]
      /\ inFlightRequestCounter' = [p \in Ports |-> OneLess(inFlightRequestCounter[p])]
      /\ inFlightRequest' =
            [p \in Ports |-> IF inFlightRequestCounter[p] = 1 THEN NULL
                             ELSE inFlightRequest[p]]
  BY DEF WrapperUpdate
<1>2. ASSUME NEW p \in Ports
      PROVE  /\ inputBuffer'[p] \in Seq(CPURequest)
             /\ inFlightRequestHeaderCounter'[p] = 0
             /\ Len(inputBuffer'[p]) <= PORT_QUEUE_DEPTH
  <2>1. inputBuffer[p] \in Seq(CPURequest) /\ Len(inputBuffer[p]) \in Nat
    BY LenProperties DEF PortsInv
  <2>2. CASE inFlightRequestHeaderCounter[p] = 1
    <3>1. inFlightRequest[p] \in CPURequest
      BY <2>2 DEF PortsInv
    <3>2. inputBuffer'[p] = Append(inputBuffer[p], inFlightRequest[p])
      BY <1>1, <2>2 DEF HeaderArrives
    <3>3. Len(inputBuffer'[p]) = Len(inputBuffer[p]) + 1 /\ inputBuffer'[p] \in Seq(CPURequest)
      BY <2>1, <3>1, <3>2, AppendProperties
    <3>4. QED
      BY <1>1, <2>1, <2>2, <3>3, SizeTypes DEF PortsInv, InputBuffersBounded, OneLess
  <2>3. CASE inFlightRequestHeaderCounter[p] = 0
    BY <1>1, <2>1, <2>3, SizeTypes DEF PortsInv, InputBuffersBounded, OneLess, HeaderArrives
  <2>4. QED
    BY <2>2, <2>3 DEF PortsInv
<1>3. inputBuffer' \in [Ports -> Seq(CPURequest)]
  BY <1>1, <1>2
<1>4. inFlightRequestHeaderCounter' \in [Ports -> {0, 1}]
  BY <1>1, <1>2
<1>5. inFlightRequestCounter' \in [Ports -> Nat]
  BY <1>1 DEF PortsInv, OneLess
<1>6. inFlightRequest' \in [Ports -> Maybe(CPURequest)]
  BY <1>1 DEF PortsInv, Maybe
<1>7. InputBuffersBounded'
  <2>1. ASSUME NEW p \in Ports
        PROVE  (Len(inputBuffer[p]) + inFlightRequestHeaderCounter[p] <= PORT_QUEUE_DEPTH)'
    <3>1. Len(inputBuffer'[p]) \in Nat
      BY <1>2, LenProperties
    <3>2. QED
      BY <1>2, <3>1
  <2>2. QED
    BY <2>1 DEF InputBuffersBounded
<1>8. QED
  BY <1>1, <1>2, <1>3, <1>4, <1>5, <1>6, <1>7 DEF PortsInv

\* A request that is sent leaves its buffer shorter.
LEMMA PortsSend ==
    ASSUME PortsInv, NEW i \in DOMAIN inputBuffer[priorityPort], SendRequest(i),
           UNCHANGED cpuVars
    PROVE  PortsInv'
<1> DEFINE q == priorityPort
<1>1. q \in Ports /\ inputBuffer[q] \in Seq(CPURequest) /\ i \in 1 .. Len(inputBuffer[q])
  BY LenProperties DEF PortsInv
<1>2. /\ Without(inputBuffer[q], i) \in Seq(CPURequest)
      /\ Len(Without(inputBuffer[q], i)) = Len(inputBuffer[q]) - 1
  BY <1>1, WithoutType
<1>3. inputBuffer' = [inputBuffer EXCEPT ![q] = Without(inputBuffer[q], i)]
  BY DEF SendRequest
<1>4. priorityPort' \in Ports
  <2>1. priorityPort' =
          (q + 2 + (IF turn = NUM_PORTS - 1 THEN 1 ELSE 0)) % NUM_PORTS
    BY DEF SendRequest, EndTurn
  <2>2. q + 2 + (IF turn = NUM_PORTS - 1 THEN 1 ELSE 0) \in Nat
    BY <1>1, SizeTypes DEF Ports
  <2>3. QED
    BY <2>1, <2>2, SizeTypes DEF Ports
<1>5. InputBuffersBounded'
  <2>1. Len(inputBuffer[q]) \in Nat
    BY <1>1, LenProperties
  <2>2. ASSUME NEW p \in Ports
        PROVE  Len(inputBuffer'[p]) + inFlightRequestHeaderCounter'[p] <= PORT_QUEUE_DEPTH
    <3>1. inFlightRequestHeaderCounter'[p] \in {0, 1}
      BY DEF PortsInv, cpuVars
    <3>2. Len(inputBuffer[p]) + inFlightRequestHeaderCounter'[p] <= PORT_QUEUE_DEPTH
      BY DEF PortsInv, InputBuffersBounded, cpuVars
    <3>3. CASE p = q
      <4>1. Len(inputBuffer'[p]) = Len(inputBuffer[p]) - 1
        BY <1>1, <1>2, <1>3, <3>3 DEF PortsInv
      <4>2. QED
        BY <2>1, <3>1, <3>2, <3>3, <4>1, SizeTypes
    <3>4. CASE p # q
      BY <1>3, <3>2, <3>4 DEF PortsInv
    <3>5. QED
      BY <3>3, <3>4
  <2>3. QED
    BY <2>2 DEF InputBuffersBounded
<1>6. inputBuffer' \in [Ports -> Seq(CPURequest)]
  BY <1>1, <1>2, <1>3 DEF PortsInv
<1>7. QED
  BY <1>4, <1>5, <1>6 DEF PortsInv, cpuVars

LEMMA PortsNext == PortsInv /\ [Next]_vars => PortsInv'
<1> SUFFICES ASSUME PortsInv, [Next]_vars PROVE PortsInv'
  OBVIOUS
<1>1. CASE CPUStep
  <2>1. PICK id \in TransactionIDs, type \in RequestTypes, c \in Channels :
           \/ \E p \in Ports : AddTransaction(p, id, type, c)
           \/ \E coreID \in Cores : AddRequest(coreID, id, type, c)
    BY <1>1 DEF CPUStep
  <2>2. PICK p : p \in Ports /\ PutOnPort(p, id, type, c)
    BY <2>1, WrapperAssumption DEF AddTransaction, AddRequest, FindOpenPort
  <2>3. QED
    BY <2>2, PortsCPU
<1>2. CASE WrapperUpdate
  BY <1>2, PortsWrapper
<1>3. ASSUME NEW i \in DOMAIN inputBuffer[priorityPort], SendRequest(i), UNCHANGED cpuVars
      PROVE  PortsInv'
  BY <1>3, PortsSend
<1>4. CASE SendNothing /\ UNCHANGED cpuVars
  <2>1. priorityPort' = (priorityPort + 1 + (IF turn = NUM_PORTS - 1 THEN 1 ELSE 0))
                        % NUM_PORTS
    BY <1>4 DEF SendNothing, EndTurn
  <2>2. priorityPort + 1 + (IF turn = NUM_PORTS - 1 THEN 1 ELSE 0) \in Nat
    BY SizeTypes DEF PortsInv, Ports
  <2>3. priorityPort' \in Ports
    BY <2>1, <2>2, SizeTypes DEF Ports
  <2>4. QED
    BY <1>4, <2>3 DEF SendNothing, portVars, cpuVars, PortsInv, InputBuffersBounded
<1>5. CASE UNCHANGED <<inputBuffer, priorityPort, cpuVars>>
  BY <1>5 DEF cpuVars, PortsInv, InputBuffersBounded
<1>6. CASE BOBUpdate
  <2>1. ASSUME AdvanceBuses \/ MoveSerDes \/ StartResponses \/ ChannelStep, UNCHANGED cpuVars
        PROVE  UNCHANGED <<inputBuffer, priorityPort, cpuVars>>
    BY <2>1 DEF AdvanceBuses, MoveSerDes, StartResponses, ChannelStep, UpdateChannel, portVars
  <2>2. QED
    BY <1>3, <1>4, <1>5, <1>6, <2>1 DEF BOBUpdate
<1>7. CASE UNCHANGED vars
  BY <1>5, <1>7 DEF vars, bobVars, portVars
<1>8. QED
  BY <1>1, <1>2, <1>6, <1>7 DEF Next

\* No input buffer ever holds more than PORT_QUEUE_DEPTH requests, though the room is
\* looked for a cycle before the request enters (BOBWrapper.cpp:206-210, :379).
THEOREM InputBuffersCorrect == Spec => []InputBuffersBounded
<1>1. PortsInv => InputBuffersBounded
  BY DEF PortsInv
<1>2. QED
  BY PortsInit, PortsNext, <1>1, PTL DEF Spec

-----------------------------------------------------------------------------
(* The work queues, when no logic operation is requested                   *)

\* A channel whose logic layer has nothing to do.
SilentChannel ==
    [work : {S \in SUBSET Request : IsFiniteSet(S)}, logicWrites : {0},
     issued : Seq(Request), readReturnQueue : Seq(Request), logicOps : {<< >>},
     logicLeft : Nat, pendingLogicResponse : {NULL}]

\* The room in the work queue is kept for the request that is in the SerDes buffer of
\* the channel's link, from where it crosses the link: nobody else adds to that queue.
RoomIsKept ==
    \A l \in Links : serDesBufferRequest[l] # NULL =>
        LET c == serDesBufferRequest[l].mappedChannel
        IN LinkOf(c) = l /\ WaitingACTS(channels[c]) < CHANNEL_WORK_Q_MAX

LinksInv ==
    /\ channels \in [Channels -> SilentChannel]
    /\ serDesBufferRequest \in [Links -> Maybe(CPURequest)]
    /\ RoomIsKept
    /\ \A l \in Links : inFlightRequestLinkCountdowns[l] # 0 =>
           serDesBufferRequest[l] # NULL /\ inFlightRequestLink[l] = serDesBufferRequest[l]
    /\ NothingRefused

LEMMA LinksInit == Init => LinksInv
<1>1. NewChannel \in SilentChannel
  BY FS_EmptySet, EmptySeq, ChannelAssumption DEF NewChannel, SilentChannel
<1>2. QED
  BY <1>1 DEF Init, BOBInit, LinksInv, RoomIsKept, NothingRefused, Maybe

\* An Update takes from the work queue and adds nothing to it.
LEMMA SilentUpdate ==
    ASSUME NEW x \in SilentChannel, NEW y \in AfterUpdate(x)
    PROVE  y \in SilentChannel /\ WaitingACTS(y) <= WaitingACTS(x)
<1> DEFINE Smaller(z) == z \in SilentChannel /\ z.work \subseteq x.work
<1>1. Smaller(x)
  OBVIOUS
<1>2. ASSUME NEW z \in Returns(x)
      PROVE  Smaller(z)
  <2>1. x.issued \in Seq(Request) /\ x.issued # << >>
    BY <1>2 DEF Returns, SilentChannel
  <2>2. z = [x EXCEPT !.issued = Tail(x.issued),
                      !.readReturnQueue = Append(x.readReturnQueue, Head(x.issued))]
    BY <1>2, <2>1 DEF Returns
  <2>3. Tail(x.issued) \in Seq(Request) /\ Head(x.issued) \in Request
    BY <2>1, HeadTailProperties
  <2>4. Append(x.readReturnQueue, Head(x.issued)) \in Seq(Request)
    BY <2>3, AppendProperties DEF SilentChannel
  <2>5. QED
    BY <2>2, <2>3, <2>4 DEF SilentChannel
<1>3. ASSUME NEW z \in {x} \union Returns(x)
      PROVE  LogicWrites(z) = {} /\ LogicResponds(z) = {} /\ Smaller(z)
  <2>1. Smaller(z)
    BY <1>1, <1>2
  <2>2. z.logicOps = << >>
    BY <2>1 DEF SilentChannel
  <2>3. QED
    BY <2>1, <2>2 DEF LogicWrites, LogicResponds
<1>4. ASSUME NEW z, Smaller(z), NEW s \in Sends(z)
      PROVE  Smaller(s)
  <2>1. z.logicWrites = 0
    BY <1>4 DEF SilentChannel
  <2>2. PICK t \in z.work :
           s = [z EXCEPT !.work = z.work \ {t},
                         !.issued = IF t.transactionType = "DATA_READ"
                                    THEN Append(z.issued, t) ELSE z.issued]
    BY <1>4, <2>1 DEF Sends
  <2>3. t \in Request /\ z.issued \in Seq(Request) /\ IsFiniteSet(z.work)
    BY <1>4 DEF SilentChannel
  <2>4. IsFiniteSet(z.work \ {t})
    BY <2>3, FS_RemoveElement
  <2>5. Append(z.issued, t) \in Seq(Request)
    BY <2>3, AppendProperties
  <2>6. QED
    BY <1>4, <2>2, <2>4, <2>5 DEF SilentChannel
<1>5. Smaller(y)
  <2>1. PICK z \in {x} \union Returns(x) : y = z \/ y \in Sends(z)
    BY <1>3 DEF AfterUpdate
  <2>2. QED
    BY <1>3, <1>4, <2>1
<1>6. /\ Cardinality(y.work) <= Cardinality(x.work)
      /\ Cardinality(y.work) \in Nat /\ Cardinality(x.work) \in Nat
  BY <1>5, FS_Subset, FS_CardinalityType DEF SilentChannel
<1>7. QED
  BY <1>5, <1>6 DEF WaitingACTS, SilentChannel

\* What crosses a link was let in when there was room, and there still is.
LEMMA LinksAdvance ==
    ASSUME "LOGIC_OPERATION" \notin RequestTypes, LinksInv, AdvanceBuses
    PROVE  LinksInv'
<1>1. ASSUME NEW l \in Links, RequestArrives(l)
      PROVE  LET t == inFlightRequestLink[l]
                 c == t.mappedChannel
             IN /\ t \in CPURequest /\ t.transactionType # "LOGIC_OPERATION"
                /\ t = serDesBufferRequest[l] /\ LinkOf(c) = l
                /\ Accepts(channels[c], t)
  <2>1. serDesBufferRequest[l] # NULL /\ inFlightRequestLink[l] = serDesBufferRequest[l]
    BY <1>1 DEF RequestArrives, LinksInv
  <2>2. inFlightRequestLink[l] \in CPURequest
    BY <2>1 DEF LinksInv, Maybe
  <2>3. QED
    BY <2>1, <2>2 DEF LinksInv, RoomIsKept, Accepts, CPURequest
<1>2. refused' = {}
  BY <1>1 DEF AdvanceBuses, LinksInv, NothingRefused
<1>3. ASSUME NEW c \in Channels
      PROVE  /\ AfterRequest(c) \in SilentChannel
             /\ AfterRequest(c).readReturnQueue = channels[c].readReturnQueue
             /\ Delivered(c) = {} => AfterRequest(c) = channels[c]
  <2>1. channels[c] \in SilentChannel
    BY DEF LinksInv
  <2>2. CASE \E l \in Delivered(c) : Accepts(channels[c], inFlightRequestLink[l])
    <3> DEFINE l == CHOOSE k \in Delivered(c) : TRUE
               t == inFlightRequestLink[l]
    <3>1. l \in Delivered(c)
      BY <2>2
    <3>2. t \in CPURequest /\ t.transactionType # "LOGIC_OPERATION"
      BY <1>1, <3>1 DEF Delivered
    <3>3. AfterRequest(c) = [channels[c] EXCEPT !.work = channels[c].work \union {t}]
      BY <2>2, <3>2 DEF AfterRequest, Accept
    <3> HIDE DEF t, l
    <3>4. IsFiniteSet(channels[c].work)
      BY <2>1 DEF SilentChannel
    <3>5. IsFiniteSet(channels[c].work \union {t})
      BY <3>4, FS_AddElement
    <3>6. QED
      BY <2>1, <3>1, <3>2, <3>3, <3>5 DEF SilentChannel, CPURequest
  <2>3. CASE ~ \E l \in Delivered(c) : Accepts(channels[c], inFlightRequestLink[l])
    BY <2>1, <2>3 DEF AfterRequest
  <2>4. QED
    BY <2>2, <2>3
<1>4. ASSUME NEW c \in Channels, ~ \E l \in Links : RemovesNothing(l)
      PROVE  /\ AfterResponse(c) \in SilentChannel
             /\ AfterResponse(c).work = AfterRequest(c).work
  <2>1. CASE \E l \in Links : ResponseArrives(l) /\ inFlightResponseLink[l].mappedChannel = c
    <3>1. channels[c].readReturnQueue # << >>
      BY <1>4, <2>1 DEF RemovesNothing
    <3>2. AfterRequest(c).readReturnQueue \in Seq(Request) /\ AfterRequest(c).readReturnQueue # << >>
      BY <1>3, <3>1 DEF SilentChannel
    <3>3. Tail(AfterRequest(c).readReturnQueue) \in Seq(Request)
      BY <3>2, HeadTailProperties
    <3>4. AfterResponse(c) = [AfterRequest(c) EXCEPT
                                 !.readReturnQueue = Tail(AfterRequest(c).readReturnQueue)]
      BY <2>1 DEF AfterResponse, WithoutReturn
    <3>5. QED
      BY <1>3, <3>3, <3>4 DEF SilentChannel
  <2>2. CASE ~ \E l \in Links : ResponseArrives(l) /\ inFlightResponseLink[l].mappedChannel = c
    BY <1>3, <2>2 DEF AfterResponse
  <2>3. QED
    BY <2>1, <2>2
<1>5. /\ \A l \in Links : inFlightRequestLinkCountdowns'[l] =
                             OneLess(inFlightRequestLinkCountdowns[l])
      /\ \A l \in Links : inFlightRequestLink'[l] =
                             IF RequestArrives(l) THEN NULL ELSE inFlightRequestLink[l]
      /\ serDesBufferRequest' =
            [l \in Links |-> IF RequestArrives(l) THEN NULL ELSE serDesBufferRequest[l]]
      /\ \/ channels' = channels
         \/ /\ ~ \E l \in Links : RemovesNothing(l)
            /\ channels' = [c \in Channels |-> AfterResponse(c)]
  BY DEF AdvanceBuses
<1>6. channels' \in [Channels -> SilentChannel]
  BY <1>4, <1>5 DEF LinksInv
<1>7. serDesBufferRequest' \in [Links -> Maybe(CPURequest)]
  BY <1>5 DEF LinksInv, Maybe
<1>8. ASSUME NEW l \in Links, serDesBufferRequest'[l] # NULL
      PROVE  LET c == serDesBufferRequest'[l].mappedChannel
             IN LinkOf(c) = l /\ WaitingACTS(channels'[c]) < CHANNEL_WORK_Q_MAX
  <2> DEFINE c == serDesBufferRequest[l].mappedChannel
  <2>1. ~ RequestArrives(l) /\ serDesBufferRequest'[l] = serDesBufferRequest[l]
    BY <1>5, <1>8
  <2>2. /\ serDesBufferRequest[l] \in CPURequest /\ LinkOf(c) = l
        /\ WaitingACTS(channels[c]) < CHANNEL_WORK_Q_MAX
    BY <1>8, <2>1 DEF LinksInv, RoomIsKept, Maybe
  <2>3. c \in Channels
    BY <2>2 DEF CPURequest, Request
  <2>4. Delivered(c) = {}
    BY <1>1, <2>1, <2>2 DEF Delivered
  <2>5. WaitingACTS(channels'[c]) = WaitingACTS(channels[c])
    <3>1. CASE channels' = channels
      BY <3>1
    <3>2. CASE /\ ~ \E k \in Links : RemovesNothing(k)
               /\ channels' = [d \in Channels |-> AfterResponse(d)]
      <4>1. /\ channels'[c] \in SilentChannel /\ channels[c] \in SilentChannel
            /\ channels'[c].work = channels[c].work
        BY <1>3, <1>4, <2>3, <2>4, <3>2 DEF LinksInv
      <4>2. QED
        BY <4>1 DEF WaitingACTS, SilentChannel
    <3>3. QED
      BY <1>5, <3>1, <3>2
  <2>6. QED
    BY <2>1, <2>2, <2>5
<1>9. ASSUME NEW l \in Links, inFlightRequestLinkCountdowns'[l] # 0
      PROVE  /\ serDesBufferRequest'[l] # NULL
             /\ inFlightRequestLink'[l] = serDesBufferRequest'[l]
  <2>1. inFlightRequestLinkCountdowns[l] # 0 /\ ~ RequestArrives(l)
    BY <1>5, <1>9 DEF OneLess, RequestArrives
  <2>2. QED
    BY <1>5, <2>1 DEF LinksInv
<1>10. QED
  BY <1>2, <1>6, <1>7, <1>8, <1>9 DEF LinksInv, RoomIsKept, NothingRefused

\* A request that enters the SerDes buffer has been shown the room.
LEMMA LinksSend ==
    ASSUME LinksInv, PortsInv, NEW i \in DOMAIN inputBuffer[priorityPort], SendRequest(i)
    PROVE  LinksInv'
<1> DEFINE t == inputBuffer[priorityPort][i]
<1>1. t \in CPURequest
  BY ElementOfSeq, LenProperties DEF PortsInv
<1>2. /\ serDesBufferRequest' = [serDesBufferRequest EXCEPT ![LinkOf(t.mappedChannel)] = t]
      /\ serDesBufferRequest[LinkOf(t.mappedChannel)] = NULL
      /\ WaitingACTS(channels[t.mappedChannel]) < CHANNEL_WORK_Q_MAX
      /\ UNCHANGED <<channels, refused, inFlightRequestLink, inFlightRequestLinkCountdowns>>
  BY DEF SendRequest, SendsAt, Sendable
<1> HIDE DEF t
<1>3. serDesBufferRequest' \in [Links -> Maybe(CPURequest)]
  BY <1>1, <1>2 DEF LinksInv, Maybe
<1>4. RoomIsKept'
  <2>1. ASSUME NEW l \in Links, serDesBufferRequest'[l] # NULL
        PROVE  LET c == serDesBufferRequest'[l].mappedChannel
               IN LinkOf(c) = l /\ WaitingACTS(channels'[c]) < CHANNEL_WORK_Q_MAX
    <3>1. CASE l = LinkOf(t.mappedChannel)
      BY <1>2, <3>1 DEF LinksInv
    <3>2. CASE l # LinkOf(t.mappedChannel)
      BY <1>2, <2>1, <3>2 DEF LinksInv, RoomIsKept
    <3>3. QED
      BY <3>1, <3>2
  <2>2. QED
    BY <2>1 DEF RoomIsKept
<1>5. \A l \in Links : inFlightRequestLinkCountdowns'[l] # 0 =>
          /\ serDesBufferRequest'[l] # NULL
          /\ inFlightRequestLink'[l] = serDesBufferRequest'[l]
  BY <1>2 DEF LinksInv
<1>6. QED
  BY <1>2, <1>3, <1>4, <1>5 DEF LinksInv, NothingRefused

LEMMA LinksChannel ==
    ASSUME LinksInv, ChannelStep
    PROVE  LinksInv'
<1>1. PICK y \in AfterUpdate(channels[turn]) : UpdateChannel(y)
  BY DEF ChannelStep
<1>2. /\ channels' = [channels EXCEPT ![turn] = y]
      /\ UNCHANGED <<requestLinkVars, refused>>
  BY <1>1 DEF UpdateChannel
<1>3. ASSUME NEW c \in Channels
      PROVE  channels'[c] \in SilentChannel
             /\ WaitingACTS(channels'[c]) <= WaitingACTS(channels[c])
             /\ WaitingACTS(channels'[c]) \in Nat /\ WaitingACTS(channels[c]) \in Nat
  <2>1. channels[c] \in SilentChannel
    BY DEF LinksInv
  <2>2. channels'[c] \in SilentChannel
    BY <1>2, <2>1, SilentUpdate DEF LinksInv
  <2>3. WaitingACTS(channels'[c]) \in Nat /\ WaitingACTS(channels[c]) \in Nat
    BY <2>1, <2>2, FS_CardinalityType DEF WaitingACTS, SilentChannel
  <2>4. CASE c = turn
    BY <1>2, <2>1, <2>2, <2>3, <2>4, SilentUpdate DEF LinksInv
  <2>5. CASE c # turn
    BY <1>2, <2>3, <2>5 DEF LinksInv
  <2>6. QED
    BY <2>2, <2>3, <2>4, <2>5
<1>4. channels' \in [Channels -> SilentChannel]
  BY <1>2, <1>3 DEF LinksInv
<1>5. RoomIsKept'
  <2>1. ASSUME NEW l \in Links, serDesBufferRequest[l] # NULL
        PROVE  LET c == serDesBufferRequest[l].mappedChannel
               IN LinkOf(c) = l /\ WaitingACTS(channels'[c]) < CHANNEL_WORK_Q_MAX
    <3>1. serDesBufferRequest[l].mappedChannel \in Channels
      BY <2>1 DEF LinksInv, Maybe, CPURequest, Request
    <3>2. QED
      BY <1>3, <2>1, <3>1, ChannelAssumption DEF LinksInv, RoomIsKept
  <2>2. QED
    BY <1>2, <2>1 DEF RoomIsKept, requestLinkVars
<1>6. QED
  BY <1>2, <1>4, <1>5 DEF LinksInv, requestLinkVars, NothingRefused

LEMMA LinksNext ==
    ASSUME "LOGIC_OPERATION" \notin RequestTypes, PortsInv, LinksInv, [Next]_vars
    PROVE  LinksInv'
<1>1. CASE UNCHANGED <<channels, refused, requestLinkVars>>
  BY <1>1 DEF LinksInv, RoomIsKept, NothingRefused, requestLinkVars
<1>2. CASE CPUStep
  <2>1. PICK p, id, type, c : PutOnPort(p, id, type, c)
    BY <1>2 DEF CPUStep, AddTransaction, AddRequest
  <2>2. UNCHANGED bobVars
    BY <2>1 DEF PutOnPort
  <2>3. QED
    BY <1>1, <2>2 DEF bobVars
<1>3. CASE WrapperUpdate
  BY <1>1, <1>3 DEF WrapperUpdate
<1>4. CASE AdvanceBuses
  BY <1>4, LinksAdvance
<1>5. CASE MoveSerDes
  <2>1. /\ UNCHANGED <<channels, refused, serDesBufferRequest>>
        /\ inFlightRequestLink' =
              [l \in Links |-> IF StartsRequest(l) THEN serDesBufferRequest[l]
                                                   ELSE inFlightRequestLink[l]]
        /\ inFlightRequestLinkCountdowns' =
              [l \in Links |-> IF StartsRequest(l) THEN RequestCycles(serDesBufferRequest[l])
                                                   ELSE inFlightRequestLinkCountdowns[l]]
    BY <1>5 DEF MoveSerDes
  <2>2. QED
    BY <2>1 DEF LinksInv, RoomIsKept, NothingRefused, StartsRequest
<1>6. ASSUME NEW i \in DOMAIN inputBuffer[priorityPort], SendRequest(i)
      PROVE  LinksInv'
  BY <1>6, LinksSend
<1>7. CASE SendNothing
  BY <1>1, <1>7 DEF SendNothing
<1>8. CASE StartResponses
  <2>1. ASSUME NEW c \in Channels
        PROVE  ~ HasLogicResponse(c)
    BY DEF HasLogicResponse, LinksInv, SilentChannel
  <2>2. channels' = [c \in Channels |-> IF c \in Responders /\ HasLogicResponse(c)
                                        THEN [channels[c] EXCEPT !.pendingLogicResponse = NULL]
                                        ELSE channels[c]]
    BY <1>8 DEF StartResponses
  <2>3. channels' = channels
    BY <2>1, <2>2 DEF LinksInv
  <2>4. QED
    BY <1>1, <1>8, <2>3 DEF StartResponses
<1>9. CASE ChannelStep
  BY <1>9, LinksChannel
<1>10. CASE UNCHANGED vars
  BY <1>1, <1>10 DEF vars, bobVars
<1>11. QED
  BY <1>2, <1>3, <1>4, <1>5, <1>6, <1>7, <1>8, <1>9, <1>10 DEF Next, BOBUpdate

\* No channel ever refuses a request that has crossed its link, whatever the number of
\* ports, links and channels, as long as no logic operation is requested (BOB.cpp:506
\* and the ignored answer at :326; with logic operations bob_refused shows the contrary).
THEOREM NothingRefusedWithoutLogic ==
    ASSUME "LOGIC_OPERATION" \notin RequestTypes
    PROVE  Spec => []NothingRefused
<1>1. LinksInv /\ PortsInv /\ [Next]_vars => LinksInv' /\ PortsInv'
  BY LinksNext, PortsNext
<1>2. LinksInv => NothingRefused
  BY DEF LinksInv
<1>3. QED
  BY PortsInit, LinksInit, <1>1, <1>2, PTL DEF Spec

-----------------------------------------------------------------------------
(* The sizes of packets                                                    *)

LEMMA CeilDivPositive ==
    ASSUME NEW m \in Nat \ {0}, NEW n \in Nat \ {0}
    PROVE  CeilDiv(m, n) \in Nat \ {0}
<1>1. m = n * (m \div n) + (m % n) /\ m \div n \in Nat /\ m % n \in Nat
  OBVIOUS
<1>2. CASE m % n = 0
  <2>1. m \div n # 0
    BY <1>1, <1>2
  <2>2. QED
    BY <1>1, <1>2, <2>1 DEF CeilDiv
<1>3. CASE m % n # 0
  BY <1>1, <1>3 DEF CeilDiv
<1>4. QED
  BY <1>2, <1>3

LEMMA LinkCyclesPositive ==
    ASSUME NEW bytes \in Nat \ {0}, NEW width \in Nat \ {0}
    PROVE  LinkCycles(bytes, width) \in Nat \ {0}
<1> DEFINE cycles == CeilDiv(bytes * 8, width)
<1>1. cycles \in Nat \ {0}
  <2>1. bytes * 8 \in Nat \ {0}
    OBVIOUS
  <2>2. QED
    BY <2>1, CeilDivPositive
<1>2. CeilDiv(cycles, 2) \in Nat \ {0}
  BY <1>1, CeilDivPositive
<1>3. (IF LINK_BUS_USE_DDR THEN CeilDiv(cycles, 2) ELSE cycles) \in Nat \ {0}
  BY <1>1, <1>2
<1>4. LINK_CPU_CLK_RATIO \in Nat \ {0}
  BY BOBAssumption
<1> HIDE DEF cycles
<1>5. CeilDiv(IF LINK_BUS_USE_DDR THEN CeilDiv(cycles, 2) ELSE cycles, LINK_CPU_CLK_RATIO)
         \in Nat \ {0}
  BY <1>3, <1>4, CeilDivPositive
<1>6. QED
  BY <1>5 DEF LinkCycles, cycles

LEMMA PacketSizes ==
    /\ REQUEST_LINK_BUS_WIDTH \in Nat \ {0} /\ RESPONSE_LINK_BUS_WIDTH \in Nat \ {0}
    /\ RD_REQUEST_PACKET_OVERHEAD \in Nat \ {0} /\ RD_RESPONSE_PACKET_OVERHEAD \in Nat \ {0}
    /\ WR_REQUEST_PACKET_OVERHEAD \in Nat \ {0} /\ LOGIC_RESPONSE_PACKET_OVERHEAD \in Nat \ {0}
  BY BOBAssumption

\* A packet occupies its link, and a response its port, for at least a cycle.
LEMMA PacketsOccupyWires ==
    ASSUME NEW t
    PROVE  /\ RequestCycles(t) \in Nat \ {0} /\ ResponseCycles(t) \in Nat \ {0}
           /\ ResponsePortCycles(t) \in Nat \ {0}
<1>1. RequestCycles(t) \in Nat \ {0}
  <2> DEFINE bytes == CASE t.transactionType = "DATA_READ" -> RD_REQUEST_PACKET_OVERHEAD
                        [] t.transactionType = "DATA_WRITE" ->
                               WR_REQUEST_PACKET_OVERHEAD + TRANSACTION_SIZE
                        [] OTHER -> TRANSACTION_SIZE
  <2>1. bytes \in Nat \ {0}
    BY PacketSizes, SizeTypes
  <2> HIDE DEF bytes
  <2>2. LinkCycles(bytes, REQUEST_LINK_BUS_WIDTH) \in Nat \ {0}
    BY <2>1, PacketSizes, LinkCyclesPositive
  <2>3. QED
    BY <2>2 DEF RequestCycles, bytes
<1>2. ResponseCycles(t) \in Nat \ {0}
  <2> DEFINE bytes == IF t.transactionType = "LOGIC_RESPONSE" THEN LOGIC_RESPONSE_PACKET_OVERHEAD
                      ELSE RD_RESPONSE_PACKET_OVERHEAD + TRANSACTION_SIZE
  <2>1. bytes \in Nat \ {0}
    BY PacketSizes, SizeTypes
  <2> HIDE DEF bytes
  <2>2. LinkCycles(bytes, RESPONSE_LINK_BUS_WIDTH) \in Nat \ {0}
    BY <2>1, PacketSizes, LinkCyclesPositive
  <2>3. QED
    BY <2>2 DEF ResponseCycles, bytes
<1>3. ResponsePortCycles(t) \in Nat \ {0}
  <2>1. TRANSACTION_SIZE \div PORT_WIDTH \in Nat \ {0}
    BY SizeTypes
  <2>2. QED
    BY <2>1 DEF ResponsePortCycles
<1>4. QED
  BY <1>1, <1>2, <1>3

\* A channel that is the r-th of link l is one of the channels, and its link is l.
LEMMA ChannelOfLink ==
    ASSUME NEW l \in Links, NEW r \in 0 .. CHANNELS_PER_LINK_BUS - 1
    PROVE  /\ l * CHANNELS_PER_LINK_BUS + r \in Channels
           /\ LinkOf(l * CHANNELS_PER_LINK_BUS + r) = l
<1> DEFINE K == CHANNELS_PER_LINK_BUS
           N == NUM_LINK_BUSES
           c == l * K + r
<1>1. K \in Nat \ {0} /\ N \in Nat \ {0} /\ l \in 0 .. N - 1 /\ r \in 0 .. K - 1
  BY SizeTypes DEF Links
<1> HIDE DEF K, N
<1>2. l * K \in Nat /\ (N - 1) * K \in Nat /\ N * K \in Nat /\ N * K = (N - 1) * K + K
  BY <1>1
<1>3. l * K <= (N - 1) * K
  BY <1>1
<1>4. c \in 0 .. N * K - 1
  BY <1>1, <1>2, <1>3
<1>5. c \div K = l
  BY <1>1, <1>2
<1>6. QED
  BY <1>4, <1>5 DEF Channels, LinkOf, K, N

LEMMA LinkOfType ==
    ASSUME NEW c \in Channels
    PROVE  LinkOf(c) \in Links
<1> DEFINE K == CHANNELS_PER_LINK_BUS
           N == NUM_LINK_BUSES
<1>1. K \in Nat \ {0} /\ N \in Nat \ {0} /\ c \in Nat /\ c < N * K
  BY SizeTypes DEF Channels
<1> HIDE DEF K, N
<1>2. c \div K \in Nat
  BY <1>1
<1>3. c = K * (c \div K) + (c % K) /\ c % K \in Nat
  BY <1>1
<1>4. ~ (c \div K >= N)
  <2>1. SUFFICES ASSUME c \div K >= N PROVE FALSE
    OBVIOUS
  <2>2. K * (c \div K) >= K * N
    BY <1>1, <1>2, <2>1
  <2>3. QED
    BY <1>1, <1>2, <1>3, <2>2
<1>5. QED
  BY <1>1, <1>2, <1>4 DEF LinkOf, Links, K, N

-----------------------------------------------------------------------------
(* The wires: countdowns, what is under way on them, and the types         *)

ControlOK ==
    /\ pc \in {"cpu", "serdes", "inputs", "returns", "channels", "wrapper"}
    /\ turn \in Nat
    /\ pc = "inputs" => turn \in Ports
    /\ pc = "channels" => turn \in Channels
    /\ error \in {"none", "empty return queue"}
    /\ refused \in SUBSET TransactionIDs /\ accepted \in SUBSET TransactionIDs
    /\ portRoundRobin \in Ports

\* The output buffer holds the response that is being transferred.
OneOut(p) ==
    /\ Len(outputBuffer[p]) <= 1
    /\ inFlightResponseCounter[p] = 0 <=> outputBuffer[p] = << >>
    /\ inFlightResponseCounter[p] = 0 <=> inFlightResponse[p] = NULL
    /\ outputBuffer[p] # << >> => inFlightResponse[p] = outputBuffer[p][1]

\* It also holds the next one, which BOB has just put behind it.
NextOut(p) ==
    LET out == outputBuffer[p]
    IN \/ /\ inFlightResponseCounter[p] = 0 /\ inFlightResponse[p] = NULL
          /\ Len(out) = 1 /\ outputBusyCountdown[p] = ResponsePortCycles(out[1])
       \/ /\ inFlightResponseCounter[p] = 1 /\ inFlightResponse[p] = out[1]
          /\ Len(out) = 2 /\ outputBusyCountdown[p] = ResponsePortCycles(out[2])

\* BOB counts a cycle down before the wrapper does, and takes the next response in
\* between: in step when the CPU's turn comes, one cycle apart until the wrapper's.
PortInStep(p) ==
    /\ \A i \in DOMAIN outputBuffer[p] : outputBuffer[p][i].portID = p
    /\ pc = "cpu" => OneOut(p) /\ outputBusyCountdown[p] = inFlightResponseCounter[p]
    /\ pc = "serdes" =>
          OneOut(p) /\ outputBusyCountdown[p] = OneLess(inFlightResponseCounter[p])
    /\ pc \notin {"cpu", "serdes"} =>
          \/ OneOut(p) /\ outputBusyCountdown[p] = OneLess(inFlightResponseCounter[p])
          \/ NextOut(p)

PortsOK ==
    /\ inputBusyCountdown \in [Ports -> Nat]
    /\ outputBuffer \in [Ports -> Seq(Request)]
    /\ outputBusyCountdown \in [Ports -> Nat]
    /\ priorityLinkBus \in [Ports -> Links]
    /\ inFlightResponse \in [Ports -> Maybe(Request)]
    /\ inFlightResponseCounter \in [Ports -> Nat]
    /\ \A p \in Ports : PortInStep(p)

\* A link carries something exactly while its countdown runs; what crosses the request
\* link stays in the SerDes buffer, which for responses is kept free meanwhile.
LinkInStep(l) ==
    /\ inFlightRequestLinkCountdowns[l] = 0 <=> inFlightRequestLink[l] = NULL
    /\ inFlightRequestLink[l] # NULL => serDesBufferRequest[l] = inFlightRequestLink[l]
    /\ inFlightResponseLinkCountdowns[l] = 0 <=> inFlightResponseLink[l] = NULL
    /\ inFlightResponseLink[l] # NULL => serDesBufferResponse[l] = NULL

LinksOK ==
    /\ serDesBufferRequest \in [Links -> Maybe(Request)]
    /\ serDesBufferResponse \in [Links -> Maybe(Request)]
    /\ inFlightRequestLink \in [Links -> Maybe(Request)]
    /\ inFlightRequestLinkCountdowns \in [Links -> Nat]
    /\ inFlightResponseLink \in [Links -> Maybe(Request)]
    /\ inFlightResponseLinkCountdowns \in [Links -> Nat]
    /\ \A l \in Links : LinkInStep(l)

ChannelState ==
    [work : SUBSET Request, logicWrites : Nat, issued : Seq(Request),
     readReturnQueue : Seq(Request), logicOps : Seq(Request), logicLeft : Nat,
     pendingLogicResponse : Maybe(Request)]

ChannelsOK ==
    /\ responseLinkRoundRobin \in [Links -> 0 .. CHANNELS_PER_LINK_BUS - 1]
    /\ pendingReads \in SUBSET Request
    /\ channels \in [Channels -> ChannelState]

WiresInv == ControlOK /\ PortsOK /\ LinksOK /\ ChannelsOK

LEMMA WiresTypeOK == PortsInv /\ WiresInv => TypeOK
<1> SUFFICES ASSUME PortsInv, WiresInv PROVE TypeOK
  OBVIOUS
<1>1. CPURequest \subseteq Request
  BY DEF CPURequest
<1>2. Seq(CPURequest) \subseteq Seq(Request)
  BY <1>1, SeqDef
<1>3. /\ inputBuffer \in [Ports -> Seq(Request)]
      /\ inFlightRequest \in [Ports -> Maybe(Request)]
      /\ inFlightRequestHeaderCounter \in [Ports -> Nat]
      /\ inFlightRequestCounter \in [Ports -> Nat]
      /\ priorityPort \in Ports
  <2>1. inputBuffer \in [Ports -> Seq(CPURequest)]
    BY DEF PortsInv
  <2>2. inputBuffer \in [Ports -> Seq(Request)]
    BY <1>2, <2>1
  <2>3. inFlightRequest \in [Ports -> Maybe(Request)]
    BY <1>1 DEF PortsInv, Maybe
  <2>4. /\ inFlightRequestHeaderCounter \in [Ports -> {0, 1}]
        /\ inFlightRequestCounter \in [Ports -> Nat] /\ priorityPort \in Ports
    BY DEF PortsInv
  <2>5. {0, 1} \subseteq Nat
    OBVIOUS
  <2>6. inFlightRequestHeaderCounter \in [Ports -> Nat]
    BY <2>4, <2>5
  <2>7. QED
    BY <2>2, <2>3, <2>4, <2>6
<1>4. ControlOK /\ PortsOK /\ LinksOK /\ ChannelsOK
  BY DEF WiresInv
<1>5. error \in BOBErrors
  BY <1>4 DEF ControlOK, BOBErrors
<1>6. QED
  BY <1>3, <1>4, <1>5 DEF TypeOK, ControlOK, PortsOK, LinksOK, ChannelsOK, ChannelState

LEMMA WiresInit == Init => WiresInv
<1> SUFFICES ASSUME Init PROVE WiresInv
  OBVIOUS
<1>1. 0 \in Ports /\ 0 \in Links /\ 0 \in 0 .. CHANNELS_PER_LINK_BUS - 1
  BY SizeTypes DEF Ports, Links
<1>2. << >> \in Seq(Request) /\ Len(<< >>) = 0 /\ DOMAIN << >> = {}
  BY EmptySeq
<1>3. ControlOK
  BY <1>1 DEF Init, BOBInit, ControlOK
<1>4. PortsOK
  <2>1. ASSUME NEW p \in Ports
        PROVE  PortInStep(p)
    <3>1. /\ outputBuffer[p] = << >> /\ outputBusyCountdown[p] = 0
          /\ inFlightResponseCounter[p] = 0 /\ inFlightResponse[p] = NULL /\ pc = "cpu"
      BY DEF Init, BOBInit
    <3>2. QED
      BY <1>2, <3>1 DEF PortInStep, OneOut
  <2>2. QED
    BY <1>1, <1>2, <2>1 DEF Init, BOBInit, PortsOK, Maybe
<1>5. LinksOK
  BY DEF Init, BOBInit, LinksOK, LinkInStep, Maybe
<1>6. NewChannel \in ChannelState
  BY <1>2, ChannelAssumption DEF NewChannel, ChannelState, Maybe
<1>7. ChannelsOK
  BY <1>1, <1>6 DEF Init, BOBInit, ChannelsOK
<1>8. QED
  BY <1>3, <1>4, <1>5, <1>7 DEF WiresInv

LEMMA UpdateType ==
    ASSUME NEW x \in ChannelState, NEW y \in AfterUpdate(x)
    PROVE  y \in ChannelState
<1>1. ASSUME NEW w \in ChannelState, NEW z \in Returns(w)
      PROVE  z \in ChannelState
  <2>1. w.issued \in Seq(Request) /\ w.issued # << >>
    BY <1>1 DEF Returns, ChannelState
  <2>2. z = [w EXCEPT !.issued = Tail(w.issued),
                      !.readReturnQueue = Append(w.readReturnQueue, Head(w.issued))]
    BY <1>1, <2>1 DEF Returns
  <2>3. Tail(w.issued) \in Seq(Request) /\ Head(w.issued) \in Request
    BY <2>1, HeadTailProperties
  <2>4. Append(w.readReturnQueue, Head(w.issued)) \in Seq(Request)
    BY <2>3, AppendProperties DEF ChannelState
  <2>5. QED
    BY <2>2, <2>3, <2>4 DEF ChannelState
<1>2. ASSUME NEW w \in ChannelState, NEW z \in LogicWrites(w)
      PROVE  z \in ChannelState
  <2>1. w.logicLeft > 0
    BY <1>2 DEF LogicWrites
  <2> DEFINE more == w.logicWrites + 1
             fewer == w.logicLeft - 1
  <2>2. more \in Nat /\ fewer \in Nat
    BY <2>1 DEF ChannelState
  <2>3. z = [w EXCEPT !.logicWrites = more, !.logicLeft = fewer]
    BY <1>2 DEF LogicWrites
  <2> HIDE DEF more, fewer
  <2>4. QED
    BY <2>2, <2>3 DEF ChannelState
<1>3. ASSUME NEW w \in ChannelState, NEW z \in LogicResponds(w)
      PROVE  z \in ChannelState
  <2> DEFINE r == [Head(w.logicOps) EXCEPT !.transactionType = "LOGIC_RESPONSE"]
  <2>1. w.logicOps \in Seq(Request) /\ w.logicOps # << >>
    BY <1>3 DEF LogicResponds, ChannelState
  <2>2. z = [w EXCEPT !.logicOps = Tail(w.logicOps), !.logicLeft = PageCount,
                      !.pendingLogicResponse = r]
    BY <1>3, <2>1 DEF LogicResponds
  <2>3. Tail(w.logicOps) \in Seq(Request) /\ Head(w.logicOps) \in Request
    BY <2>1, HeadTailProperties
  <2>4. r \in Request
    BY <2>3 DEF Request
  <2> HIDE DEF r
  <2>5. QED
    BY <2>2, <2>3, <2>4, ChannelAssumption DEF ChannelState, Maybe
<1>4. ASSUME NEW w \in ChannelState, NEW z \in Sends(w)
      PROVE  z \in ChannelState
  <2>1. CASE \E t \in w.work :
               z = [w EXCEPT !.work = w.work \ {t},
                             !.issued = IF t.transactionType = "DATA_READ"
                                        THEN Append(w.issued, t) ELSE w.issued]
    <3>1. PICK t \in w.work :
               z = [w EXCEPT !.work = w.work \ {t},
                             !.issued = IF t.transactionType = "DATA_READ"
                                        THEN Append(w.issued, t) ELSE w.issued]
      BY <2>1
    <3>2. t \in Request /\ w.issued \in Seq(Request)
      BY DEF ChannelState
    <3>3. Append(w.issued, t) \in Seq(Request)
      BY <3>2, AppendProperties
    <3>4. QED
      BY <3>1, <3>2, <3>3 DEF ChannelState
  <2>2. CASE w.logicWrites # 0 /\ z = [w EXCEPT !.logicWrites = w.logicWrites - 1]
    <3> DEFINE fewer == w.logicWrites - 1
    <3>1. fewer \in Nat
      BY <2>2 DEF ChannelState
    <3>2. z = [w EXCEPT !.logicWrites = fewer]
      BY <2>2
    <3> HIDE DEF fewer
    <3>3. QED
      BY <3>1, <3>2 DEF ChannelState
  <2>3. QED
    BY <1>4, <2>1, <2>2 DEF Sends
<1> DEFINE returned == {x} \union Returns(x)
           logic == returned \union UNION {LogicWrites(z) \union LogicResponds(z) : z \in returned}
<1>5. returned \subseteq ChannelState
  BY <1>1
<1>6. logic \subseteq ChannelState
  BY <1>2, <1>3, <1>5
<1>7. y \in logic \union UNION {Sends(z) : z \in logic}
  BY DEF AfterUpdate
<1> HIDE DEF logic
<1>8. QED
  BY <1>4, <1>6, <1>7

LEMMA AcceptType ==
    ASSUME NEW x \in ChannelState, NEW t \in Request
    PROVE  Accept(x, t) \in ChannelState
<1>1. Append(x.logicOps, t) \in Seq(Request)
  BY AppendProperties DEF ChannelState
<1>2. CASE t.transactionType = "LOGIC_OPERATION"
  BY <1>1, <1>2 DEF Accept, ChannelState
<1>3. CASE t.transactionType # "LOGIC_OPERATION"
  BY <1>3 DEF Accept, ChannelState
<1>4. QED
  BY <1>2, <1>3

\* What arrives is there, and the SerDes buffer a response arrives in is free.
LEMMA Arrivals ==
    ASSUME LinksOK, NEW l \in Links
    PROVE  /\ RequestArrives(l) => inFlightRequestLink[l] \in Request
           /\ RequestArrives(l) => serDesBufferRequest[l] = inFlightRequestLink[l]
           /\ ResponseArrives(l) => inFlightResponseLink[l] \in Request
           /\ ResponseArrives(l) => serDesBufferResponse[l] = NULL
<1>1. LinkInStep(l)
  BY DEF LinksOK
<1>2. /\ RequestArrives(l) => inFlightRequestLink[l] # NULL
      /\ ResponseArrives(l) => inFlightResponseLink[l] # NULL
  BY <1>1 DEF LinkInStep, RequestArrives, ResponseArrives
<1>3. QED
  BY <1>1, <1>2 DEF LinksOK, LinkInStep, Maybe

LEMMA WiresAdvance ==
    ASSUME WiresInv, AdvanceBuses, UNCHANGED <<cpuVars, accepted>>
    PROVE  WiresInv'
<1>1. ControlOK /\ PortsOK /\ LinksOK /\ ChannelsOK
  BY DEF WiresInv
<1>2. ASSUME NEW c \in Channels
      PROVE  AfterRequest(c) \in ChannelState
  <2>1. channels[c] \in ChannelState
    BY <1>1 DEF ChannelsOK
  <2>2. CASE \E l \in Delivered(c) : Accepts(channels[c], inFlightRequestLink[l])
    <3> DEFINE l == CHOOSE k \in Delivered(c) : TRUE
    <3>1. l \in Delivered(c)
      BY <2>2
    <3>2. inFlightRequestLink[l] \in Request
      BY <1>1, <3>1, Arrivals DEF Delivered
    <3>3. AfterRequest(c) = Accept(channels[c], inFlightRequestLink[l])
      BY <2>2 DEF AfterRequest
    <3> HIDE DEF l
    <3>4. QED
      BY <2>1, <3>2, <3>3, AcceptType
  <2>3. QED
    BY <2>1, <2>2 DEF AfterRequest
<1>3. ASSUME NEW c \in Channels, ~ \E l \in Links : RemovesNothing(l)
      PROVE  AfterResponse(c) \in ChannelState
  <2>1. CASE \E l \in Links : ResponseArrives(l) /\ inFlightResponseLink[l].mappedChannel = c
    <3>1. channels[c].readReturnQueue # << >>
      BY <1>3, <2>1 DEF RemovesNothing
    <3>2. AfterRequest(c).readReturnQueue = channels[c].readReturnQueue
      <4>1. channels[c] \in ChannelState
        BY <1>1 DEF ChannelsOK
      <4>2. QED
        BY <4>1 DEF AfterRequest, Accept, ChannelState
    <3>3. Tail(AfterRequest(c).readReturnQueue) \in Seq(Request)
      BY <1>2, <3>1, <3>2, HeadTailProperties DEF ChannelState
    <3>4. AfterResponse(c) = [AfterRequest(c) EXCEPT
                                 !.readReturnQueue = Tail(AfterRequest(c).readReturnQueue)]
      BY <2>1 DEF AfterResponse, WithoutReturn
    <3>5. QED
      BY <1>2, <3>3, <3>4 DEF ChannelState
  <2>2. QED
    BY <1>2, <2>1 DEF AfterResponse
<1>4. /\ pc = "cpu" /\ pc' = "serdes" /\ turn' = turn /\ error = "none"
      /\ inputBusyCountdown' = [p \in Ports |-> OneLess(inputBusyCountdown[p])]
      /\ outputBusyCountdown' = [p \in Ports |-> OneLess(outputBusyCountdown[p])]
      /\ inFlightRequestLinkCountdowns' =
            [l \in Links |-> OneLess(inFlightRequestLinkCountdowns[l])]
      /\ inFlightRequestLink' =
            [l \in Links |-> IF RequestArrives(l) THEN NULL ELSE inFlightRequestLink[l]]
      /\ serDesBufferRequest' =
            [l \in Links |-> IF RequestArrives(l) THEN NULL ELSE serDesBufferRequest[l]]
      /\ inFlightResponseLinkCountdowns' =
            [l \in Links |-> OneLess(inFlightResponseLinkCountdowns[l])]
      /\ inFlightResponseLink' =
            [l \in Links |-> IF ResponseArrives(l) THEN NULL ELSE inFlightResponseLink[l]]
      /\ serDesBufferResponse' =
            [l \in Links |-> IF ResponseArrives(l) THEN inFlightResponseLink[l]
                                                   ELSE serDesBufferResponse[l]]
      /\ UNCHANGED <<outputBuffer, priorityLinkBus, responseLinkRoundRobin, pendingReads,
                     portRoundRobin, inFlightResponse, inFlightResponseCounter, accepted>>
  BY DEF AdvanceBuses, cpuVars
<1>5. /\ error' \in {"none", "empty return queue"}
      /\ \/ channels' = channels
         \/ /\ ~ \E l \in Links : RemovesNothing(l)
            /\ channels' = [c \in Channels |-> AfterResponse(c)]
  <2>1. ~ \E l \in Links : ResponseArrives(l) /\ serDesBufferResponse[l] # NULL
    BY <1>1, Arrivals
  <2>2. QED
    BY <1>4, <2>1 DEF AdvanceBuses
<1>6. ControlOK'
  <2>1. refused' \in SUBSET TransactionIDs
    <3>1. refused' = refused \union
              {inFlightRequestLink[l].transactionID : l \in {k \in Links :
                  /\ RequestArrives(k)
                  /\ ~ Accepts(channels[inFlightRequestLink[k].mappedChannel],
                               inFlightRequestLink[k])}}
      BY DEF AdvanceBuses
    <3>2. ASSUME NEW l \in Links, RequestArrives(l)
          PROVE  inFlightRequestLink[l].transactionID \in TransactionIDs
      BY <1>1, <3>2, Arrivals DEF Request
    <3>3. QED
      BY <1>1, <3>1, <3>2 DEF ControlOK
  <2>2. QED
    BY <1>1, <1>4, <1>5, <2>1 DEF ControlOK
<1>7. PortsOK'
  <2>1. ASSUME NEW p \in Ports
        PROVE  PortInStep(p)'
    <3>1. PortInStep(p) /\ outputBusyCountdown'[p] = OneLess(outputBusyCountdown[p])
      BY <1>1, <1>4 DEF PortsOK
    <3>2. QED
      BY <1>4, <3>1 DEF PortInStep, OneOut
  <2>2. QED
    BY <1>1, <1>4, <2>1 DEF PortsOK, OneLess
<1>8. LinksOK'
  <2>1. ASSUME NEW l \in Links
        PROVE  LinkInStep(l)'
    <3>1. /\ LinkInStep(l)
          /\ inFlightRequestLinkCountdowns[l] \in Nat
          /\ inFlightResponseLinkCountdowns[l] \in Nat
      BY <1>1 DEF LinksOK
    <3>2. /\ inFlightRequestLinkCountdowns'[l] = OneLess(inFlightRequestLinkCountdowns[l])
          /\ inFlightResponseLinkCountdowns'[l] = OneLess(inFlightResponseLinkCountdowns[l])
          /\ inFlightRequestLink'[l] =
                IF RequestArrives(l) THEN NULL ELSE inFlightRequestLink[l]
          /\ serDesBufferRequest'[l] =
                IF RequestArrives(l) THEN NULL ELSE serDesBufferRequest[l]
          /\ inFlightResponseLink'[l] =
                IF ResponseArrives(l) THEN NULL ELSE inFlightResponseLink[l]
          /\ serDesBufferResponse'[l] =
                IF ResponseArrives(l) THEN inFlightResponseLink[l] ELSE serDesBufferResponse[l]
      BY <1>4
    <3>3. QED
      BY <3>1, <3>2 DEF LinkInStep, RequestArrives, ResponseArrives, OneLess
  <2>2. QED
    BY <1>1, <1>4, <2>1 DEF LinksOK, OneLess, Maybe
<1>9. ChannelsOK'
  BY <1>1, <1>3, <1>4, <1>5 DEF ChannelsOK
<1>10. QED
  BY <1>6, <1>7, <1>8, <1>9 DEF WiresInv

\* A port takes a response only when it has delivered the last one, or does so in this
\* cycle.
LEMMA WiresMove ==
    ASSUME WiresInv, MoveSerDes, UNCHANGED <<cpuVars, accepted>>
    PROVE  WiresInv'
<1>1. ControlOK /\ PortsOK /\ LinksOK /\ ChannelsOK
  BY DEF WiresInv
<1>2. /\ pc = "serdes" /\ pc' = "inputs" /\ turn' = 0
      /\ error' = IF \E l \in Links : StartsRequest(l) /\ inFlightRequestLink[l] # NULL
                  THEN "request link busy"
                  ELSE IF \E l \in Links : /\ StartsRequest(l)
                                           /\ RequestCycles(serDesBufferRequest[l]) = 0
                  THEN "countdown is 0" ELSE "none"
      /\ inFlightRequestLink' =
            [l \in Links |-> IF StartsRequest(l) THEN serDesBufferRequest[l]
                                                 ELSE inFlightRequestLink[l]]
      /\ inFlightRequestLinkCountdowns' =
            [l \in Links |-> IF StartsRequest(l) THEN RequestCycles(serDesBufferRequest[l])
                                                 ELSE inFlightRequestLinkCountdowns[l]]
      /\ outputBuffer' =
            [p \in Ports |-> IF TakesResponse(p)
                             THEN Append(outputBuffer[p], serDesBufferResponse[priorityLinkBus[p]])
                             ELSE outputBuffer[p]]
      /\ outputBusyCountdown' =
            [p \in Ports |-> IF TakesResponse(p)
                             THEN ResponsePortCycles(serDesBufferResponse[priorityLinkBus[p]])
                             ELSE outputBusyCountdown[p]]
      /\ serDesBufferResponse' =
            [l \in Links |-> IF \E p \in Ports : TakesResponse(p) /\ priorityLinkBus[p] = l
                             THEN NULL ELSE serDesBufferResponse[l]]
      /\ priorityLinkBus' =
            [p \in Ports |-> IF outputBusyCountdown[p] = 0
                             THEN (priorityLinkBus[p] + 1) % NUM_LINK_BUSES
                             ELSE priorityLinkBus[p]]
      /\ UNCHANGED <<inputBusyCountdown, serDesBufferRequest, inFlightResponseLink,
                     inFlightResponseLinkCountdowns, responseLinkRoundRobin, pendingReads,
                     channels, refused, accepted, portRoundRobin, inFlightResponse,
                     inFlightResponseCounter>>
  BY DEF MoveSerDes, cpuVars
<1>3. ControlOK'
  <2>1. ASSUME NEW l \in Links, StartsRequest(l)
        PROVE  inFlightRequestLink[l] = NULL
    BY <1>1, <2>1 DEF LinksOK, LinkInStep, StartsRequest
  <2>2. 0 \in Ports
    BY SizeTypes DEF Ports
  <2>3. \A l \in Links : RequestCycles(serDesBufferRequest[l]) # 0
    BY PacketsOccupyWires
  <2>4. error' = "none"
    BY <1>2, <2>1, <2>3
  <2>5. QED
    BY <1>1, <1>2, <2>2, <2>4 DEF ControlOK
<1>4. ASSUME NEW p \in Ports, TakesResponse(p)
      PROVE  /\ serDesBufferResponse[priorityLinkBus[p]] \in Request
             /\ serDesBufferResponse[priorityLinkBus[p]].portID = p
  BY <1>1, <1>4 DEF TakesResponse, PortsOK, LinksOK, Maybe
<1>5. ASSUME NEW p \in Ports
      PROVE  /\ outputBuffer'[p] \in Seq(Request) /\ outputBusyCountdown'[p] \in Nat
             /\ PortInStep(p)' /\ priorityLinkBus'[p] \in Links
  <2>1. /\ PortInStep(p) /\ outputBuffer[p] \in Seq(Request)
        /\ outputBusyCountdown[p] \in Nat /\ inFlightResponseCounter[p] \in Nat
        /\ OneOut(p) /\ outputBusyCountdown[p] = OneLess(inFlightResponseCounter[p])
        /\ \A i \in DOMAIN outputBuffer[p] : outputBuffer[p][i].portID = p
    BY <1>1, <1>2 DEF PortsOK, PortInStep
  <2>2. priorityLinkBus'[p] \in Links
    <3>1. priorityLinkBus[p] \in Links
      BY <1>1 DEF PortsOK
    <3>2. (priorityLinkBus[p] + 1) % NUM_LINK_BUSES \in Links
      BY <3>1, SizeTypes DEF Links
    <3>3. QED
      BY <1>2, <3>1, <3>2
  <2>3. CASE TakesResponse(p)
    <3> DEFINE t == serDesBufferResponse[priorityLinkBus[p]]
               out == outputBuffer[p]
    <3>1. t \in Request /\ t.portID = p
      BY <1>4, <2>3
    <3>2. /\ outputBuffer'[p] = Append(out, t)
          /\ outputBusyCountdown'[p] = ResponsePortCycles(t)
      BY <1>2, <2>3
    <3>3. ResponsePortCycles(t) \in Nat
      BY PacketsOccupyWires
    <3>4. inFlightResponseCounter[p] \in {0, 1}
      BY <2>1, <2>3 DEF TakesResponse, OneLess
    <3> HIDE DEF t
    <3>5. /\ Append(out, t) \in Seq(Request) /\ Len(Append(out, t)) = Len(out) + 1
          /\ Append(out, t)[Len(out) + 1] = t
          /\ \A i \in 1 .. Len(out) : Append(out, t)[i] = out[i]
          /\ Len(out) \in Nat /\ DOMAIN out = 1 .. Len(out)
          /\ DOMAIN Append(out, t) = 1 .. Len(out) + 1
      BY <2>1, <3>1, AppendProperties, LenProperties
    <3>6. \A i \in DOMAIN outputBuffer'[p] : outputBuffer'[p][i].portID = p
      BY <2>1, <3>1, <3>2, <3>5
    <3>7. out # << >> => Len(out) # 0
      BY <2>1, EmptySeq
    <3> DEFINE after == outputBuffer'[p]
    <3>8. /\ Len(after) = Len(out) + 1 /\ after[Len(out) + 1] = t
          /\ \A i \in 1 .. Len(out) : after[i] = out[i]
          /\ inFlightResponse'[p] = inFlightResponse[p]
          /\ inFlightResponseCounter'[p] = inFlightResponseCounter[p]
          /\ outputBusyCountdown'[p] = ResponsePortCycles(t)
      BY <1>2, <3>2, <3>5
    <3>9. NextOut(p)'
      <4>1. CASE inFlightResponseCounter[p] = 0
        <5>1. Len(out) = 0 /\ inFlightResponse[p] = NULL
          BY <2>1, <4>1, EmptySeq DEF OneOut
        <5> HIDE DEF out, after
        <5>2. /\ inFlightResponseCounter'[p] = 0 /\ inFlightResponse'[p] = NULL
              /\ Len(after) = 1 /\ outputBusyCountdown'[p] = ResponsePortCycles(after[1])
          BY <3>8, <4>1, <5>1
        <5>3. QED
          BY <5>2 DEF NextOut, after
      <4>2. CASE inFlightResponseCounter[p] = 1
        <5>1. out # << >> /\ Len(out) <= 1 /\ inFlightResponse[p] = out[1]
          BY <2>1, <4>2 DEF OneOut
        <5> HIDE DEF out, after
        <5>2. Len(out) = 1
          BY <3>5, <3>7, <5>1
        <5>3. /\ inFlightResponseCounter'[p] = 1 /\ inFlightResponse'[p] = after[1]
              /\ Len(after) = 2 /\ outputBusyCountdown'[p] = ResponsePortCycles(after[2])
          BY <3>8, <4>2, <5>1, <5>2
        <5>4. QED
          BY <5>3 DEF NextOut, after
      <4>3. QED
        BY <3>4, <4>1, <4>2
    <3>10. QED
      BY <1>2, <2>2, <3>2, <3>3, <3>5, <3>6, <3>9 DEF PortInStep
  <2>4. CASE ~ TakesResponse(p)
    <3>1. /\ outputBuffer'[p] = outputBuffer[p] /\ inFlightResponse' = inFlightResponse
          /\ outputBusyCountdown'[p] = outputBusyCountdown[p]
          /\ inFlightResponseCounter' = inFlightResponseCounter
      BY <1>2, <2>4
    <3>2. QED
      BY <1>2, <2>1, <2>2, <3>1 DEF PortInStep, OneOut
  <2>5. QED
    BY <2>3, <2>4
<1>6. PortsOK'
  <2>1. outputBuffer' \in [Ports -> Seq(Request)] /\ outputBusyCountdown' \in [Ports -> Nat]
    BY <1>2, <1>5
  <2>2. priorityLinkBus' \in [Ports -> Links]
    BY <1>2, <1>5
  <2>3. QED
    BY <1>1, <1>2, <1>5, <2>1, <2>2 DEF PortsOK
<1>7. LinksOK'
  <2>1. ASSUME NEW l \in Links
        PROVE  LinkInStep(l)'
    <3>1. LinkInStep(l) /\ RequestCycles(serDesBufferRequest[l]) \in Nat \ {0}
      BY <1>1, PacketsOccupyWires DEF LinksOK
    <3>2. /\ serDesBufferResponse'[l] \in {NULL, serDesBufferResponse[l]}
          /\ inFlightRequestLink'[l] = IF StartsRequest(l) THEN serDesBufferRequest[l]
                                       ELSE inFlightRequestLink[l]
          /\ inFlightRequestLinkCountdowns'[l] =
                 IF StartsRequest(l) THEN RequestCycles(serDesBufferRequest[l])
                                     ELSE inFlightRequestLinkCountdowns[l]
      BY <1>2
    <3>3. QED
      BY <1>2, <3>1, <3>2 DEF LinkInStep, StartsRequest
  <2>2. \A l \in Links : RequestCycles(serDesBufferRequest[l]) \in Nat
    BY PacketsOccupyWires
  <2>3. QED
    BY <1>1, <1>2, <2>1, <2>2 DEF LinksOK, Maybe
<1>8. QED
  BY <1>1, <1>2, <1>3, <1>6, <1>7 DEF WiresInv, ChannelsOK

LEMMA WiresTurn ==
    ASSUME NEW step, EndTurn(step), pc = "inputs", turn \in Ports
    PROVE  /\ turn' \in Nat /\ pc' \in {"inputs", "returns"}
           /\ pc' = "inputs" => turn' \in Ports
  BY SizeTypes DEF EndTurn, Ports

LEMMA PortsSame ==
    ASSUME PortsOK, inputBusyCountdown' \in [Ports -> Nat], pc \notin {"cpu", "serdes"},
           pc' \notin {"cpu", "serdes"},
           UNCHANGED <<outputBuffer, outputBusyCountdown, priorityLinkBus, inFlightResponse,
                       inFlightResponseCounter>>
    PROVE  PortsOK'
  BY DEF PortsOK, PortInStep, OneOut, NextOut

LEMMA WiresSend ==
    ASSUME PortsInv, WiresInv, NEW i \in DOMAIN inputBuffer[priorityPort], SendRequest(i),
           UNCHANGED <<cpuVars, accepted>>
    PROVE  WiresInv'
<1> DEFINE t == inputBuffer[priorityPort][i]
           k == LinkOf(t.mappedChannel)
<1>1. ControlOK /\ PortsOK /\ LinksOK /\ ChannelsOK
  BY DEF WiresInv
<1>2. priorityPort \in Ports /\ t \in Request
  BY ElementOfSeq, LenProperties DEF PortsInv, CPURequest
<1>3. k \in Links
  BY <1>2, LinkOfType DEF Request
<1>4. RequestPortCycles(t) \in Nat
  BY RequestOccupiesPort
<1>5. /\ pc = "inputs" /\ EndTurn(2)
      /\ serDesBufferRequest[k] = NULL
      /\ serDesBufferRequest' = [serDesBufferRequest EXCEPT ![k] = t]
      /\ pendingReads' = IF t.transactionType = "DATA_READ"
                         THEN pendingReads \union {t} ELSE pendingReads
      /\ inputBusyCountdown' = [inputBusyCountdown EXCEPT ![priorityPort] = RequestPortCycles(t)]
      /\ UNCHANGED <<outputBuffer, outputBusyCountdown, priorityLinkBus,
                     inFlightRequestLink, inFlightRequestLinkCountdowns, serDesBufferResponse,
                     inFlightResponseLink, inFlightResponseLinkCountdowns,
                     responseLinkRoundRobin, channels, refused, error, accepted,
                     portRoundRobin, inFlightResponse, inFlightResponseCounter>>
  BY DEF SendRequest, SendsAt, Sendable, responseLinkVars, cpuVars
<1> HIDE DEF t, k
<1>6. turn' \in Nat /\ pc' \in {"inputs", "returns"} /\ (pc' = "inputs" => turn' \in Ports)
  BY <1>1, <1>5, WiresTurn DEF ControlOK
<1>7. ControlOK'
  BY <1>1, <1>5, <1>6 DEF ControlOK
<1>8. inputBusyCountdown' \in [Ports -> Nat]
  BY <1>1, <1>4, <1>5 DEF PortsOK
<1>9. PortsOK'
  BY <1>1, <1>5, <1>6, <1>8, PortsSame
<1>10. LinksOK'
  <2>1. serDesBufferRequest' \in [Links -> Maybe(Request)]
    BY <1>1, <1>2, <1>5 DEF LinksOK, Maybe
  <2>2. ASSUME NEW l \in Links
        PROVE  LinkInStep(l)'
    <3>1. LinkInStep(l)
      BY <1>1 DEF LinksOK
    <3>2. CASE l = k
      <4>1. inFlightRequestLink[l] = NULL
        <5>1. NULL \notin Request
          BY NullAssumption
        <5>2. QED
          BY <1>5, <3>1, <3>2 DEF LinkInStep
      <4>2. QED
        BY <1>5, <3>1, <4>1 DEF LinkInStep
    <3>3. CASE l # k
      <4>1. serDesBufferRequest'[l] = serDesBufferRequest[l]
        BY <1>1, <1>5, <3>3 DEF LinksOK
      <4>2. QED
        BY <1>5, <3>1, <4>1 DEF LinkInStep
    <3>4. QED
      BY <3>2, <3>3
  <2>3. QED
    BY <1>1, <1>5, <2>1, <2>2 DEF LinksOK
<1>11. ChannelsOK'
  BY <1>1, <1>2, <1>5 DEF ChannelsOK
<1>12. QED
  BY <1>7, <1>9, <1>10, <1>11 DEF WiresInv

LEMMA WiresNothing ==
    ASSUME WiresInv, SendNothing, UNCHANGED <<cpuVars, accepted>>
    PROVE  WiresInv'
<1>1. ControlOK /\ PortsOK /\ LinksOK /\ ChannelsOK
  BY DEF WiresInv
<1>2. /\ pc = "inputs" /\ EndTurn(1)
      /\ UNCHANGED <<inputBusyCountdown, outputBuffer, outputBusyCountdown, priorityLinkBus,
                     serDesBufferRequest, inFlightRequestLink, inFlightRequestLinkCountdowns,
                     serDesBufferResponse, inFlightResponseLink,
                     inFlightResponseLinkCountdowns, responseLinkRoundRobin, pendingReads,
                     channels, refused, error, accepted, portRoundRobin, inFlightResponse,
                     inFlightResponseCounter>>
  BY DEF SendNothing, portVars, requestLinkVars, responseLinkVars, cpuVars
<1>3. turn' \in Nat /\ pc' \in {"inputs", "returns"} /\ (pc' = "inputs" => turn' \in Ports)
  BY <1>1, <1>2, WiresTurn DEF ControlOK
<1>4. ControlOK'
  BY <1>1, <1>2, <1>3 DEF ControlOK
<1>5. PortsOK'
  <2>1. inputBusyCountdown' \in [Ports -> Nat]
    BY <1>1, <1>2 DEF PortsOK
  <2>2. QED
    BY <1>1, <1>2, <1>3, <2>1, PortsSame
<1>6. LinksOK'
  BY <1>1, <1>2 DEF LinksOK, LinkInStep
<1>7. QED
  BY <1>1, <1>2, <1>4, <1>5, <1>6 DEF WiresInv, ChannelsOK

\* The channel that starts a response on a link is one of the link's own, and there is
\* no other.
LEMMA TheResponder ==
    ASSUME ChannelsOK, NEW l \in Links, NEW c \in ResponderOf(l)
    PROVE  /\ c \in Channels /\ LinkOf(c) = l /\ ResponderOf(l) = {c}
           /\ LinkIsFree(l) /\ HasResponse(c) /\ (CHOOSE d \in ResponderOf(l) : TRUE) = c
<1>1. PICK z \in 0 .. CHANNELS_PER_LINK_BUS - 1 : Responds(l, z) /\ c = RoundRobin(l, z)
  BY DEF ResponderOf
<1>2. (responseLinkRoundRobin[l] + z) % CHANNELS_PER_LINK_BUS \in 0 .. CHANNELS_PER_LINK_BUS - 1
  <2>1. responseLinkRoundRobin[l] + z \in Nat
    BY SizeTypes DEF ChannelsOK
  <2>2. QED
    BY <2>1, SizeTypes
<1>3. c \in Channels /\ LinkOf(c) = l
  BY <1>1, <1>2, ChannelOfLink DEF RoundRobin
<1>4. ASSUME NEW y \in 0 .. CHANNELS_PER_LINK_BUS - 1, Responds(l, y)
      PROVE  y = z
  BY <1>1, <1>4 DEF Responds
<1>5. ResponderOf(l) = {c}
  BY <1>1, <1>4 DEF ResponderOf
<1>6. QED
  BY <1>1, <1>3, <1>5 DEF Responds

LEMMA ResponseType ==
    ASSUME ChannelsOK, NEW c \in Channels, HasResponse(c)
    PROVE  ResponseOf(c) \in Request
<1>1. channels[c] \in ChannelState
  BY DEF ChannelsOK
<1>2. CASE HasLogicResponse(c)
  BY <1>1, <1>2 DEF ResponseOf, HasLogicResponse, ChannelState, Maybe
<1>3. CASE ~ HasLogicResponse(c)
  <2> DEFINE t == CHOOSE u \in PendingReadOf(c) : TRUE
  <2>1. PendingReadOf(c) # {} /\ PendingReadOf(c) \subseteq Request
    BY <1>3 DEF HasResponse, PendingReadOf, ChannelsOK
  <2>2. t \in Request
    BY <2>1
  <2>3. ResponseOf(c) = [t EXCEPT !.transactionType = "RETURN_DATA"]
    BY <1>3 DEF ResponseOf
  <2> HIDE DEF t
  <2>4. QED
    BY <2>2, <2>3 DEF Request
<1>4. QED
  BY <1>2, <1>3

\* A link that starts a response is free, and its SerDes buffer with it.
LEMMA WiresStart ==
    ASSUME WiresInv, StartResponses, UNCHANGED <<cpuVars, accepted>>
    PROVE  WiresInv'
<1> DEFINE R(l) == ResponseOf(CHOOSE c \in ResponderOf(l) : TRUE)
<1>1. ControlOK /\ PortsOK /\ LinksOK /\ ChannelsOK
  BY DEF WiresInv
<1>2. /\ pc = "returns" /\ pc' = "channels" /\ turn' = 0
      /\ error' = IF \E c \in Responders : inFlightResponseLink[LinkOf(c)] # NULL
                  THEN "response link busy"
                  ELSE IF \E c \in Responders : ResponseCycles(ResponseOf(c)) = 0
                  THEN "countdown is 0" ELSE "none"
      /\ inFlightResponseLink' =
            [l \in Links |-> IF ResponderOf(l) = {} THEN inFlightResponseLink[l] ELSE R(l)]
      /\ inFlightResponseLinkCountdowns' =
            [l \in Links |-> IF ResponderOf(l) = {} THEN inFlightResponseLinkCountdowns[l]
                             ELSE ResponseCycles(R(l))]
      /\ responseLinkRoundRobin' =
            [l \in Links |-> IF ResponderOf(l) = {} THEN responseLinkRoundRobin[l]
                             ELSE NextRoundRobin(CHOOSE c \in ResponderOf(l) : TRUE)]
      /\ pendingReads' \subseteq pendingReads
      /\ channels' = [c \in Channels |-> IF c \in Responders /\ HasLogicResponse(c)
                                         THEN [channels[c] EXCEPT !.pendingLogicResponse = NULL]
                                         ELSE channels[c]]
      /\ UNCHANGED <<inputBusyCountdown, outputBuffer, outputBusyCountdown, priorityLinkBus,
                     serDesBufferRequest, inFlightRequestLink, inFlightRequestLinkCountdowns,
                     serDesBufferResponse, refused, accepted, portRoundRobin,
                     inFlightResponse, inFlightResponseCounter>>
  BY DEF StartResponses, portVars, requestLinkVars, cpuVars
<1>3. ASSUME NEW l \in Links, ResponderOf(l) # {}
      PROVE  /\ R(l) \in Request /\ R(l) # NULL
             /\ ResponseCycles(R(l)) \in Nat \ {0}
             /\ inFlightResponseLink[l] = NULL /\ serDesBufferResponse[l] = NULL
             /\ NextRoundRobin(CHOOSE c \in ResponderOf(l) : TRUE)
                   \in 0 .. CHANNELS_PER_LINK_BUS - 1
  <2>1. PICK c : c \in ResponderOf(l)
    BY <1>3
  <2>2. /\ c \in Channels /\ LinkIsFree(l) /\ HasResponse(c)
        /\ (CHOOSE d \in ResponderOf(l) : TRUE) = c
    BY <1>1, <2>1, TheResponder
  <2>3. R(l) \in Request
    BY <1>1, <2>2, ResponseType
  <2>4. inFlightResponseLink[l] = NULL /\ serDesBufferResponse[l] = NULL
    BY <1>1, <2>2 DEF LinkIsFree, LinksOK, LinkInStep
  <2>5. NextRoundRobin(c) \in 0 .. CHANNELS_PER_LINK_BUS - 1
    <3>1. c + (IF HasLogicResponse(c) THEN 0 ELSE 1) \in Nat
      BY <2>2 DEF Channels
    <3>2. QED
      BY <3>1, SizeTypes DEF NextRoundRobin
  <2>6. QED
    BY <2>2, <2>3, <2>4, <2>5, PacketsOccupyWires, NullAssumption
<1> HIDE DEF R
<1>4. ControlOK'
  <2>1. ASSUME NEW c \in Responders
        PROVE  inFlightResponseLink[LinkOf(c)] = NULL
    <3>1. PICK l \in Links : c \in ResponderOf(l)
      BY DEF Responders
    <3>2. LinkOf(c) = l
      BY <1>1, <3>1, TheResponder
    <3>3. QED
      BY <1>3, <3>1, <3>2
  <2>2. 0 \in Channels
    <3>1. NUM_LINK_BUSES * CHANNELS_PER_LINK_BUS \in Nat \ {0}
      BY SizeTypes
    <3>2. QED
      BY <3>1 DEF Channels
  <2>3. \A c \in Responders : ResponseCycles(ResponseOf(c)) # 0
    BY PacketsOccupyWires
  <2>4. error' = "none"
    BY <1>2, <2>1, <2>3
  <2>5. QED
    BY <1>1, <1>2, <2>2, <2>4 DEF ControlOK
<1>5. PortsOK'
  <2>1. inputBusyCountdown' \in [Ports -> Nat]
    BY <1>1, <1>2 DEF PortsOK
  <2>2. QED
    BY <1>1, <1>2, <2>1, PortsSame
<1>6. LinksOK'
  <2>1. ASSUME NEW l \in Links
        PROVE  LinkInStep(l)'
    <3>1. LinkInStep(l)
      BY <1>1 DEF LinksOK
    <3>2. CASE ResponderOf(l) = {}
      BY <1>2, <3>1, <3>2 DEF LinkInStep
    <3>3. CASE ResponderOf(l) # {}
      <4>1. /\ inFlightResponseLink'[l] = R(l) /\ serDesBufferResponse'[l] = NULL
            /\ inFlightResponseLinkCountdowns'[l] = ResponseCycles(R(l))
            /\ R(l) # NULL /\ ResponseCycles(R(l)) # 0
        BY <1>2, <1>3, <3>3
      <4>2. QED
        BY <1>2, <3>1, <4>1 DEF LinkInStep
    <3>4. QED
      BY <3>2, <3>3
  <2>2. inFlightResponseLink' \in [Links -> Maybe(Request)]
    BY <1>1, <1>2, <1>3 DEF LinksOK, Maybe
  <2>3. inFlightResponseLinkCountdowns' \in [Links -> Nat]
    BY <1>1, <1>2, <1>3 DEF LinksOK
  <2>4. QED
    BY <1>1, <1>2, <2>1, <2>2, <2>3 DEF LinksOK
<1>7. ChannelsOK'
  <2>1. responseLinkRoundRobin' \in [Links -> 0 .. CHANNELS_PER_LINK_BUS - 1]
    BY <1>1, <1>2, <1>3 DEF ChannelsOK
  <2>2. ASSUME NEW c \in Channels
        PROVE  [channels[c] EXCEPT !.pendingLogicResponse = NULL] \in ChannelState
    BY <1>1 DEF ChannelsOK, ChannelState, Maybe
  <2>3. channels' \in [Channels -> ChannelState]
    BY <1>1, <1>2, <2>2 DEF ChannelsOK
  <2>4. QED
    BY <1>1, <1>2, <2>1, <2>3 DEF ChannelsOK
<1>8. QED
  BY <1>4, <1>5, <1>6, <1>7 DEF WiresInv

LEMMA WiresChannel ==
    ASSUME WiresInv, pc = "channels", ChannelStep, UNCHANGED cpuVars
    PROVE  WiresInv'
<1>1. ControlOK /\ PortsOK /\ LinksOK /\ ChannelsOK
  BY DEF WiresInv
<1>2. PICK y \in AfterUpdate(channels[turn]) :
         UpdateChannel(y) /\ accepted' = accepted \ WritesSent(channels[turn], y)
  BY DEF ChannelStep
<1>3. turn \in Channels /\ y \in ChannelState
  BY <1>1, <1>2, UpdateType DEF ControlOK, ChannelsOK
<1>4. /\ channels' = [channels EXCEPT ![turn] = y]
      /\ IF turn = NUM_LINK_BUSES * CHANNELS_PER_LINK_BUS - 1
         THEN pc' = "wrapper" /\ turn' = 0
         ELSE turn' = turn + 1 /\ pc' = pc
      /\ UNCHANGED <<inputBusyCountdown, outputBuffer, outputBusyCountdown, priorityLinkBus,
                     serDesBufferRequest, inFlightRequestLink, inFlightRequestLinkCountdowns,
                     serDesBufferResponse, inFlightResponseLink,
                     inFlightResponseLinkCountdowns, responseLinkRoundRobin, pendingReads,
                     refused, error, portRoundRobin, inFlightResponse,
                     inFlightResponseCounter>>
  BY <1>2 DEF UpdateChannel, portVars, requestLinkVars, responseLinkVars, cpuVars
<1>5. /\ turn' \in Nat /\ pc' \in {"channels", "wrapper"}
      /\ pc' = "channels" => turn' \in Channels
  <2>1. NUM_LINK_BUSES * CHANNELS_PER_LINK_BUS \in Nat
    BY SizeTypes
  <2>2. QED
    BY <1>3, <1>4, <2>1 DEF Channels
<1>6. ControlOK'
  BY <1>1, <1>2, <1>4, <1>5 DEF ControlOK
<1>7. PortsOK'
  <2>1. inputBusyCountdown' \in [Ports -> Nat]
    BY <1>1, <1>4 DEF PortsOK
  <2>2. QED
    BY <1>1, <1>4, <1>5, <2>1, PortsSame
<1>8. LinksOK'
  BY <1>1, <1>4 DEF LinksOK, LinkInStep
<1>9. ChannelsOK'
  BY <1>1, <1>3, <1>4 DEF ChannelsOK
<1>10. QED
  BY <1>6, <1>7, <1>8, <1>9 DEF WiresInv

\* The wrapper counts its cycle down, drops the response that ends and starts the next:
\* whatever BOB did in its part of the Update, the two clocks agree again.
LEMMA PortCatchesUp ==
    ASSUME PortsOK, WrapperUpdate, NEW p \in Ports
    PROVE  /\ outputBuffer'[p] \in Seq(Request) /\ inFlightResponse'[p] \in Maybe(Request)
           /\ inFlightResponseCounter'[p] \in Nat
           /\ ResponseEnds(p) => inFlightResponse[p] \in Request /\ outputBuffer[p] # << >>
                                 /\ inFlightResponse[p] = Head(outputBuffer[p])
           /\ PortInStep(p)'
<1> DEFINE out == outputBuffer[p]
           n == inFlightResponseCounter[p]
           after == OutputAfter(p)
<1>1. /\ pc = "wrapper" /\ pc' = "cpu"
      /\ outputBuffer'[p] = after
      /\ inFlightResponse'[p] = IF StartsResponse(p) THEN Head(after)
                                ELSE IF ResponseEnds(p) THEN NULL ELSE inFlightResponse[p]
      /\ inFlightResponseCounter'[p] = IF StartsResponse(p) THEN ResponsePortCycles(Head(after))
                                       ELSE OneLess(n)
      /\ outputBusyCountdown'[p] = outputBusyCountdown[p]
  BY DEF WrapperUpdate
<1>2. /\ out \in Seq(Request) /\ n \in Nat /\ PortInStep(p)
      /\ inFlightResponse[p] \in Maybe(Request)
  BY DEF PortsOK
<1>3. /\ Len(out) \in Nat /\ DOMAIN out = 1 .. Len(out)
      /\ (out # << >> => Len(out) # 0) /\ (Len(out) # 0 => out # << >>)
      /\ \A i \in 1 .. Len(out) : out[i] \in Request /\ out[i].portID = p
  <2>1. \A i \in DOMAIN out : out[i].portID = p
    BY <1>2 DEF PortInStep
  <2>2. QED
    BY <1>2, <2>1, EmptySeq, LenProperties, ElementOfSeq
<1>4. \/ OneOut(p) /\ outputBusyCountdown[p] = OneLess(n)
      \/ NextOut(p)
  BY <1>1, <1>2 DEF PortInStep
<1>5. CASE OneOut(p) /\ outputBusyCountdown[p] = OneLess(n)
  <2>1. CASE n \in {0, 1}
    <3>1. after = << >>
      <4>1. CASE n = 0
        BY <1>5, <4>1 DEF OneOut, OutputAfter, ResponseEnds
      <4>2. CASE n = 1
        <5>1. out # << >> /\ Len(out) = 1
          <6>1. out # << >> /\ Len(out) <= 1
            BY <1>5, <4>2 DEF OneOut
          <6>2. Len(out) \in Nat /\ Len(out) # 0
            BY <1>3, <6>1
          <6> DEFINE m == Len(out)
          <6>3. m \in Nat /\ m # 0 /\ m <= 1
            BY <6>1, <6>2
          <6> HIDE DEF m
          <6>4. m = 1
            BY <6>3
          <6>5. QED
            BY <6>1, <6>4 DEF m
        <5>2. Tail(out) \in Seq(Request) /\ Len(Tail(out)) = 0
          <6>1. Tail(out) \in Seq(Request) /\ Len(Tail(out)) = Len(out) - 1
            BY <1>2, <5>1, HeadTailProperties
          <6>2. QED
            BY <5>1, <6>1
        <5>3. Tail(out) = << >>
          BY <5>2, EmptySeq
        <5>4. QED
          BY <4>2, <5>3 DEF OutputAfter, ResponseEnds
      <4>3. QED
        BY <2>1, <4>1, <4>2
    <3>2. ~ StartsResponse(p)
      BY <3>1 DEF StartsResponse
    <3>3. /\ outputBuffer'[p] = << >> /\ inFlightResponseCounter'[p] = 0
          /\ inFlightResponse'[p] = NULL /\ outputBusyCountdown'[p] = 0
      <4>1. n = 0 => inFlightResponse[p] = NULL
        BY <1>5 DEF OneOut
      <4>2. QED
        BY <1>1, <1>5, <2>1, <3>1, <3>2, <4>1 DEF OneLess, ResponseEnds
    <3>4. ResponseEnds(p) => /\ inFlightResponse[p] \in Request /\ out # << >>
                             /\ inFlightResponse[p] = Head(out)
      BY <1>3, <1>5 DEF ResponseEnds, OneOut
    <3>5. PortInStep(p)'
      BY <1>1, <3>3, EmptySeq DEF PortInStep, OneOut
    <3>6. QED
      BY <3>3, <3>4, <3>5, EmptySeq DEF Maybe
  <2>2. CASE n > 1
    <3>1. ~ ResponseEnds(p) /\ ~ StartsResponse(p) /\ after = out
      BY <1>2, <2>2 DEF ResponseEnds, StartsResponse, OutputAfter
    <3>2. /\ outputBuffer'[p] = out /\ inFlightResponse'[p] = inFlightResponse[p]
          /\ inFlightResponseCounter'[p] = n - 1 /\ outputBusyCountdown'[p] = n - 1
          /\ n - 1 # 0 /\ n - 1 \in Nat
      BY <1>1, <1>2, <1>5, <2>2, <3>1 DEF OneLess
    <3>3. PortInStep(p)'
      <4>1. out # << >> /\ inFlightResponse[p] # NULL /\ Len(out) <= 1
            /\ inFlightResponse[p] = out[1]
        BY <1>2, <1>5, <2>2 DEF OneOut
      <4> HIDE DEF n, out
      <4>2. OneOut(p)'
        BY <3>2, <4>1 DEF OneOut
      <4>3. \A i \in DOMAIN out : out[i].portID = p
        BY <1>3
      <4>4. QED
        BY <1>1, <3>2, <4>2, <4>3 DEF PortInStep
    <3>4. QED
      BY <1>2, <3>1, <3>2, <3>3
  <2>3. QED
    BY <1>2, <2>1, <2>2
<1>6. CASE NextOut(p)
  <2>1. PICK t \in Request :
           /\ Len(after) = 1 /\ after # << >> /\ after \in Seq(Request) /\ after[1] = t
           /\ outputBusyCountdown[p] = ResponsePortCycles(t) /\ t.portID = p
           /\ n <= 1
           /\ n = 1 => inFlightResponse[p] = out[1] /\ out # << >>
    <3>1. CASE n = 0
      <4>1. after = out /\ Len(out) = 1 /\ outputBusyCountdown[p] = ResponsePortCycles(out[1])
        BY <1>6, <3>1 DEF NextOut, OutputAfter, ResponseEnds
      <4>2. QED
        BY <1>2, <1>3, <3>1, <4>1
    <3>2. CASE n = 1
      <4>1. /\ after = Tail(out) /\ Len(out) = 2 /\ inFlightResponse[p] = out[1]
            /\ outputBusyCountdown[p] = ResponsePortCycles(out[2])
        BY <1>6, <3>2 DEF NextOut, OutputAfter, ResponseEnds
      <4>2. /\ Tail(out) \in Seq(Request) /\ Len(Tail(out)) = 1 /\ Tail(out)[1] = out[2]
        BY <1>2, <1>3, <4>1, HeadTailProperties
      <4> DEFINE rest == Tail(out)
      <4>3. rest \in Seq(Request) /\ Len(rest) = 1
        BY <4>2
      <4> HIDE DEF rest
      <4>4. rest # << >>
        BY <4>3, EmptySeq
      <4> USE DEF rest
      <4>5. QED
        BY <1>3, <3>2, <4>1, <4>2, <4>4
    <3>3. QED
      BY <1>6, <3>1, <3>2 DEF NextOut
  <2>2. StartsResponse(p) /\ Head(after) = t
    BY <2>1 DEF StartsResponse
  <2>3. /\ outputBuffer'[p] = after /\ inFlightResponse'[p] = t
        /\ inFlightResponseCounter'[p] = ResponsePortCycles(t)
        /\ outputBusyCountdown'[p] = ResponsePortCycles(t)
    BY <1>1, <2>1, <2>2
  <2>4. ResponsePortCycles(t) \in Nat \ {0} /\ t # NULL
    BY PacketsOccupyWires, NullAssumption
  <2>5. ResponseEnds(p) => /\ inFlightResponse[p] \in Request /\ out # << >>
                           /\ inFlightResponse[p] = Head(out)
    BY <1>3, <2>1 DEF ResponseEnds
  <2> HIDE DEF after
  <2>6. DOMAIN after = {1}
    BY <2>1, LenProperties
  <2>7. PortInStep(p)'
    BY <1>1, <2>1, <2>3, <2>4, <2>6 DEF PortInStep, OneOut
  <2>8. QED
    BY <2>1, <2>3, <2>4, <2>5, <2>7 DEF Maybe
<1>7. QED
  BY <1>4, <1>5, <1>6

LEMMA WiresWrapper ==
    ASSUME WiresInv, WrapperUpdate
    PROVE  WiresInv'
<1>1. ControlOK /\ PortsOK /\ LinksOK /\ ChannelsOK
  BY DEF WiresInv
<1>2. /\ pc' = "cpu" /\ accepted' \subseteq accepted
      /\ DOMAIN outputBuffer' = Ports /\ outputBuffer' = [p \in Ports |-> outputBuffer'[p]]
      /\ inFlightResponse' = [p \in Ports |-> inFlightResponse'[p]]
      /\ inFlightResponseCounter' = [p \in Ports |-> inFlightResponseCounter'[p]]
      /\ UNCHANGED <<portRoundRobin, turn, inputBusyCountdown, outputBusyCountdown,
                     priorityLinkBus, requestLinkVars, responseLinkVars, pendingReads,
                     channels, refused, error>>
  BY DEF WrapperUpdate
<1>3. ControlOK'
  BY <1>1, <1>2 DEF ControlOK
<1>4. PortsOK'
  <2>1. \A p \in Ports : /\ outputBuffer'[p] \in Seq(Request)
                         /\ inFlightResponse'[p] \in Maybe(Request)
                         /\ inFlightResponseCounter'[p] \in Nat /\ PortInStep(p)'
    BY <1>1, PortCatchesUp
  <2>2. /\ outputBuffer' \in [Ports -> Seq(Request)]
        /\ inFlightResponse' \in [Ports -> Maybe(Request)]
        /\ inFlightResponseCounter' \in [Ports -> Nat]
    BY <1>2, <2>1
  <2>3. QED
    BY <1>1, <1>2, <2>1, <2>2 DEF PortsOK
<1>5. LinksOK'
  BY <1>1, <1>2 DEF LinksOK, LinkInStep, requestLinkVars, responseLinkVars
<1>6. QED
  BY <1>1, <1>2, <1>3, <1>4, <1>5 DEF WiresInv, ChannelsOK, responseLinkVars

LEMMA WiresCPU ==
    ASSUME WiresInv, NEW p \in Ports, NEW id \in TransactionIDs, NEW type, NEW c,
           PutOnPort(p, id, type, c), portRoundRobin' \in Ports
    PROVE  WiresInv'
<1>1. ControlOK /\ PortsOK /\ LinksOK /\ ChannelsOK
  BY DEF WiresInv
<1>2. accepted' = accepted \union {id}
      /\ UNCHANGED <<bobVars, inFlightResponse, inFlightResponseCounter>>
  BY DEF PutOnPort
<1>3. ControlOK'
  BY <1>1, <1>2 DEF ControlOK, bobVars
<1>4. PortsOK'
  BY <1>1, <1>2 DEF PortsOK, PortInStep, OneOut, NextOut, bobVars, portVars
<1>5. LinksOK'
  BY <1>1, <1>2 DEF LinksOK, LinkInStep, bobVars, requestLinkVars, responseLinkVars
<1>6. QED
  BY <1>1, <1>2, <1>3, <1>4, <1>5 DEF WiresInv, ChannelsOK, bobVars, responseLinkVars

LEMMA WiresNext == PortsInv /\ WiresInv /\ [Next]_vars => WiresInv'
<1> SUFFICES ASSUME PortsInv, WiresInv, [Next]_vars PROVE WiresInv'
  OBVIOUS
<1>1. CASE CPUStep
  <2>1. PICK id \in TransactionIDs, type \in RequestTypes, c \in Channels :
           \/ \E p \in Ports : AddTransaction(p, id, type, c)
           \/ \E coreID \in Cores : AddRequest(coreID, id, type, c)
    BY <1>1 DEF CPUStep
  <2>2. PICK p : p \in Ports /\ PutOnPort(p, id, type, c)
                 /\ portRoundRobin' \in {portRoundRobin, (p + 1) % NUM_PORTS}
    BY <2>1, WrapperAssumption DEF AddTransaction, AddRequest, FindOpenPort, RoundRobinAfter
  <2>3. (p + 1) % NUM_PORTS \in Ports
    BY <2>2, SizeTypes DEF Ports
  <2>4. portRoundRobin' \in Ports
    BY <2>2, <2>3 DEF WiresInv, ControlOK
  <2>5. QED
    BY <2>2, <2>4, WiresCPU
<1>2. CASE WrapperUpdate
  BY <1>2, WiresWrapper
<1>3. CASE BOBUpdate
  BY <1>3, WiresAdvance, WiresMove, WiresSend, WiresNothing, WiresStart, WiresChannel
     DEF BOBUpdate
<1>4. CASE UNCHANGED vars
  BY <1>4 DEF vars, bobVars, portVars, requestLinkVars, responseLinkVars, cpuVars, WiresInv,
     ControlOK, PortsOK, PortInStep, OneOut, NextOut, LinksOK, LinkInStep, ChannelsOK
<1>5. QED
  BY <1>1, <1>2, <1>3, <1>4 DEF Next

\* Every variable of the memory system has its type, whatever the traffic.
THEOREM BOBTypeCorrect == Spec => []TypeOK
  BY PortsInit, PortsNext, WiresInit, WiresNext, WiresTypeOK, PTL DEF Spec

\* outputBusyCountdown in BOB and inFlightResponseCounter in the wrapper agree whenever
\* the CPU has its turn, whatever the traffic, so a port is given a response only when it
\* has delivered the last one (BOB.cpp:289, :402-425; BOBWrapper.cpp:402-500).
THEOREM ResponsePortsCorrect == Spec => []ResponsePortsInStep
<1>1. WiresInv => ResponsePortsInStep
  <2> SUFFICES ASSUME WiresInv, pc = "cpu", NEW p \in Ports
               PROVE  /\ Len(outputBuffer[p]) <= 1
                      /\ outputBuffer[p] = << >> <=> inFlightResponse[p] = NULL
                      /\ outputBuffer[p] # << >> => inFlightResponse[p] = outputBuffer[p][1]
                      /\ inFlightResponseCounter[p] = outputBusyCountdown[p]
                      /\ \A i \in DOMAIN outputBuffer[p] : outputBuffer[p][i].portID = p
    BY DEF ResponsePortsInStep
  <2>1. PortInStep(p)
    BY DEF WiresInv, PortsOK
  <2>2. QED
    BY <2>1 DEF PortInStep, OneOut
<1>2. QED
  BY PortsInit, PortsNext, WiresInit, WiresNext, <1>1, PTL DEF Spec

\* Of the exits of BOB::Update, these are unreachable whatever the traffic: no response
\* finds its SerDes buffer taken, no request or response its link (BOB.cpp:342, :376,
\* :627, :680), and no link is taken for no time (:435, :616, :675).
WiresNeverTaken ==
    error \notin {"response SerDes collision", "request link busy", "response link busy",
                  "countdown is 0"}

\* The simulator never exits because a wire is taken, or taken for no time.
THEOREM NoWireTaken == Spec => []WiresNeverTaken
<1>1. WiresInv => WiresNeverTaken
  BY DEF WiresInv, ControlOK, WiresNeverTaken
<1>2. QED
  BY PortsInit, PortsNext, WiresInit, WiresNext, <1>1, PTL DEF Spec

-----------------------------------------------------------------------------
(* Where the requests are                                                  *)

Place ==
    ({"port", "input", "output"} \X Ports)
    \union ({"serdes", "response"} \X Links)
    \union ({"work", "issued", "returned"} \X Channels)

\* The requests at a place.  A response that crosses a link is not there: it is still
\* the head of its channel's return queue.
Holds(a) ==
    LET n == a[2]
    IN CASE a[1] = "port" -> OnPort(n)
         [] a[1] = "input" -> Elements(inputBuffer[n])
         [] a[1] = "output" -> Elements(outputBuffer[n])
         [] a[1] = "serdes" -> {serDesBufferRequest[n]} \ {NULL}
         [] a[1] = "response" -> {serDesBufferResponse[n]} \ {NULL}
         [] a[1] = "work" -> channels[n].work
         [] a[1] = "issued" -> Elements(channels[n].issued)
         [] a[1] = "returned" -> Elements(channels[n].readReturnQueue)

\* No id is at two places, or twice at one.
OnePlace ==
    \A a, b \in Place : \A t \in Holds(a), u \in Holds(b) :
        t.transactionID = u.transactionID => a = b /\ t = u

Accounted == accepted = {t.transactionID : t \in UNION {Holds(a) : a \in Place}}

DistinctQueue(queue) ==
    \A i, j \in DOMAIN queue : queue[i].transactionID = queue[j].transactionID => i = j

QueuesDistinct ==
    /\ \A p \in Ports : DistinctQueue(inputBuffer[p]) /\ DistinctQueue(outputBuffer[p])
    /\ \A c \in Channels :
          DistinctQueue(channels[c].issued) /\ DistinctQueue(channels[c].readReturnQueue)

\* What a channel holds is for it, and reads alone come back.
ChannelsOwn ==
    \A c \in Channels :
        /\ \A t \in channels[c].work :
              t.mappedChannel = c /\ t.transactionType \in {"DATA_READ", "DATA_WRITE"}
        /\ \A t \in Elements(channels[c].issued) \union Elements(channels[c].readReturnQueue) :
              t.mappedChannel = c /\ t.transactionType = "DATA_READ"

\* A response that crosses a link is one of its channels' oldest read.
HeadOnLink ==
    \A l \in Links : inFlightResponseLink[l] # NULL =>
        LET t == inFlightResponseLink[l]
            queue == channels[t.mappedChannel].readReturnQueue
        IN /\ t.transactionType = "RETURN_DATA" /\ LinkOf(t.mappedChannel) = l
           /\ queue # << >> /\ Head(queue).transactionID = t.transactionID

\* The reads that were sent to their channel and have not left its return queue.
SentReads ==
    {t \in {serDesBufferRequest[l] : l \in Links} : IsRead(t)}
    \union UNION {{t \in channels[c].work : IsRead(t)} \union Elements(channels[c].issued)
                  \union Elements(channels[c].readReturnQueue) : c \in Channels}

LinkIDs == IDs({inFlightResponseLink[l] : l \in Links})

ReadsPending == pendingReads = {t \in SentReads : t.transactionID \notin LinkIDs}

RequestsInv ==
    /\ error = "none"
    /\ OnePlace
    /\ Accounted
    /\ QueuesDistinct
    /\ ChannelsOwn
    /\ HeadOnLink
    /\ ReadsPending
-----------------------------------------------------------------------------
(* Queues of requests                                                      *)

LEMMA AppendRequest ==
    ASSUME NEW S, NEW queue \in Seq(S), NEW t \in S
    PROVE  /\ Elements(Append(queue, t)) = Elements(queue) \union {t}
           /\ /\ DistinctQueue(queue)
              /\ \A u \in Elements(queue) : u.transactionID # t.transactionID
              => DistinctQueue(Append(queue, t))
           /\ queue # << >> => Append(queue, t) # << >> /\ Head(Append(queue, t)) = Head(queue)
           /\ Append(queue, t) # << >>
<1> DEFINE longer == Append(queue, t)
           n == Len(queue)
<1>1. /\ longer \in Seq(S) /\ Len(longer) = n + 1 /\ longer[n + 1] = t
      /\ \A i \in 1 .. n : longer[i] = queue[i]
  BY AppendProperties
<1>2. n \in Nat /\ DOMAIN queue = 1 .. n /\ DOMAIN longer = 1 .. n + 1
  BY <1>1, LenProperties
<1>3. longer # << >> /\ (queue # << >> => n # 0)
  BY <1>1, <1>2, EmptySeq
<1> HIDE DEF longer, n
<1>4. Elements(longer) = Elements(queue) \union {t}
  <2>1. ASSUME NEW u \in Elements(longer)
        PROVE  u \in Elements(queue) \union {t}
    BY <1>1, <1>2, <2>1 DEF Elements
  <2>2. ASSUME NEW u \in Elements(queue)
        PROVE  u \in Elements(longer)
    BY <1>1, <1>2, <2>2 DEF Elements
  <2>3. t \in Elements(longer)
    BY <1>1, <1>2 DEF Elements
  <2>4. QED
    BY <2>1, <2>2, <2>3
<1>5. ASSUME DistinctQueue(queue),
             \A u \in Elements(queue) : u.transactionID # t.transactionID
      PROVE  DistinctQueue(longer)
  <2> SUFFICES ASSUME NEW i \in 1 .. n + 1, NEW j \in 1 .. n + 1,
                      longer[i].transactionID = longer[j].transactionID
               PROVE  i = j
    BY <1>2 DEF DistinctQueue
  <2>1. \A k \in 1 .. n : longer[k] = queue[k] /\ queue[k].transactionID # t.transactionID
    BY <1>1, <1>2, <1>5 DEF Elements
  <2>2. i \in 1 .. n \/ i = n + 1
    BY <1>2
  <2>3. j \in 1 .. n \/ j = n + 1
    BY <1>2
  <2>4. CASE i \in 1 .. n /\ j \in 1 .. n
    BY <1>2, <1>5, <2>1, <2>4 DEF DistinctQueue
  <2>5. QED
    BY <1>1, <2>1, <2>2, <2>3, <2>4
<1>6. queue # << >> => Head(longer) = Head(queue)
  BY <1>1, <1>2, <1>3
<1>7. QED
  BY <1>3, <1>4, <1>5, <1>6 DEF longer

\* A queue without its i-th request.
LEMMA RemoveRequest ==
    ASSUME NEW queue, NEW shorter, NEW n \in Nat, NEW i \in 1 .. n,
           DOMAIN queue = 1 .. n, DOMAIN shorter = 1 .. n - 1, DistinctQueue(queue),
           \A j \in 1 .. n - 1 : shorter[j] = IF j < i THEN queue[j] ELSE queue[j + 1]
    PROVE  /\ Elements(shorter) = Elements(queue) \ {queue[i]}
           /\ queue[i] \in Elements(queue)
           /\ DistinctQueue(shorter)
<1>1. ASSUME NEW u \in Elements(shorter)
      PROVE  u \in Elements(queue) \ {queue[i]}
  <2>1. PICK j \in 1 .. n - 1 : u = shorter[j]
    BY DEF Elements
  <2>2. PICK k \in 1 .. n : u = queue[k] /\ k # i
    BY <2>1
  <2>3. QED
    BY <2>2 DEF Elements, DistinctQueue
<1>2. ASSUME NEW u \in Elements(queue) \ {queue[i]}
      PROVE  u \in Elements(shorter)
  <2>1. PICK k \in 1 .. n : u = queue[k] /\ k # i
    BY DEF Elements
  <2>2. PICK j \in 1 .. n - 1 : u = shorter[j]
    <3>1. CASE k < i
      BY <2>1, <3>1
    <3>2. CASE k > i
      <4>1. k - 1 \in 1 .. n - 1 /\ ~ (k - 1 < i) /\ (k - 1) + 1 = k
        BY <3>2
      <4>2. QED
        BY <2>1, <4>1
    <3>3. QED
      BY <2>1, <3>1, <3>2
  <2>3. QED
    BY <2>2 DEF Elements
<1>3. DistinctQueue(shorter)
  <2> SUFFICES ASSUME NEW j \in 1 .. n - 1, NEW k \in 1 .. n - 1,
                      shorter[j].transactionID = shorter[k].transactionID
               PROVE  j = k
    BY DEF DistinctQueue
  <2> DEFINE f(m) == IF m < i THEN m ELSE m + 1
  <2>1. f(j) \in 1 .. n /\ f(k) \in 1 .. n /\ shorter[j] = queue[f(j)] /\ shorter[k] = queue[f(k)]
    OBVIOUS
  <2>2. f(j) = f(k)
    BY <2>1 DEF DistinctQueue
  <2>3. QED
    BY <2>2
<1>4. QED
  BY <1>1, <1>2, <1>3 DEF Elements

LEMMA TailRequest ==
    ASSUME NEW S, NEW queue \in Seq(S), queue # << >>
    PROVE  /\ Head(queue) \in Elements(queue)
           /\ DistinctQueue(queue) =>
                 /\ Elements(Tail(queue)) = Elements(queue) \ {Head(queue)}
                 /\ DistinctQueue(Tail(queue))
<1> DEFINE n == Len(queue)
           shorter == Tail(queue)
<1>1. /\ n \in Nat \ {0} /\ DOMAIN queue = 1 .. n
      /\ shorter \in Seq(S) /\ Len(shorter) = n - 1
      /\ \A j \in 1 .. n - 1 : shorter[j] = queue[j + 1]
  BY HeadTailProperties, LenProperties, EmptySeq
<1>2. DOMAIN shorter = 1 .. n - 1
  BY <1>1, LenProperties
<1>3. Head(queue) = queue[1]
  OBVIOUS
<1> HIDE DEF n, shorter
<1>4. 1 \in 1 .. n /\ \A j \in 1 .. n - 1 : shorter[j] = IF j < 1 THEN queue[j] ELSE queue[j + 1]
  BY <1>1
<1>5. Head(queue) \in Elements(queue)
  BY <1>1, <1>3, <1>4 DEF Elements
<1>6. ASSUME DistinctQueue(queue)
      PROVE  /\ Elements(shorter) = Elements(queue) \ {queue[1]} /\ DistinctQueue(shorter)
  <2>1. ASSUME NEW i \in 1 .. n, i = 1
        PROVE  Elements(shorter) = Elements(queue) \ {queue[i]} /\ DistinctQueue(shorter)
    <3>1. n \in Nat /\ DOMAIN queue = 1 .. n /\ DOMAIN shorter = 1 .. n - 1
      BY <1>1, <1>2
    <3>2. \A j \in 1 .. n - 1 : shorter[j] = IF j < i THEN queue[j] ELSE queue[j + 1]
      BY <1>4, <2>1
    <3>3. QED
      BY <1>6, <3>1, <3>2, RemoveRequest
  <2>2. QED
    BY <1>4, <2>1
<1>7. QED
  BY <1>3, <1>5, <1>6 DEF shorter

LEMMA WithoutRequest ==
    ASSUME NEW S, NEW queue \in Seq(S), NEW i \in DOMAIN queue, DistinctQueue(queue)
    PROVE  /\ Elements(Without(queue, i)) = Elements(queue) \ {queue[i]}
           /\ queue[i] \in Elements(queue) /\ DistinctQueue(Without(queue, i))
<1> DEFINE n == Len(queue)
           shorter == Without(queue, i)
<1>1. n \in Nat /\ DOMAIN queue = 1 .. n
  BY LenProperties
<1>2. /\ DOMAIN shorter = 1 .. n - 1
      /\ \A j \in 1 .. n - 1 : shorter[j] = IF j < i THEN queue[j] ELSE queue[j + 1]
  BY DEF Without
<1> HIDE DEF n, shorter
<1>3. QED
  BY <1>1, <1>2, RemoveRequest DEF shorter

LEMMA EmptyQueue == Elements(<< >>) = {} /\ DistinctQueue(<< >>)
  BY DEF Elements, DistinctQueue

-----------------------------------------------------------------------------
(* Requests that move from place to place                                  *)

LEMMA PlaceKinds ==
    ASSUME NEW a \in Place
    PROVE  \/ \E p \in Ports : a = <<"port", p>> \/ a = <<"input", p>> \/ a = <<"output", p>>
           \/ \E l \in Links : a = <<"serdes", l>> \/ a = <<"response", l>>
           \/ \E c \in Channels : a = <<"work", c>> \/ a = <<"issued", c>> \/ a = <<"returned", c>>
  BY DEF Place

HeldAtPlaces ==
    /\ \A p \in Ports :
          /\ Holds(<<"port", p>>) = OnPort(p)
          /\ Holds(<<"input", p>>) = Elements(inputBuffer[p])
          /\ Holds(<<"output", p>>) = Elements(outputBuffer[p])
    /\ \A l \in Links :
          /\ Holds(<<"serdes", l>>) = {serDesBufferRequest[l]} \ {NULL}
          /\ Holds(<<"response", l>>) = {serDesBufferResponse[l]} \ {NULL}
    /\ \A c \in Channels :
          /\ Holds(<<"work", c>>) = channels[c].work
          /\ Holds(<<"issued", c>>) = Elements(channels[c].issued)
          /\ Holds(<<"returned", c>>) = Elements(channels[c].readReturnQueue)

LEMMA HeldAt == HeldAtPlaces
  BY DEF HeldAtPlaces, Holds

LEMMA HeldAtNext == HeldAtPlaces'
  BY HeldAt, PTL

LEMMA PlacesOf ==
    /\ \A p \in Ports : <<"port", p>> \in Place /\ <<"input", p>> \in Place
                        /\ <<"output", p>> \in Place
    /\ \A l \in Links : <<"serdes", l>> \in Place /\ <<"response", l>> \in Place
    /\ \A c \in Channels : <<"work", c>> \in Place /\ <<"issued", c>> \in Place
                           /\ <<"returned", c>> \in Place
  BY DEF Place

\* What leaves and enters each place, kind by kind.
MovesByKind(Out, In) ==
    /\ \A p \in Ports :
          /\ OnPort(p)' = (OnPort(p) \ Out[<<"port", p>>]) \union In[<<"port", p>>]
          /\ Elements(inputBuffer[p])' =
                (Elements(inputBuffer[p]) \ Out[<<"input", p>>]) \union In[<<"input", p>>]
          /\ Elements(outputBuffer[p])' =
                (Elements(outputBuffer[p]) \ Out[<<"output", p>>]) \union In[<<"output", p>>]
    /\ \A l \in Links :
          /\ {serDesBufferRequest'[l]} \ {NULL} =
                (({serDesBufferRequest[l]} \ {NULL}) \ Out[<<"serdes", l>>])
                \union In[<<"serdes", l>>]
          /\ {serDesBufferResponse'[l]} \ {NULL} =
                (({serDesBufferResponse[l]} \ {NULL}) \ Out[<<"response", l>>])
                \union In[<<"response", l>>]
    /\ \A c \in Channels :
          /\ channels'[c].work = (channels[c].work \ Out[<<"work", c>>]) \union In[<<"work", c>>]
          /\ Elements(channels'[c].issued) =
                (Elements(channels[c].issued) \ Out[<<"issued", c>>]) \union In[<<"issued", c>>]
          /\ Elements(channels'[c].readReturnQueue) =
                (Elements(channels[c].readReturnQueue) \ Out[<<"returned", c>>])
                \union In[<<"returned", c>>]

\* Requests leave places and enter places; those that enter without having left are
\* Fresh, those that leave and enter nowhere are Done.
Moves(Out, In, Done, Fresh) ==
    /\ MovesByKind(Out, In)
    /\ \A a \in Place : Out[a] \subseteq Holds(a)
    /\ \A a, b \in Place : \A t \in In[a], u \in In[b] :
          t.transactionID = u.transactionID => a = b /\ t = u
    /\ \A a \in Place : \A t \in In[a] :
          \/ t.transactionID \in Fresh
          \/ t.transactionID \notin Done
             /\ \E b \in Place : \E u \in Out[b] : u.transactionID = t.transactionID
    /\ \A b \in Place : \A u \in Out[b] :
          \/ u.transactionID \in Done
          \/ \E a \in Place : \E t \in In[a] : t.transactionID = u.transactionID
    /\ \A id \in Fresh : \E a \in Place : \E t \in In[a] : t.transactionID = id
    /\ \A id \in Done : \E b \in Place : \E u \in Out[b] : u.transactionID = id
    /\ Fresh \intersect accepted = {}
    /\ accepted' = (accepted \ Done) \union Fresh

LEMMA MovesAt ==
    ASSUME NEW Out, NEW In, MovesByKind(Out, In)
    PROVE  \A a \in Place : Holds(a)' = (Holds(a) \ Out[a]) \union In[a]
<1> SUFFICES ASSUME NEW a \in Place
             PROVE  Holds(a)' = (Holds(a) \ Out[a]) \union In[a]
  OBVIOUS
<1>1. HeldAtPlaces /\ HeldAtPlaces'
  BY HeldAt, HeldAtNext
<1>2. CASE \E p \in Ports : a = <<"port", p>> \/ a = <<"input", p>> \/ a = <<"output", p>>
  <2>1. PICK p \in Ports : a = <<"port", p>> \/ a = <<"input", p>> \/ a = <<"output", p>>
    BY <1>2
  <2>2. CASE a = <<"port", p>>
    BY <1>1, <2>2 DEF HeldAtPlaces, MovesByKind
  <2>3. CASE a = <<"input", p>>
    BY <1>1, <2>3 DEF HeldAtPlaces, MovesByKind
  <2>4. CASE a = <<"output", p>>
    BY <1>1, <2>4 DEF HeldAtPlaces, MovesByKind
  <2>5. QED
    BY <2>1, <2>2, <2>3, <2>4
<1>3. CASE \E l \in Links : a = <<"serdes", l>> \/ a = <<"response", l>>
  <2>1. PICK l \in Links : a = <<"serdes", l>> \/ a = <<"response", l>>
    BY <1>3
  <2>2. CASE a = <<"serdes", l>>
    BY <1>1, <2>2 DEF HeldAtPlaces, MovesByKind
  <2>3. CASE a = <<"response", l>>
    BY <1>1, <2>3 DEF HeldAtPlaces, MovesByKind
  <2>4. QED
    BY <2>1, <2>2, <2>3
<1>4. CASE \E c \in Channels : a = <<"work", c>> \/ a = <<"issued", c>> \/ a = <<"returned", c>>
  <2>1. PICK c \in Channels : a = <<"work", c>> \/ a = <<"issued", c>> \/ a = <<"returned", c>>
    BY <1>4
  <2>2. CASE a = <<"work", c>>
    BY <1>1, <2>2 DEF HeldAtPlaces, MovesByKind
  <2>3. CASE a = <<"issued", c>>
    BY <1>1, <2>3 DEF HeldAtPlaces, MovesByKind
  <2>4. CASE a = <<"returned", c>>
    BY <1>1, <2>4 DEF HeldAtPlaces, MovesByKind
  <2>5. QED
    BY <2>1, <2>2, <2>3, <2>4
<1>5. QED
  BY <1>2, <1>3, <1>4, PlaceKinds

LEMMA Travel ==
    ASSUME OnePlace, Accounted,
           NEW Out, NEW In, NEW Done, NEW Fresh, Moves(Out, In, Done, Fresh)
    PROVE  OnePlace' /\ Accounted'
<1>0. /\ \A a \in Place : Holds(a)' = (Holds(a) \ Out[a]) \union In[a]
      /\ \A a \in Place : Out[a] \subseteq Holds(a)
      /\ \A a, b \in Place : \A t \in In[a], u \in In[b] :
            t.transactionID = u.transactionID => a = b /\ t = u
      /\ \A a \in Place : \A t \in In[a] :
            \/ t.transactionID \in Fresh
            \/ t.transactionID \notin Done
               /\ \E b \in Place : \E u \in Out[b] : u.transactionID = t.transactionID
      /\ \A b \in Place : \A u \in Out[b] :
            \/ u.transactionID \in Done
            \/ \E a \in Place : \E t \in In[a] : t.transactionID = u.transactionID
      /\ \A id \in Fresh : \E a \in Place : \E t \in In[a] : t.transactionID = id
      /\ \A id \in Done : \E b \in Place : \E u \in Out[b] : u.transactionID = id
      /\ Fresh \intersect accepted = {} /\ accepted' = (accepted \ Done) \union Fresh
  BY MovesAt DEF Moves
<1>1. ASSUME NEW a \in Place, NEW b \in Place, NEW t \in Holds(a), NEW u \in In[b],
             t.transactionID = u.transactionID
      PROVE  t \in Out[a]
  <2>1. t.transactionID \in accepted
    BY DEF Accounted
  <2>2. PICK c, v : c \in Place /\ v \in Out[c] /\ v.transactionID = t.transactionID
    BY <1>0, <1>1, <2>1
  <2>3. v \in Holds(c)
    BY <1>0, <2>2
  <2>4. c = a /\ v = t
    BY <1>0, <2>2, <2>3 DEF OnePlace
  <2>5. QED
    BY <2>2, <2>4
<1>2. OnePlace'
  <2> SUFFICES ASSUME NEW a \in Place, NEW b \in Place, NEW t \in Holds(a)', NEW u \in Holds(b)',
                      t.transactionID = u.transactionID
               PROVE  a = b /\ t = u
    BY DEF OnePlace, Place
  <2>1. t \in Holds(a) \ Out[a] \/ t \in In[a]
    BY <1>0
  <2>2. u \in Holds(b) \ Out[b] \/ u \in In[b]
    BY <1>0
  <2>3. CASE t \in Holds(a) \ Out[a] /\ u \in Holds(b) \ Out[b]
    BY <1>0, <2>3 DEF OnePlace
  <2>4. QED
    BY <1>0, <1>1, <2>1, <2>2, <2>3
<1> DEFINE Before == {t.transactionID : t \in UNION {Holds(a) : a \in Place}}
           After == {t.transactionID : t \in UNION {Holds(a)' : a \in Place}}
<1>3. ASSUME NEW a \in Place, NEW t \in Holds(a)'
      PROVE  t.transactionID \in accepted'
  <2>1. CASE t \in In[a]
    <3>1. CASE t.transactionID \in Fresh
      BY <1>0, <3>1
    <3>2. CASE t.transactionID \notin Fresh
      <4>1. t.transactionID \notin Done
        BY <1>0, <2>1, <3>2
      <4>2. PICK b, u : b \in Place /\ u \in Out[b] /\ u.transactionID = t.transactionID
        BY <1>0, <2>1, <3>2
      <4>3. u \in Holds(b)
        BY <1>0, <4>2
      <4>4. t.transactionID \in accepted
        BY <1>0, <4>2, <4>3 DEF Accounted
      <4>5. QED
        BY <1>0, <4>1, <4>4
    <3>3. QED
      BY <3>1, <3>2
  <2>2. CASE t \in Holds(a) \ Out[a]
    <3>1. t.transactionID \in accepted
      BY <2>2 DEF Accounted
    <3>2. ASSUME t.transactionID \in Done
          PROVE  FALSE
      <4>1. PICK b, u : b \in Place /\ u \in Out[b] /\ u.transactionID = t.transactionID
        BY <1>0, <3>2
      <4>2. u \in Holds(b)
        BY <1>0, <4>1
      <4>3. b = a /\ u = t
        BY <1>0, <2>2, <4>1, <4>2 DEF OnePlace
      <4>4. QED
        BY <1>0, <2>2, <4>1, <4>3
    <3>3. QED
      BY <1>0, <3>1, <3>2
  <2>3. QED
    BY <1>0, <2>1, <2>2
<1>4. ASSUME NEW id \in accepted'
      PROVE  \E a \in Place : \E t \in Holds(a)' : t.transactionID = id
  <2>1. CASE id \in Fresh
    BY <1>0, <2>1
  <2>2. CASE id \in accepted \ Done
    <3>1. PICK a, t : a \in Place /\ t \in Holds(a) /\ t.transactionID = id
      BY <2>2 DEF Accounted
    <3>2. CASE t \in Out[a]
      BY <1>0, <2>2, <3>1, <3>2
    <3>3. CASE t \notin Out[a]
      BY <1>0, <3>1, <3>3
    <3>4. QED
      BY <3>2, <3>3
  <2>3. QED
    BY <1>0, <2>1, <2>2
<1>5. Accounted'
  <2>1. accepted' = After
    BY <1>3, <1>4
  <2>2. QED
    BY <2>1 DEF Accounted, Place
<1>6. QED
  BY <1>2, <1>5

LEMMA NothingMoves ==
    ASSUME OnePlace, Accounted, accepted' = accepted, \A a \in Place : Holds(a)' = Holds(a)
    PROVE  OnePlace' /\ Accounted'
<1>1. OnePlace'
  BY DEF OnePlace, Place
<1>2. QED
  BY <1>1 DEF Accounted, Place

LEMMA Different ==
    ASSUME OnePlace, NEW a \in Place, NEW b \in Place, a # b, NEW t \in Holds(a), NEW u \in Holds(b)
    PROVE  t.transactionID # u.transactionID
  BY DEF OnePlace

\* Requests at two places never have the same id.
LEMMA Apart ==
    ASSUME OnePlace
    PROVE  /\ \A p \in Ports, c \in Channels :
                 \A t \in Elements(inputBuffer[p]), u \in Elements(channels[c].readReturnQueue) :
                     t.transactionID # u.transactionID
           /\ \A p, q \in Ports :
                 \A t \in OnPort(p), u \in Elements(inputBuffer[q]) :
                     t.transactionID # u.transactionID
           /\ \A p \in Ports, l \in Links :
                 \A t \in Elements(outputBuffer[p]) :
                     serDesBufferResponse[l] # NULL =>
                         t.transactionID # serDesBufferResponse[l].transactionID
           /\ \A c, d \in Channels :
                 /\ \A t \in channels[c].work, u \in Elements(channels[d].issued) :
                       t.transactionID # u.transactionID
                 /\ \A t \in Elements(channels[c].issued), u \in Elements(channels[d].readReturnQueue) :
                       t.transactionID # u.transactionID
<1>1. HeldAtPlaces
  BY HeldAt
<1>2. ASSUME NEW p \in Ports, NEW c \in Channels, NEW t \in Elements(inputBuffer[p]),
             NEW u \in Elements(channels[c].readReturnQueue)
      PROVE  t.transactionID # u.transactionID
  <2>1. t \in Holds(<<"input", p>>) /\ u \in Holds(<<"returned", c>>)
    BY <1>1 DEF HeldAtPlaces
  <2>2. <<"input", p>> \in Place /\ <<"returned", c>> \in Place /\ <<"input", p>> # <<"returned", c>>
    BY PlacesOf
  <2>3. QED
    BY <2>1, <2>2, Different
<1>3. ASSUME NEW p \in Ports, NEW q \in Ports, NEW t \in OnPort(p), NEW u \in Elements(inputBuffer[q])
      PROVE  t.transactionID # u.transactionID
  <2>1. t \in Holds(<<"port", p>>) /\ u \in Holds(<<"input", q>>)
    BY <1>1 DEF HeldAtPlaces
  <2>2. <<"port", p>> \in Place /\ <<"input", q>> \in Place /\ <<"port", p>> # <<"input", q>>
    BY PlacesOf
  <2>3. QED
    BY <2>1, <2>2, Different
<1>4. ASSUME NEW p \in Ports, NEW l \in Links, NEW t \in Elements(outputBuffer[p]),
             serDesBufferResponse[l] # NULL
      PROVE  t.transactionID # serDesBufferResponse[l].transactionID
  <2>1. t \in Holds(<<"output", p>>) /\ serDesBufferResponse[l] \in Holds(<<"response", l>>)
    BY <1>1, <1>4 DEF HeldAtPlaces
  <2>2. <<"output", p>> \in Place /\ <<"response", l>> \in Place /\ <<"output", p>> # <<"response", l>>
    BY PlacesOf
  <2>3. QED
    BY <2>1, <2>2, Different
<1>5. ASSUME NEW c \in Channels, NEW d \in Channels, NEW t \in channels[c].work,
             NEW u \in Elements(channels[d].issued)
      PROVE  t.transactionID # u.transactionID
  <2>1. t \in Holds(<<"work", c>>) /\ u \in Holds(<<"issued", d>>)
    BY <1>1 DEF HeldAtPlaces
  <2>2. <<"work", c>> \in Place /\ <<"issued", d>> \in Place /\ <<"work", c>> # <<"issued", d>>
    BY PlacesOf
  <2>3. QED
    BY <2>1, <2>2, Different
<1>6. ASSUME NEW c \in Channels, NEW d \in Channels, NEW t \in Elements(channels[c].issued),
             NEW u \in Elements(channels[d].readReturnQueue)
      PROVE  t.transactionID # u.transactionID
  <2>1. t \in Holds(<<"issued", c>>) /\ u \in Holds(<<"returned", d>>)
    BY <1>1 DEF HeldAtPlaces
  <2>2. <<"issued", c>> \in Place /\ <<"returned", d>> \in Place /\ <<"issued", c>> # <<"returned", d>>
    BY PlacesOf
  <2>3. QED
    BY <2>1, <2>2, Different
<1>7. QED
  BY <1>2, <1>3, <1>4, <1>5, <1>6

\* A response that crosses a link stands for the head of its channel's return queue.
LEMMA OnLink ==
    ASSUME LinksOK, ChannelsOK, HeadOnLink, NEW l \in Links, inFlightResponseLink[l] # NULL,
           NEW c, c = inFlightResponseLink[l].mappedChannel
    PROVE  /\ inFlightResponseLink[l] \in Request
           /\ inFlightResponseLink[l].transactionType = "RETURN_DATA"
           /\ c \in Channels /\ LinkOf(c) = l
           /\ channels[c].readReturnQueue \in Seq(Request)
           /\ channels[c].readReturnQueue # << >>
           /\ Head(channels[c].readReturnQueue) \in Elements(channels[c].readReturnQueue)
           /\ Head(channels[c].readReturnQueue).transactionID =
                 inFlightResponseLink[l].transactionID
<1>1. inFlightResponseLink[l] \in Request
  BY DEF LinksOK, Maybe
<1>2. c \in Channels
  BY <1>1 DEF Request
<1>3. channels[c].readReturnQueue \in Seq(Request) /\ channels[c].readReturnQueue # << >>
  BY <1>2 DEF ChannelsOK, ChannelState, HeadOnLink
<1>4. QED
  BY <1>1, <1>2, <1>3, TailRequest DEF HeadOnLink

LEMMA LinkIDsAre ==
    ASSUME NEW id
    PROVE  id \in LinkIDs <=> \E l \in Links : /\ inFlightResponseLink[l] # NULL
                                               /\ inFlightResponseLink[l].transactionID = id
  BY DEF LinkIDs, IDs

LEMMA LinkIDsReturned ==
    ASSUME LinksOK, ChannelsOK, HeadOnLink, NEW id \in LinkIDs
    PROVE  \E c \in Channels : \E u \in Elements(channels[c].readReturnQueue) :
               u.transactionID = id
<1>1. PICK l \in Links : inFlightResponseLink[l] # NULL /\ inFlightResponseLink[l].transactionID = id
  BY LinkIDsAre
<1>2. QED
  BY <1>1, OnLink

LEMMA SentReadsAre ==
    ASSUME NEW t
    PROVE  t \in SentReads <=>
             \/ IsRead(t) /\ \E l \in Links : t = serDesBufferRequest[l]
             \/ \E c \in Channels : \/ t \in channels[c].work /\ IsRead(t)
                                    \/ t \in Elements(channels[c].issued)
                                    \/ t \in Elements(channels[c].readReturnQueue)
  BY DEF SentReads

\* A read that was sent to its channel is somewhere between the SerDes buffer and the
\* return queue.
ReadsHeld ==
    \A t \in SentReads : \E a \in Place :
        t \in Holds(a) /\ a[1] \in {"serdes", "work", "issued", "returned"}

LEMMA ReadsAreHeld == ReadsHeld
<1> SUFFICES ASSUME NEW t \in SentReads
             PROVE  \E a \in Place :
                       t \in Holds(a) /\ a[1] \in {"serdes", "work", "issued", "returned"}
  BY DEF ReadsHeld
<1>1. CASE IsRead(t) /\ \E l \in Links : t = serDesBufferRequest[l]
  <2>1. PICK l \in Links : t = serDesBufferRequest[l] /\ t # NULL
    BY <1>1 DEF IsRead
  <2>2. /\ t \in Holds(<<"serdes", l>>) /\ <<"serdes", l>> \in Place
        /\ <<"serdes", l>>[1] = "serdes"
    BY <2>1, HeldAt, PlacesOf DEF HeldAtPlaces
  <2>3. QED
    BY <2>2
<1>2. CASE \E d \in Channels : \/ t \in channels[d].work /\ IsRead(t)
                               \/ t \in Elements(channels[d].issued)
                               \/ t \in Elements(channels[d].readReturnQueue)
  <2>1. PICK d \in Channels : \/ t \in channels[d].work
                              \/ t \in Elements(channels[d].issued)
                              \/ t \in Elements(channels[d].readReturnQueue)
    BY <1>2
  <2>2. \/ t \in Holds(<<"work", d>>) \/ t \in Holds(<<"issued", d>>)
        \/ t \in Holds(<<"returned", d>>)
    BY <2>1, HeldAt DEF HeldAtPlaces
  <2>3. /\ <<"work", d>>[1] = "work" /\ <<"issued", d>>[1] = "issued"
        /\ <<"returned", d>>[1] = "returned"
    OBVIOUS
  <2>4. QED
    BY <2>2, <2>3, PlacesOf
<1>3. QED
  BY <1>1, <1>2, SentReadsAre

LEMMA ReadsAreHeldNext == ReadsHeld'
  BY ReadsAreHeld, PTL

-----------------------------------------------------------------------------
(* The actions                                                             *)

\* The CPU's request is new, on a port that has none.
LEMMA RequestsCPU ==
    ASSUME PortsInv, RequestsInv,
           NEW p \in Ports, NEW id \in TransactionIDs, NEW type, NEW c \in Channels,
           PutOnPort(p, id, type, c)
    PROVE  RequestsInv'
<1> DEFINE t == [transactionID |-> id, portID |-> p, mappedChannel |-> c,
                 transactionType |-> type]
           Out == [a \in Place |-> {}]
           In == [a \in Place |-> IF a = <<"port", p>> THEN {t} ELSE {}]
<1>1. /\ inFlightRequest' = [inFlightRequest EXCEPT ![p] = t]
      /\ inFlightRequestHeaderCounter' = [inFlightRequestHeaderCounter EXCEPT ![p] = 1]
      /\ accepted' = accepted \union {id} /\ id \notin accepted
      /\ UNCHANGED bobVars
  BY DEF PutOnPort
<1>2. t.transactionID = id
  OBVIOUS
<1> HIDE DEF t
<1>3. UNCHANGED <<inputBuffer, outputBuffer, serDesBufferRequest, serDesBufferResponse,
                  inFlightResponseLink, pendingReads, channels, error>>
  BY <1>1 DEF bobVars, portVars, requestLinkVars, responseLinkVars
<1>4. ASSUME NEW q \in Ports
      PROVE  OnPort(q)' = OnPort(q) \union (IF q = p THEN {t} ELSE {})
  <2>1. inFlightRequestHeaderCounter[p] = 0
    BY DEF PutOnPort, isPortAvailable, PortsInv
  <2>2. CASE q = p
    BY <1>1, <2>1, <2>2 DEF OnPort, PortsInv
  <2>3. CASE q # p
    BY <1>1, <2>3 DEF OnPort, PortsInv
  <2>4. QED
    BY <2>2, <2>3
<1>5. /\ \A q \in Ports : /\ Out[<<"port", q>>] = {} /\ Out[<<"input", q>>] = {}
                          /\ Out[<<"output", q>>] = {} /\ In[<<"input", q>>] = {}
                          /\ In[<<"output", q>>] = {}
                          /\ In[<<"port", q>>] = IF q = p THEN {t} ELSE {}
      /\ \A l \in Links : /\ Out[<<"serdes", l>>] = {} /\ Out[<<"response", l>>] = {}
                          /\ In[<<"serdes", l>>] = {} /\ In[<<"response", l>>] = {}
      /\ \A d \in Channels : /\ Out[<<"work", d>>] = {} /\ Out[<<"issued", d>>] = {}
                             /\ Out[<<"returned", d>>] = {} /\ In[<<"work", d>>] = {}
                             /\ In[<<"issued", d>>] = {} /\ In[<<"returned", d>>] = {}
  BY PlacesOf
<1>6. \A a \in Place : Out[a] = {} /\ In[a] = IF a = <<"port", p>> THEN {t} ELSE {}
  OBVIOUS
<1> HIDE DEF Out, In
<1>7. MovesByKind(Out, In)
  BY <1>3, <1>4, <1>5 DEF MovesByKind
<1>8. <<"port", p>> \in Place
  BY PlacesOf
<1>9. OnePlace' /\ Accounted'
  <2>1. Moves(Out, In, {}, {id})
    BY <1>1, <1>2, <1>6, <1>7, <1>8 DEF Moves
  <2>2. QED
    BY <2>1, Travel DEF RequestsInv
<1>10. (error = "none" /\ QueuesDistinct /\ ChannelsOwn /\ HeadOnLink /\ ReadsPending)'
  BY <1>3 DEF RequestsInv, QueuesDistinct, ChannelsOwn, HeadOnLink, ReadsPending, SentReads,
     LinkIDs
<1>11. QED
  BY <1>9, <1>10 DEF RequestsInv

\* A request that is sent leaves its port's buffer for the SerDes buffer, and is awaited
\* from now on if it is a read.
LEMMA RequestsSend ==
    ASSUME PortsInv, WiresInv, RequestsInv,
           NEW i \in DOMAIN inputBuffer[priorityPort], SendRequest(i),
           UNCHANGED <<cpuVars, accepted>>
    PROVE  RequestsInv'
<1> DEFINE p == priorityPort
           t == inputBuffer[p][i]
           k == LinkOf(t.mappedChannel)
           Out == [a \in Place |-> IF a = <<"input", p>> THEN {t} ELSE {}]
           In == [a \in Place |-> IF a = <<"serdes", k>> THEN {t} ELSE {}]
<1>1. /\ p \in Ports /\ inputBuffer[p] \in Seq(CPURequest) /\ t \in Request
      /\ DistinctQueue(inputBuffer[p])
  BY ElementOfSeq, LenProperties DEF PortsInv, CPURequest, RequestsInv, QueuesDistinct
<1>2. k \in Links /\ t # NULL
  BY <1>1, LinkOfType, NullAssumption DEF Request
<1>3. /\ serDesBufferRequest[k] = NULL
      /\ serDesBufferRequest' = [serDesBufferRequest EXCEPT ![k] = t]
      /\ inputBuffer' = [inputBuffer EXCEPT ![p] = Without(inputBuffer[p], i)]
      /\ pendingReads' = IF t.transactionType = "DATA_READ"
                         THEN pendingReads \union {t} ELSE pendingReads
      /\ UNCHANGED <<outputBuffer, serDesBufferResponse, inFlightResponseLink, channels, error,
                     accepted, inFlightRequest, inFlightRequestHeaderCounter>>
  BY DEF SendRequest, SendsAt, Sendable, responseLinkVars, cpuVars
<1>4. /\ Elements(Without(inputBuffer[p], i)) = Elements(inputBuffer[p]) \ {t}
      /\ t \in Elements(inputBuffer[p]) /\ DistinctQueue(Without(inputBuffer[p], i))
  BY <1>1, WithoutRequest
<1>5. <<"input", p>> \in Place /\ <<"serdes", k>> \in Place
  BY <1>1, <1>2, PlacesOf
<1> HIDE DEF t, k
<1>6. /\ \A q \in Ports : /\ Out[<<"port", q>>] = {} /\ In[<<"port", q>>] = {}
                          /\ Out[<<"input", q>>] = IF q = p THEN {t} ELSE {}
                          /\ In[<<"input", q>>] = {}
                          /\ Out[<<"output", q>>] = {} /\ In[<<"output", q>>] = {}
      /\ \A l \in Links : /\ Out[<<"serdes", l>>] = {} /\ Out[<<"response", l>>] = {}
                          /\ In[<<"serdes", l>>] = IF l = k THEN {t} ELSE {}
                          /\ In[<<"response", l>>] = {}
      /\ \A d \in Channels : /\ Out[<<"work", d>>] = {} /\ Out[<<"issued", d>>] = {}
                             /\ Out[<<"returned", d>>] = {} /\ In[<<"work", d>>] = {}
                             /\ In[<<"issued", d>>] = {} /\ In[<<"returned", d>>] = {}
  BY PlacesOf
<1>7. \A a \in Place : /\ Out[a] = IF a = <<"input", p>> THEN {t} ELSE {}
                       /\ In[a] = IF a = <<"serdes", k>> THEN {t} ELSE {}
  OBVIOUS
<1> HIDE DEF Out, In
<1>8. ASSUME NEW q \in Ports
      PROVE  /\ OnPort(q)' = OnPort(q)
             /\ inputBuffer'[q] = IF q = p THEN Without(inputBuffer[p], i) ELSE inputBuffer[q]
  BY <1>1, <1>3 DEF PortsInv, OnPort
<1>9. ASSUME NEW l \in Links
      PROVE  serDesBufferRequest'[l] = IF l = k THEN t ELSE serDesBufferRequest[l]
  BY <1>3 DEF WiresInv, LinksOK
<1>10. MovesByKind(Out, In)
  BY <1>2, <1>3, <1>4, <1>6, <1>8, <1>9 DEF MovesByKind
<1>11. OnePlace' /\ Accounted'
  <2>1. \A a \in Place : Out[a] \subseteq Holds(a)
    BY <1>1, <1>4, <1>7, HeldAt DEF HeldAtPlaces
  <2>2. Moves(Out, In, {}, {})
    BY <1>3, <1>5, <1>7, <1>10, <2>1 DEF Moves
  <2>3. QED
    BY <2>2, Travel DEF RequestsInv
<1>12. QueuesDistinct'
  <2>1. \A q \in Ports : DistinctQueue(inputBuffer'[q])
    BY <1>4, <1>8 DEF RequestsInv, QueuesDistinct
  <2>2. QED
    BY <1>3, <2>1 DEF RequestsInv, QueuesDistinct
<1>13. ReadsPending'
  <2>1. t.transactionID \notin LinkIDs
    <3>1. SUFFICES ASSUME t.transactionID \in LinkIDs PROVE FALSE
      OBVIOUS
    <3>2. PICK c \in Channels : \E u \in Elements(channels[c].readReturnQueue) :
               u.transactionID = t.transactionID
      BY <3>1, LinkIDsReturned DEF WiresInv, RequestsInv
    <3>3. QED
      BY <1>1, <1>4, <3>2, Apart DEF RequestsInv
  <2>2. LinkIDs' = LinkIDs
    BY <1>3 DEF LinkIDs
  <2>3. ASSUME NEW u
        PROVE  u \in SentReads' <=> u \in SentReads \/ (u = t /\ IsRead(t))
    <3>1. u \in SentReads' <=>
             \/ IsRead(u) /\ \E l \in Links : u = serDesBufferRequest'[l]
             \/ \E c \in Channels : \/ u \in channels[c].work /\ IsRead(u)
                                    \/ u \in Elements(channels[c].issued)
                                    \/ u \in Elements(channels[c].readReturnQueue)
      BY <1>3 DEF SentReads
    <3>2. IsRead(u) => ((\E l \in Links : u = serDesBufferRequest'[l])
                        <=> (u = t \/ \E l \in Links : u = serDesBufferRequest[l]))
      BY <1>2, <1>3, <1>9 DEF IsRead
    <3>3. QED
      BY <3>1, <3>2, SentReadsAre
  <2>4. IsRead(t) <=> t.transactionType = "DATA_READ"
    BY <1>2 DEF IsRead
  <2>5. pendingReads = {u \in SentReads : u.transactionID \notin LinkIDs}
    BY DEF RequestsInv, ReadsPending
  <2>6. pendingReads' = {u \in SentReads' : u.transactionID \notin LinkIDs'}
    BY <1>3, <2>1, <2>2, <2>3, <2>4, <2>5
  <2>7. QED
    BY <2>6 DEF ReadsPending
<1>14. (error = "none" /\ ChannelsOwn /\ HeadOnLink)'
  BY <1>3 DEF RequestsInv, ChannelsOwn, HeadOnLink
<1>15. QED
  BY <1>11, <1>12, <1>13, <1>14 DEF RequestsInv

\* While nothing moves, the requests are where they were.
LEMMA RequestsStay ==
    ASSUME RequestsInv,
           UNCHANGED <<inputBuffer, outputBuffer, serDesBufferRequest, serDesBufferResponse,
                       channels, accepted, inFlightRequest, inFlightRequestHeaderCounter>>
    PROVE  (OnePlace /\ Accounted /\ QueuesDistinct /\ ChannelsOwn)' /\ SentReads' = SentReads
<1> DEFINE Nobody == [a \in Place |-> {}]
<1>1. \A a \in Place : Nobody[a] = {}
  OBVIOUS
<1>2. \A q \in Ports : OnPort(q)' = OnPort(q)
  BY DEF OnPort
<1> HIDE DEF Nobody
<1>3. MovesByKind(Nobody, Nobody)
  BY <1>1, <1>2, PlacesOf DEF MovesByKind
<1>4. Moves(Nobody, Nobody, {}, {})
  BY <1>1, <1>3 DEF Moves
<1>5. OnePlace' /\ Accounted'
  BY <1>4, Travel DEF RequestsInv
<1>6. QED
  BY <1>5 DEF RequestsInv, QueuesDistinct, ChannelsOwn, SentReads

\* A pending read that is found is the head of the return queue itself.
LEMMA FoundIsHead ==
    ASSUME WiresInv, RequestsInv, NEW c \in Channels, NEW t \in PendingReadOf(c)
    PROVE  /\ channels[c].readReturnQueue # << >>
           /\ t = Head(channels[c].readReturnQueue)
           /\ t \in Request /\ t.mappedChannel = c /\ t.transactionType = "DATA_READ"
           /\ t \in Elements(channels[c].readReturnQueue)
<1> DEFINE queue == channels[c].readReturnQueue
<1>1. queue \in Seq(Request) /\ queue # << >> /\ t \in pendingReads
      /\ t.transactionID = Head(queue).transactionID
  BY DEF WiresInv, ChannelsOK, ChannelState, PendingReadOf
<1>2. Head(queue) \in Elements(queue) /\ Head(queue) \in Request
  BY <1>1, TailRequest, HeadTailProperties
<1>3. Head(queue) \in Holds(<<"returned", c>>) /\ <<"returned", c>> \in Place
  BY <1>2, HeldAt, PlacesOf DEF HeldAtPlaces
<1>4. t \in SentReads
  BY <1>1 DEF RequestsInv, ReadsPending
<1>5. PICK a \in Place : t \in Holds(a)
  BY <1>4, ReadsAreHeld DEF ReadsHeld
<1>6. t = Head(queue)
  BY <1>1, <1>3, <1>5 DEF RequestsInv, OnePlace
<1>7. QED
  BY <1>1, <1>2, <1>6 DEF RequestsInv, ChannelsOwn

LEMMA RequestsNothing ==
    ASSUME RequestsInv,
           UNCHANGED <<inputBuffer, outputBuffer, serDesBufferRequest, serDesBufferResponse,
                       channels, accepted, inFlightRequest, inFlightRequestHeaderCounter,
                       inFlightResponseLink, pendingReads, error>>
    PROVE  RequestsInv'
<1>1. (OnePlace /\ Accounted /\ QueuesDistinct /\ ChannelsOwn)' /\ SentReads' = SentReads
  BY RequestsStay
<1>2. (error = "none" /\ HeadOnLink /\ ReadsPending)'
  BY <1>1 DEF RequestsInv, HeadOnLink, ReadsPending, LinkIDs
<1>3. QED
  BY <1>1, <1>2 DEF RequestsInv

\* A read that starts its way back is the head of the return queue, and is no longer
\* awaited.
LEMMA RequestsStart ==
    ASSUME LinksInv, WiresInv, RequestsInv, StartResponses, UNCHANGED <<cpuVars, accepted>>
    PROVE  RequestsInv'
<1>1. /\ inFlightResponseLink' =
            [l \in Links |-> IF ResponderOf(l) = {} THEN inFlightResponseLink[l]
                             ELSE ResponseOf(CHOOSE c \in ResponderOf(l) : TRUE)]
      /\ pendingReads' = pendingReads \
            UNION {PendingReadOf(c) : c \in {d \in Responders : ~ HasLogicResponse(d)}}
      /\ channels' = [c \in Channels |-> IF c \in Responders /\ HasLogicResponse(c)
                                         THEN [channels[c] EXCEPT !.pendingLogicResponse = NULL]
                                         ELSE channels[c]]
      /\ UNCHANGED <<inputBuffer, outputBuffer, serDesBufferRequest, serDesBufferResponse,
                     accepted, inFlightRequest, inFlightRequestHeaderCounter>>
  BY DEF StartResponses, portVars, requestLinkVars, cpuVars
<1>2. LinksOK /\ ChannelsOK /\ HeadOnLink
  BY DEF WiresInv, RequestsInv
<1>3. \A c \in Channels : ~ HasLogicResponse(c)
  BY DEF HasLogicResponse, LinksInv, SilentChannel
<1>4. channels' = channels
  BY <1>1, <1>3 DEF LinksInv
<1>5. (OnePlace /\ Accounted /\ QueuesDistinct /\ ChannelsOwn)' /\ SentReads' = SentReads
  BY <1>1, <1>4, RequestsStay
<1>6. error' = "none"
  <2>1. error' \in {"none", "response link busy", "countdown is 0"}
    BY DEF StartResponses
  <2>2. WiresInv'
    BY WiresStart
  <2>3. QED
    BY <2>1, <2>2 DEF WiresInv, ControlOK
<1>7. ASSUME NEW l \in Links, NEW c \in ResponderOf(l)
      PROVE  /\ c \in Channels /\ LinkOf(c) = l /\ inFlightResponseLink[l] = NULL
             /\ channels[c].readReturnQueue # << >>
             /\ PendingReadOf(c) = {Head(channels[c].readReturnQueue)}
             /\ inFlightResponseLink'[l] =
                   [Head(channels[c].readReturnQueue) EXCEPT !.transactionType = "RETURN_DATA"]
             /\ Head(channels[c].readReturnQueue) \in Request
             /\ Head(channels[c].readReturnQueue).mappedChannel = c
  <2>1. /\ c \in Channels /\ LinkOf(c) = l /\ LinkIsFree(l) /\ HasResponse(c)
        /\ (CHOOSE d \in ResponderOf(l) : TRUE) = c
    BY <1>2, <1>7, TheResponder
  <2>2. PendingReadOf(c) # {}
    BY <1>3, <2>1 DEF HasResponse
  <2>3. PICK t : t \in PendingReadOf(c)
    BY <2>2
  <2>4. /\ channels[c].readReturnQueue # << >> /\ t = Head(channels[c].readReturnQueue)
        /\ t \in Request /\ t.mappedChannel = c
    BY <2>1, <2>3, FoundIsHead
  <2>5. PendingReadOf(c) = {t}
    BY <2>1, <2>3, <2>4, FoundIsHead
  <2>6. ResponseOf(c) = [t EXCEPT !.transactionType = "RETURN_DATA"]
    BY <1>3, <2>1, <2>5 DEF ResponseOf
  <2>7. inFlightResponseLink[l] = NULL
    BY <1>2, <2>1 DEF LinkIsFree, LinksOK, LinkInStep
  <2>8. inFlightResponseLink'[l] = ResponseOf(c)
    BY <1>1, <1>7, <2>1
  <2>9. QED
    BY <2>1, <2>4, <2>5, <2>6, <2>7, <2>8
<1>8. ASSUME NEW l \in Links, NEW c \in ResponderOf(l)
      PROVE  /\ c \in Channels /\ LinkOf(c) = l /\ inFlightResponseLink[l] = NULL
             /\ channels[c].readReturnQueue # << >>
             /\ inFlightResponseLink'[l] # NULL
             /\ inFlightResponseLink'[l].transactionType = "RETURN_DATA"
             /\ inFlightResponseLink'[l].mappedChannel = c
             /\ inFlightResponseLink'[l].transactionID =
                   Head(channels[c].readReturnQueue).transactionID
  <2> DEFINE h == Head(channels[c].readReturnQueue)
  <2>1. /\ h \in Request /\ h.mappedChannel = c
        /\ inFlightResponseLink'[l] = [h EXCEPT !.transactionType = "RETURN_DATA"]
    BY <1>7, <1>8
  <2> HIDE DEF h
  <2>2. [h EXCEPT !.transactionType = "RETURN_DATA"] \in Request
    BY <2>1 DEF Request
  <2>3. /\ inFlightResponseLink'[l] # NULL
        /\ inFlightResponseLink'[l].transactionType = "RETURN_DATA"
        /\ inFlightResponseLink'[l].mappedChannel = c
        /\ inFlightResponseLink'[l].transactionID = h.transactionID
    BY <2>1, <2>2, NullAssumption DEF Request
  <2>4. /\ c \in Channels /\ LinkOf(c) = l /\ inFlightResponseLink[l] = NULL
        /\ channels[c].readReturnQueue # << >>
    BY <1>7, <1>8
  <2>5. QED
    BY <2>3, <2>4 DEF h
<1>9. HeadOnLink'
  <2>1. ASSUME NEW l \in Links, inFlightResponseLink'[l] # NULL
        PROVE  LET t == inFlightResponseLink'[l]
                   queue == channels'[t.mappedChannel].readReturnQueue
               IN /\ t.transactionType = "RETURN_DATA" /\ LinkOf(t.mappedChannel) = l
                  /\ queue # << >> /\ Head(queue).transactionID = t.transactionID
    <3>1. CASE ResponderOf(l) = {}
      <4>1. inFlightResponseLink'[l] = inFlightResponseLink[l]
        BY <1>1, <3>1
      <4>2. QED
        BY <1>2, <1>4, <2>1, <4>1 DEF HeadOnLink
    <3>2. CASE ResponderOf(l) # {}
      <4>1. PICK c : c \in ResponderOf(l)
        BY <3>2
      <4>2. QED
        BY <1>4, <1>8, <4>1
    <3>3. QED
      BY <3>1, <3>2
  <2>2. QED
    BY <2>1 DEF HeadOnLink
<1>10. ReadsPending'
  <2>1. ASSUME NEW id
        PROVE  id \in LinkIDs' <=>
                 \/ id \in LinkIDs
                 \/ \E l \in Links : \E c \in ResponderOf(l) :
                       id = Head(channels[c].readReturnQueue).transactionID
    <3>1. id \in LinkIDs' <=> \E l \in Links : /\ inFlightResponseLink'[l] # NULL
                                               /\ inFlightResponseLink'[l].transactionID = id
      BY DEF LinkIDs, IDs
    <3>2. ASSUME NEW l \in Links, ResponderOf(l) = {}
          PROVE  inFlightResponseLink'[l] = inFlightResponseLink[l]
      BY <1>1, <3>2
    <3>3. ASSUME NEW l \in Links, NEW c \in ResponderOf(l)
          PROVE  /\ inFlightResponseLink[l] = NULL /\ inFlightResponseLink'[l] # NULL
                 /\ inFlightResponseLink'[l].transactionID =
                       Head(channels[c].readReturnQueue).transactionID
      BY <1>8
    <3>4. QED
      BY <3>1, <3>2, <3>3, LinkIDsAre
  <2>2. ASSUME NEW t \in pendingReads
        PROVE  t \in pendingReads' <=> t.transactionID \notin LinkIDs'
    <3>1. t.transactionID \notin LinkIDs
      BY DEF RequestsInv, ReadsPending
    <3>2. t \in pendingReads' <=> \A l \in Links : \A c \in ResponderOf(l) : t \notin PendingReadOf(c)
      <4>1. pendingReads' = pendingReads \
               UNION {PendingReadOf(c) : c \in {d \in Responders : ~ HasLogicResponse(d)}}
        BY <1>1
      <4>2. \A l \in Links : \A c \in ResponderOf(l) : c \in Channels
        BY <1>8
      <4>3. QED
        BY <1>3, <4>1, <4>2 DEF Responders
    <3>3. ASSUME NEW l \in Links, NEW c \in ResponderOf(l)
          PROVE  t \in PendingReadOf(c) <=>
                     t.transactionID = Head(channels[c].readReturnQueue).transactionID
      BY <1>7 DEF PendingReadOf
    <3>4. QED
      BY <2>1, <3>1, <3>2, <3>3
  <2>3. \A t : t \in pendingReads <=> t \in SentReads /\ t.transactionID \notin LinkIDs
    BY DEF RequestsInv, ReadsPending
  <2>4. pendingReads' \subseteq pendingReads
    BY <1>1
  <2>5. \A t : t.transactionID \in LinkIDs => t.transactionID \in LinkIDs'
    BY <2>1
  <2>6. pendingReads' = {t \in SentReads' : t.transactionID \notin LinkIDs'}
    BY <1>5, <2>2, <2>3, <2>4, <2>5
  <2>7. QED
    BY <2>6 DEF ReadsPending
<1>11. QED
  BY <1>5, <1>6, <1>9, <1>10 DEF RequestsInv

\* A response that has crossed its link goes to the port it names.
LEMMA RequestsMove ==
    ASSUME WiresInv, RequestsInv, MoveSerDes, UNCHANGED <<cpuVars, accepted>>
    PROVE  RequestsInv'
<1> DEFINE R(p) == serDesBufferResponse[priorityLinkBus[p]]
           Taken(l) == \E p \in Ports : TakesResponse(p) /\ priorityLinkBus[p] = l
           Out == [a \in Place |-> IF a[1] = "response" /\ Taken(a[2])
                                   THEN {serDesBufferResponse[a[2]]} ELSE {}]
           In == [a \in Place |-> IF a[1] = "output" /\ TakesResponse(a[2]) THEN {R(a[2])} ELSE {}]
<1>1. /\ outputBuffer' = [p \in Ports |-> IF TakesResponse(p) THEN Append(outputBuffer[p], R(p))
                                          ELSE outputBuffer[p]]
      /\ serDesBufferResponse' =
            [l \in Links |-> IF Taken(l) THEN NULL ELSE serDesBufferResponse[l]]
      /\ UNCHANGED <<inputBuffer, serDesBufferRequest, channels, accepted, inFlightRequest,
                     inFlightRequestHeaderCounter, inFlightResponseLink, pendingReads>>
  BY DEF MoveSerDes, cpuVars
<1>2. error' = "none"
  <2>1. error' \in {"none", "request link busy", "countdown is 0"}
    BY DEF MoveSerDes
  <2>2. WiresInv'
    BY WiresMove
  <2>3. QED
    BY <2>1, <2>2 DEF WiresInv, ControlOK
<1>3. ASSUME NEW p \in Ports, TakesResponse(p)
      PROVE  /\ priorityLinkBus[p] \in Links /\ R(p) # NULL /\ R(p).portID = p
             /\ R(p) \in Request /\ R(p) \in Holds(<<"response", priorityLinkBus[p]>>)
             /\ <<"response", priorityLinkBus[p]>> \in Place
  <2>1. priorityLinkBus[p] \in Links /\ R(p) # NULL /\ R(p).portID = p
    BY <1>3 DEF TakesResponse, WiresInv, PortsOK
  <2>2. R(p) \in Request
    BY <2>1 DEF WiresInv, LinksOK, Maybe
  <2>3. QED
    BY <2>1, <2>2, HeldAt, PlacesOf DEF HeldAtPlaces
<1>4. /\ \A q \in Ports : /\ Out[<<"port", q>>] = {} /\ In[<<"port", q>>] = {}
                          /\ Out[<<"input", q>>] = {} /\ In[<<"input", q>>] = {}
                          /\ Out[<<"output", q>>] = {}
                          /\ In[<<"output", q>>] = IF TakesResponse(q) THEN {R(q)} ELSE {}
      /\ \A l \in Links : /\ Out[<<"serdes", l>>] = {} /\ In[<<"serdes", l>>] = {}
                          /\ Out[<<"response", l>>] = IF Taken(l) THEN {serDesBufferResponse[l]}
                                                      ELSE {}
                          /\ In[<<"response", l>>] = {}
      /\ \A d \in Channels : /\ Out[<<"work", d>>] = {} /\ Out[<<"issued", d>>] = {}
                             /\ Out[<<"returned", d>>] = {} /\ In[<<"work", d>>] = {}
                             /\ In[<<"issued", d>>] = {} /\ In[<<"returned", d>>] = {}
  BY PlacesOf
<1>5. \A a \in Place : \A t \in In[a] : \E p \in Ports :
          a = <<"output", p>> /\ TakesResponse(p) /\ t = R(p)
  BY PlaceKinds
<1>6. \A a \in Place : \A t \in Out[a] : \E p \in Ports :
          a = <<"response", priorityLinkBus[p]>> /\ TakesResponse(p) /\ t = R(p)
  BY PlaceKinds
<1>7. \A p \in Ports : TakesResponse(p) =>
          /\ In[<<"output", p>>] = {R(p)} /\ R(p) \in Out[<<"response", priorityLinkBus[p]>>]
          /\ <<"output", p>> \in Place
  BY <1>3, <1>4, PlacesOf
<1>8. ASSUME NEW p \in Ports, TakesResponse(p)
      PROVE  /\ Elements(Append(outputBuffer[p], R(p))) = Elements(outputBuffer[p]) \union {R(p)}
             /\ DistinctQueue(Append(outputBuffer[p], R(p)))
  <2>1. /\ outputBuffer[p] \in Seq(Request) /\ R(p) \in Request
        /\ DistinctQueue(outputBuffer[p])
    BY <1>3, <1>8 DEF WiresInv, PortsOK, RequestsInv, QueuesDistinct
  <2>2. \A u \in Elements(outputBuffer[p]) : u.transactionID # R(p).transactionID
    BY <1>3, <1>8, Apart DEF RequestsInv
  <2>3. QED
    BY <2>1, <2>2, AppendRequest
<1> HIDE DEF Out, In, R, Taken
<1>9. MovesByKind(Out, In)
  <2>1. \A p \in Ports : OnPort(p)' = OnPort(p)
    BY <1>1 DEF OnPort
  <2>2. \A p \in Ports : Elements(outputBuffer'[p]) =
            (Elements(outputBuffer[p]) \ Out[<<"output", p>>]) \union In[<<"output", p>>]
    BY <1>1, <1>4, <1>8
  <2>3. \A l \in Links : {serDesBufferResponse'[l]} \ {NULL} =
            (({serDesBufferResponse[l]} \ {NULL}) \ Out[<<"response", l>>])
            \union In[<<"response", l>>]
    BY <1>1, <1>4
  <2>4. \A p \in Ports :
            /\ OnPort(p)' = (OnPort(p) \ Out[<<"port", p>>]) \union In[<<"port", p>>]
            /\ Elements(inputBuffer'[p]) =
                  (Elements(inputBuffer[p]) \ Out[<<"input", p>>]) \union In[<<"input", p>>]
    BY <1>1, <1>4, <2>1
  <2>5. \A l \in Links : {serDesBufferRequest'[l]} \ {NULL} =
            (({serDesBufferRequest[l]} \ {NULL}) \ Out[<<"serdes", l>>])
            \union In[<<"serdes", l>>]
    BY <1>1, <1>4
  <2>6. \A c \in Channels :
            /\ channels'[c].work =
                  (channels[c].work \ Out[<<"work", c>>]) \union In[<<"work", c>>]
            /\ Elements(channels'[c].issued) =
                  (Elements(channels[c].issued) \ Out[<<"issued", c>>])
                  \union In[<<"issued", c>>]
            /\ Elements(channels'[c].readReturnQueue) =
                  (Elements(channels[c].readReturnQueue) \ Out[<<"returned", c>>])
                  \union In[<<"returned", c>>]
    BY <1>1, <1>4
  <2>7. QED
    BY <2>2, <2>3, <2>4, <2>5, <2>6 DEF MovesByKind
<1>10. Moves(Out, In, {}, {})
  <2>1. \A a \in Place : Out[a] \subseteq Holds(a)
    BY <1>3, <1>6
  <2>2. ASSUME NEW a \in Place, NEW b \in Place, NEW t \in In[a], NEW u \in In[b],
               t.transactionID = u.transactionID
        PROVE  a = b /\ t = u
    <3>1. PICK p \in Ports : a = <<"output", p>> /\ TakesResponse(p) /\ t = R(p)
      BY <1>5
    <3>2. PICK q \in Ports : b = <<"output", q>> /\ TakesResponse(q) /\ u = R(q)
      BY <1>5
    <3>3. /\ R(p) \in Holds(<<"response", priorityLinkBus[p]>>) /\ R(p).portID = p
          /\ <<"response", priorityLinkBus[p]>> \in Place
      BY <1>3, <3>1
    <3>4. /\ R(q) \in Holds(<<"response", priorityLinkBus[q]>>) /\ R(q).portID = q
          /\ <<"response", priorityLinkBus[q]>> \in Place
      BY <1>3, <3>2
    <3>5. R(p) = R(q)
      BY <2>2, <3>1, <3>2, <3>3, <3>4 DEF RequestsInv, OnePlace
    <3>6. QED
      BY <3>1, <3>2, <3>3, <3>4, <3>5
  <2>3. ASSUME NEW a \in Place, NEW t \in In[a]
        PROVE  \E b \in Place : \E u \in Out[b] : u.transactionID = t.transactionID
    <3>1. PICK p \in Ports : a = <<"output", p>> /\ TakesResponse(p) /\ t = R(p)
      BY <1>5
    <3>2. t \in Out[<<"response", priorityLinkBus[p]>>]
      BY <1>7, <3>1
    <3>3. <<"response", priorityLinkBus[p]>> \in Place
      BY <1>3, <3>1
    <3>4. QED
      BY <3>2, <3>3
  <2>4. ASSUME NEW b \in Place, NEW u \in Out[b]
        PROVE  \E a \in Place : \E t \in In[a] : t.transactionID = u.transactionID
    <3>1. PICK p \in Ports :
              b = <<"response", priorityLinkBus[p]>> /\ TakesResponse(p) /\ u = R(p)
      BY <1>6
    <3>2. u \in In[<<"output", p>>] /\ <<"output", p>> \in Place
      BY <1>7, <3>1
    <3>3. QED
      BY <3>2
  <2>5. QED
    BY <1>1, <1>9, <2>1, <2>2, <2>3, <2>4 DEF Moves
<1>11. OnePlace' /\ Accounted'
  BY <1>10, Travel DEF RequestsInv
<1>12. QueuesDistinct'
  <2>1. \A p \in Ports : DistinctQueue(outputBuffer'[p])
    BY <1>1, <1>8 DEF RequestsInv, QueuesDistinct
  <2>2. QED
    BY <1>1, <2>1 DEF RequestsInv, QueuesDistinct
<1>13. (ChannelsOwn /\ HeadOnLink /\ ReadsPending)'
  <2>1. ChannelsOwn' /\ HeadOnLink'
    BY <1>1 DEF RequestsInv, ChannelsOwn, HeadOnLink
  <2>2. SentReads' = SentReads /\ LinkIDs' = LinkIDs
    BY <1>1 DEF SentReads, LinkIDs, IDs, IsRead
  <2>3. QED
    BY <1>1, <2>1, <2>2 DEF RequestsInv, ReadsPending
<1>14. QED
  BY <1>2, <1>11, <1>12, <1>13 DEF RequestsInv

\* A header that arrives puts the request in the buffer; a response that ends is done.
LEMMA RequestsWrapper ==
    ASSUME PortsInv, WiresInv, RequestsInv, WrapperUpdate
    PROVE  RequestsInv'
<1> DEFINE H(p) == Head(outputBuffer[p])
           Out == [a \in Place |-> IF a[1] = "port" THEN OnPort(a[2])
                                   ELSE IF a[1] = "output" /\ ResponseEnds(a[2]) THEN {H(a[2])}
                                   ELSE {}]
           In == [a \in Place |-> IF a[1] = "input" THEN OnPort(a[2]) ELSE {}]
           Done == {inFlightResponse[p].transactionID : p \in {q \in Ports : ResponseEnds(q)}}
<1>1. /\ inputBuffer' =
            [p \in Ports |-> IF HeaderArrives(p) THEN Append(inputBuffer[p], inFlightRequest[p])
                                                 ELSE inputBuffer[p]]
      /\ inFlightRequestHeaderCounter' =
            [p \in Ports |-> OneLess(inFlightRequestHeaderCounter[p])]
      /\ accepted' = accepted \ Done
      /\ outputBuffer' = [p \in Ports |-> OutputAfter(p)]
      /\ UNCHANGED <<serDesBufferRequest, serDesBufferResponse, channels, inFlightResponseLink,
                     pendingReads, error>>
  BY DEF WrapperUpdate, requestLinkVars, responseLinkVars
<1>2. ASSUME NEW p \in Ports
      PROVE  /\ OnPort(p)' = {}
             /\ Elements(inputBuffer'[p]) = Elements(inputBuffer[p]) \union OnPort(p)
             /\ DistinctQueue(inputBuffer'[p])
  <2>1. /\ inputBuffer[p] \in Seq(CPURequest) /\ DistinctQueue(inputBuffer[p])
        /\ inFlightRequestHeaderCounter[p] \in {0, 1}
    BY DEF PortsInv, RequestsInv, QueuesDistinct
  <2>2. inFlightRequestHeaderCounter'[p] = 0
    BY <1>1, <2>1 DEF OneLess
  <2>3. OnPort(p)' = {}
    BY <2>2 DEF OnPort
  <2>4. CASE inFlightRequestHeaderCounter[p] = 0
    <3>1. OnPort(p) = {} /\ inputBuffer'[p] = inputBuffer[p]
      BY <1>1, <2>4 DEF OnPort, HeaderArrives
    <3>2. QED
      BY <2>1, <2>3, <3>1
  <2>5. CASE inFlightRequestHeaderCounter[p] = 1
    <3>1. /\ OnPort(p) = {inFlightRequest[p]} /\ inFlightRequest[p] \in CPURequest
          /\ inputBuffer'[p] = Append(inputBuffer[p], inFlightRequest[p])
      BY <1>1, <2>5 DEF OnPort, HeaderArrives, PortsInv
    <3>2. \A u \in Elements(inputBuffer[p]) :
              u.transactionID # inFlightRequest[p].transactionID
      BY <3>1, Apart DEF RequestsInv
    <3>3. QED
      BY <2>1, <2>3, <3>1, <3>2, AppendRequest
  <2>6. QED
    BY <2>1, <2>4, <2>5
<1>3. ASSUME NEW p \in Ports, ResponseEnds(p)
      PROVE  /\ H(p) \in Elements(outputBuffer[p]) /\ inFlightResponse[p] = H(p)
             /\ Elements(outputBuffer'[p]) = Elements(outputBuffer[p]) \ {H(p)}
             /\ DistinctQueue(outputBuffer'[p])
  <2>1. outputBuffer[p] # << >> /\ inFlightResponse[p] = H(p)
    BY <1>3, PortCatchesUp DEF WiresInv
  <2>2. outputBuffer[p] \in Seq(Request) /\ DistinctQueue(outputBuffer[p])
    BY DEF WiresInv, PortsOK, RequestsInv, QueuesDistinct
  <2>3. outputBuffer'[p] = Tail(outputBuffer[p])
    BY <1>1, <1>3 DEF OutputAfter
  <2>4. QED
    BY <2>1, <2>2, <2>3, TailRequest
<1>4. ASSUME NEW p \in Ports, ~ ResponseEnds(p)
      PROVE  outputBuffer'[p] = outputBuffer[p]
  BY <1>1, <1>4 DEF OutputAfter
<1>5. /\ \A q \in Ports : /\ Out[<<"port", q>>] = OnPort(q) /\ In[<<"port", q>>] = {}
                          /\ Out[<<"input", q>>] = {} /\ In[<<"input", q>>] = OnPort(q)
                          /\ Out[<<"output", q>>] = IF ResponseEnds(q) THEN {H(q)} ELSE {}
                          /\ In[<<"output", q>>] = {}
      /\ \A l \in Links : /\ Out[<<"serdes", l>>] = {} /\ In[<<"serdes", l>>] = {}
                          /\ Out[<<"response", l>>] = {} /\ In[<<"response", l>>] = {}
      /\ \A d \in Channels : /\ Out[<<"work", d>>] = {} /\ Out[<<"issued", d>>] = {}
                             /\ Out[<<"returned", d>>] = {} /\ In[<<"work", d>>] = {}
                             /\ In[<<"issued", d>>] = {} /\ In[<<"returned", d>>] = {}
  BY PlacesOf
<1>6. \A a \in Place : \A t \in In[a] : \E p \in Ports : a = <<"input", p>> /\ t \in OnPort(p)
  BY PlaceKinds
<1>7. \A a \in Place : \A t \in Out[a] :
          \/ \E p \in Ports : a = <<"port", p>> /\ t \in OnPort(p)
          \/ \E p \in Ports : a = <<"output", p>> /\ ResponseEnds(p) /\ t = H(p)
  BY PlaceKinds
<1>8. \A id \in Done : \E p \in Ports : ResponseEnds(p) /\ id = H(p).transactionID
  BY <1>3
<1>9. \A p \in Ports : ResponseEnds(p) => H(p).transactionID \in Done
  BY <1>3
<1>10. /\ \A p \in Ports : \A t \in OnPort(p) : t \in Holds(<<"port", p>>)
       /\ \A p \in Ports : ResponseEnds(p) => H(p) \in Holds(<<"output", p>>)
  BY <1>3, HeldAt DEF HeldAtPlaces
<1> HIDE DEF Out, In, H, Done
<1>11. MovesByKind(Out, In)
  <2>1. \A p \in Ports : Elements(outputBuffer'[p]) =
            (Elements(outputBuffer[p]) \ Out[<<"output", p>>]) \union In[<<"output", p>>]
    BY <1>3, <1>4, <1>5
  <2>2. QED
    BY <1>1, <1>2, <1>5, <2>1 DEF MovesByKind
<1>12. Moves(Out, In, Done, {})
  <2>1. \A a \in Place : Out[a] \subseteq Holds(a)
    BY <1>7, <1>10
  <2>2. ASSUME NEW a \in Place, NEW b \in Place, NEW t \in In[a], NEW u \in In[b],
               t.transactionID = u.transactionID
        PROVE  a = b /\ t = u
    <3>1. PICK p \in Ports : a = <<"input", p>> /\ t \in OnPort(p)
      BY <1>6
    <3>2. PICK q \in Ports : b = <<"input", q>> /\ u \in OnPort(q)
      BY <1>6
    <3>3. <<"port", p>> \in Place /\ <<"port", q>> \in Place
      BY PlacesOf
    <3>4. <<"port", p>> = <<"port", q>> /\ t = u
      BY <1>10, <2>2, <3>1, <3>2, <3>3 DEF RequestsInv, OnePlace
    <3>5. QED
      BY <3>1, <3>2, <3>4
  <2>3. ASSUME NEW a \in Place, NEW t \in In[a]
        PROVE  /\ t.transactionID \notin Done
               /\ \E b \in Place : \E u \in Out[b] : u.transactionID = t.transactionID
    <3>1. PICK p \in Ports : a = <<"input", p>> /\ t \in OnPort(p)
      BY <1>6
    <3>2. t.transactionID \notin Done
      <4>1. SUFFICES ASSUME t.transactionID \in Done PROVE FALSE
        OBVIOUS
      <4>2. PICK q \in Ports : ResponseEnds(q) /\ t.transactionID = H(q).transactionID
        BY <1>8, <4>1
      <4>3. /\ <<"port", p>> \in Place /\ <<"output", q>> \in Place
            /\ <<"port", p>> # <<"output", q>>
        BY PlacesOf
      <4>4. QED
        BY <1>10, <3>1, <4>2, <4>3, Different DEF RequestsInv
    <3>3. <<"port", p>> \in Place /\ t \in Out[<<"port", p>>]
      BY <1>5, <3>1, PlacesOf
    <3>4. QED
      BY <3>2, <3>3
  <2>4. ASSUME NEW b \in Place, NEW u \in Out[b]
        PROVE  \/ u.transactionID \in Done
               \/ \E a \in Place : \E t \in In[a] : t.transactionID = u.transactionID
    <3>1. CASE \E p \in Ports : b = <<"port", p>> /\ u \in OnPort(p)
      BY <1>5, <3>1, PlacesOf
    <3>2. CASE \E p \in Ports : b = <<"output", p>> /\ ResponseEnds(p) /\ u = H(p)
      BY <1>9, <3>2
    <3>3. QED
      BY <1>7, <3>1, <3>2
  <2>5. ASSUME NEW id \in Done
        PROVE  \E b \in Place : \E u \in Out[b] : u.transactionID = id
    <3>1. PICK p \in Ports : ResponseEnds(p) /\ id = H(p).transactionID
      BY <1>8
    <3>2. H(p) \in Out[<<"output", p>>] /\ <<"output", p>> \in Place
      BY <1>5, <3>1, PlacesOf
    <3>3. QED
      BY <3>1, <3>2
  <2>6. accepted' = (accepted \ Done) \union {}
    BY <1>1
  <2>7. QED
    BY <1>11, <2>1, <2>2, <2>3, <2>4, <2>5, <2>6 DEF Moves
<1>13. OnePlace' /\ Accounted'
  BY <1>12, Travel DEF RequestsInv
<1>14. QueuesDistinct'
  <2>1. \A p \in Ports : DistinctQueue(outputBuffer'[p]) /\ DistinctQueue(inputBuffer'[p])
    BY <1>2, <1>3, <1>4 DEF RequestsInv, QueuesDistinct
  <2>2. QED
    BY <1>1, <2>1 DEF RequestsInv, QueuesDistinct
<1>15. (error = "none" /\ ChannelsOwn /\ HeadOnLink /\ ReadsPending)'
  <2>1. error' = "none" /\ ChannelsOwn' /\ HeadOnLink'
    BY <1>1 DEF RequestsInv, ChannelsOwn, HeadOnLink
  <2>2. SentReads' = SentReads /\ LinkIDs' = LinkIDs
    BY <1>1 DEF SentReads, LinkIDs, IDs, IsRead
  <2>3. QED
    BY <1>1, <2>1, <2>2 DEF RequestsInv, ReadsPending
<1>16. QED
  BY <1>13, <1>14, <1>15 DEF RequestsInv


ReadsOf(S) == {t \in S : t.transactionType = "DATA_READ"}

\* What an Update may do to a channel's transactions: w leaves the work queue, its reads
\* are issued; r returns.
ChannelMoves(x, y, r, w) ==
    /\ r \subseteq Elements(x.issued) /\ w \subseteq x.work
    /\ y.work = x.work \ w
    /\ Elements(y.issued) = (Elements(x.issued) \ r) \union ReadsOf(w)
    /\ Elements(y.readReturnQueue) = Elements(x.readReturnQueue) \union r
    /\ DistinctQueue(y.issued) /\ DistinctQueue(y.readReturnQueue)
    /\ x.readReturnQueue # << >> =>
          /\ y.readReturnQueue # << >>
          /\ Head(y.readReturnQueue) = Head(x.readReturnQueue)

ChannelApart(x) ==
    /\ DistinctQueue(x.issued) /\ DistinctQueue(x.readReturnQueue)
    /\ \A t \in x.work, u \in Elements(x.issued) : t.transactionID # u.transactionID
    /\ \A t \in Elements(x.issued), u \in Elements(x.readReturnQueue) :
          t.transactionID # u.transactionID

\* The oldest read that was issued returns.
LEMMA ReturnsMove ==
    ASSUME NEW x \in SilentChannel, ChannelApart(x), NEW z \in Returns(x)
    PROVE  /\ z \in SilentChannel
           /\ \E r \in SUBSET Elements(x.issued) : ChannelMoves(x, z, r, {})
<1> DEFINE t == Head(x.issued)
<1>1. x.issued \in Seq(Request) /\ x.issued # << >> /\ x.readReturnQueue \in Seq(Request)
  BY DEF Returns, SilentChannel
<1>2. z = [x EXCEPT !.issued = Tail(x.issued),
                    !.readReturnQueue = Append(x.readReturnQueue, t)]
  BY <1>1 DEF Returns
<1>3. Tail(x.issued) \in Seq(Request) /\ t \in Request
  BY <1>1, HeadTailProperties
<1>4. /\ t \in Elements(x.issued) /\ DistinctQueue(Tail(x.issued))
      /\ Elements(Tail(x.issued)) = Elements(x.issued) \ {t}
  BY <1>1, TailRequest DEF ChannelApart
<1>5. Append(x.readReturnQueue, t) \in Seq(Request)
  BY <1>1, <1>3, AppendProperties
<1> HIDE DEF t
<1>6. \A u \in Elements(x.readReturnQueue) : u.transactionID # t.transactionID
  BY <1>4 DEF ChannelApart
<1>7. /\ Elements(Append(x.readReturnQueue, t)) = Elements(x.readReturnQueue) \union {t}
      /\ DistinctQueue(Append(x.readReturnQueue, t))
      /\ x.readReturnQueue # << >> =>
            /\ Append(x.readReturnQueue, t) # << >>
            /\ Head(Append(x.readReturnQueue, t)) = Head(x.readReturnQueue)
  BY <1>1, <1>3, <1>6, AppendRequest DEF ChannelApart
<1>8. /\ z \in SilentChannel /\ z.work = x.work /\ z.issued = Tail(x.issued)
      /\ z.readReturnQueue = Append(x.readReturnQueue, t)
  BY <1>2, <1>3, <1>5 DEF SilentChannel
<1>9. ChannelMoves(x, z, {t}, {})
  BY <1>4, <1>7, <1>8 DEF ChannelMoves, ReadsOf
<1>10. QED
  BY <1>4, <1>8, <1>9

\* One transaction's CAS is sent.
LEMMA SendsMove ==
    ASSUME NEW z \in SilentChannel, ChannelApart(z), NEW y \in Sends(z)
    PROVE  \E w \in SUBSET z.work : ChannelMoves(z, y, {}, w)
<1>1. z.logicWrites = 0
  BY DEF SilentChannel
<1>2. PICK t \in z.work :
         y = [z EXCEPT !.work = z.work \ {t},
                       !.issued = IF t.transactionType = "DATA_READ"
                                  THEN Append(z.issued, t) ELSE z.issued]
  BY <1>1 DEF Sends
<1>3. t \in Request /\ z.issued \in Seq(Request)
  BY DEF SilentChannel
<1>4. /\ y.work = z.work \ {t} /\ y.readReturnQueue = z.readReturnQueue
      /\ y.issued = IF t.transactionType = "DATA_READ" THEN Append(z.issued, t) ELSE z.issued
  BY <1>2 DEF SilentChannel
<1>5. \A u \in Elements(z.issued) : u.transactionID # t.transactionID
  BY DEF ChannelApart
<1>6. /\ Elements(Append(z.issued, t)) = Elements(z.issued) \union {t}
      /\ DistinctQueue(Append(z.issued, t))
  BY <1>3, <1>5, AppendRequest DEF ChannelApart
<1>7. CASE t.transactionType = "DATA_READ"
  <2>1. ReadsOf({t}) = {t}
    BY <1>7 DEF ReadsOf
  <2>2. ChannelMoves(z, y, {}, {t})
    BY <1>4, <1>6, <1>7, <2>1 DEF ChannelMoves, ChannelApart
  <2>3. QED
    BY <2>2
<1>8. CASE t.transactionType # "DATA_READ"
  <2>1. ReadsOf({t}) = {}
    BY <1>8 DEF ReadsOf
  <2>2. ChannelMoves(z, y, {}, {t})
    BY <1>4, <1>8, <2>1 DEF ChannelMoves, ChannelApart
  <2>3. QED
    BY <2>2
<1>9. QED
  BY <1>7, <1>8

LEMMA SilentMoves ==
    ASSUME NEW x \in SilentChannel, ChannelApart(x), NEW y \in AfterUpdate(x)
    PROVE  \E r \in SUBSET Elements(x.issued), w \in SUBSET x.work : ChannelMoves(x, y, r, w)
<1>1. ChannelMoves(x, x, {}, {})
  BY DEF ChannelMoves, ChannelApart, ReadsOf
<1>2. ASSUME NEW z \in {x} \union Returns(x)
      PROVE  /\ z \in SilentChannel
             /\ \E r \in SUBSET Elements(x.issued) : ChannelMoves(x, z, r, {})
  BY <1>1, ReturnsMove
<1>3. ASSUME NEW z \in {x} \union Returns(x)
      PROVE  LogicWrites(z) = {} /\ LogicResponds(z) = {}
  <2>1. z.logicOps = << >>
    BY <1>2 DEF SilentChannel
  <2>2. QED
    BY <2>1 DEF LogicWrites, LogicResponds
<1>4. PICK z \in {x} \union Returns(x) : y = z \/ y \in Sends(z)
  BY <1>3 DEF AfterUpdate
<1>5. PICK r \in SUBSET Elements(x.issued) : ChannelMoves(x, z, r, {})
  BY <1>2
<1>6. CASE y = z
  BY <1>5, <1>6
<1>7. CASE y \in Sends(z)
  <2>1. /\ z.work = x.work /\ Elements(z.issued) = Elements(x.issued) \ r
        /\ Elements(z.readReturnQueue) = Elements(x.readReturnQueue) \union r
        /\ DistinctQueue(z.issued) /\ DistinctQueue(z.readReturnQueue)
    BY <1>5 DEF ChannelMoves, ReadsOf
  <2>2. \A t, u \in Elements(x.issued) : t.transactionID = u.transactionID => t = u
    BY DEF ChannelApart, DistinctQueue, Elements
  <2>3. ChannelApart(z)
    BY <2>1, <2>2 DEF ChannelApart
  <2>4. PICK w \in SUBSET z.work : ChannelMoves(z, y, {}, w)
    BY <1>2, <1>7, <2>3, SendsMove
  <2>5. ChannelMoves(x, y, r, w)
    BY <1>5, <2>1, <2>4 DEF ChannelMoves
  <2>6. QED
    BY <2>1, <2>4, <2>5
<1>8. QED
  BY <1>4, <1>6, <1>7


\* A channel moves its transactions on; a write is done when it leaves the work queue.
LEMMA RequestsChannel ==
    ASSUME LinksInv, WiresInv, RequestsInv, pc = "channels", ChannelStep, UNCHANGED cpuVars
    PROVE  RequestsInv'
<1> DEFINE c == turn
           x == channels[c]
<1>1. c \in Channels /\ x \in SilentChannel
  BY DEF WiresInv, ControlOK, LinksInv
<1>2. PICK y \in AfterUpdate(x) :
         UpdateChannel(y) /\ accepted' = accepted \ WritesSent(x, y)
  BY DEF ChannelStep
<1>3. /\ channels' = [channels EXCEPT ![c] = y]
      /\ UNCHANGED <<inputBuffer, outputBuffer, serDesBufferRequest, serDesBufferResponse,
                     inFlightRequest, inFlightRequestHeaderCounter, inFlightResponseLink,
                     pendingReads, error>>
  BY <1>2 DEF UpdateChannel, portVars, requestLinkVars, responseLinkVars, cpuVars
<1>4. \A d \in Channels : channels'[d] = IF d = c THEN y ELSE channels[d]
  BY <1>1, <1>3 DEF LinksInv
<1>5. ChannelApart(x)
  BY <1>1, Apart DEF ChannelApart, RequestsInv, QueuesDistinct
<1>6. PICK r \in SUBSET Elements(x.issued), w \in SUBSET x.work : ChannelMoves(x, y, r, w)
  BY <1>1, <1>2, <1>5, SilentMoves
<1> DEFINE Out == [a \in Place |-> IF a = <<"work", c>> THEN w
                                   ELSE IF a = <<"issued", c>> THEN r ELSE {}]
           In == [a \in Place |-> IF a = <<"issued", c>> THEN ReadsOf(w)
                                  ELSE IF a = <<"returned", c>> THEN r ELSE {}]
           Done == WritesSent(x, y)
<1>7. /\ y.work = x.work \ w
      /\ Elements(y.issued) = (Elements(x.issued) \ r) \union ReadsOf(w)
      /\ Elements(y.readReturnQueue) = Elements(x.readReturnQueue) \union r
      /\ DistinctQueue(y.issued) /\ DistinctQueue(y.readReturnQueue)
      /\ x.readReturnQueue # << >> =>
            /\ y.readReturnQueue # << >>
            /\ Head(y.readReturnQueue) = Head(x.readReturnQueue)
  BY <1>6 DEF ChannelMoves
<1>8. /\ x.work = Holds(<<"work", c>>) /\ Elements(x.issued) = Holds(<<"issued", c>>)
      /\ <<"work", c>> \in Place /\ <<"issued", c>> \in Place /\ <<"returned", c>> \in Place
  BY <1>1, HeldAt, PlacesOf DEF HeldAtPlaces
<1>9. x.work \subseteq Request
  BY <1>1 DEF SilentChannel
<1>10. \A t \in w : t.transactionType \in {"DATA_READ", "DATA_WRITE"} /\ t.mappedChannel = c
  BY <1>1 DEF RequestsInv, ChannelsOwn
<1>11. \A t \in r : t.transactionType = "DATA_READ" /\ t.mappedChannel = c
  BY <1>1 DEF RequestsInv, ChannelsOwn
<1> HIDE DEF x, c
<1>12. \A id : id \in Done <=> \E t \in w : t.transactionType = "DATA_WRITE" /\ id = t.transactionID
  <2>1. x.work \ y.work = w
    BY <1>7
  <2>2. \A t \in w : t # NULL
    BY <1>9, NullAssumption
  <2>3. QED
    BY <2>1, <2>2 DEF WritesSent, IDs
<1>13. /\ \A q \in Ports : /\ Out[<<"port", q>>] = {} /\ In[<<"port", q>>] = {}
                           /\ Out[<<"input", q>>] = {} /\ In[<<"input", q>>] = {}
                           /\ Out[<<"output", q>>] = {} /\ In[<<"output", q>>] = {}
       /\ \A l \in Links : /\ Out[<<"serdes", l>>] = {} /\ In[<<"serdes", l>>] = {}
                           /\ Out[<<"response", l>>] = {} /\ In[<<"response", l>>] = {}
       /\ \A d \in Channels : /\ Out[<<"work", d>>] = IF d = c THEN w ELSE {}
                              /\ Out[<<"issued", d>>] = IF d = c THEN r ELSE {}
                              /\ Out[<<"returned", d>>] = {}
                              /\ In[<<"work", d>>] = {}
                              /\ In[<<"issued", d>>] = IF d = c THEN ReadsOf(w) ELSE {}
                              /\ In[<<"returned", d>>] = IF d = c THEN r ELSE {}
  BY PlacesOf
<1>14. \A a \in Place : \A t \in In[a] :
          \/ a = <<"issued", c>> /\ t \in w /\ t.transactionType = "DATA_READ"
          \/ a = <<"returned", c>> /\ t \in r
  BY DEF ReadsOf
<1>15. \A a \in Place : \A t \in Out[a] :
          \/ a = <<"work", c>> /\ t \in w
          \/ a = <<"issued", c>> /\ t \in r
  OBVIOUS
<1>16. /\ Out[<<"work", c>>] = w /\ Out[<<"issued", c>>] = r
       /\ In[<<"issued", c>>] = ReadsOf(w) /\ In[<<"returned", c>>] = r
  BY <1>1, <1>13 DEF c
<1> HIDE DEF Out, In, Done
<1>17. MovesByKind(Out, In)
  <2>1. \A q \in Ports : OnPort(q)' = OnPort(q)
    BY <1>3 DEF OnPort
  <2>2. ASSUME NEW d \in Channels
        PROVE  /\ channels'[d].work =
                     (channels[d].work \ Out[<<"work", d>>]) \union In[<<"work", d>>]
               /\ Elements(channels'[d].issued) =
                     (Elements(channels[d].issued) \ Out[<<"issued", d>>])
                     \union In[<<"issued", d>>]
               /\ Elements(channels'[d].readReturnQueue) =
                     (Elements(channels[d].readReturnQueue) \ Out[<<"returned", d>>])
                     \union In[<<"returned", d>>]
    <3>1. CASE d = c
      <4>1. channels'[d] = y /\ channels[d] = x
        BY <1>4, <3>1 DEF x
      <4>2. QED
        BY <1>7, <1>13, <3>1, <4>1
    <3>2. CASE d # c
      BY <1>4, <1>13, <3>2
    <3>3. QED
      BY <3>1, <3>2
  <2>3. \A q \in Ports :
            /\ OnPort(q)' = (OnPort(q) \ Out[<<"port", q>>]) \union In[<<"port", q>>]
            /\ Elements(inputBuffer'[q]) =
                  (Elements(inputBuffer[q]) \ Out[<<"input", q>>]) \union In[<<"input", q>>]
            /\ Elements(outputBuffer'[q]) =
                  (Elements(outputBuffer[q]) \ Out[<<"output", q>>]) \union In[<<"output", q>>]
    BY <1>3, <1>13, <2>1
  <2>4. \A l \in Links :
            /\ {serDesBufferRequest'[l]} \ {NULL} =
                  (({serDesBufferRequest[l]} \ {NULL}) \ Out[<<"serdes", l>>])
                  \union In[<<"serdes", l>>]
            /\ {serDesBufferResponse'[l]} \ {NULL} =
                  (({serDesBufferResponse[l]} \ {NULL}) \ Out[<<"response", l>>])
                  \union In[<<"response", l>>]
    BY <1>3, <1>13
  <2>5. QED
    BY <2>2, <2>3, <2>4 DEF MovesByKind
<1>18. Moves(Out, In, Done, {})
  <2>1. \A a \in Place : Out[a] \subseteq Holds(a)
    BY <1>8, <1>15
  <2>2. ASSUME NEW a \in Place, NEW t \in In[a]
        PROVE  \E b \in Place : /\ t \in Out[b]
                                /\ b = <<"work", c>> => a = <<"issued", c>>
                                                        /\ t.transactionType = "DATA_READ"
                                /\ b # <<"work", c>> => a = <<"returned", c>>
    <3>1. CASE a = <<"issued", c>> /\ t \in w /\ t.transactionType = "DATA_READ"
      BY <1>8, <1>16, <3>1
    <3>2. CASE a = <<"returned", c>> /\ t \in r
      BY <1>8, <1>16, <3>2
    <3>3. QED
      BY <1>14, <3>1, <3>2
  <2>3. ASSUME NEW a \in Place, NEW b \in Place, NEW t \in In[a], NEW u \in In[b],
               t.transactionID = u.transactionID
        PROVE  a = b /\ t = u
    <3>1. PICK f \in Place : /\ t \in Out[f]
                             /\ f = <<"work", c>> => a = <<"issued", c>>
                             /\ f # <<"work", c>> => a = <<"returned", c>>
      BY <2>2
    <3>2. PICK g \in Place : /\ u \in Out[g]
                             /\ g = <<"work", c>> => b = <<"issued", c>>
                             /\ g # <<"work", c>> => b = <<"returned", c>>
      BY <2>2
    <3>3. t \in Holds(f) /\ u \in Holds(g)
      BY <2>1, <3>1, <3>2
    <3>4. f = g /\ t = u
      BY <2>3, <3>3 DEF RequestsInv, OnePlace
    <3>5. QED
      BY <3>1, <3>2, <3>4
  <2>4. ASSUME NEW a \in Place, NEW t \in In[a]
        PROVE  /\ t.transactionID \notin Done
               /\ \E b \in Place : \E u \in Out[b] : u.transactionID = t.transactionID
    <3>1. PICK f \in Place : /\ t \in Out[f]
                             /\ f = <<"work", c>> => t.transactionType = "DATA_READ"
      BY <2>2
    <3>2. SUFFICES ASSUME t.transactionID \in Done PROVE FALSE
      BY <3>1
    <3>3. PICK u \in w : u.transactionType = "DATA_WRITE" /\ t.transactionID = u.transactionID
      BY <1>12, <3>2
    <3>4. u \in Holds(<<"work", c>>) /\ t \in Holds(f)
      BY <1>8, <2>1, <3>1
    <3>5. f = <<"work", c>> /\ t = u
      BY <1>8, <3>3, <3>4 DEF RequestsInv, OnePlace
    <3>6. QED
      BY <3>1, <3>3, <3>5
  <2>5. ASSUME NEW b \in Place, NEW u \in Out[b]
        PROVE  \/ u.transactionID \in Done
               \/ \E a \in Place : \E t \in In[a] : t.transactionID = u.transactionID
    <3>1. CASE b = <<"work", c>> /\ u \in w
      <4>1. CASE u.transactionType = "DATA_READ"
        <5>1. u \in In[<<"issued", c>>]
          BY <1>16, <3>1, <4>1 DEF ReadsOf
        <5>2. QED
          BY <1>8, <5>1
      <4>2. CASE u.transactionType # "DATA_READ"
        BY <1>10, <1>12, <3>1, <4>2
      <4>3. QED
        BY <4>1, <4>2
    <3>2. CASE b = <<"issued", c>> /\ u \in r
      <4>1. u \in In[<<"returned", c>>]
        BY <1>16, <3>2
      <4>2. QED
        BY <1>8, <4>1
    <3>3. QED
      BY <1>15, <3>1, <3>2
  <2>6. ASSUME NEW id \in Done
        PROVE  \E b \in Place : \E u \in Out[b] : u.transactionID = id
    <3>1. PICK u \in w : id = u.transactionID
      BY <1>12
    <3>2. u \in Out[<<"work", c>>]
      BY <1>16
    <3>3. QED
      BY <1>8, <3>1, <3>2
  <2>7. accepted' = (accepted \ Done) \union {}
    BY <1>2 DEF Done
  <2>8. QED
    BY <1>17, <2>1, <2>3, <2>4, <2>5, <2>6, <2>7 DEF Moves
<1>19. OnePlace' /\ Accounted'
  BY <1>18, Travel DEF RequestsInv
<1>20. QueuesDistinct'
  <2>1. \A d \in Channels : /\ DistinctQueue(channels'[d].issued)
                            /\ DistinctQueue(channels'[d].readReturnQueue)
    BY <1>4, <1>7 DEF RequestsInv, QueuesDistinct
  <2>2. QED
    BY <1>3, <2>1 DEF RequestsInv, QueuesDistinct
<1>21. ChannelsOwn'
  <2>1. /\ \A t \in y.work :
              t.mappedChannel = c /\ t.transactionType \in {"DATA_READ", "DATA_WRITE"}
        /\ \A t \in Elements(y.issued) \union Elements(y.readReturnQueue) :
              t.mappedChannel = c /\ t.transactionType = "DATA_READ"
    <3>1. /\ \A t \in x.work :
                t.mappedChannel = c /\ t.transactionType \in {"DATA_READ", "DATA_WRITE"}
          /\ \A t \in Elements(x.issued) \union Elements(x.readReturnQueue) :
                t.mappedChannel = c /\ t.transactionType = "DATA_READ"
      BY <1>1 DEF x, RequestsInv, ChannelsOwn
    <3>2. QED
      BY <1>7, <1>10, <1>11, <3>1 DEF ReadsOf
  <2>2. QED
    BY <1>4, <2>1 DEF RequestsInv, ChannelsOwn
<1>22. HeadOnLink'
  <2>1. \A d \in Channels : channels[d].readReturnQueue # << >> =>
            /\ channels'[d].readReturnQueue # << >>
            /\ Head(channels'[d].readReturnQueue) = Head(channels[d].readReturnQueue)
    BY <1>4, <1>7 DEF x
  <2>2. ASSUME NEW l \in Links, inFlightResponseLink[l] # NULL
        PROVE  LET t == inFlightResponseLink[l]
                   queue == channels'[t.mappedChannel].readReturnQueue
               IN /\ t.transactionType = "RETURN_DATA" /\ LinkOf(t.mappedChannel) = l
                  /\ queue # << >> /\ Head(queue).transactionID = t.transactionID
    BY <2>1, <2>2, OnLink DEF WiresInv, RequestsInv
  <2>3. QED
    BY <1>3, <2>2 DEF HeadOnLink
<1>23. ReadsPending'
  <2>1. ASSUME NEW u
        PROVE  u \in SentReads' <=> u \in SentReads
    <3>1. u \in SentReads' <=>
             \/ IsRead(u) /\ \E l \in Links : u = serDesBufferRequest[l]
             \/ \E d \in Channels : \/ u \in channels'[d].work /\ IsRead(u)
                                    \/ u \in Elements(channels'[d].issued)
                                    \/ u \in Elements(channels'[d].readReturnQueue)
      BY <1>3 DEF SentReads
    <3>2. (u \in y.work /\ IsRead(u)) \/ u \in Elements(y.issued)
                                      \/ u \in Elements(y.readReturnQueue)
          <=> (u \in x.work /\ IsRead(u)) \/ u \in Elements(x.issued)
                                          \/ u \in Elements(x.readReturnQueue)
      <4>1. u \in w => (IsRead(u) <=> u \in ReadsOf(w))
        BY <1>9, NullAssumption DEF IsRead, ReadsOf
      <4>2. u \in ReadsOf(w) => u \in w
        BY DEF ReadsOf
      <4>3. QED
        BY <1>7, <4>1, <4>2
    <3>3. QED
      BY <1>1, <1>4, <3>1, <3>2, SentReadsAre DEF x, c
  <2>2. SentReads' = SentReads
    BY <2>1
  <2>3. LinkIDs' = LinkIDs
    BY <1>3 DEF LinkIDs
  <2>4. QED
    BY <1>3, <2>2, <2>3 DEF RequestsInv, ReadsPending
<1>24. QED
  BY <1>3, <1>19, <1>20, <1>21, <1>22, <1>23 DEF RequestsInv


\* What channel c is given over its link, and the head of its return queue if it has
\* crossed the link the other way.
Gets(c) == {serDesBufferRequest[l] : l \in Delivered(c)}

Gives(c) ==
    IF \E l \in Links : ResponseArrives(l) /\ inFlightResponseLink[l].mappedChannel = c
    THEN {Head(channels[c].readReturnQueue)} ELSE {}

LEMMA RequestCrossed ==
    ASSUME "LOGIC_OPERATION" \notin RequestTypes, LinksInv, WiresInv,
           NEW l \in Links, RequestArrives(l), NEW t, t = serDesBufferRequest[l]
    PROVE  /\ t = inFlightRequestLink[l] /\ t \in Request /\ t # NULL
           /\ t.transactionType \in {"DATA_READ", "DATA_WRITE"}
           /\ t.mappedChannel \in Channels /\ LinkOf(t.mappedChannel) = l
           /\ l \in Delivered(t.mappedChannel)
           /\ Accepts(channels[t.mappedChannel], t)
<1>1. t = inFlightRequestLink[l] /\ t \in Request
  BY Arrivals DEF WiresInv
<1>2. t # NULL /\ t.mappedChannel \in Channels
  BY <1>1, NullAssumption DEF Request
<1>3. t \in CPURequest
  BY <1>2 DEF LinksInv, Maybe
<1>4. t.transactionType \in {"DATA_READ", "DATA_WRITE"}
  BY <1>3, BOBAssumption DEF CPURequest
<1>5. LinkOf(t.mappedChannel) = l /\ WaitingACTS(channels[t.mappedChannel]) < CHANNEL_WORK_Q_MAX
  BY <1>2 DEF LinksInv, RoomIsKept
<1>6. QED
  BY <1>1, <1>2, <1>4, <1>5 DEF Accepts, Delivered

LEMMA ResponseCrossed ==
    ASSUME WiresInv, RequestsInv,
           NEW l \in Links, ResponseArrives(l), NEW t, t = inFlightResponseLink[l],
           NEW c, c = t.mappedChannel
    PROVE  /\ t \in Request /\ t # NULL /\ serDesBufferResponse[l] = NULL
           /\ c \in Channels /\ LinkOf(c) = l
           /\ channels[c].readReturnQueue \in Seq(Request)
           /\ channels[c].readReturnQueue # << >>
           /\ Head(channels[c].readReturnQueue) \in Elements(channels[c].readReturnQueue)
           /\ Head(channels[c].readReturnQueue).transactionID = t.transactionID
<1>1. t \in Request /\ serDesBufferResponse[l] = NULL
  BY Arrivals DEF WiresInv
<1>2. t # NULL
  BY <1>1, NullAssumption
<1>3. QED
  BY <1>1, <1>2, OnLink DEF WiresInv, RequestsInv

\* A channel after the buses have advanced.
LEMMA ChannelAdvances ==
    ASSUME "LOGIC_OPERATION" \notin RequestTypes, LinksInv, WiresInv, RequestsInv,
           NEW c \in Channels, NEW y, y = AfterResponse(c)
    PROVE  /\ y.work = channels[c].work \union Gets(c)
           /\ y.issued = channels[c].issued
           /\ Elements(y.readReturnQueue) = Elements(channels[c].readReturnQueue) \ Gives(c)
           /\ DistinctQueue(y.readReturnQueue)
           /\ Gives(c) = {} => y.readReturnQueue = channels[c].readReturnQueue
           /\ Gives(c) \subseteq Elements(channels[c].readReturnQueue)
<1> DEFINE x == channels[c]
           z == AfterRequest(c)
<1>1. x \in SilentChannel /\ DistinctQueue(x.readReturnQueue)
  BY DEF LinksInv, RequestsInv, QueuesDistinct
<1>2. \A l \in Delivered(c) : l \in Links /\ RequestArrives(l)
                              /\ inFlightRequestLink[l].mappedChannel = c
  BY DEF Delivered
<1>3. \A k, l \in Delivered(c) : k = l
  BY <1>2, RequestCrossed
<1>4. /\ z.work = x.work \union Gets(c) /\ z.issued = x.issued
      /\ z.readReturnQueue = x.readReturnQueue /\ z \in SilentChannel
  <2>1. CASE Delivered(c) = {}
    <3>1. z = x /\ Gets(c) = {}
      BY <2>1 DEF AfterRequest, Gets
    <3>2. QED
      BY <1>1, <3>1
  <2>2. CASE Delivered(c) # {}
    <3> DEFINE l == CHOOSE k \in Delivered(c) : TRUE
               t == inFlightRequestLink[l]
    <3>1. l \in Delivered(c)
      BY <2>2
    <3>2. /\ t \in Request /\ t.transactionType # "LOGIC_OPERATION" /\ Accepts(x, t)
          /\ t = serDesBufferRequest[l]
      BY <1>2, <3>1, RequestCrossed
    <3>3. z = [x EXCEPT !.work = x.work \union {t}]
      BY <3>1, <3>2 DEF AfterRequest, Accept
    <3> HIDE DEF l, t
    <3>4. Gets(c) = {t}
      BY <1>3, <3>1, <3>2 DEF Gets
    <3>5. IsFiniteSet(x.work \union {t})
      BY <1>1, FS_AddElement DEF SilentChannel
    <3>6. QED
      BY <1>1, <3>2, <3>3, <3>4, <3>5 DEF SilentChannel
  <2>3. QED
    BY <2>1, <2>2
<1> HIDE DEF x, z
<1>5. CASE \E l \in Links : ResponseArrives(l) /\ inFlightResponseLink[l].mappedChannel = c
  <2>1. y = [z EXCEPT !.readReturnQueue = Tail(z.readReturnQueue)]
    BY <1>5 DEF AfterResponse, WithoutReturn, z
  <2>2. y.work = z.work /\ y.issued = z.issued /\ y.readReturnQueue = Tail(z.readReturnQueue)
    BY <1>4, <2>1 DEF SilentChannel
  <2>3. /\ x.readReturnQueue \in Seq(Request) /\ x.readReturnQueue # << >>
        /\ Gives(c) = {Head(x.readReturnQueue)}
    BY <1>5, ResponseCrossed DEF x, Gives
  <2>4. /\ Elements(Tail(x.readReturnQueue)) =
              Elements(x.readReturnQueue) \ {Head(x.readReturnQueue)}
        /\ DistinctQueue(Tail(x.readReturnQueue))
        /\ Head(x.readReturnQueue) \in Elements(x.readReturnQueue)
    BY <1>1, <2>3, TailRequest DEF x
  <2>5. QED
    BY <1>4, <2>2, <2>3, <2>4 DEF x
<1>6. CASE ~ \E l \in Links : ResponseArrives(l) /\ inFlightResponseLink[l].mappedChannel = c
  <2>1. y = z /\ Gives(c) = {}
    BY <1>6 DEF AfterResponse, Gives, z
  <2>2. QED
    BY <1>1, <1>4, <2>1 DEF x
<1>7. QED
  BY <1>5, <1>6


\* What crosses a link arrives: a request in its channel's work queue, a response in the
\* SerDes buffer, while the read it answers leaves the head of the return queue.
LEMMA RequestsAdvance ==
    ASSUME "LOGIC_OPERATION" \notin RequestTypes, LinksInv, WiresInv, RequestsInv,
           AdvanceBuses, UNCHANGED <<cpuVars, accepted>>
    PROVE  RequestsInv'
<1> DEFINE Dest(b) == IF b[1] = "serdes"
                      THEN <<"work", serDesBufferRequest[b[2]].mappedChannel>>
                      ELSE <<"response", LinkOf(b[2])>>
           Item(b) == IF b[1] = "serdes" THEN serDesBufferRequest[b[2]]
                      ELSE inFlightResponseLink[LinkOf(b[2])]
           Out == [a \in Place |-> IF a[1] = "serdes" /\ RequestArrives(a[2])
                                   THEN {serDesBufferRequest[a[2]]}
                                   ELSE IF a[1] = "returned" THEN Gives(a[2]) ELSE {}]
           In == [a \in Place |-> IF a[1] = "work" THEN Gets(a[2])
                                  ELSE IF a[1] = "response" /\ ResponseArrives(a[2])
                                  THEN {inFlightResponseLink[a[2]]} ELSE {}]
<1>1. /\ \A l \in Links :
            /\ serDesBufferRequest'[l] =
                  IF RequestArrives(l) THEN NULL ELSE serDesBufferRequest[l]
            /\ inFlightResponseLink'[l] =
                  IF ResponseArrives(l) THEN NULL ELSE inFlightResponseLink[l]
            /\ serDesBufferResponse'[l] =
                  IF ResponseArrives(l) THEN inFlightResponseLink[l] ELSE serDesBufferResponse[l]
      /\ UNCHANGED <<inputBuffer, outputBuffer, accepted, inFlightRequest,
                     inFlightRequestHeaderCounter, pendingReads>>
  BY DEF AdvanceBuses, cpuVars
<1>2. error' = "none" /\ channels' = [c \in Channels |-> AfterResponse(c)]
  <2>1. ~ \E l \in Links : ResponseArrives(l) /\ serDesBufferResponse[l] # NULL
    BY ResponseCrossed
  <2>2. ~ \E l \in Links : RemovesNothing(l)
    BY ResponseCrossed DEF RemovesNothing
  <2>3. error = "none"
    BY DEF AdvanceBuses
  <2>4. QED
    BY <2>1, <2>2, <2>3 DEF AdvanceBuses
<1>3. ASSUME NEW c \in Channels
      PROVE  /\ channels'[c].work = channels[c].work \union Gets(c)
             /\ channels'[c].issued = channels[c].issued
             /\ Elements(channels'[c].readReturnQueue) =
                   Elements(channels[c].readReturnQueue) \ Gives(c)
             /\ DistinctQueue(channels'[c].readReturnQueue)
             /\ Gives(c) = {} =>
                   channels'[c].readReturnQueue = channels[c].readReturnQueue
             /\ Gives(c) \subseteq Elements(channels[c].readReturnQueue)
  <2>1. channels'[c] = AfterResponse(c)
    BY <1>2
  <2>2. QED
    BY <2>1, ChannelAdvances
<1>4. ASSUME NEW c \in Channels, NEW t \in Gets(c)
      PROVE  \E l \in Links : /\ RequestArrives(l) /\ t = serDesBufferRequest[l]
                              /\ t \in Request /\ t # NULL /\ t.mappedChannel = c
                              /\ t.transactionType \in {"DATA_READ", "DATA_WRITE"}
                              /\ LinkOf(c) = l
  <2>1. PICK l \in Delivered(c) : t = serDesBufferRequest[l]
    BY <1>4 DEF Gets
  <2>2. l \in Links /\ RequestArrives(l) /\ inFlightRequestLink[l].mappedChannel = c
    BY <2>1 DEF Delivered
  <2>3. QED
    BY <2>1, <2>2, RequestCrossed
<1>5. ASSUME NEW l \in Links, RequestArrives(l)
      PROVE  LET t == serDesBufferRequest[l]
             IN t # NULL /\ t.mappedChannel \in Channels /\ t \in Gets(t.mappedChannel)
  BY <1>5, RequestCrossed DEF Gets
<1>6. ASSUME NEW c \in Channels, NEW t \in Gives(c)
      PROVE  /\ t \in Elements(channels[c].readReturnQueue)
             /\ ResponseArrives(LinkOf(c)) /\ LinkOf(c) \in Links
             /\ inFlightResponseLink[LinkOf(c)] # NULL
             /\ inFlightResponseLink[LinkOf(c)].transactionID = t.transactionID
  <2>1. PICK l \in Links : ResponseArrives(l) /\ inFlightResponseLink[l].mappedChannel = c
    BY <1>6 DEF Gives
  <2>2. t = Head(channels[c].readReturnQueue)
    BY <1>6 DEF Gives
  <2>3. QED
    BY <2>1, <2>2, ResponseCrossed
<1>7. ASSUME NEW l \in Links, ResponseArrives(l)
      PROVE  \E c \in Channels : /\ LinkOf(c) = l /\ inFlightResponseLink[l] # NULL
                                 /\ serDesBufferResponse[l] = NULL
                                 /\ \E t \in Gives(c) :
                                       t.transactionID = inFlightResponseLink[l].transactionID
  <2> DEFINE c == inFlightResponseLink[l].mappedChannel
  <2>1. /\ c \in Channels /\ LinkOf(c) = l /\ inFlightResponseLink[l] # NULL
        /\ serDesBufferResponse[l] = NULL
        /\ Head(channels[c].readReturnQueue).transactionID =
              inFlightResponseLink[l].transactionID
    BY <1>7, ResponseCrossed
  <2>2. Gives(c) = {Head(channels[c].readReturnQueue)}
    BY <1>7 DEF Gives
  <2>3. QED
    BY <2>1, <2>2
<1>8. /\ \A q \in Ports : /\ Out[<<"port", q>>] = {} /\ In[<<"port", q>>] = {}
                          /\ Out[<<"input", q>>] = {} /\ In[<<"input", q>>] = {}
                          /\ Out[<<"output", q>>] = {} /\ In[<<"output", q>>] = {}
      /\ \A l \in Links : /\ Out[<<"serdes", l>>] = IF RequestArrives(l)
                                                    THEN {serDesBufferRequest[l]} ELSE {}
                          /\ In[<<"serdes", l>>] = {} /\ Out[<<"response", l>>] = {}
                          /\ In[<<"response", l>>] = IF ResponseArrives(l)
                                                     THEN {inFlightResponseLink[l]} ELSE {}
      /\ \A d \in Channels : /\ Out[<<"work", d>>] = {} /\ Out[<<"issued", d>>] = {}
                             /\ Out[<<"returned", d>>] = Gives(d)
                             /\ In[<<"work", d>>] = Gets(d)
                             /\ In[<<"issued", d>>] = {} /\ In[<<"returned", d>>] = {}
  BY PlacesOf
<1>9. \A a \in Place : \A t \in Out[a] :
          \/ \E l \in Links : a = <<"serdes", l>> /\ RequestArrives(l) /\ t = serDesBufferRequest[l]
          \/ \E c \in Channels : a = <<"returned", c>> /\ t \in Gives(c)
  BY PlaceKinds
<1>10. \A a \in Place : \A t \in In[a] :
          \/ \E c \in Channels : a = <<"work", c>> /\ t \in Gets(c)
          \/ \E l \in Links :
                a = <<"response", l>> /\ ResponseArrives(l) /\ t = inFlightResponseLink[l]
  BY PlaceKinds
<1>11. /\ \A l \in Links : /\ Dest(<<"serdes", l>>) =
                                 <<"work", serDesBufferRequest[l].mappedChannel>>
                           /\ Item(<<"serdes", l>>) = serDesBufferRequest[l]
       /\ \A c \in Channels : /\ Dest(<<"returned", c>>) = <<"response", LinkOf(c)>>
                              /\ Item(<<"returned", c>>) = inFlightResponseLink[LinkOf(c)]
  OBVIOUS
<1> HIDE DEF Out, In, Dest, Item
<1>12. MovesByKind(Out, In)
  <2>1. \A q \in Ports : OnPort(q)' = OnPort(q)
    BY <1>1 DEF OnPort
  <2>2. \A q \in Ports :
            /\ OnPort(q)' = (OnPort(q) \ Out[<<"port", q>>]) \union In[<<"port", q>>]
            /\ Elements(inputBuffer'[q]) =
                  (Elements(inputBuffer[q]) \ Out[<<"input", q>>]) \union In[<<"input", q>>]
            /\ Elements(outputBuffer'[q]) =
                  (Elements(outputBuffer[q]) \ Out[<<"output", q>>]) \union In[<<"output", q>>]
    BY <1>1, <1>8, <2>1
  <2>3. ASSUME NEW l \in Links
        PROVE  /\ {serDesBufferRequest'[l]} \ {NULL} =
                     (({serDesBufferRequest[l]} \ {NULL}) \ Out[<<"serdes", l>>])
                     \union In[<<"serdes", l>>]
               /\ {serDesBufferResponse'[l]} \ {NULL} =
                     (({serDesBufferResponse[l]} \ {NULL}) \ Out[<<"response", l>>])
                     \union In[<<"response", l>>]
    <3>1. {serDesBufferRequest'[l]} \ {NULL} =
                     (({serDesBufferRequest[l]} \ {NULL}) \ Out[<<"serdes", l>>])
                     \union In[<<"serdes", l>>]
      BY <1>1, <1>8
    <3>2. {serDesBufferResponse'[l]} \ {NULL} =
                     (({serDesBufferResponse[l]} \ {NULL}) \ Out[<<"response", l>>])
                     \union In[<<"response", l>>]
      <4>1. CASE ResponseArrives(l)
        <5>1. inFlightResponseLink[l] # NULL /\ serDesBufferResponse[l] = NULL
          BY <1>7, <4>1
        <5>2. QED
          BY <1>1, <1>8, <4>1, <5>1
      <4>2. CASE ~ ResponseArrives(l)
        BY <1>1, <1>8, <4>2
      <4>3. QED
        BY <4>1, <4>2
    <3>3. QED
      BY <3>1, <3>2
  <2>4. ASSUME NEW c \in Channels
        PROVE  /\ channels'[c].work =
                     (channels[c].work \ Out[<<"work", c>>]) \union In[<<"work", c>>]
               /\ Elements(channels'[c].issued) =
                     (Elements(channels[c].issued) \ Out[<<"issued", c>>])
                     \union In[<<"issued", c>>]
               /\ Elements(channels'[c].readReturnQueue) =
                     (Elements(channels[c].readReturnQueue) \ Out[<<"returned", c>>])
                     \union In[<<"returned", c>>]
    BY <1>3, <1>8
  <2>5. QED
    BY <2>2, <2>3, <2>4 DEF MovesByKind
<1>13. Moves(Out, In, {}, {})
  <2>1. ASSUME NEW b \in Place, NEW u \in Out[b]
        PROVE  /\ u \in Holds(b) /\ Dest(b) \in Place /\ Item(b) \in In[Dest(b)]
               /\ Item(b).transactionID = u.transactionID
    <3>1. ASSUME NEW l \in Links, b = <<"serdes", l>>, RequestArrives(l),
                 u = serDesBufferRequest[l]
          PROVE  /\ u \in Holds(b) /\ Dest(b) \in Place /\ Item(b) \in In[Dest(b)]
                 /\ Item(b).transactionID = u.transactionID
      <4>1. /\ u # NULL /\ u.mappedChannel \in Channels /\ u \in Gets(u.mappedChannel)
            /\ Dest(b) = <<"work", u.mappedChannel>> /\ Item(b) = u
        BY <1>5, <1>11, <3>1
      <4>2. u \in Holds(b)
        BY <3>1, <4>1, HeldAt DEF HeldAtPlaces
      <4>3. QED
        BY <1>8, <4>1, <4>2, PlacesOf
    <3>2. ASSUME NEW c \in Channels, b = <<"returned", c>>, u \in Gives(c)
          PROVE  /\ u \in Holds(b) /\ Dest(b) \in Place /\ Item(b) \in In[Dest(b)]
                 /\ Item(b).transactionID = u.transactionID
      <4>1. /\ u \in Elements(channels[c].readReturnQueue)
            /\ ResponseArrives(LinkOf(c)) /\ LinkOf(c) \in Links
            /\ inFlightResponseLink[LinkOf(c)].transactionID = u.transactionID
            /\ Dest(b) = <<"response", LinkOf(c)>> /\ Item(b) = inFlightResponseLink[LinkOf(c)]
        BY <1>6, <1>11, <3>2
      <4>2. u \in Holds(b)
        BY <3>2, <4>1, HeldAt DEF HeldAtPlaces
      <4>3. QED
        BY <1>8, <4>1, <4>2, PlacesOf
    <3>3. QED
      BY <1>9, <3>1, <3>2
  <2>2. ASSUME NEW a \in Place, NEW t \in In[a]
        PROVE  \E b \in Place : /\ a = Dest(b) /\ t = Item(b)
                                /\ \E u \in Out[b] : u.transactionID = t.transactionID
    <3>1. ASSUME NEW c \in Channels, a = <<"work", c>>, t \in Gets(c)
          PROVE  \E b \in Place : /\ a = Dest(b) /\ t = Item(b)
                                  /\ \E u \in Out[b] : u.transactionID = t.transactionID
      <4>1. PICK l \in Links : /\ RequestArrives(l) /\ t = serDesBufferRequest[l]
                               /\ t.mappedChannel = c
        BY <1>4, <3>1
      <4>2. a = Dest(<<"serdes", l>>) /\ t = Item(<<"serdes", l>>)
        BY <1>11, <3>1, <4>1
      <4>3. t \in Out[<<"serdes", l>>] /\ <<"serdes", l>> \in Place
        BY <1>8, <4>1, PlacesOf
      <4>4. QED
        BY <4>2, <4>3
    <3>2. ASSUME NEW l \in Links, a = <<"response", l>>, ResponseArrives(l),
                 t = inFlightResponseLink[l]
          PROVE  \E b \in Place : /\ a = Dest(b) /\ t = Item(b)
                                  /\ \E u \in Out[b] : u.transactionID = t.transactionID
      <4>1. PICK c \in Channels :
                 /\ LinkOf(c) = l
                 /\ \E u \in Gives(c) : u.transactionID = inFlightResponseLink[l].transactionID
        BY <1>7, <3>2
      <4>2. a = Dest(<<"returned", c>>) /\ t = Item(<<"returned", c>>)
        BY <1>11, <3>2, <4>1
      <4>3. Out[<<"returned", c>>] = Gives(c) /\ <<"returned", c>> \in Place
        BY <1>8, PlacesOf
      <4>4. QED
        BY <3>2, <4>1, <4>2, <4>3
    <3>3. QED
      BY <1>10, <3>1, <3>2
  <2>3. ASSUME NEW a \in Place, NEW b \in Place, NEW t \in In[a], NEW u \in In[b],
               t.transactionID = u.transactionID
        PROVE  a = b /\ t = u
    <3>1. PICK f \in Place : /\ a = Dest(f) /\ t = Item(f)
                             /\ \E v \in Out[f] : v.transactionID = t.transactionID
      BY <2>2
    <3>2. PICK g \in Place : /\ b = Dest(g) /\ u = Item(g)
                             /\ \E v \in Out[g] : v.transactionID = u.transactionID
      BY <2>2
    <3>3. f = g
      BY <2>1, <2>3, <3>1, <3>2 DEF RequestsInv, OnePlace
    <3>4. QED
      BY <3>1, <3>2, <3>3
  <2>4. \A a \in Place : Out[a] \subseteq Holds(a)
    BY <2>1
  <2>5. \A a \in Place : \A t \in In[a] :
            \E b \in Place : \E u \in Out[b] : u.transactionID = t.transactionID
    BY <2>2
  <2>6. \A b \in Place : \A u \in Out[b] :
            \E a \in Place : \E t \in In[a] : t.transactionID = u.transactionID
    BY <2>1
  <2>7. QED
    BY <1>1, <1>12, <2>3, <2>4, <2>5, <2>6 DEF Moves
<1>14. OnePlace' /\ Accounted'
  BY <1>13, Travel DEF RequestsInv
<1>15. QueuesDistinct'
  <2>1. \A c \in Channels : /\ DistinctQueue(channels'[c].issued)
                            /\ DistinctQueue(channels'[c].readReturnQueue)
    BY <1>3 DEF RequestsInv, QueuesDistinct
  <2>2. QED
    BY <1>1, <2>1 DEF RequestsInv, QueuesDistinct
<1>16. ChannelsOwn'
  <2>1. ASSUME NEW c \in Channels
        PROVE  /\ \A t \in channels'[c].work :
                     t.mappedChannel = c /\ t.transactionType \in {"DATA_READ", "DATA_WRITE"}
               /\ \A t \in Elements(channels'[c].issued)
                           \union Elements(channels'[c].readReturnQueue) :
                     t.mappedChannel = c /\ t.transactionType = "DATA_READ"
    <3>1. /\ \A t \in channels[c].work :
                t.mappedChannel = c /\ t.transactionType \in {"DATA_READ", "DATA_WRITE"}
          /\ \A t \in Elements(channels[c].issued) \union Elements(channels[c].readReturnQueue) :
                t.mappedChannel = c /\ t.transactionType = "DATA_READ"
      BY DEF RequestsInv, ChannelsOwn
    <3>2. QED
      BY <1>3, <1>4, <3>1
  <2>2. QED
    BY <2>1 DEF ChannelsOwn
<1>17. HeadOnLink'
  <2>1. ASSUME NEW l \in Links, inFlightResponseLink'[l] # NULL
        PROVE  LET t == inFlightResponseLink'[l]
                   queue == channels'[t.mappedChannel].readReturnQueue
               IN /\ t.transactionType = "RETURN_DATA" /\ LinkOf(t.mappedChannel) = l
                  /\ queue # << >> /\ Head(queue).transactionID = t.transactionID
    <3> DEFINE t == inFlightResponseLink[l]
               c == t.mappedChannel
    <3>1. ~ ResponseArrives(l) /\ inFlightResponseLink'[l] = t /\ t # NULL
      BY <1>1, <2>1
    <3>2. /\ t.transactionType = "RETURN_DATA" /\ c \in Channels /\ LinkOf(c) = l
          /\ channels[c].readReturnQueue # << >>
          /\ Head(channels[c].readReturnQueue).transactionID = t.transactionID
      BY <3>1, OnLink DEF WiresInv, RequestsInv
    <3>3. Gives(c) = {}
      BY <1>6, <3>1, <3>2
    <3>4. channels'[c].readReturnQueue = channels[c].readReturnQueue
      BY <1>3, <3>2, <3>3
    <3>5. QED
      BY <3>1, <3>2, <3>4
  <2>2. QED
    BY <2>1 DEF HeadOnLink
<1>18. ReadsPending'
  <2>1. \A id : id \in LinkIDs' <=>
            \E l \in Links : /\ ~ ResponseArrives(l) /\ inFlightResponseLink[l] # NULL
                             /\ inFlightResponseLink[l].transactionID = id
    BY <1>1 DEF LinkIDs, IDs
  <2>2. \A u : u \in SentReads' <=>
             \/ IsRead(u) /\ \E l \in Links : u = serDesBufferRequest'[l]
             \/ \E c \in Channels : \/ u \in channels'[c].work /\ IsRead(u)
                                    \/ u \in Elements(channels'[c].issued)
                                    \/ u \in Elements(channels'[c].readReturnQueue)
    BY DEF SentReads, IsRead
  <2>3. ASSUME NEW u \in SentReads'
        PROVE  /\ u \in SentReads
               /\ u.transactionID \notin LinkIDs' => u.transactionID \notin LinkIDs
    <3>1. u \in SentReads
      <4>1. CASE IsRead(u) /\ \E l \in Links : u = serDesBufferRequest'[l]
        <5>1. \E l \in Links : u = serDesBufferRequest[l]
          BY <1>1, <4>1 DEF IsRead
        <5>2. QED
          BY <4>1, <5>1, SentReadsAre
      <4>2. ASSUME NEW c \in Channels, u \in channels'[c].work, IsRead(u)
            PROVE  u \in SentReads
        BY <1>3, <1>4, <4>2, SentReadsAre
      <4>3. ASSUME NEW c \in Channels,
                   \/ u \in Elements(channels'[c].issued)
                   \/ u \in Elements(channels'[c].readReturnQueue)
            PROVE  u \in SentReads
        BY <1>3, <4>3, SentReadsAre
      <4>4. QED
        BY <2>2, <2>3, <4>1, <4>2, <4>3
    <3>2. ASSUME u.transactionID \in LinkIDs, u.transactionID \notin LinkIDs'
          PROVE  FALSE
      <4>1. PICK l \in Links : /\ inFlightResponseLink[l] # NULL
                               /\ inFlightResponseLink[l].transactionID = u.transactionID
        BY <3>2, LinkIDsAre
      <4>2. ResponseArrives(l)
        BY <2>1, <3>2, <4>1
      <4>3. serDesBufferResponse'[l] = inFlightResponseLink[l]
        BY <1>1, <4>2
      <4>4. /\ serDesBufferResponse'[l] \in Holds(<<"response", l>>)'
            /\ <<"response", l>> \in Place /\ <<"response", l>>[1] = "response"
        BY <4>1, <4>3, HeldAtNext, PlacesOf DEF HeldAtPlaces
      <4>5. PICK a \in Place :
                 u \in Holds(a)' /\ a[1] \in {"serdes", "work", "issued", "returned"}
        BY ReadsAreHeldNext DEF ReadsHeld
      <4>6. a # <<"response", l>>
        BY <4>4, <4>5
      <4>7. QED
        BY <1>14, <4>1, <4>3, <4>4, <4>5, <4>6 DEF OnePlace
    <3>3. QED
      BY <3>1, <3>2
  <2>4. ASSUME NEW u \in SentReads, u.transactionID \notin LinkIDs
        PROVE  u \in SentReads' /\ u.transactionID \notin LinkIDs'
    <3>1. u.transactionID \notin LinkIDs'
      BY <2>1, <2>4, LinkIDsAre
    <3>2. CASE IsRead(u) /\ \E l \in Links : u = serDesBufferRequest[l]
      <4>1. PICK l \in Links : u = serDesBufferRequest[l]
        BY <3>2
      <4>2. CASE RequestArrives(l)
        <5>1. u.mappedChannel \in Channels /\ u \in Gets(u.mappedChannel)
          BY <1>5, <4>1, <4>2
        <5>2. u \in channels'[u.mappedChannel].work
          BY <1>3, <5>1
        <5>3. QED
          BY <2>2, <3>1, <3>2, <5>1, <5>2
      <4>3. CASE ~ RequestArrives(l)
        BY <1>1, <2>2, <3>1, <3>2, <4>1, <4>3
      <4>4. QED
        BY <4>2, <4>3
    <3>3. ASSUME NEW c \in Channels, u \in channels[c].work, IsRead(u)
          PROVE  u \in SentReads'
      BY <1>3, <2>2, <3>3
    <3>4. ASSUME NEW c \in Channels, u \in Elements(channels[c].issued)
          PROVE  u \in SentReads'
      BY <1>3, <2>2, <3>4
    <3>5. ASSUME NEW c \in Channels, u \in Elements(channels[c].readReturnQueue)
          PROVE  u \in SentReads'
      <4>1. u \notin Gives(c)
        BY <1>6, <2>4, LinkIDsAre
      <4>2. QED
        BY <1>3, <2>2, <3>5, <4>1
    <3>6. QED
      BY <2>4, <3>1, <3>2, <3>3, <3>4, <3>5, SentReadsAre
  <2>5. pendingReads = {u \in SentReads : u.transactionID \notin LinkIDs}
    BY DEF RequestsInv, ReadsPending
  <2>6. pendingReads' = {u \in SentReads' : u.transactionID \notin LinkIDs'}
    BY <1>1, <2>3, <2>4, <2>5
  <2>7. QED
    BY <2>6 DEF ReadsPending
<1>19. QED
  BY <1>2, <1>14, <1>15, <1>16, <1>17, <1>18 DEF RequestsInv


LEMMA RequestsInit == Init => RequestsInv
<1> SUFFICES ASSUME Init PROVE RequestsInv
  OBVIOUS
<1>1. /\ \A p \in Ports : /\ inputBuffer[p] = << >> /\ outputBuffer[p] = << >>
                          /\ inFlightRequestHeaderCounter[p] = 0
      /\ \A l \in Links : /\ serDesBufferRequest[l] = NULL /\ serDesBufferResponse[l] = NULL
                          /\ inFlightResponseLink[l] = NULL
      /\ \A c \in Channels : /\ channels[c].work = {} /\ channels[c].issued = << >>
                             /\ channels[c].readReturnQueue = << >>
      /\ pendingReads = {} /\ error = "none" /\ accepted = {}
  BY DEF Init, BOBInit, NewChannel
<1>2. /\ \A p \in Ports : /\ OnPort(p) = {} /\ Elements(inputBuffer[p]) = {}
                          /\ Elements(outputBuffer[p]) = {}
      /\ \A c \in Channels : /\ Elements(channels[c].issued) = {}
                             /\ Elements(channels[c].readReturnQueue) = {}
  BY <1>1, EmptyQueue DEF OnPort
<1>3. ASSUME NEW a \in Place
      PROVE  Holds(a) = {}
  <2>1. ASSUME NEW p \in Ports, a \in {<<"port", p>>, <<"input", p>>, <<"output", p>>}
        PROVE  Holds(a) = {}
    BY <1>2, <2>1, HeldAt DEF HeldAtPlaces
  <2>2. ASSUME NEW l \in Links, a \in {<<"serdes", l>>, <<"response", l>>}
        PROVE  Holds(a) = {}
    BY <1>1, <2>2, HeldAt DEF HeldAtPlaces
  <2>3. ASSUME NEW c \in Channels, a \in {<<"work", c>>, <<"issued", c>>, <<"returned", c>>}
        PROVE  Holds(a) = {}
    BY <1>1, <1>2, <2>3, HeldAt DEF HeldAtPlaces
  <2>4. QED
    BY <2>1, <2>2, <2>3, PlaceKinds
<1>4. OnePlace /\ Accounted
  BY <1>1, <1>3 DEF OnePlace, Accounted
<1>5. QueuesDistinct /\ ChannelsOwn /\ HeadOnLink
  BY <1>1, <1>2, EmptyQueue DEF QueuesDistinct, ChannelsOwn, HeadOnLink
<1>6. SentReads = {}
  BY <1>1, <1>2, SentReadsAre DEF IsRead
<1>7. QED
  BY <1>1, <1>4, <1>5, <1>6 DEF RequestsInv, ReadsPending

LEMMA RequestsNext ==
    ASSUME "LOGIC_OPERATION" \notin RequestTypes,
           PortsInv, LinksInv, WiresInv, RequestsInv, [Next]_vars
    PROVE  RequestsInv'
<1>1. CASE CPUStep
  <2>1. PICK id \in TransactionIDs, type \in RequestTypes, c \in Channels :
           \/ \E p \in Ports : AddTransaction(p, id, type, c)
           \/ \E coreID \in Cores : AddRequest(coreID, id, type, c)
    BY <1>1 DEF CPUStep
  <2>2. PICK p : p \in Ports /\ PutOnPort(p, id, type, c)
    BY <2>1, WrapperAssumption DEF AddTransaction, AddRequest, FindOpenPort
  <2>3. QED
    BY <2>2, RequestsCPU
<1>2. CASE WrapperUpdate
  BY <1>2, RequestsWrapper
<1>3. CASE BOBUpdate
  <2>1. ASSUME AdvanceBuses, UNCHANGED <<cpuVars, accepted>> PROVE RequestsInv'
    BY <2>1, RequestsAdvance
  <2>2. ASSUME MoveSerDes, UNCHANGED <<cpuVars, accepted>> PROVE RequestsInv'
    BY <2>2, RequestsMove
  <2>3. ASSUME NEW i \in DOMAIN inputBuffer[priorityPort], SendRequest(i),
               UNCHANGED <<cpuVars, accepted>>
        PROVE  RequestsInv'
    BY <2>3, RequestsSend
  <2>4. ASSUME SendNothing, UNCHANGED <<cpuVars, accepted>> PROVE RequestsInv'
    BY <2>4, RequestsNothing
       DEF SendNothing, portVars, requestLinkVars, responseLinkVars, cpuVars
  <2>5. ASSUME StartResponses, UNCHANGED <<cpuVars, accepted>> PROVE RequestsInv'
    BY <2>5, RequestsStart
  <2>6. ASSUME pc = "channels", ChannelStep, UNCHANGED cpuVars PROVE RequestsInv'
    BY <2>6, RequestsChannel
  <2>7. QED
    BY <1>3, <2>1, <2>2, <2>3, <2>4, <2>5, <2>6 DEF BOBUpdate
<1>4. CASE UNCHANGED vars
  BY <1>4, RequestsNothing
     DEF vars, bobVars, portVars, requestLinkVars, responseLinkVars, cpuVars
<1>5. QED
  BY <1>1, <1>2, <1>3, <1>4 DEF Next

-----------------------------------------------------------------------------
(* What the invariant says of the requests                                 *)

LEMMA HeldType ==
    ASSUME PortsInv, WiresInv, NEW a \in Place, NEW t \in Holds(a)
    PROVE  t \in Request /\ t # NULL
<1>1. ASSUME NEW p \in Ports
      PROVE  /\ OnPort(p) \subseteq Request
             /\ Elements(inputBuffer[p]) \subseteq Request
             /\ Elements(outputBuffer[p]) \subseteq Request
  <2>1. OnPort(p) \subseteq Request
    BY DEF PortsInv, OnPort, CPURequest
  <2>2. inputBuffer[p] \in Seq(CPURequest) /\ outputBuffer[p] \in Seq(Request)
    BY DEF PortsInv, WiresInv, PortsOK
  <2>3. QED
    BY <2>1, <2>2, ElementOfSeq, LenProperties DEF Elements, CPURequest
<1>2. ASSUME NEW l \in Links
      PROVE  /\ {serDesBufferRequest[l]} \ {NULL} \subseteq Request
             /\ {serDesBufferResponse[l]} \ {NULL} \subseteq Request
  BY DEF WiresInv, LinksOK, Maybe
<1>3. ASSUME NEW c \in Channels
      PROVE  /\ channels[c].work \subseteq Request
             /\ Elements(channels[c].issued) \subseteq Request
             /\ Elements(channels[c].readReturnQueue) \subseteq Request
  <2>1. channels[c] \in ChannelState
    BY DEF WiresInv, ChannelsOK
  <2>2. /\ channels[c].work \subseteq Request /\ channels[c].issued \in Seq(Request)
        /\ channels[c].readReturnQueue \in Seq(Request)
    BY <2>1 DEF ChannelState
  <2>3. QED
    BY <2>2, ElementOfSeq, LenProperties DEF Elements
<1>4. t \in Request
  <2>1. ASSUME NEW p \in Ports, a \in {<<"port", p>>, <<"input", p>>, <<"output", p>>}
        PROVE  t \in Request
    BY <1>1, <2>1, HeldAt DEF HeldAtPlaces
  <2>2. ASSUME NEW l \in Links, a \in {<<"serdes", l>>, <<"response", l>>}
        PROVE  t \in Request
    BY <1>2, <2>2, HeldAt DEF HeldAtPlaces
  <2>3. ASSUME NEW c \in Channels, a \in {<<"work", c>>, <<"issued", c>>, <<"returned", c>>}
        PROVE  t \in Request
    <3>1. /\ Holds(<<"work", c>>) = channels[c].work
          /\ Holds(<<"issued", c>>) = Elements(channels[c].issued)
          /\ Holds(<<"returned", c>>) = Elements(channels[c].readReturnQueue)
      BY HeldAt DEF HeldAtPlaces
    <3>2. QED
      BY <1>3, <2>3, <3>1
  <2>4. QED
    BY <2>1, <2>2, <2>3, PlaceKinds
<1>5. QED
  BY <1>4, NullAssumption

\* The requests in the system are the requests at the places: a response on a link counts
\* with the read at the head of the return queue.
LEMMA PlacesAreSystem ==
    ASSUME PortsInv, LinksInv, WiresInv, RequestsInv
    PROVE  accepted = InSystem
<1>1. ASSUME NEW id \in accepted
      PROVE  id \in InSystem
  <2>1. PICK a \in Place : \E t \in Holds(a) : id = t.transactionID
    BY DEF RequestsInv, Accounted
  <2>2. PICK t \in Holds(a) : id = t.transactionID
    BY <2>1
  <2>3. t # NULL
    BY HeldType
  <2>4. ASSUME NEW p \in Ports, a \in {<<"port", p>>, <<"input", p>>, <<"output", p>>}
        PROVE  id \in InSystem
    <3>1. \/ t \in OnPort(p) \/ t \in Elements(inputBuffer[p])
          \/ t \in Elements(outputBuffer[p])
      BY <2>4, HeldAt DEF HeldAtPlaces
    <3>2. t \in BeforeChannel \/ t \in AfterChannel
      BY <3>1 DEF BeforeChannel, AfterChannel
    <3>3. QED
      BY <2>2, <2>3, <3>2 DEF InSystem, IDs
  <2>5. ASSUME NEW l \in Links, a \in {<<"serdes", l>>, <<"response", l>>}
        PROVE  id \in InSystem
    <3>1. t = serDesBufferRequest[l] \/ t = serDesBufferResponse[l]
      BY <2>5, HeldAt DEF HeldAtPlaces
    <3>2. t \in BeforeChannel \/ t \in AfterChannel
      BY <3>1 DEF BeforeChannel, AfterChannel
    <3>3. QED
      BY <2>2, <2>3, <3>2 DEF InSystem, IDs
  <2>6. ASSUME NEW c \in Channels, a \in {<<"work", c>>, <<"issued", c>>, <<"returned", c>>}
        PROVE  id \in InSystem
    <3>1. t \in InChannel(c) \union Returned(c)
      BY <2>6, HeldAt DEF HeldAtPlaces, InChannel, Returned
    <3>2. QED
      BY <2>2, <2>3, <3>1 DEF InSystem, IDs
  <2>7. QED
    BY <2>4, <2>5, <2>6, PlaceKinds
<1>2. ASSUME NEW id \in InSystem
      PROVE  id \in accepted
  <2>1. ASSUME NEW a \in Place, NEW t \in Holds(a), t.transactionID = id
        PROVE  id \in accepted
    BY <2>1 DEF RequestsInv, Accounted
  <2>2. ASSUME NEW t \in BeforeChannel, t # NULL, t.transactionID = id
        PROVE  id \in accepted
    <3>1. ASSUME NEW l \in Links, t = serDesBufferRequest[l]
          PROVE  id \in accepted
      BY <2>1, <2>2, <3>1, HeldAt, PlacesOf DEF HeldAtPlaces
    <3>2. ASSUME NEW p \in Ports, t \in OnPort(p) \union Elements(inputBuffer[p])
          PROVE  id \in accepted
      <4>1. t \in Holds(<<"port", p>>) \/ t \in Holds(<<"input", p>>)
        BY <3>2, HeldAt DEF HeldAtPlaces
      <4>2. <<"port", p>> \in Place /\ <<"input", p>> \in Place
        BY PlacesOf
      <4>3. QED
        BY <2>1, <2>2, <4>1, <4>2
    <3>3. QED
      BY <3>1, <3>2 DEF BeforeChannel
  <2>3. ASSUME NEW t \in AfterChannel, t # NULL, t.transactionID = id
        PROVE  id \in accepted
    <3>1. ASSUME NEW l \in Links, t = inFlightResponseLink[l]
          PROVE  id \in accepted
      <4> DEFINE c == t.mappedChannel
                 u == Head(channels[c].readReturnQueue)
      <4>1. /\ c \in Channels /\ u \in Elements(channels[c].readReturnQueue)
            /\ u.transactionID = id
        BY <2>3, <3>1, OnLink DEF WiresInv, RequestsInv
      <4>2. u \in Holds(<<"returned", c>>) /\ <<"returned", c>> \in Place
        BY <4>1, HeldAt, PlacesOf DEF HeldAtPlaces
      <4>3. QED
        BY <2>1, <4>1, <4>2
    <3>2. ASSUME NEW l \in Links, t = serDesBufferResponse[l]
          PROVE  id \in accepted
      BY <2>1, <2>3, <3>2, HeldAt, PlacesOf DEF HeldAtPlaces
    <3>3. ASSUME NEW p \in Ports, t \in Elements(outputBuffer[p])
          PROVE  id \in accepted
      BY <2>1, <2>3, <3>3, HeldAt, PlacesOf DEF HeldAtPlaces
    <3>4. QED
      BY <3>1, <3>2, <3>3 DEF AfterChannel
  <2>4. ASSUME NEW c \in Channels, NEW t \in InChannel(c) \union Returned(c), t # NULL,
               t.transactionID = id
        PROVE  id \in accepted
    <3>1. Elements(channels[c].logicOps) = {} /\ channels[c].pendingLogicResponse = NULL
      BY EmptyQueue DEF LinksInv, SilentChannel
    <3>2. \/ t \in channels[c].work \/ t \in Elements(channels[c].issued)
          \/ t \in Elements(channels[c].readReturnQueue)
      BY <2>4, <3>1 DEF InChannel, Returned
    <3>3. \/ t \in Holds(<<"work", c>>) \/ t \in Holds(<<"issued", c>>)
          \/ t \in Holds(<<"returned", c>>)
      BY <3>2, HeldAt DEF HeldAtPlaces
    <3>4. <<"work", c>> \in Place /\ <<"issued", c>> \in Place /\ <<"returned", c>> \in Place
      BY PlacesOf
    <3>5. QED
      BY <2>1, <2>4, <3>3, <3>4
  <2>5. QED
    BY <2>2, <2>3, <2>4 DEF InSystem, IDs
<1>3. QED
  BY <1>1, <1>2

LEMMA PendingAreSent ==
    ASSUME PortsInv, LinksInv, WiresInv, RequestsInv
    PROVE  PendingReadsMatch
<1>1. OnResponseLink = LinkIDs
  <2>1. \A l \in Links : inFlightResponseLink[l] # NULL =>
            inFlightResponseLink[l].transactionType = "RETURN_DATA"
    BY DEF RequestsInv, HeadOnLink
  <2>2. QED
    BY <2>1 DEF OnResponseLink, LinkIDs, IDs
<1>2. ASSUME NEW t \in SentReads
      PROVE  t # NULL /\ t.transactionID \in ReadsSentToChannels
  <2>1. t # NULL
    BY ReadsAreHeld, HeldType DEF ReadsHeld
  <2>2. CASE IsRead(t) /\ \E l \in Links : t = serDesBufferRequest[l]
    BY <2>1, <2>2 DEF ReadsSentToChannels, IDs
  <2>3. ASSUME NEW c \in Channels,
               \/ t \in channels[c].work /\ IsRead(t)
               \/ t \in Elements(channels[c].issued)
               \/ t \in Elements(channels[c].readReturnQueue)
        PROVE  t.transactionID \in ReadsSentToChannels
    <3>1. t \in Elements(channels[c].issued) => IsRead(t)
      BY <2>1 DEF RequestsInv, ChannelsOwn, IsRead
    <3>2. t \in {u \in InChannel(c) : IsRead(u)} \union Returned(c)
      BY <2>3, <3>1 DEF InChannel, Returned
    <3>3. QED
      BY <2>1, <3>2 DEF ReadsSentToChannels, IDs
  <2>4. QED
    BY <2>1, <2>2, <2>3, SentReadsAre
<1>3. ASSUME NEW id \in ReadsSentToChannels
      PROVE  \E t \in SentReads : t.transactionID = id
  <2>1. ASSUME NEW l \in Links, IsRead(serDesBufferRequest[l]),
               serDesBufferRequest[l].transactionID = id
        PROVE  \E t \in SentReads : t.transactionID = id
    BY <2>1, SentReadsAre
  <2>2. ASSUME NEW c \in Channels,
               NEW t \in {u \in InChannel(c) : IsRead(u)} \union Returned(c),
               t # NULL, t.transactionID = id
        PROVE  \E u \in SentReads : u.transactionID = id
    <3>1. Elements(channels[c].logicOps) = {} /\ channels[c].pendingLogicResponse = NULL
      BY EmptyQueue DEF LinksInv, SilentChannel
    <3>2. \/ t \in channels[c].work /\ IsRead(t)
          \/ t \in Elements(channels[c].issued)
          \/ t \in Elements(channels[c].readReturnQueue)
      BY <2>2, <3>1 DEF InChannel, Returned
    <3>3. QED
      BY <2>2, <3>2, SentReadsAre
  <2>3. QED
    BY <2>1, <2>2 DEF ReadsSentToChannels, IDs
<1>4. pendingReads = {t \in SentReads : t.transactionID \notin LinkIDs}
  BY DEF RequestsInv, ReadsPending
<1>5. \A id \in LinkIDs : id \in ReadsSentToChannels
  <2>1. ASSUME NEW id \in LinkIDs
        PROVE  id \in ReadsSentToChannels
    <3>1. PICK c \in Channels : \E u \in Elements(channels[c].readReturnQueue) :
                                    u.transactionID = id
      BY LinkIDsReturned DEF WiresInv, RequestsInv
    <3>2. QED
      BY <1>2, <3>1, SentReadsAre
  <2>2. QED
    BY <2>1
<1>6. \A id : id \in IDs(pendingReads) <=>
              \E t \in SentReads : t.transactionID \notin LinkIDs /\ id = t.transactionID
  BY <1>2, <1>4 DEF IDs
<1>7. IDs(pendingReads) \union LinkIDs = ReadsSentToChannels
  BY <1>2, <1>3, <1>5, <1>6
<1>8. IDs(pendingReads) \intersect LinkIDs = {}
  BY <1>6
<1>9. QED
  BY <1>1, <1>7, <1>8 DEF PendingReadsMatch

LEMMA RequestsAlways ==
    ASSUME "LOGIC_OPERATION" \notin RequestTypes
    PROVE  Spec => [](PortsInv /\ LinksInv /\ WiresInv /\ RequestsInv)
<1>1. PortsInv /\ LinksInv /\ WiresInv /\ RequestsInv /\ [Next]_vars
        => PortsInv' /\ LinksInv' /\ WiresInv' /\ RequestsInv'
  BY PortsNext, LinksNext, WiresNext, RequestsNext
<1>2. QED
  BY PortsInit, LinksInit, WiresInit, RequestsInit, <1>1, PTL DEF Spec

\* No request is lost, forgotten or invented: without logic operations the CPU waits for
\* a callback for exactly the requests that are between its ports and their answer, and
\* it gets one callback for each (BOBWrapper.cpp:379, :434-500; BOB.cpp:326, :352).
THEOREM NoRequestLost ==
    ASSUME "LOGIC_OPERATION" \notin RequestTypes
    PROVE  Spec => []RequestsConserved
<1>1. PortsInv /\ LinksInv /\ WiresInv /\ RequestsInv => RequestsConserved
  BY PlacesAreSystem DEF RequestsConserved
<1>2. QED
  BY RequestsAlways, <1>1, PTL

\* None of the exits of BOB::Update is reachable and no read is removed from an empty
\* return queue, without logic operations (BOB.cpp:342, :352, :376, :627, :680).
THEOREM SimulatorNeverExits ==
    ASSUME "LOGIC_OPERATION" \notin RequestTypes
    PROVE  Spec => []BOBNeverExits
<1>1. RequestsInv => BOBNeverExits
  BY DEF RequestsInv, BOBNeverExits
<1>2. QED
  BY RequestsAlways, <1>1, PTL

\* A response that has crossed its link is the head of its channel's return queue, which
\* is what BOB.cpp:352 removes, without logic operations.
THEOREM LinksTransferHeads ==
    ASSUME "LOGIC_OPERATION" \notin RequestTypes
    PROVE  Spec => []LinkTransfersHead
<1>1. RequestsInv => LinkTransfersHead
  BY DEF RequestsInv, HeadOnLink, LinkTransfersHead
<1>2. QED
  BY RequestsAlways, <1>1, PTL

\* The reads BOB searches its list of pending reads for are the reads that were sent to
\* the channels and are not yet on their way back, without logic operations (BOB.cpp:522,
\* :645-688).
THEOREM PendingReadsCorrect ==
    ASSUME "LOGIC_OPERATION" \notin RequestTypes
    PROVE  Spec => []PendingReadsMatch
<1>1. PortsInv /\ LinksInv /\ WiresInv /\ RequestsInv => PendingReadsMatch
  BY PendingAreSent
<1>2. QED
  BY RequestsAlways, <1>1, PTL

=============================================================================
