----------------------------- MODULE LogicLayer -----------------------------
(***************************************************************************)
(* The logic layer of a channel (LogicLayerInterface.cpp).  It executes    *)
(* one logic operation after the other: a PAGE_FILL becomes writes, a      *)
(* MEM_COPY reads and, for each datum that comes back, a write, a          *)
(* PAGE_TABLE_WALK reads; the response follows when the operation has been *)
(* carried out.  The layer hands its requests to the channel one per       *)
(* Update, through the function the main controller uses.                  *)
(*                                                                         *)
(* A layer is a value.  Update is the composition, in the order of the     *)
(* code, of AfterSend, AfterTake and AfterData; the channel (LogicChannel) *)
(* decides whether the head of the outgoing queue is accepted.             *)
(***************************************************************************)
EXTENDS DRAMParams, Sequences

CONSTANTS
    NUM_BANKS, NUM_ROWS, NUM_COLS, NUM_CHANNELS,
    BUS_ALIGNMENT_SIZE, CACHE_LINE_SIZE, QEMU_MEMORY_SIZE, mappingScheme, UINT_BITS

INSTANCE AddressMapping

LogicTypes == {"PAGE_FILL", "MEM_COPY", "PAGE_TABLE_WALK"}

\* A transaction that carries a logic operation; one whose logicOpContents is NULL has
\* the logicType "NO_CONTENTS".
LogicOperations ==
    [transactionType : {"LOGIC_OPERATION"}, logicType : LogicTypes, address : Nat,
     arguments : Seq(Nat)]

NewLayer ==
    [currentTransaction |-> NULL,    \* the operation being carried out
     pendingLogicOpsQueue |-> << >>, \* the operations after it
     newOperationQueue |-> << >>,    \* addresses whose data has come back
     outgoingQueue |-> << >>,        \* what is to be sent to the channel
     issuedRequests |-> 0,           \* data received for the current operation
     error |-> "none"]               \* why the simulator exited

ReceiveLogicOperation(layer, op) == [layer EXCEPT !.pendingLogicOpsQueue = Append(@, op)]

ReceiveData(layer, address) == [layer EXCEPT !.newOperationQueue = Append(@, address)]

-----------------------------------------------------------------------------
(* Update: the head of the outgoing queue is sent                          *)

Request(type, address) == [transactionType |-> type, address |-> address]

\* The operation's own transaction, its type changed, is the response.
ResponseTo(op) == [op EXCEPT !.transactionType = "LOGIC_RESPONSE"]

\* Bug: the layer goes on with the next operation as soon as one request is out.
AfterAnySend(layer) ==
    [layer EXCEPT !.outgoingQueue = Tail(@), !.currentTransaction = NULL]

\* Bug: the operation that is answered stays the current one.
AfterSendKept(layer) == [layer EXCEPT !.outgoingQueue = Tail(@)]

\* The code reads the type of the head after it has been sent.  A write has been
\* deleted by then (SimpleController.cpp:626 and :652); what is found in its place is
\* the allocator's or the first byte of a packet, which is no LOGIC_RESPONSE.
AfterSend(layer) ==
    [layer EXCEPT
        !.outgoingQueue = Tail(@),
        !.currentTransaction =
            IF Head(layer.outgoingQueue).transactionType = "LOGIC_RESPONSE" THEN NULL ELSE @]

-----------------------------------------------------------------------------
(* Update: the next operation is taken                                     *)

Pages(type, start, n) ==
    [i \in 1 .. n |-> Request(type, start + (i - 1) * LogicStride)]

\* A fill's arguments are its number of pages and a pattern, a copy's its
\* destination and size, a walk's the addresses to read.
RequestsOf(op) ==
    CASE op.logicType = "PAGE_FILL" ->
           Append(Pages("DATA_WRITE", op.address, op.arguments[1]), ResponseTo(op))
      [] op.logicType = "MEM_COPY" ->
           Pages("DATA_READ", op.address, op.arguments[2])
      [] op.logicType = "PAGE_TABLE_WALK" ->
           [i \in DOMAIN op.arguments |-> Request("DATA_READ", op.arguments[i])]

Malformed(op) ==
    \/ op.logicType \notin LogicTypes
    \/ op.logicType # "PAGE_TABLE_WALK" /\ Len(op.arguments) # 2

AfterTake(layer) ==
    IF layer.currentTransaction # NULL \/ layer.pendingLogicOpsQueue = << >> THEN layer
    ELSE LET op == Head(layer.pendingLogicOpsQueue) IN
         IF op.logicType = "NO_CONTENTS" THEN [layer EXCEPT !.error = "no contents"]
         ELSE IF Malformed(op) THEN [layer EXCEPT !.error = "malformed operation"]
         ELSE [layer EXCEPT !.pendingLogicOpsQueue = Tail(@),
                            !.currentTransaction = op,
                            !.outgoingQueue = @ \o RequestsOf(op)]

-----------------------------------------------------------------------------
(* Update: a datum that has come back is used                              *)

\* Bug: the response does not wait for the last datum.
CountedEarly(layer, op, requests) ==
    IF layer.issuedRequests + 1 = requests - 1
    THEN [layer EXCEPT !.issuedRequests = 0, !.outgoingQueue = Append(@, ResponseTo(op))]
    ELSE [layer EXCEPT !.issuedRequests = @ + 1]

\* One more datum; the last one makes the response.
Counted(layer, op, requests) ==
    IF layer.issuedRequests + 1 = requests
    THEN [layer EXCEPT !.issuedRequests = 0, !.outgoingQueue = Append(@, ResponseTo(op))]
    ELSE [layer EXCEPT !.issuedRequests = @ + 1]

AfterData(layer) ==
    IF layer.newOperationQueue = << >> THEN layer
    ELSE LET op == layer.currentTransaction
             address == Head(layer.newOperationQueue)
             used == [layer EXCEPT !.newOperationQueue = Tail(@)]
         IN CASE op = NULL -> [layer EXCEPT !.error = "data without an operation"]
              [] op # NULL /\ op.logicType = "MEM_COPY" ->
                   Counted([used EXCEPT !.outgoingQueue =
                               Append(@, Request("DATA_WRITE",
                                         address - op.address + op.arguments[1]))],
                           op, op.arguments[2])
              [] op # NULL /\ op.logicType = "PAGE_TABLE_WALK" ->
                   Counted(used, op, Len(op.arguments))
              [] OTHER -> [layer EXCEPT !.error = "data for a fill"]

=============================================================================
