---------------------------- MODULE LogicChannel ----------------------------
(***************************************************************************)
(* A DRAM channel with its logic layer (DRAMChannel.cpp,                   *)
(* LogicLayerInterface.cpp): DRAMChannel, whose logic traffic came from    *)
(* nowhere, composed with LogicLayer, whose requests are mapped to a rank, *)
(* bank and row as SimpleController::AddTransaction does (AddressMapping). *)
(*                                                                         *)
(* DRAMChannel::Update is two steps here.  LayerUpdate is what the layer   *)
(* does, after the data that arrives in this cycle has been handed to it   *)
(* and before the controller's turn; Update is the rest.  The main         *)
(* controller acts between the Updates only.                               *)
(***************************************************************************)
EXTENDS DRAMChannel, LogicLayer

VARIABLES
    layer,
    pendingLogicResponse,
    addressOf,            \* the address in the packets of a read of the layer
    layerUpdated          \* between the two steps of Update

logicVars == <<layer, pendingLogicResponse, addressOf, layerUpdated>>
allVars == <<vars, logicVars>>

LogicInit ==
    /\ Init
    /\ layer = NewLayer
    /\ pendingLogicResponse = NULL
    /\ addressOf = [id \in TransactionIDs |-> NULL]
    /\ layerUpdated = FALSE

Running == error = "none" /\ layer.error = "none"

-----------------------------------------------------------------------------
(* Between two Updates                                                     *)

\* The ids that no packet has, nor a read whose data the layer waits for.
FreeIDs == {id \in TransactionIDs \ LiveIDs : addressOf[id] = NULL}

FreeID == CHOOSE id \in FreeIDs : TRUE

\* Where each address of the memory goes, worked out once.
PlaceTable == [address \in 0 .. QEMU_MEMORY_SIZE - 1 |-> Mapped(address)]

PlaceOf(address) == IF address \in DOMAIN PlaceTable THEN PlaceTable[address] ELSE Mapped(address)

\* The transaction the controller enqueues for an address, with its place in the channel.
TransactionAt(address, type, fromLogic) ==
    LET place == PlaceOf(address)
    IN [transactionType |-> type, transactionID |-> FreeID, rank |-> place.rank,
        bank |-> place.bank, row |-> place.row, originatedFromLogicOp |-> fromLogic]

Between == ~ layerUpdated /\ Running /\ UNCHANGED layerUpdated

\* A read or write of the CPU.
AddRequest(address, type) ==
    /\ Between
    /\ FreeIDs # {}
    /\ AddTransaction(TransactionAt(address, type, FALSE))
    /\ UNCHANGED <<layer, pendingLogicResponse, addressOf>>

\* A logic operation of the CPU is always accepted.
AddOperation(op) ==
    /\ Between
    /\ layer' = ReceiveLogicOperation(layer, op)
    /\ UNCHANGED <<vars, pendingLogicResponse, addressOf>>

TakeRead ==
    /\ Between
    /\ TakeReturn
    /\ UNCHANGED <<layer, pendingLogicResponse, addressOf>>

TakeLogicResponse ==
    /\ Between
    /\ pendingLogicResponse # NULL
    /\ pendingLogicResponse' = NULL
    /\ UNCHANGED <<vars, layer, addressOf>>

-----------------------------------------------------------------------------
(* Update                                                                  *)

\* The data of a read of the layer is handed to it when its burst ends.
LogicDataArrives ==
    /\ DataArrives
    /\ inFlightDataPacket.busPacketType = "READ_DATA"
    /\ inFlightDataPacket.fromLogicOp

LayerNow ==
    IF LogicDataArrives
    THEN ReceiveData(layer, addressOf[inFlightDataPacket.transactionID])
    ELSE layer

AddressesNow ==
    IF LogicDataArrives
    THEN [addressOf EXCEPT ![inFlightDataPacket.transactionID] = NULL]
    ELSE addressOf

Offered == Head(layer.outgoingQueue)

RequestIsOffered == layer.outgoingQueue # << >> /\ Offered.transactionType \in DataTypes

ResponseIsOffered == layer.outgoingQueue # << >> /\ Offered.transactionType \notin DataTypes

LayerSends(request) ==
    /\ FreeIDs # {}
    /\ AddTransaction(TransactionAt(request.address, request.transactionType, TRUE))
    /\ addressOf' = IF request.transactionType = "DATA_READ"
                    THEN [AddressesNow EXCEPT ![FreeID] = request.address]
                    ELSE AddressesNow
    /\ layer' = AfterData(AfterTake(AfterSend(LayerNow)))
    /\ UNCHANGED pendingLogicResponse

LayerResponds ==
    /\ pendingLogicResponse = NULL
    /\ pendingLogicResponse' = Offered
    /\ layer' = AfterData(AfterTake(AfterSend(LayerNow)))
    /\ addressOf' = AddressesNow
    /\ UNCHANGED vars

LayerSendsNothing ==
    /\ RequestIsOffered => waitingACTS >= CHANNEL_WORK_Q_MAX
    /\ ResponseIsOffered => pendingLogicResponse # NULL
    /\ layer' = AfterData(AfterTake(LayerNow))
    /\ addressOf' = AddressesNow
    /\ UNCHANGED <<vars, pendingLogicResponse>>

LayerUpdate ==
    /\ ~ layerUpdated /\ Running
    /\ layerUpdated' = TRUE
    /\ \/ RequestIsOffered /\ LayerSends(Offered)
       \/ ResponseIsOffered /\ LayerResponds
       \/ LayerSendsNothing

ChannelUpdate ==
    /\ layerUpdated /\ Running
    /\ Update
    /\ layerUpdated' = FALSE
    /\ UNCHANGED <<layer, pendingLogicResponse, addressOf>>

=============================================================================
