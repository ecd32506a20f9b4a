----------------------------- MODULE DRAMParams -----------------------------
(***************************************************************************)
(* The configuration of one DRAM channel: its geometry, the timing of its  *)
(* device in DRAM clock ticks and the sizes of its queues (Globals.h), and *)
(* the packets that travel inside the channel (BusPacket.h).               *)
(***************************************************************************)
EXTENDS Integers

CONSTANTS
    NUM_RANKS,            \* ranks of the channel
    Banks,                \* the banks of every rank
    Rows,                 \* the rows of every bank
    TransactionIDs,       \* identities of the transactions in the channel
    NULL,                 \* the null pointer, and the id of a REFRESH packet
    Origins               \* values fromLogicOp may take: {FALSE} or BOOLEAN

CONSTANTS
    tRCD, tRP, tRC, tCL, tCWL, tRRD, tFAW, tWR, tWTR, tRTP, tCCD, tRFC,
    tCMDS, tRTRS,         \* device timing
    tRTPc,                \* the controller's READ to PRE: 4 clk or 7.5 ns
    BURST,                \* TRANSACTION_SIZE / DRAM_BUS_WIDTH
    REFRESH_PERIOD        \* 7800 / tCK

CONSTANTS
    CHANNEL_WORK_Q_MAX,   \* transactions the work queue may hold
    CHANNEL_RETURN_Q_MAX, \* the return queue's bytes / TRANSACTION_SIZE
    GIVE_LOGIC_PRIORITY,  \* logic-layer transactions go to the queue's head
    UINT_MAX              \* 2^32 - 1

Ranks == 0 .. NUM_RANKS - 1

Larger(m, n) == IF m >= n THEN m ELSE n

\* The code's counters are unsigned: 0 - 1 wraps.
Decremented(n) == IF n = 0 THEN UINT_MAX ELSE n - 1

(***************************************************************************)
(* What Globals.h's three devices have in common and the code relies on.   *)
(***************************************************************************)
ASSUME GeometryAssumption ==
    /\ NUM_RANKS \in Nat \ {0}
    /\ Banks # {}
    /\ Rows # {}
    /\ NULL \notin TransactionIDs
    /\ Origins \subseteq BOOLEAN
    /\ GIVE_LOGIC_PRIORITY \in BOOLEAN

ASSUME TimingAssumption ==
    /\ \A t \in {tRCD, tRP, tRC, tCL, tCWL, tRRD, tFAW, tWR, tWTR, tRTP,
                 tRTPc, tCCD, tRFC, tCMDS, tRTRS, BURST} : t \in Nat \ {0}
    /\ tCWL <= tCL + BURST + tRTRS     \* the unsigned differences of the
    /\ tCL <= tCWL + BURST + tRTRS     \* controller do not wrap
    /\ REFRESH_PERIOD \in Nat
    /\ REFRESH_PERIOD >= NUM_RANKS

\* What keeps the bursts apart and each rank no stricter than the controller.
ASSUME DeviceAssumption ==
    /\ tCMDS = 1                       \* a command arrives in the next cycle
    /\ tCCD <= tCL + BURST + tRTRS - tCWL
    /\ tCCD <= tCWL + BURST + tWTR
    /\ BURST <= tRTP + tRP + tRCD
    /\ tCL + BURST <= tRTP + tRP + tRCD + tCWL

\* A written row stays open long enough, whatever its ACTIVATE has asked for.
ASSUME RowCycleAssumption == tRC <= tRCD + tCWL + BURST + tWR + tRP

ASSUME QueueAssumption ==
    /\ CHANNEL_WORK_Q_MAX \in Nat \ {0}
    /\ CHANNEL_RETURN_Q_MAX \in Nat \ {0}
    /\ UINT_MAX \in Nat

-----------------------------------------------------------------------------

DataTypes == {"DATA_READ", "DATA_WRITE"}

Transaction ==
    [transactionType : DataTypes, transactionID : TransactionIDs,
     rank : Ranks, bank : Banks, row : Rows, originatedFromLogicOp : Origins]

BusPacketTypes ==
    {"READ_P", "WRITE_P", "ACTIVATE", "REFRESH", "READ_DATA", "WRITE_DATA"}

BusPacket ==
    [busPacketType : BusPacketTypes, transactionID : TransactionIDs \union {NULL},
     rank : Ranks, bank : Banks, row : Rows, fromLogicOp : BOOLEAN]

ASSUME PacketAssumption == NULL \notin BusPacket

AsType(p, type) == [p EXCEPT !.busPacketType = type]

IsCAS(p) == p.busPacketType \in {"READ_P", "WRITE_P"}

=============================================================================
