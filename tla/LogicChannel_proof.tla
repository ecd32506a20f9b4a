------------------------- MODULE LogicChannel_proof -------------------------
(***************************************************************************)
(* The channel with its logic layer, for every geometry, timing and size   *)
(* of the queues, every mapping of the addresses and operations of every   *)
(* length: LogicChannel implements DRAMChannel, so what is proved of it    *)
(* holds with the layer; LayerNeverExits, ResponseAfterWork and            *)
(* OnlyLogicOvertakes.                                                     *)
(*                                                                         *)
(* The layer counts the data that comes back and does not look whose it    *)
(* is.  The count comes out because each datum is of a read of the current *)
(* operation: no operation is answered before as much data has come back   *)
(* as it asks for, and it asks for no more.  So the invariant follows the  *)
(* reads of the operation through the layer, from its outgoing queue to    *)
(* the data received, and ties those in the channel, of which the layer    *)
(* knows nothing, to the ones it waits for.                                *)
(***************************************************************************)
EXTENDS MCLogicChannel, ChannelTiming_proof

\* What is proved of the mapping of addresses.
Mapping == INSTANCE AddressMapping_proof

-----------------------------------------------------------------------------
(* Where a transaction goes                                                *)

LEMMA SamePower == PowerOf2 = Mapping!PowerOf2
BY Zenon DEF PowerOf2, Mapping!PowerOf2

LEMMA SameAssumption == AddressAssumption <=> Mapping!AddressAssumption
BY Zenon DEF AddressAssumption, Mapping!AddressAssumption, PowerOf2, Mapping!PowerOf2

LEMMA SameSchemes == AddressMappingSchemes = Mapping!AddressMappingSchemes
BY Zenon DEF AddressMappingSchemes, Mapping!AddressMappingSchemes, Layouts, Mapping!Layouts,
     BK_CLH_RW_RK_CH_CLL_BY, Mapping!BK_CLH_RW_RK_CH_CLL_BY, CLH_RW_RK_BK_CH_CLL_BY,
     Mapping!CLH_RW_RK_BK_CH_CLL_BY, RK_BK_RW_CLH_CH_CLL_BY,
     Mapping!RK_BK_RW_CLH_CH_CLL_BY, RW_CH_BK_RK_CL_BY, Mapping!RW_CH_BK_RK_CL_BY,
     RW_BK_RK_CH_CL_BY, Mapping!RW_BK_RK_CH_CL_BY, RW_BK_RK_CLH_CH_CLL_BY,
     Mapping!RW_BK_RK_CLH_CH_CLL_BY, RW_CLH_BK_RK_CH_CLL_BY,
     Mapping!RW_CLH_BK_RK_CH_CLL_BY, CH_RW_BK_RK_CL_BY, Mapping!CH_RW_BK_RK_CL_BY

LEMMA SameLog == \A n : log2(n) = Mapping!log2(n)
BY Zenon DEF log2, Mapping!log2, HighestBit, Mapping!HighestBit, PowerOf2, Mapping!PowerOf2

LEMMA SameRow == rowBitWidth = Mapping!rowBitWidth
BY Zenon DEF PowerOf2, Mapping!PowerOf2, HighestBit, Mapping!HighestBit, log2, Mapping!log2,
     log2_64, Mapping!log2_64, rankBitWidth, Mapping!rankBitWidth, bankBitWidth,
     Mapping!bankBitWidth, colBitWidth, Mapping!colBitWidth, channelBitWidth,
     Mapping!channelBitWidth, busOffsetBitWidth, Mapping!busOffsetBitWidth,
     cacheOffset, Mapping!cacheOffset, TotalBits, Mapping!TotalBits, RowBits,
     Mapping!RowBits, rowBitWidth, Mapping!rowBitWidth

LEMMA SameMapped == \A a : Mapped(a) = Mapping!Mapped(a)
BY Zenon DEF PowerOf2, Mapping!PowerOf2, HighestBit, Mapping!HighestBit, log2, Mapping!log2,
     log2_64, Mapping!log2_64, rankBitWidth, Mapping!rankBitWidth, bankBitWidth,
     Mapping!bankBitWidth, colBitWidth, Mapping!colBitWidth, channelBitWidth,
     Mapping!channelBitWidth, busOffsetBitWidth, Mapping!busOffsetBitWidth,
     cacheOffset, Mapping!cacheOffset, TotalBits, Mapping!TotalBits, RowBits,
     Mapping!RowBits, rowBitWidth, Mapping!rowBitWidth, BOBRowBitWidth,
     Mapping!BOBRowBitWidth, colLowBitWidth, Mapping!colLowBitWidth, Widths,
     Mapping!Widths, ShiftedRight, Mapping!ShiftedRight, Dropped, Mapping!Dropped,
     ShiftedTo, Mapping!ShiftedTo, PartOf, Mapping!PartOf, MappedColumn,
     Mapping!MappedColumn, channelIDOffset, Mapping!channelIDOffset, FindChannelID,
     Mapping!FindChannelID, Mapped, Mapping!Mapped, Layouts, Mapping!Layouts,
     BK_CLH_RW_RK_CH_CLL_BY, Mapping!BK_CLH_RW_RK_CH_CLL_BY, CLH_RW_RK_BK_CH_CLL_BY,
     Mapping!CLH_RW_RK_BK_CH_CLL_BY, RK_BK_RW_CLH_CH_CLL_BY,
     Mapping!RK_BK_RW_CLH_CH_CLL_BY, RW_CH_BK_RK_CL_BY, Mapping!RW_CH_BK_RK_CL_BY,
     RW_BK_RK_CH_CL_BY, Mapping!RW_BK_RK_CH_CL_BY, RW_BK_RK_CLH_CH_CLL_BY,
     Mapping!RW_BK_RK_CLH_CH_CLL_BY, RW_CLH_BK_RK_CH_CLL_BY,
     Mapping!RW_CLH_BK_RK_CH_CLL_BY, CH_RW_BK_RK_CL_BY, Mapping!CH_RW_BK_RK_CL_BY

LEMMA PlaceIsMapped == ASSUME NEW a PROVE PlaceOf(a) = Mapped(a)
<1>1. CASE a \in DOMAIN PlaceTable
  <2>1. PlaceTable[a] = Mapped(a)
    BY <1>1, Zenon DEF PlaceTable
  <2>2. QED
    BY <1>1, <2>1, Zenon DEF PlaceOf
<1>2. CASE a \notin DOMAIN PlaceTable
  BY <1>2, Zenon DEF PlaceOf
<1>3. QED
  BY <1>1, <1>2

\* Every address has a place in the channel.
LEMMA PlaceInChannel ==
    ASSUME NEW a \in Int
    PROVE  PlaceOf(a).rank \in Ranks /\ PlaceOf(a).bank \in Banks /\ PlaceOf(a).row \in Rows
<1>1. Mapping!AddressAssumption /\ mappingScheme \in Mapping!AddressMappingSchemes
  BY GeometryIsPowers, GeometryIsMapped, SameAssumption, SameSchemes
<1>2. Mapping!MemorySizeType
  <2> DEFINE m == Mapping!PowerOf2[2 * UINT_BITS]
  <2>1. QEMU_MEMORY_SIZE \in 0 .. m - 1
    BY GeometryIsMapped, SamePower
  <2>2. m \in Nat
    <3>1. 2 * UINT_BITS \in Nat
      BY <1>1 DEF Mapping!AddressAssumption
    <3>2. QED
      BY <3>1, Mapping!PowerPositive
  <2>3. QEMU_MEMORY_SIZE \in Nat /\ QEMU_MEMORY_SIZE < m
    <3> HIDE DEF m
    <3>1. QED
      BY <2>1, <2>2
  <2>4. QED
    BY <2>3 DEF Mapping!MemorySizeType
<1>3. Mapping!RowFits
  BY GeometryIsMapped, SameRow, SameLog DEF Mapping!RowFits
<1>4. LET place == Mapping!Mapped(a) IN
      /\ place.rank \in 0 .. NUM_RANKS - 1
      /\ place.bank \in 0 .. NUM_BANKS - 1
      /\ place.row \in 0 .. NUM_ROWS - 1
  BY <1>1, <1>2, <1>3, Mapping!MappedRange
<1>5. PlaceOf(a) = Mapping!Mapped(a)
  BY PlaceIsMapped, SameMapped
<1>6. QED
  BY <1>4, <1>5, GeometryIsMapped DEF Ranks

\* An id that is taken belongs to no packet, and to no read the layer waits for.
LEMMA FreeIDIsFree ==
    ASSUME FreeIDs # {}
    PROVE  FreeID \in TransactionIDs /\ FreeID \notin LiveIDs /\ addressOf[FreeID] = NULL
<1>1. FreeID \in FreeIDs
  BY DEF FreeID
<1>2. QED
  BY <1>1 DEF FreeIDs

LEMMA TransactionAtType ==
    ASSUME FreeIDs # {}, NEW a \in Int, NEW type \in DataTypes, NEW fromLogic \in BOOLEAN
    PROVE  TransactionAt(a, type, fromLogic) \in Transaction
  BY FreeIDIsFree, PlaceInChannel, TrafficAssumption DEF TransactionAt, Transaction

\* The step from one page of an operation to the next.
LEMMA StrideType == LogicStride \in Nat
<1> DEFINE b == Mapping!log2(BUS_ALIGNMENT_SIZE)
           c == Mapping!log2(NUM_CHANNELS)
<1>1. Mapping!AddressAssumption
  BY GeometryIsPowers, SameAssumption
<1>2. UINT_BITS \in Nat
  BY <1>1 DEF Mapping!AddressAssumption
<1>3. b \in 0 .. UINT_BITS - 1 /\ c \in 0 .. UINT_BITS - 1
  BY <1>1, Mapping!FieldWidths
<1>4. LogicStride = Mapping!PowerOf2[b + c]
  BY SameLog, SamePower DEF LogicStride
<1>5. b + c \in Nat
  <2> HIDE DEF b, c
  <2>1. QED
    BY <1>2, <1>3
<1>6. QED
  <2> HIDE DEF b, c
  <2>1. QED
    BY <1>4, <1>5, Mapping!PowerPositive

-----------------------------------------------------------------------------
(* The invariant of the layer                                              *)

\* The operations that are not malformed.
ProperOperations ==
    {op \in LogicOperations : op.logicType # "PAGE_TABLE_WALK" => Len(op.arguments) = 2}

Outgoing ==
    [transactionType : DataTypes, address : Int] \union {ResponseTo(op) : op \in ProperOperations}

\* The reads whose data the layer waits for.
Awaited(addr) == {id \in TransactionIDs : addr[id] # NULL}

\* The reads of an operation that is not a fill.
Reads(op) == IF op.logicType = "MEM_COPY" THEN op.arguments[2] ELSE Len(op.arguments)

ReadAddress(op, i) ==
    IF op.logicType = "MEM_COPY" THEN op.address + (i - 1) * LogicStride ELSE op.arguments[i]

\* 1 if the operation's response is at the end of the queue.
Responses(q) == IF q # << >> /\ q[Len(q)].transactionType = "LOGIC_RESPONSE" THEN 1 ELSE 0

Left(op, reads) == Reads(op) - Len(reads)

\* The first reads of the operation have been sent, the others are at the head of the
\* queue; writes and, at the end, the response follow.
ReadsInOrder(op, q, reads) ==
    LET left == Left(op, reads) IN
    /\ 0 <= left /\ left <= Len(q)
    /\ \A i \in 1 .. Len(reads) : reads[i] = ReadAddress(op, i)
    /\ \A i \in 1 .. left : q[i] = Request("DATA_READ", ReadAddress(op, Len(reads) + i))
    /\ \A i \in left + 1 .. Len(q) - Responses(q) : q[i].transactionType = "DATA_WRITE"

\* The response is made when all reads have been sent and all their data is there.
ResponseIsLast(op, q, new, n, addr, reads) ==
    Responses(q) = 1 =>
        /\ Left(op, reads) = 0
        /\ n = 0 /\ new = << >> /\ Awaited(addr) = {}
        /\ q[Len(q)] = ResponseTo(op)

\* The data that has been used, has come or is awaited is of reads that were sent.
DataCounted(new, n, addr, reads) ==
    /\ IsFiniteSet(Awaited(addr))
    /\ n + Len(new) + Cardinality(Awaited(addr)) <= Len(reads)

\* A copy makes one write of each datum it has used; a walk makes none.
WritesCounted(op, q, n, reads, writes) ==
    LET made == Len(q) - Left(op, reads) - Responses(q) IN
    IF op.logicType = "MEM_COPY"
    THEN Len(writes) + made = IF Responses(q) = 1 THEN Reads(op) ELSE n
    ELSE writes = << >> /\ made = 0

MovedTo(op, a) == a - op.address + op.arguments[1]

InQueue(q) == {q[i].address : i \in {j \in DOMAIN q : q[j].transactionType = "DATA_WRITE"}}

ToCome(addr, new) == {addr[id] : id \in Awaited(addr)} \union ToSet(new)

\* What has been read is written, or will be when its data is there.
Copied(op, q, new, addr, reads, writes) ==
    op.logicType = "MEM_COPY" =>
        InQueue(q) \union ToSet(writes) \union {MovedTo(op, a) : a \in ToCome(addr, new)}
            = {MovedTo(op, a) : a \in ToSet(reads)}

Reading(op, q, new, n, addr, reads, writes) ==
    /\ ReadsInOrder(op, q, reads)
    /\ ResponseIsLast(op, q, new, n, addr, reads)
    /\ DataCounted(new, n, addr, reads)
    /\ WritesCounted(op, q, n, reads, writes)
    /\ Copied(op, q, new, addr, reads, writes)

\* The first pages of a fill have been written, the others and the response are queued.
Filling(op, q, new, n, addr, reads, writes) ==
    LET left == op.arguments[1] - Len(writes) IN
    /\ new = << >> /\ n = 0 /\ Awaited(addr) = {} /\ reads = << >>
    /\ 0 <= left /\ Len(q) = left + 1
    /\ q[Len(q)] = ResponseTo(op)
    /\ \A i \in 1 .. left :
          q[i] = Request("DATA_WRITE", op.address + (Len(writes) + i - 1) * LogicStride)
    /\ \A i \in 1 .. Len(writes) : writes[i] = op.address + (i - 1) * LogicStride

AtRest(q, new, n, addr, reads, writes) ==
    /\ q = << >> /\ new = << >> /\ n = 0 /\ Awaited(addr) = {}
    /\ reads = << >> /\ writes = << >>

Working(op, q, new, n, addr, reads, writes) ==
    /\ op = NULL => AtRest(q, new, n, addr, reads, writes)
    /\ op # NULL /\ op.logicType = "PAGE_FILL" =>
          Filling(op, q, new, n, addr, reads, writes)
    /\ op # NULL /\ op.logicType # "PAGE_FILL" =>
          Reading(op, q, new, n, addr, reads, writes)

Layers ==
    [currentTransaction : ProperOperations \union {NULL},
     pendingLogicOpsQueue : Seq(ProperOperations),
     newOperationQueue : Seq(Int),
     outgoingQueue : Seq(Outgoing),
     issuedRequests : Nat,
     error : {"none"}]

Consistent(ly, addr, wk) ==
    /\ ly \in Layers
    /\ addr \in [TransactionIDs -> Int \union {NULL}]
    /\ wk \in [DATA_READ : Seq(Int), DATA_WRITE : Seq(Int)]
    /\ Working(ly.currentTransaction, ly.outgoingQueue, ly.newOperationQueue,
               ly.issuedRequests, addr, wk.DATA_READ, wk.DATA_WRITE)

-----------------------------------------------------------------------------
(* Operations, sequences and sets                                          *)

LEMMA ProperType ==
    ASSUME NEW op \in ProperOperations
    PROVE  /\ op # NULL /\ ~ Malformed(op)
           /\ op.logicType \in LogicTypes /\ op.address \in Nat /\ op.arguments \in Seq(Nat)
           /\ op.logicType # "PAGE_TABLE_WALK" =>
                 op.arguments[1] \in Nat /\ op.arguments[2] \in Nat
           /\ Reads(op) \in Nat
           /\ \A i \in 1 .. Reads(op) : op.logicType # "PAGE_FILL" => ReadAddress(op, i) \in Int
<1>1. /\ op \in LogicOperations
      /\ op.logicType # "PAGE_TABLE_WALK" => Len(op.arguments) = 2
  BY DEF ProperOperations
<1>2. op # NULL /\ op.logicType \in LogicTypes /\ op.address \in Nat /\ op.arguments \in Seq(Nat)
  BY <1>1, TrafficAssumption DEF LogicOperations
<1>3. op.logicType # "PAGE_TABLE_WALK" => op.arguments[1] \in Nat /\ op.arguments[2] \in Nat
  <2>1. ASSUME op.logicType # "PAGE_TABLE_WALK"
        PROVE  1 \in 1 .. Len(op.arguments) /\ 2 \in 1 .. Len(op.arguments)
    BY <1>1, <2>1
  <2>2. QED
    BY <1>2, <2>1, ElementOfSeq
<1>4. Reads(op) \in Nat
  BY <1>2, <1>3, LenProperties DEF Reads
<1>5. LogicStride \in Nat
  BY StrideType
<1>6. ASSUME NEW i \in 1 .. Reads(op), op.logicType # "PAGE_FILL"
      PROVE  ReadAddress(op, i) \in Int
  <2>1. CASE op.logicType = "MEM_COPY"
    <3>1. (i - 1) * LogicStride \in Int
      BY <1>4, <1>5
    <3>2. QED
      BY <1>2, <2>1, <3>1 DEF ReadAddress
  <2>2. CASE op.logicType # "MEM_COPY"
    BY <1>2, <2>2, <1>6, ElementOfSeq DEF ReadAddress, Reads
  <2>3. QED
    BY <2>1, <2>2
<1>7. ~ Malformed(op)
  BY <1>1, <1>2 DEF Malformed
<1>8. QED
  BY <1>2, <1>3, <1>4, <1>6, <1>7

LEMMA TailPlaces ==
    ASSUME NEW S, NEW q \in Seq(S), q # << >>
    PROVE  /\ Tail(q) \in Seq(S) /\ Head(q) = q[1] /\ q[1] \in S
           /\ Len(q) \in Nat /\ Len(q) > 0 /\ Len(Tail(q)) = Len(q) - 1
           /\ DOMAIN q = 1 .. Len(q) /\ DOMAIN Tail(q) = 1 .. Len(q) - 1
           /\ \A i \in 1 .. Len(q) - 1 : Tail(q)[i] = q[i + 1]
BY HeadTailProperties, EmptySeq, LenProperties, ElementOfSeq

LEMMA AppendPlaces ==
    ASSUME NEW S, NEW q \in Seq(S), NEW x \in S
    PROVE  /\ Append(q, x) \in Seq(S) /\ Len(q) \in Nat
           /\ Len(Append(q, x)) = Len(q) + 1 /\ Append(q, x)[Len(q) + 1] = x
           /\ DOMAIN q = 1 .. Len(q) /\ DOMAIN Append(q, x) = 1 .. Len(q) + 1
           /\ \A i \in 1 .. Len(q) : Append(q, x)[i] = q[i]
BY AppendProperties, LenProperties

LEMMA SetOfAppend ==
    ASSUME NEW S, NEW q \in Seq(S), NEW x \in S
    PROVE  ToSet(Append(q, x)) = ToSet(q) \union {x}
<1>1. \A i \in 1 .. Len(q) + 1 : i \in 1 .. Len(q) \/ i = Len(q) + 1
  BY AppendPlaces
<1>2. /\ 1 .. Len(q) \subseteq 1 .. Len(q) + 1 /\ Len(q) + 1 \in 1 .. Len(q) + 1
  BY AppendPlaces
<1>3. QED
  BY <1>1, <1>2, AppendPlaces DEF ToSet

LEMMA SetOfTail ==
    ASSUME NEW S, NEW q \in Seq(S), q # << >>
    PROVE  ToSet(q) = {q[1]} \union ToSet(Tail(q))
<1>1. ASSUME NEW x \in ToSet(q) PROVE x \in {q[1]} \union ToSet(Tail(q))
  <2>1. PICK i \in 1 .. Len(q) : x = q[i]
    BY TailPlaces DEF ToSet
  <2>2. CASE i = 1
    BY <2>1, <2>2
  <2>3. CASE i # 1
    <3>1. i - 1 \in 1 .. Len(q) - 1 /\ (i - 1) + 1 = i
      BY <2>3, TailPlaces
    <3>2. i - 1 \in DOMAIN Tail(q) /\ Tail(q)[i - 1] = q[i]
      BY <3>1, TailPlaces
    <3>3. QED
      BY <2>1, <3>2 DEF ToSet
  <2>4. QED
    BY <2>2, <2>3
<1>2. ASSUME NEW x \in ToSet(Tail(q)) PROVE x \in ToSet(q)
  <2>1. PICK i \in 1 .. Len(q) - 1 : x = q[i + 1]
    BY TailPlaces DEF ToSet
  <2>2. i + 1 \in 1 .. Len(q)
    BY TailPlaces
  <2>3. QED
    BY <2>1, <2>2, TailPlaces DEF ToSet
<1>3. q[1] \in ToSet(q)
  <2>1. 1 \in 1 .. Len(q)
    BY TailPlaces
  <2>2. QED
    BY <2>1, TailPlaces DEF ToSet
<1>4. QED
  BY <1>1, <1>2, <1>3

\* The writes of a queue whose head leaves, and of one that grows.
LEMMA WritesOfTail ==
    ASSUME NEW S, NEW q \in Seq(S), q # << >>
    PROVE  InQueue(q) = InQueue(Tail(q))
              \union (IF q[1].transactionType = "DATA_WRITE" THEN {q[1].address} ELSE {})
<1>1. ASSUME NEW x \in InQueue(q)
      PROVE  \/ x \in InQueue(Tail(q))
             \/ q[1].transactionType = "DATA_WRITE" /\ x = q[1].address
  <2>1. PICK i \in 1 .. Len(q) : q[i].transactionType = "DATA_WRITE" /\ x = q[i].address
    BY TailPlaces DEF InQueue
  <2>2. CASE i = 1
    BY <2>1, <2>2
  <2>3. CASE i # 1
    <3>1. i - 1 \in 1 .. Len(q) - 1 /\ (i - 1) + 1 = i
      BY <2>3, TailPlaces
    <3>2. i - 1 \in DOMAIN Tail(q) /\ Tail(q)[i - 1] = q[i]
      BY <3>1, TailPlaces
    <3>3. QED
      BY <2>1, <3>2 DEF InQueue
  <2>4. QED
    BY <2>2, <2>3
<1>2. ASSUME NEW x \in InQueue(Tail(q)) PROVE x \in InQueue(q)
  <2>1. PICK i \in 1 .. Len(q) - 1 :
            q[i + 1].transactionType = "DATA_WRITE" /\ x = q[i + 1].address
    BY TailPlaces DEF InQueue
  <2>2. i + 1 \in 1 .. Len(q)
    BY TailPlaces
  <2>3. QED
    BY <2>1, <2>2, TailPlaces DEF InQueue
<1>3. q[1].transactionType = "DATA_WRITE" => q[1].address \in InQueue(q)
  <2>1. 1 \in 1 .. Len(q)
    BY TailPlaces
  <2>2. QED
    BY <2>1, TailPlaces DEF InQueue
<1>4. QED
  BY <1>1, <1>2, <1>3

LEMMA WritesOfAppend ==
    ASSUME NEW S, NEW q \in Seq(S), NEW x \in S
    PROVE  InQueue(Append(q, x)) = InQueue(q)
              \union (IF x.transactionType = "DATA_WRITE" THEN {x.address} ELSE {})
<1>1. \A i \in 1 .. Len(q) + 1 : i \in 1 .. Len(q) \/ i = Len(q) + 1
  BY AppendPlaces
<1>2. /\ 1 .. Len(q) \subseteq 1 .. Len(q) + 1 /\ Len(q) + 1 \in 1 .. Len(q) + 1
  BY AppendPlaces
<1>3. QED
  BY <1>1, <1>2, AppendPlaces DEF InQueue

-----------------------------------------------------------------------------
(* The queue of the layer                                                  *)

LEMMA ResponseToType ==
    ASSUME NEW op \in ProperOperations
    PROVE  /\ ResponseTo(op) \in Outgoing
           /\ ResponseTo(op).transactionType = "LOGIC_RESPONSE"
           /\ ResponseTo(op).logicType = op.logicType
           /\ ResponseTo(op).address = op.address
           /\ ResponseTo(op).arguments = op.arguments
<1>1. op \in LogicOperations
  BY DEF ProperOperations
<1>2. QED
  BY <1>1 DEF LogicOperations, ResponseTo, Outgoing

LEMMA RequestType ==
    ASSUME NEW type \in DataTypes, NEW a \in Int
    PROVE  /\ Request(type, a) \in Outgoing
           /\ Request(type, a).transactionType = type /\ Request(type, a).address = a
BY DEF Request, Outgoing

\* A transaction to be sent is a request or a response.
LEMMA OutgoingKinds ==
    ASSUME NEW x \in Outgoing
    PROVE  \/ x.transactionType = "LOGIC_RESPONSE"
           \/ /\ x.transactionType \in {"DATA_READ", "DATA_WRITE"} /\ x.address \in Int
              /\ x = Request(x.transactionType, x.address)
<1>1. CASE x \in [transactionType : DataTypes, address : Int]
  BY <1>1 DEF DataTypes, Request
<1>2. CASE \E op \in ProperOperations : x = ResponseTo(op)
  BY <1>2, ResponseToType
<1>3. QED
  BY <1>1, <1>2 DEF Outgoing

LEMMA NoneQueued ==
    ASSUME NEW q \in Seq(Outgoing)
    PROVE  q = << >> <=> Len(q) = 0
BY EmptySeq

LEMMA LastOfTail ==
    ASSUME NEW q \in Seq(Outgoing), q # << >>
    PROVE  /\ Responses(q) \in {0, 1}
           /\ Responses(Tail(q)) = IF Len(q) = 1 THEN 0 ELSE Responses(q)
           /\ Responses(q) = 1 => q[Len(q)].transactionType = "LOGIC_RESPONSE"
<1>0. /\ Tail(q) \in Seq(Outgoing) /\ Len(q) \in Nat /\ Len(q) > 0
      /\ Len(Tail(q)) = Len(q) - 1
      /\ \A i \in 1 .. Len(q) - 1 : Tail(q)[i] = q[i + 1]
  BY TailPlaces
<1>1. CASE Len(q) = 1
  <2>1. Len(Tail(q)) = 0
    BY <1>0, <1>1
  <2>2. Tail(q) = << >>
    BY <1>0, <2>1, NoneQueued, Zenon
  <2>3. QED
    BY <1>1, <2>2 DEF Responses
<1>2. CASE Len(q) # 1
  <2>1. Len(q) - 1 \in 1 .. Len(q) - 1 /\ (Len(q) - 1) + 1 = Len(q)
    BY <1>0, <1>2
  <2>2. Tail(q)[Len(Tail(q))] = q[Len(q)]
    BY <1>0, <2>1
  <2>3. Len(Tail(q)) # 0
    BY <1>0, <1>2
  <2>4. Tail(q) # << >>
    BY <1>0, <2>3, NoneQueued, Zenon
  <2>5. QED
    BY <1>0, <1>2, <2>2, <2>4 DEF Responses
<1>3. QED
  BY <1>1, <1>2

LEMMA LastOfAppend ==
    ASSUME NEW q \in Seq(Outgoing), NEW x \in Outgoing
    PROVE  Responses(Append(q, x)) = IF x.transactionType = "LOGIC_RESPONSE" THEN 1 ELSE 0
<1>1. Append(q, x) # << >> /\ Append(q, x)[Len(Append(q, x))] = x
  BY AppendPlaces, EmptySeq
<1>2. QED
  BY <1>1 DEF Responses

LEMMA NoResponses == Responses(<< >>) = 0 /\ InQueue(<< >>) = {} /\ ToSet(<< >>) = {}
BY DEF Responses, InQueue, ToSet

-----------------------------------------------------------------------------
(* The reads the layer waits for                                           *)

Addresses == [TransactionIDs -> Int \union {NULL}]

\* The data of a read has come.
LEMMA NoLongerAwaited ==
    ASSUME NEW addr \in Addresses, NEW id \in Awaited(addr), NEW new \in Seq(Int)
    PROVE  LET after == [addr EXCEPT ![id] = NULL] IN
           /\ after \in Addresses /\ addr[id] \in Int
           /\ Awaited(after) = Awaited(addr) \ {id}
           /\ ToCome(after, Append(new, addr[id])) = ToCome(addr, new)
<1> DEFINE after == [addr EXCEPT ![id] = NULL]
<1>1. id \in TransactionIDs /\ addr[id] \in Int
  BY DEF Awaited, Addresses
<1>2. /\ after \in Addresses /\ after[id] = NULL
      /\ \A k \in TransactionIDs : k # id => after[k] = addr[k]
  BY <1>1 DEF Addresses
<1> HIDE DEF after
<1>3. Awaited(after) = Awaited(addr) \ {id}
  BY <1>1, <1>2 DEF Awaited
<1>4. {addr[k] : k \in Awaited(addr)} = {after[k] : k \in Awaited(after)} \union {addr[id]}
  BY <1>1, <1>2, <1>3 DEF Awaited
<1>5. ToSet(Append(new, addr[id])) = ToSet(new) \union {addr[id]}
  BY <1>1, SetOfAppend
<1>6. ToCome(after, Append(new, addr[id])) = ToCome(addr, new)
  BY <1>4, <1>5 DEF ToCome
<1>7. QED
  BY <1>1, <1>2, <1>3, <1>6 DEF after

\* A read has been sent.
LEMMA NewlyAwaited ==
    ASSUME NEW addr \in Addresses, NEW id \in TransactionIDs, addr[id] = NULL,
           NEW after \in Addresses, after[id] \in Int,
           \A k \in TransactionIDs : k # id => after[k] = addr[k],
           NEW new \in Seq(Int)
    PROVE  /\ Awaited(after) = Awaited(addr) \union {id} /\ id \notin Awaited(addr)
           /\ ToCome(after, new) = ToCome(addr, new) \union {after[id]}
<1>1. after[id] # NULL
  BY TrafficAssumption
<1>2. Awaited(after) = Awaited(addr) \union {id} /\ id \notin Awaited(addr)
  BY <1>1 DEF Awaited
<1>3. {after[k] : k \in Awaited(after)} = {addr[k] : k \in Awaited(addr)} \union {after[id]}
  BY <1>1, <1>2 DEF Awaited
<1>4. QED
  BY <1>2, <1>3 DEF ToCome

LEMMA DatumUsed ==
    ASSUME NEW addr \in Addresses, NEW new \in Seq(Int), new # << >>
    PROVE  ToCome(addr, new) = ToCome(addr, Tail(new)) \union {new[1]}
BY SetOfTail DEF ToCome

-----------------------------------------------------------------------------
(* A datum comes                                                           *)

LEMMA DatumComesForReads ==
    ASSUME NEW op \in ProperOperations, NEW q \in Seq(Outgoing), NEW new \in Seq(Int),
           NEW n \in Nat, NEW addr \in Addresses, NEW reads \in Seq(Int),
           NEW writes \in Seq(Int), Reading(op, q, new, n, addr, reads, writes),
           NEW id \in Awaited(addr)
    PROVE  Reading(op, q, Append(new, addr[id]), n, [addr EXCEPT ![id] = NULL], reads, writes)
<1> DEFINE after == [addr EXCEPT ![id] = NULL]
           come == Append(new, addr[id])
<1>1. /\ addr[id] \in Int /\ Awaited(after) = Awaited(addr) \ {id}
      /\ ToCome(after, come) = ToCome(addr, new)
  BY NoLongerAwaited
<1>2. Len(come) = Len(new) + 1 /\ Len(new) \in Nat
  BY <1>1, AppendPlaces
<1> HIDE DEF after, come
<1>3. ReadsInOrder(op, q, reads) /\ WritesCounted(op, q, n, reads, writes)
  BY DEF Reading
<1>4. ResponseIsLast(op, q, come, n, after, reads)
  BY DEF Reading, ResponseIsLast
<1>5. DataCounted(come, n, after, reads)
  <2>1. IsFiniteSet(Awaited(addr)) /\ n + Len(new) + Cardinality(Awaited(addr)) <= Len(reads)
    BY DEF Reading, DataCounted
  <2>2. /\ IsFiniteSet(Awaited(after)) /\ Cardinality(Awaited(addr)) \in Nat
        /\ Cardinality(Awaited(after)) = Cardinality(Awaited(addr)) - 1
    BY <1>1, <2>1, FS_RemoveElement, FS_CardinalityType
  <2>3. Len(reads) \in Nat
    BY LenProperties
  <2>4. QED
    BY <1>2, <2>1, <2>2, <2>3 DEF DataCounted
<1>6. Copied(op, q, come, after, reads, writes)
  BY <1>1 DEF Reading, Copied
<1>7. QED
  BY <1>3, <1>4, <1>5, <1>6 DEF Reading, after, come

LEMMA DatumComes ==
    ASSUME NEW op \in ProperOperations \union {NULL}, NEW q \in Seq(Outgoing),
           NEW new \in Seq(Int), NEW n \in Nat, NEW addr \in Addresses,
           NEW reads \in Seq(Int), NEW writes \in Seq(Int),
           Working(op, q, new, n, addr, reads, writes), NEW id \in Awaited(addr)
    PROVE  Working(op, q, Append(new, addr[id]), n, [addr EXCEPT ![id] = NULL], reads, writes)
<1>1. op # NULL /\ op.logicType # "PAGE_FILL"
  BY DEF Working, AtRest, Filling
<1>2. Reading(op, q, new, n, addr, reads, writes)
  BY <1>1 DEF Working
<1>3. Reading(op, q, Append(new, addr[id]), n, [addr EXCEPT ![id] = NULL], reads, writes)
  BY <1>1, <1>2, DatumComesForReads
<1>4. QED
  BY <1>1, <1>3, Zenon DEF Working

-----------------------------------------------------------------------------
(* The head of the queue leaves                                            *)

LEMMA HeadOfReads ==
    ASSUME NEW op \in ProperOperations, NEW q \in Seq(Outgoing), q # << >>, NEW new,
           NEW n \in Nat, NEW addr, NEW reads \in Seq(Int),
           NEW writes \in Seq(Int), Reading(op, q, new, n, addr, reads, writes)
    PROVE  /\ Left(op, reads) \in Nat /\ Left(op, reads) = Reads(op) - Len(reads)
           /\ Left(op, reads) <= Len(q)
           /\ Responses(q) = 1 => Left(op, reads) = 0
           /\ q[1].transactionType = "DATA_READ" =>
                 /\ Left(op, reads) >= 1 /\ Responses(q) = 0
                 /\ q[1] = Request("DATA_READ", ReadAddress(op, Len(reads) + 1))
           /\ q[1].transactionType = "DATA_WRITE" =>
                 /\ Left(op, reads) = 0 /\ op.logicType = "MEM_COPY"
                 /\ Responses(q) = 1 => Len(q) > 1
           /\ q[1].transactionType = "LOGIC_RESPONSE" =>
                 Left(op, reads) = 0 /\ Len(q) = 1 /\ Responses(q) = 1
<1> DEFINE left == Left(op, reads)
           res == Responses(q)
           len == Len(q)
<1>1. len \in Nat /\ len >= 1 /\ Len(reads) \in Nat
  BY TailPlaces, LenProperties
<1>2. Reads(op) \in Nat /\ left = Reads(op) - Len(reads)
  BY ProperType DEF Left
<1>3. res \in {0, 1} /\ (res = 1 => q[len].transactionType = "LOGIC_RESPONSE")
  BY LastOfTail
<1>4. /\ 0 <= left /\ left <= len
      /\ \A i \in 1 .. left : q[i] = Request("DATA_READ", ReadAddress(op, Len(reads) + i))
      /\ \A i \in left + 1 .. len - res : q[i].transactionType = "DATA_WRITE"
  BY DEF Reading, ReadsInOrder
<1>5. res = 1 => left = 0
  BY DEF Reading, ResponseIsLast
<1>6. op.logicType # "MEM_COPY" => len - left - res = 0
  BY DEF Reading, WritesCounted
<1> HIDE DEF left, res, len
<1>7. left >= 1 => q[1] = Request("DATA_READ", ReadAddress(op, Len(reads) + 1))
  BY <1>1, <1>2, <1>4
<1>8. left = 0 /\ len - res >= 1 => q[1].transactionType = "DATA_WRITE"
  BY <1>1, <1>3, <1>4
<1>9. left = 0 /\ len - res < 1 =>
         res = 1 /\ len = 1 /\ q[1].transactionType = "LOGIC_RESPONSE"
  <2>1. len - res < 1 => res = 1 /\ len = 1
    BY <1>1, <1>3
  <2>2. res = 1 /\ len = 1 => q[1].transactionType = "LOGIC_RESPONSE"
    BY <1>3, Zenon
  <2>3. QED
    BY <2>1, <2>2
<1>10. Request("DATA_READ", ReadAddress(op, Len(reads) + 1)).transactionType = "DATA_READ"
  BY DEF Request
<1>11. /\ left \in Nat
       /\ \/ left >= 1
          \/ left = 0 /\ len - res >= 1
          \/ left = 0 /\ len - res < 1
  BY <1>1, <1>2, <1>3, <1>4
<1>12. left \in Nat /\ left = Reads(op) - Len(reads) /\ left <= len /\ (res = 1 => left = 0)
  BY <1>2, <1>4, <1>5, <1>11
<1>13. q[1].transactionType = "DATA_READ" =>
         left >= 1 /\ res = 0 /\ q[1] = Request("DATA_READ", ReadAddress(op, Len(reads) + 1))
  BY <1>3, <1>5, <1>7, <1>8, <1>9, <1>11
<1>14. q[1].transactionType = "DATA_WRITE" =>
         left = 0 /\ op.logicType = "MEM_COPY" /\ (res = 1 => len > 1)
  BY <1>1, <1>3, <1>6, <1>7, <1>9, <1>10, <1>11
<1>15. q[1].transactionType = "LOGIC_RESPONSE" => left = 0 /\ len = 1 /\ res = 1
  BY <1>7, <1>8, <1>9, <1>10, <1>11
<1>16. QED
  BY <1>12, <1>13, <1>14, <1>15 DEF left, res, len

LEMMA ReadLeaves ==
    ASSUME NEW op \in ProperOperations, NEW q \in Seq(Outgoing), q # << >>,
           NEW new \in Seq(Int),
           NEW n \in Nat, NEW addr \in Addresses, NEW reads \in Seq(Int),
           NEW writes \in Seq(Int), Reading(op, q, new, n, addr, reads, writes),
           q[1].transactionType = "DATA_READ",
           NEW id \in TransactionIDs, addr[id] = NULL, q[1].address \in Int,
           NEW after \in Addresses, after[id] = q[1].address,
           \A k \in TransactionIDs : k # id => after[k] = addr[k]
    PROVE  Reading(op, Tail(q), new, n, after, Append(reads, q[1].address), writes)
<1> DEFINE place == q[1].address
           read == Append(reads, place)
           t == Tail(q)
           left == Left(op, reads)
<1>0. place \in Int
  OBVIOUS
<1>1. /\ id \notin Awaited(addr) /\ Awaited(after) = Awaited(addr) \union {id}
      /\ ToCome(after, new) = ToCome(addr, new) \union {place}
  BY <1>0, NewlyAwaited
<1>2. /\ left \in Nat /\ left = Reads(op) - Len(reads) /\ left >= 1 /\ left <= Len(q)
      /\ Responses(q) = 0 /\ q[1] = Request("DATA_READ", ReadAddress(op, Len(reads) + 1))
  BY HeadOfReads
<1>3. place = ReadAddress(op, Len(reads) + 1)
  BY <1>2 DEF Request
<1>4. /\ t \in Seq(Outgoing) /\ Len(q) \in Nat /\ Len(t) = Len(q) - 1
      /\ \A i \in 1 .. Len(q) - 1 : t[i] = q[i + 1]
  BY TailPlaces
<1>5. /\ read \in Seq(Int) /\ Len(reads) \in Nat /\ Len(read) = Len(reads) + 1
      /\ read[Len(reads) + 1] = place /\ \A i \in 1 .. Len(reads) : read[i] = reads[i]
  BY AppendPlaces
<1>6. Responses(t) = 0
  BY <1>2, LastOfTail
<1>7. InQueue(t) = InQueue(q)
  BY WritesOfTail
<1>8. ToSet(read) = ToSet(reads) \union {place}
  BY SetOfAppend
<1>9. Reads(op) \in Nat
  BY ProperType
<1>10. /\ ReadsInOrder(op, q, reads) /\ DataCounted(new, n, addr, reads)
       /\ WritesCounted(op, q, n, reads, writes) /\ Copied(op, q, new, addr, reads, writes)
  BY DEF Reading
<1>11. Left(op, read) = left - 1
  BY <1>2, <1>5, <1>9 DEF Left
<1> HIDE DEF read, t, left, place
<1>12. ReadsInOrder(op, t, read)
  <2>1. /\ \A i \in 1 .. Len(reads) : reads[i] = ReadAddress(op, i)
        /\ \A i \in 1 .. left : q[i] = Request("DATA_READ", ReadAddress(op, Len(reads) + i))
        /\ \A i \in left + 1 .. Len(q) : q[i].transactionType = "DATA_WRITE"
    BY <1>2, <1>4, <1>10 DEF ReadsInOrder, left
  <2>2. \A i \in 1 .. Len(read) : read[i] = ReadAddress(op, i)
    <3>1. \A i \in 1 .. Len(read) : i \in 1 .. Len(reads) \/ i = Len(reads) + 1
      BY <1>5
    <3>2. \A i \in 1 .. Len(reads) : read[i] = ReadAddress(op, i)
      BY <1>5, <2>1
    <3>3. QED
      BY <1>3, <1>5, <3>1, <3>2
  <2>3. ASSUME NEW i \in 1 .. left - 1
        PROVE  t[i] = Request("DATA_READ", ReadAddress(op, Len(read) + i))
    <3>1. i + 1 \in 1 .. left /\ i \in 1 .. Len(q) - 1 /\ Len(reads) + (i + 1) = Len(read) + i
      BY <1>2, <1>4, <1>5
    <3>2. QED
      BY <1>4, <2>1, <3>1
  <2>4. ASSUME NEW i \in left .. Len(t)
        PROVE  t[i].transactionType = "DATA_WRITE"
    <3>1. i + 1 \in left + 1 .. Len(q) /\ i \in 1 .. Len(q) - 1
      BY <1>2, <1>4
    <3>2. QED
      BY <1>4, <2>1, <3>1
  <2>5. 0 <= left - 1 /\ left - 1 <= Len(t)
    BY <1>2, <1>4
  <2>6. (left - 1) + 1 = left /\ Len(t) - 0 = Len(t)
    BY <1>2, <1>4
  <2>7. QED
    BY <1>6, <1>11, <2>2, <2>3, <2>4, <2>5, <2>6 DEF ReadsInOrder
<1>13. ResponseIsLast(op, t, new, n, after, read)
  BY <1>6 DEF ResponseIsLast
<1>14. DataCounted(new, n, after, read)
  <2>1. IsFiniteSet(Awaited(addr)) /\ n + Len(new) + Cardinality(Awaited(addr)) <= Len(reads)
    BY <1>10 DEF DataCounted
  <2>2. /\ IsFiniteSet(Awaited(after)) /\ Cardinality(Awaited(addr)) \in Nat
        /\ Cardinality(Awaited(after)) = Cardinality(Awaited(addr)) + 1
    BY <1>1, <2>1, FS_AddElement, FS_CardinalityType
  <2>3. Len(new) \in Nat
    BY LenProperties
  <2>4. QED
    BY <1>5, <2>1, <2>2, <2>3 DEF DataCounted
<1>15. WritesCounted(op, t, n, read, writes)
  <2>1. Len(t) - (left - 1) - 0 = Len(q) - left - 0
    BY <1>2, <1>4
  <2>2. QED
    BY <1>2, <1>6, <1>10, <1>11, <2>1 DEF WritesCounted, left
<1>16. Copied(op, t, new, after, read, writes)
  <2>1. ASSUME op.logicType = "MEM_COPY"
        PROVE  InQueue(t) \union ToSet(writes) \union {MovedTo(op, b) : b \in ToCome(after, new)}
                  = {MovedTo(op, b) : b \in ToSet(read)}
    <3>1. InQueue(q) \union ToSet(writes) \union {MovedTo(op, b) : b \in ToCome(addr, new)}
             = {MovedTo(op, b) : b \in ToSet(reads)}
      BY <1>10, <2>1 DEF Copied
    <3>2. {MovedTo(op, b) : b \in ToCome(after, new)}
             = {MovedTo(op, b) : b \in ToCome(addr, new)} \union {MovedTo(op, place)}
      BY <1>1
    <3>3. {MovedTo(op, b) : b \in ToSet(read)}
             = {MovedTo(op, b) : b \in ToSet(reads)} \union {MovedTo(op, place)}
      BY <1>8
    <3>4. QED
      BY <1>7, <3>1, <3>2, <3>3
  <2>2. QED
    BY <2>1 DEF Copied
<1>17. QED
  BY <1>12, <1>13, <1>14, <1>15, <1>16 DEF Reading, read, t, place

LEMMA WriteLeaves ==
    ASSUME NEW op \in ProperOperations, NEW q \in Seq(Outgoing), q # << >>,
           NEW new \in Seq(Int),
           NEW n \in Nat, NEW addr \in Addresses, NEW reads \in Seq(Int),
           NEW writes \in Seq(Int), Reading(op, q, new, n, addr, reads, writes),
           q[1].transactionType = "DATA_WRITE", q[1].address \in Int
    PROVE  Reading(op, Tail(q), new, n, addr, reads, Append(writes, q[1].address))
<1> DEFINE place == q[1].address
           written == Append(writes, place)
           t == Tail(q)
<1>1. /\ Left(op, reads) = 0 /\ op.logicType = "MEM_COPY" /\ Left(op, reads) = Reads(op) - Len(reads)
      /\ Responses(q) = 1 => Len(q) > 1
  BY HeadOfReads
<1>2. /\ t \in Seq(Outgoing) /\ Len(q) \in Nat /\ Len(q) > 0 /\ Len(t) = Len(q) - 1
      /\ \A i \in 1 .. Len(q) - 1 : t[i] = q[i + 1]
  BY TailPlaces
<1>3. Responses(t) = Responses(q) /\ Responses(q) \in {0, 1}
  <2>1. Responses(q) \in {0, 1} /\ Responses(t) = IF Len(q) = 1 THEN 0 ELSE Responses(q)
    BY LastOfTail
  <2>2. Len(q) = 1 => Responses(q) # 1
    <3> DEFINE len == Len(q)
    <3>1. Responses(q) = 1 => len > 1
      BY <1>1
    <3> HIDE DEF len
    <3>2. len = 1 => Responses(q) # 1
      BY <3>1
    <3>3. QED
      BY <3>2 DEF len
  <2>3. QED
    BY <2>1, <2>2, Zenon
<1>4. Len(writes) \in Nat /\ Len(written) = Len(writes) + 1
  BY AppendPlaces
<1>5. InQueue(q) = InQueue(t) \union {place}
  BY WritesOfTail
<1>6. ToSet(written) = ToSet(writes) \union {place}
  BY SetOfAppend
<1>7. /\ ReadsInOrder(op, q, reads) /\ ResponseIsLast(op, q, new, n, addr, reads)
      /\ DataCounted(new, n, addr, reads)
      /\ WritesCounted(op, q, n, reads, writes) /\ Copied(op, q, new, addr, reads, writes)
  BY DEF Reading
<1> HIDE DEF t, written, place
<1>8. ReadsInOrder(op, t, reads)
  <2>1. /\ \A i \in 1 .. Len(reads) : reads[i] = ReadAddress(op, i)
        /\ \A i \in 1 .. Len(q) - Responses(q) : q[i].transactionType = "DATA_WRITE"
    BY <1>1, <1>7 DEF ReadsInOrder
  <2>2. ASSUME NEW i \in 1 .. Len(t) - Responses(t)
        PROVE  t[i].transactionType = "DATA_WRITE"
    <3>1. i + 1 \in 1 .. Len(q) - Responses(q) /\ i \in 1 .. Len(q) - 1
      BY <1>2, <1>3
    <3>2. QED
      BY <1>2, <2>1, <3>1
  <2>3. 0 <= Len(t) /\ 0 + 1 = 1
    BY <1>2
  <2>4. QED
    BY <1>1, <2>1, <2>2, <2>3 DEF ReadsInOrder
<1>9. ResponseIsLast(op, t, new, n, addr, reads)
  <2>1. ASSUME Responses(t) = 1 PROVE t[Len(t)] = q[Len(q)]
    <3>1. Len(t) \in 1 .. Len(q) - 1 /\ Len(t) + 1 = Len(q)
      BY <1>1, <1>2, <1>3, <2>1
    <3>2. QED
      BY <1>2, <3>1
  <2>2. QED
    BY <1>3, <1>7, <2>1 DEF ResponseIsLast
<1>10. WritesCounted(op, t, n, reads, written)
  <2> DEFINE due == IF Responses(q) = 1 THEN Reads(op) ELSE n
  <2>1. Len(writes) + (Len(q) - 0 - Responses(q)) = due
    BY <1>1, <1>7 DEF WritesCounted
  <2>2. Len(written) + (Len(t) - 0 - Responses(t)) = Len(writes) + (Len(q) - 0 - Responses(q))
    <3> DEFINE len == Len(q)
               rest == Len(t)
               before == Len(writes)
               now == Len(written)
               res == Responses(q)
    <3>1. /\ rest = len - 1 /\ len \in Nat /\ res \in {0, 1}
          /\ before \in Nat /\ now = before + 1
      BY <1>2, <1>3, <1>4
    <3> HIDE DEF len, rest, before, now, res
    <3>2. now + (rest - 0 - res) = before + (len - 0 - res)
      BY <3>1
    <3>3. QED
      BY <1>3, <3>2 DEF len, rest, before, now, res
  <2>3. QED
    BY <1>1, <1>3, <2>1, <2>2 DEF WritesCounted
<1>11. Copied(op, t, new, addr, reads, written)
  BY <1>5, <1>6, <1>7 DEF Copied
<1>12. QED
  BY <1>7, <1>8, <1>9, <1>10, <1>11 DEF Reading, written, t, place

\* One request for every page of a run of n from start.
Covered(sent, start, n) ==
    /\ Len(sent) = n
    /\ ToSet(sent) = ToSet(PagesFrom(start, n))

LEMMA PagesFromType ==
    ASSUME NEW start \in Nat, NEW n \in Nat
    PROVE  /\ PagesFrom(start, n) \in Seq(Int) /\ Len(PagesFrom(start, n)) = n
           /\ \A i \in 1 .. n : PagesFrom(start, n)[i] = start + (i - 1) * LogicStride
           /\ ToSet(PagesFrom(start, n)) = {start + i * LogicStride : i \in 0 .. n - 1}
<1>. DEFINE places == PagesFrom(start, n)
<1>1. \A i \in 1 .. n : start + (i - 1) * LogicStride \in Int
  BY StrideType
<1>2. /\ places \in Seq(Int) /\ Len(places) = n /\ DOMAIN places = 1 .. n
      /\ \A i \in 1 .. n : places[i] = start + (i - 1) * LogicStride
  BY <1>1 DEF PagesFrom
<1>. HIDE DEF places
<1>3. ASSUME NEW x \in ToSet(places)
      PROVE  x \in {start + i * LogicStride : i \in 0 .. n - 1}
  <2>1. PICK i \in 1 .. n : x = places[i]
    BY <1>2, <1>3 DEF ToSet
  <2>2. i - 1 \in 0 .. n - 1 /\ x = start + (i - 1) * LogicStride
    BY <1>2, <2>1
  <2>3. QED
    BY <2>2
<1>4. ASSUME NEW i \in 0 .. n - 1 PROVE start + i * LogicStride \in ToSet(places)
  <2>1. i + 1 \in 1 .. n /\ (i + 1) - 1 = i
    OBVIOUS
  <2>2. i + 1 \in DOMAIN places /\ places[i + 1] = start + i * LogicStride
    BY <1>2, <2>1
  <2>3. QED
    BY <2>2, Zenon DEF ToSet
<1>5. ToSet(places) = {start + i * LogicStride : i \in 0 .. n - 1}
  BY <1>3, <1>4
<1>6. QED
  BY <1>2, <1>5, Zenon DEF places

LEMMA PagesInOrder ==
    ASSUME NEW sent \in Seq(Int), NEW start \in Nat, NEW n \in Nat, Len(sent) = n,
           \A i \in 1 .. n : sent[i] = start + (i - 1) * LogicStride
    PROVE  sent = PagesFrom(start, n)
<1>. DEFINE places == PagesFrom(start, n)
<1>1. places \in Seq(Int) /\ Len(places) = n
      /\ \A i \in 1 .. n : places[i] = start + (i - 1) * LogicStride
  BY PagesFromType
<1>. HIDE DEF places
<1>2. Len(sent) = Len(places) /\ \A i \in 1 .. Len(sent) : sent[i] = places[i]
  BY <1>1
<1>3. sent = places
  BY <1>1, <1>2, SeqEqual
<1>4. QED
  BY <1>3 DEF places

LEMMA PagesMoved ==
    ASSUME NEW op \in ProperOperations, op.logicType = "MEM_COPY", NEW reads \in Seq(Int),
           NEW n \in Nat, reads = PagesFrom(op.address, n)
    PROVE  {MovedTo(op, a) : a \in ToSet(reads)}
              = {op.arguments[1] + i * LogicStride : i \in 0 .. n - 1}
<1>1. op.address \in Nat /\ op.arguments[1] \in Nat /\ LogicStride \in Nat
  BY ProperType, StrideType
<1>2. \A i \in 0 .. n - 1 :
         MovedTo(op, op.address + i * LogicStride) = op.arguments[1] + i * LogicStride
  <2>1. ASSUME NEW i \in 0 .. n - 1
        PROVE  MovedTo(op, op.address + i * LogicStride) = op.arguments[1] + i * LogicStride
    <3> DEFINE w == i * LogicStride
    <3>1. w \in Int
      BY <1>1
    <3> HIDE DEF w
    <3>2. (op.address + w) - op.address + op.arguments[1] = op.arguments[1] + w
      BY <1>1, <3>1
    <3>3. QED
      BY <3>2 DEF w, MovedTo
  <2>2. QED
    BY <2>1
<1>3. ToSet(reads) = {op.address + i * LogicStride : i \in 0 .. n - 1}
  BY <1>1, PagesFromType, Zenon
<1>4. {MovedTo(op, a) : a \in ToSet(reads)}
         = {MovedTo(op, op.address + i * LogicStride) : i \in 0 .. n - 1}
  BY <1>3
<1>5. QED
  BY <1>2, <1>4

\* What CarriedOut says, for the addresses read and written.
Done(op, reads, writes) ==
    /\ op.logicType = "PAGE_FILL" =>
          reads = << >> /\ writes = PagesFrom(op.address, op.arguments[1])
    /\ op.logicType = "MEM_COPY" =>
          /\ reads = PagesFrom(op.address, op.arguments[2])
          /\ Covered(writes, op.arguments[1], op.arguments[2])
    /\ op.logicType = "PAGE_TABLE_WALK" => writes = << >> /\ reads = op.arguments

LEMMA ResponseEndsFill ==
    ASSUME NEW op \in ProperOperations, op.logicType = "PAGE_FILL", NEW q \in Seq(Outgoing),
           q # << >>, NEW new \in Seq(Int), NEW n \in Nat, NEW addr \in Addresses,
           NEW reads \in Seq(Int), NEW writes \in Seq(Int),
           Filling(op, q, new, n, addr, reads, writes),
           q[1].transactionType = "LOGIC_RESPONSE"
    PROVE  /\ q[1] = ResponseTo(op) /\ Len(q) = 1
           /\ new = << >> /\ n = 0 /\ Awaited(addr) = {}
           /\ Done(op, reads, writes)
<1> DEFINE left == op.arguments[1] - Len(writes)
           len == Len(q)
<1>1. op.arguments[1] \in Nat /\ op.address \in Nat
  BY ProperType
<1>2. Len(writes) \in Nat
  BY LenProperties
<1>3. /\ new = << >> /\ n = 0 /\ Awaited(addr) = {} /\ reads = << >>
      /\ 0 <= left /\ len = left + 1 /\ q[len] = ResponseTo(op)
      /\ \A i \in 1 .. left :
            q[i] = Request("DATA_WRITE", op.address + (Len(writes) + i - 1) * LogicStride)
      /\ \A i \in 1 .. Len(writes) : writes[i] = op.address + (i - 1) * LogicStride
  BY DEF Filling
<1>4. left = 0
  <2>1. left # 0 => 1 \in 1 .. left
    BY <1>1, <1>2, <1>3
  <2> HIDE DEF left
  <2>2. left # 0 => q[1] = Request("DATA_WRITE", op.address + (Len(writes) + 1 - 1) * LogicStride)
    BY <1>3, <2>1, Zenon
  <2>3. left # 0 => q[1].transactionType = "DATA_WRITE"
    BY <2>2 DEF Request
  <2>4. QED
    BY <2>3
<1>5. Len(writes) = op.arguments[1]
  BY <1>1, <1>2, <1>4
<1>6. writes = PagesFrom(op.address, op.arguments[1])
  BY <1>1, <1>3, <1>5, PagesInOrder
<1>7. len = 1
  BY <1>3, <1>4
<1>8. q[1] = ResponseTo(op)
  BY <1>3, <1>7, Zenon
<1>9. QED
  BY <1>3, <1>6, <1>7, <1>8 DEF Done

LEMMA ResponseEndsReads ==
    ASSUME NEW op \in ProperOperations, op.logicType # "PAGE_FILL", NEW q \in Seq(Outgoing),
           q # << >>, NEW new \in Seq(Int), NEW n \in Nat, NEW addr \in Addresses,
           NEW reads \in Seq(Int), NEW writes \in Seq(Int),
           Reading(op, q, new, n, addr, reads, writes),
           q[1].transactionType = "LOGIC_RESPONSE"
    PROVE  /\ q[1] = ResponseTo(op) /\ Len(q) = 1
           /\ new = << >> /\ n = 0 /\ Awaited(addr) = {}
           /\ Done(op, reads, writes)
<1>1. /\ Left(op, reads) = 0 /\ Left(op, reads) = Reads(op) - Len(reads)
      /\ Len(q) = 1 /\ Responses(q) = 1
  BY HeadOfReads
<1>2. /\ n = 0 /\ new = << >> /\ Awaited(addr) = {} /\ q[Len(q)] = ResponseTo(op)
  BY <1>1 DEF Reading, ResponseIsLast
<1>3. q[1] = ResponseTo(op)
  BY <1>1, <1>2, Zenon
<1>4. Reads(op) \in Nat /\ Len(reads) \in Nat /\ Len(writes) \in Nat
  BY ProperType, LenProperties
<1>5. Len(reads) = Reads(op)
  BY <1>1, <1>4
<1>6. \A i \in 1 .. Len(reads) : reads[i] = ReadAddress(op, i)
  BY DEF Reading, ReadsInOrder
<1>7. ASSUME op.logicType = "PAGE_TABLE_WALK"
      PROVE  writes = << >> /\ reads = op.arguments
  <2>1. writes = << >>
    BY <1>7 DEF Reading, WritesCounted
  <2>2. Len(reads) = Len(op.arguments) /\ \A i \in 1 .. Len(reads) : reads[i] = op.arguments[i]
    BY <1>5, <1>6, <1>7 DEF Reads, ReadAddress
  <2>3. op.arguments \in Seq(Int)
    <3>1. op.arguments \in Seq(Nat)
      BY ProperType
    <3>2. QED
      BY <3>1
  <2>4. QED
    BY <2>1, <2>2, <2>3, SeqEqual
<1>8. ASSUME op.logicType = "MEM_COPY"
      PROVE  /\ reads = PagesFrom(op.address, op.arguments[2])
             /\ Covered(writes, op.arguments[1], op.arguments[2])
  <2>1. Reads(op) = op.arguments[2] /\ op.address \in Nat
    BY <1>8, ProperType DEF Reads
  <2>2. \A i \in 1 .. Reads(op) : reads[i] = op.address + (i - 1) * LogicStride
    BY <1>5, <1>6, <1>8 DEF ReadAddress
  <2>3. reads = PagesFrom(op.address, Reads(op))
    BY <1>4, <1>5, <2>1, <2>2, PagesInOrder
  <2>4. Len(writes) = Reads(op)
    <3>1. Len(writes) + (Len(q) - 0 - 1) = Reads(op)
      BY <1>1, <1>8 DEF Reading, WritesCounted
    <3>2. QED
      BY <1>1, <1>4, <3>1
  <2>5. InQueue(q) = {} /\ ToCome(addr, new) = {}
    <3>1. InQueue(q) = {}
      <4>1. DOMAIN q = 1 .. 1 /\ q[1].transactionType # "DATA_WRITE"
        BY <1>1, TailPlaces
      <4>2. QED
        BY <4>1 DEF InQueue
    <3>2. QED
      BY <1>2, <3>1, NoResponses DEF ToCome
  <2>6. ToSet(writes) = {MovedTo(op, a) : a \in ToSet(reads)}
    BY <1>8, <2>5 DEF Reading, Copied
  <2>7. ToSet(writes) = {op.arguments[1] + i * LogicStride : i \in 0 .. Reads(op) - 1}
    BY <1>4, <1>8, <2>3, <2>6, PagesMoved
  <2>8. ToSet(PagesFrom(op.arguments[1], Reads(op)))
           = {op.arguments[1] + i * LogicStride : i \in 0 .. Reads(op) - 1}
    <3>1. op.arguments[1] \in Nat
      BY <1>8, ProperType
    <3>2. QED
      BY <1>4, <3>1, PagesFromType
  <2>9. Covered(writes, op.arguments[1], Reads(op))
    BY <2>4, <2>7, <2>8, Zenon DEF Covered
  <2>10. QED
    BY <2>1, <2>3, <2>9, Zenon
<1>9. QED
  BY <1>1, <1>2, <1>3, <1>7, <1>8 DEF Done

\* A page of a fill leaves.
LEMMA PageLeaves ==
    ASSUME NEW op \in ProperOperations, op.logicType = "PAGE_FILL", NEW q \in Seq(Outgoing),
           q # << >>, NEW new \in Seq(Int), NEW n \in Nat, NEW addr \in Addresses,
           NEW reads \in Seq(Int), NEW writes \in Seq(Int),
           Filling(op, q, new, n, addr, reads, writes),
           q[1].transactionType # "LOGIC_RESPONSE"
    PROVE  /\ q[1].transactionType = "DATA_WRITE" /\ q[1].address \in Int
           /\ Filling(op, Tail(q), new, n, addr, reads, Append(writes, q[1].address))
<1> DEFINE left == op.arguments[1] - Len(writes)
           first == q[1].address
           written == Append(writes, first)
           t == Tail(q)
           len == Len(q)
           before == Len(writes)
<1>1. op.arguments[1] \in Nat /\ op.address \in Nat /\ LogicStride \in Nat
  BY ProperType, StrideType
<1>2. before \in Nat
  BY LenProperties
<1>3. /\ new = << >> /\ n = 0 /\ Awaited(addr) = {} /\ reads = << >>
      /\ 0 <= left /\ len = left + 1 /\ q[len] = ResponseTo(op)
      /\ \A i \in 1 .. left :
            q[i] = Request("DATA_WRITE", op.address + (before + i - 1) * LogicStride)
      /\ \A i \in 1 .. before : writes[i] = op.address + (i - 1) * LogicStride
  BY DEF Filling
<1>4. q[len].transactionType = "LOGIC_RESPONSE"
  BY <1>3, ResponseToType
<1>5. left >= 1 /\ left \in Nat
  <2>1. left = 0 => len = 1
    BY <1>3
  <2>2. left \in Int /\ 0 <= left
    BY <1>1, <1>2, <1>3
  <2> HIDE DEF left
  <2>3. len # 1
    BY <1>4, Zenon
  <2>4. QED
    BY <2>1, <2>2, <2>3
<1>6. q[1] = Request("DATA_WRITE", op.address + (before + 1 - 1) * LogicStride)
  <2>1. 1 \in 1 .. left
    BY <1>5
  <2>2. QED
    BY <1>3, <2>1, Zenon
<1>7. before * LogicStride \in Int
  BY <1>1, <1>2
<1>8. first = op.address + before * LogicStride /\ q[1].transactionType = "DATA_WRITE"
  <2>1. before + 1 - 1 = before
    BY <1>2
  <2>2. QED
    BY <1>6, <2>1 DEF Request
<1>9. first \in Int
  BY <1>1, <1>7, <1>8
<1>10. /\ written \in Seq(Int) /\ Len(written) = before + 1 /\ written[before + 1] = first
       /\ \A i \in 1 .. before : written[i] = writes[i]
  BY <1>9, AppendPlaces
<1>11. /\ t \in Seq(Outgoing) /\ Len(t) = len - 1
       /\ \A i \in 1 .. len - 1 : t[i] = q[i + 1]
  BY TailPlaces
<1>12. op.arguments[1] - (before + 1) = left - 1 /\ len - 1 = (left - 1) + 1 /\ len - 1 \in 1 .. len - 1
  <2> DEFINE count == op.arguments[1]
  <2>1. count \in Nat /\ before \in Nat /\ left = count - before /\ len = left + 1
    BY <1>1, <1>2, <1>3
  <2> HIDE DEF count, before, left, len
  <2>2. count - (before + 1) = left - 1 /\ len - 1 = (left - 1) + 1 /\ len - 1 \in 1 .. len - 1
    BY <1>5, <2>1
  <2>3. QED
    BY <2>2 DEF count
<1>13. (len - 1) + 1 = len
  BY <1>3, <1>5
<1> HIDE DEF left, first, written, t, len, before
<1>14. t[Len(t)] = ResponseTo(op)
  BY <1>3, <1>11, <1>12, <1>13
<1>15. ASSUME NEW i \in 1 .. left - 1
       PROVE  t[i] = Request("DATA_WRITE", op.address + (Len(written) + i - 1) * LogicStride)
  <2>1. i \in 1 .. len - 1 /\ i + 1 \in 1 .. left /\ before + (i + 1) - 1 = Len(written) + i - 1
    <3> DEFINE now == Len(written)
    <3>1. now = before + 1 /\ len - 1 = (left - 1) + 1 /\ len - 1 \in 1 .. len - 1
      BY <1>10, <1>12
    <3> HIDE DEF now
    <3>2. i \in 1 .. len - 1 /\ i + 1 \in 1 .. left /\ before + (i + 1) - 1 = now + i - 1
      BY <1>2, <1>5, <3>1
    <3>3. QED
      BY <3>2 DEF now
  <2>2. q[i + 1] = Request("DATA_WRITE", op.address + (before + (i + 1) - 1) * LogicStride)
    BY <1>3, <2>1, Zenon
  <2>3. t[i] = q[i + 1]
    BY <1>11, <2>1, Zenon
  <2>4. QED
    BY <2>1, <2>2, <2>3, Zenon
<1>16. ASSUME NEW i \in 1 .. Len(written)
       PROVE  written[i] = op.address + (i - 1) * LogicStride
  <2>1. CASE i = before + 1
    <3>1. i - 1 = before
      BY <1>2, <2>1
    <3>2. QED
      BY <1>8, <1>10, <2>1, <3>1, Zenon
  <2>2. CASE i # before + 1
    <3>1. i \in 1 .. before
      BY <1>2, <1>10, <2>2
    <3>2. QED
      BY <1>3, <1>10, <3>1, Zenon
  <2>3. QED
    BY <2>1, <2>2
<1>17. Filling(op, t, new, n, addr, reads, written)
  <2>1. 0 <= left - 1
    BY <1>5
  <2>2. op.arguments[1] - Len(written) = left - 1 /\ Len(t) = (left - 1) + 1
    BY <1>10, <1>11, <1>12
  <2> DEFINE rest == op.arguments[1] - Len(written)
  <2>3. rest = left - 1
    BY <2>2
  <2> HIDE DEF rest
  <2>4. /\ 0 <= rest /\ Len(t) = rest + 1
        /\ \A i \in 1 .. rest :
              t[i] = Request("DATA_WRITE", op.address + (Len(written) + i - 1) * LogicStride)
    BY <1>15, <2>1, <2>2, <2>3, Zenon
  <2>5. \A i \in 1 .. Len(written) : written[i] = op.address + (i - 1) * LogicStride
    BY <1>16
  <2>6. QED
    BY <1>3, <1>14, <2>4, <2>5, Zenon DEF Filling, rest
<1>18. QED
  BY <1>8, <1>9, <1>17 DEF first, written, t

-----------------------------------------------------------------------------
(* An operation is taken                                                   *)

LEMMA PagesType ==
    ASSUME NEW type \in DataTypes, NEW start \in Nat, NEW n \in Nat
    PROVE  /\ Pages(type, start, n) \in Seq(Outgoing) /\ Len(Pages(type, start, n)) = n
           /\ \A i \in 1 .. n :
                 Pages(type, start, n)[i] = Request(type, start + (i - 1) * LogicStride)
<1> DEFINE p(i) == Request(type, start + (i - 1) * LogicStride)
<1>1. \A i \in 1 .. n : p(i) \in Outgoing
  <2>1. ASSUME NEW i \in 1 .. n PROVE p(i) \in Outgoing
    <3>1. start + (i - 1) * LogicStride \in Int
      BY StrideType
    <3>2. QED
      BY <3>1, RequestType
  <2>2. QED
    BY <2>1
<1> DEFINE pages == [i \in 1 .. n |-> p(i)]
<1> HIDE DEF p
<1>2. pages \in Seq(Outgoing)
  BY <1>1
<1>3. Len(pages) = n /\ \A i \in 1 .. n : pages[i] = p(i)
  OBVIOUS
<1>4. pages = Pages(type, start, n)
  BY Zenon DEF Pages, p
<1> HIDE DEF pages
<1>5. \A i \in 1 .. n : Pages(type, start, n)[i] = p(i)
  BY <1>3, <1>4
<1>6. QED
  BY <1>2, <1>3, <1>4, <1>5 DEF p

LEMMA FillTaken ==
    ASSUME NEW op \in ProperOperations, op.logicType = "PAGE_FILL",
           NEW addr \in Addresses, Awaited(addr) = {}
    PROVE  /\ RequestsOf(op) \in Seq(Outgoing)
           /\ Filling(op, RequestsOf(op), << >>, 0, addr, << >>, << >>)
<1> DEFINE count == op.arguments[1]
           pages == Pages("DATA_WRITE", op.address, count)
           q == RequestsOf(op)
<1>1. count \in Nat /\ op.address \in Nat /\ "DATA_WRITE" \in DataTypes
  BY ProperType DEF DataTypes
<1>2. /\ pages \in Seq(Outgoing) /\ Len(pages) = count
      /\ \A i \in 1 .. count :
            pages[i] = Request("DATA_WRITE", op.address + (i - 1) * LogicStride)
  BY <1>1, PagesType
<1>3. q = Append(pages, ResponseTo(op))
  BY Zenon DEF RequestsOf
<1>4. ResponseTo(op) \in Outgoing
  BY ResponseToType
<1> HIDE DEF pages, q
<1>5. /\ q \in Seq(Outgoing) /\ Len(q) = count + 1 /\ q[count + 1] = ResponseTo(op)
      /\ \A i \in 1 .. count : q[i] = pages[i]
  BY <1>2, <1>3, <1>4, AppendPlaces
<1>6. ASSUME NEW i \in 1 .. count
      PROVE  q[i] = Request("DATA_WRITE", op.address + (Len(<< >>) + i - 1) * LogicStride)
  <2>1. Len(<< >>) + i - 1 = i - 1
    OBVIOUS
  <2>2. QED
    BY <1>2, <1>5, <2>1, Zenon
<1>7. count - Len(<< >>) = count /\ 0 <= count /\ 1 .. Len(<< >>) = {}
  BY <1>1
<1>8. Filling(op, q, << >>, 0, addr, << >>, << >>)
  <2> HIDE DEF count
  <2>1. /\ q[Len(q)] = ResponseTo(op) /\ 0 <= count - Len(<< >>)
        /\ Len(q) = count - Len(<< >>) + 1
    BY <1>5, <1>7
  <2>2. \A i \in 1 .. count - Len(<< >>) :
           q[i] = Request("DATA_WRITE", op.address + (Len(<< >>) + i - 1) * LogicStride)
    BY <1>6, <1>7, Zenon
  <2>3. \A i \in 1 .. Len(<< >>) : << >>[i] = op.address + (i - 1) * LogicStride
    BY <1>7, Zenon
  <2>4. QED
    BY <2>1, <2>2, <2>3, Zenon DEF Filling, count
<1>9. QED
  BY <1>5, <1>8 DEF q

LEMMA ReadsTaken ==
    ASSUME NEW op \in ProperOperations, op.logicType # "PAGE_FILL",
           NEW addr \in Addresses, Awaited(addr) = {}
    PROVE  /\ RequestsOf(op) \in Seq(Outgoing)
           /\ Reading(op, RequestsOf(op), << >>, 0, addr, << >>, << >>)
<1> DEFINE q == RequestsOf(op)
           count == Reads(op)
<1>1. /\ count \in Nat /\ op.address \in Nat /\ op.arguments \in Seq(Nat)
      /\ op.logicType \in LogicTypes /\ "DATA_READ" \in DataTypes
  BY ProperType DEF DataTypes
<1>2. /\ q \in Seq(Outgoing) /\ Len(q) = count
      /\ \A i \in 1 .. count : q[i] = Request("DATA_READ", ReadAddress(op, i))
  <2>1. CASE op.logicType = "MEM_COPY"
    <3>1. count = op.arguments[2]
      BY <2>1 DEF Reads
    <3>2. q = Pages("DATA_READ", op.address, op.arguments[2])
      BY <2>1, Zenon DEF RequestsOf
    <3>3. \A i \in 1 .. count : ReadAddress(op, i) = op.address + (i - 1) * LogicStride
      BY <2>1 DEF ReadAddress
    <3> HIDE DEF q, count
    <3>4. /\ q \in Seq(Outgoing) /\ Len(q) = count
          /\ \A i \in 1 .. count :
                q[i] = Request("DATA_READ", op.address + (i - 1) * LogicStride)
      <4> DEFINE pages == Pages("DATA_READ", op.address, count)
      <4>1. /\ pages \in Seq(Outgoing) /\ Len(pages) = count
            /\ \A i \in 1 .. count :
                  pages[i] = Request("DATA_READ", op.address + (i - 1) * LogicStride)
        BY <1>1, PagesType
      <4>2. q = pages
        BY <3>1, <3>2, Zenon
      <4> HIDE DEF pages
      <4>3. QED
        BY <4>1, <4>2
    <3>5. QED
      BY <3>3, <3>4, Zenon
  <2>2. CASE op.logicType = "PAGE_TABLE_WALK"
    <3> DEFINE p(i) == Request("DATA_READ", op.arguments[i])
               reads == [i \in 1 .. count |-> p(i)]
    <3>1. count = Len(op.arguments) /\ DOMAIN op.arguments = 1 .. count
      BY <1>1, <2>2, LenProperties DEF Reads
    <3>2. q = [i \in DOMAIN op.arguments |-> Request("DATA_READ", op.arguments[i])]
      BY <2>2, Zenon DEF RequestsOf
    <3>3. q = reads
      BY <3>1, <3>2, Zenon
    <3>4. ASSUME NEW i \in 1 .. count PROVE p(i) \in Outgoing /\ ReadAddress(op, i) = op.arguments[i]
      <4>1. op.arguments[i] \in Int
        BY <1>1, <3>1, <3>4, ElementOfSeq
      <4>2. ReadAddress(op, i) = op.arguments[i]
        BY <2>2 DEF ReadAddress
      <4>3. QED
        BY <1>1, <4>1, <4>2, RequestType
    <3>5. \A i \in 1 .. count : p(i) = Request("DATA_READ", ReadAddress(op, i))
      BY <3>4
    <3> HIDE DEF p, count, q
    <3>6. reads \in Seq(Outgoing) /\ Len(reads) = count /\ \A i \in 1 .. count : reads[i] = p(i)
      BY <1>1, <3>4
    <3> HIDE DEF reads
    <3>7. QED
      BY <3>3, <3>5, <3>6
  <2>3. QED
    BY <1>1, <2>1, <2>2 DEF LogicTypes
<1> HIDE DEF q, count
<1>3. ASSUME NEW i \in 1 .. count PROVE q[i].transactionType = "DATA_READ"
  BY <1>2 DEF Request
<1>4. Responses(q) = 0
  <2> DEFINE len == Len(q)
  <2>1. ASSUME q # << >> PROVE q[len].transactionType = "DATA_READ"
    <3>1. len # 0 /\ len = count
      BY <1>2, <2>1, NoneQueued, Zenon
    <3> HIDE DEF len
    <3>2. len \in 1 .. count
      BY <1>1, <3>1
    <3>3. QED
      BY <1>3, <3>2, Zenon
  <2>2. QED
    BY <2>1 DEF Responses
<1>5. InQueue(q) = {}
  <2>1. DOMAIN q = 1 .. count
    BY <1>2, LenProperties
  <2>2. QED
    BY <1>3, <2>1 DEF InQueue
<1>6. Left(op, << >>) = count /\ Len(<< >>) = 0 /\ 1 .. Len(<< >>) = {}
  BY <1>1 DEF Left, count
<1>7. ReadsInOrder(op, q, << >>)
  <2>1. \A i \in 1 .. count : q[i] = Request("DATA_READ", ReadAddress(op, Len(<< >>) + i))
    <3>1. \A i \in 1 .. count : Len(<< >>) + i = i
      BY <1>6
    <3>2. QED
      BY <1>2, <3>1
  <2>2. \A i \in count + 1 .. Len(q) - Responses(q) : q[i].transactionType = "DATA_WRITE"
    BY <1>1, <1>2, <1>4
  <2>3. 0 <= count /\ count <= Len(q)
    BY <1>1, <1>2
  <2>4. \A i \in 1 .. Len(<< >>) : << >>[i] = ReadAddress(op, i)
    BY <1>6, Zenon
  <2>5. QED
    BY <1>6, <2>1, <2>2, <2>3, <2>4, Zenon DEF ReadsInOrder
<1>8. ResponseIsLast(op, q, << >>, 0, addr, << >>)
  BY <1>4 DEF ResponseIsLast
<1>9. DataCounted(<< >>, 0, addr, << >>)
  <2>1. IsFiniteSet(Awaited(addr)) /\ Cardinality(Awaited(addr)) = 0
    BY FS_EmptySet
  <2>2. QED
    BY <1>6, <2>1 DEF DataCounted
<1>10. WritesCounted(op, q, 0, << >>, << >>)
  <2>1. Len(q) - count - 0 = 0
    BY <1>1, <1>2
  <2>2. QED
    BY <1>4, <1>6, <2>1 DEF WritesCounted
<1>11. Copied(op, q, << >>, addr, << >>, << >>)
  <2>1. ToCome(addr, << >>) = {}
    BY NoResponses DEF ToCome
  <2>2. QED
    BY <1>5, <2>1, NoResponses DEF Copied
<1>12. QED
  BY <1>2, <1>7, <1>8, <1>9, <1>10, <1>11 DEF Reading, q

LEMMA OperationTaken ==
    ASSUME NEW op \in ProperOperations, NEW q, NEW new, NEW n, NEW addr \in Addresses,
           NEW reads, NEW writes, AtRest(q, new, n, addr, reads, writes)
    PROVE  /\ q \o RequestsOf(op) \in Seq(Outgoing)
           /\ Working(op, q \o RequestsOf(op), new, n, addr, reads, writes)
<1>1. /\ q = << >> /\ new = << >> /\ n = 0 /\ Awaited(addr) = {}
      /\ reads = << >> /\ writes = << >>
  BY DEF AtRest
<1>2. /\ RequestsOf(op) \in Seq(Outgoing)
      /\ Working(op, RequestsOf(op), << >>, 0, addr, << >>, << >>)
  <2>1. CASE op.logicType = "PAGE_FILL"
    BY <1>1, <2>1, FillTaken, ProperType DEF Working
  <2>2. CASE op.logicType # "PAGE_FILL"
    BY <1>1, <2>2, ReadsTaken, ProperType DEF Working
  <2>3. QED
    BY <2>1, <2>2
<1>3. << >> \o RequestsOf(op) = RequestsOf(op)
  BY <1>2, ConcatEmptySeq
<1>4. QED
  BY <1>1, <1>2, <1>3

-----------------------------------------------------------------------------
(* A datum is used                                                         *)

WithWrite(op, q, new) ==
    IF op.logicType = "MEM_COPY"
    THEN Append(q, Request("DATA_WRITE", MovedTo(op, new[1]))) ELSE q

LEMMA ReadCounts ==
    ASSUME NEW op \in ProperOperations, NEW q \in Seq(Outgoing), NEW new \in Seq(Int),
           NEW n \in Nat, NEW addr \in Addresses, NEW reads \in Seq(Int),
           NEW writes \in Seq(Int), Reading(op, q, new, n, addr, reads, writes)
    PROVE  /\ IsFiniteSet(Awaited(addr)) /\ Cardinality(Awaited(addr)) \in Nat
           /\ n + Len(new) + Cardinality(Awaited(addr)) <= Len(reads)
           /\ Len(new) \in Nat /\ Len(reads) \in Nat /\ Len(writes) \in Nat /\ Len(q) \in Nat
           /\ Reads(op) \in Nat
           /\ Left(op, reads) \in Nat /\ Left(op, reads) = Reads(op) - Len(reads)
           /\ Left(op, reads) <= Len(q)
<1>1. /\ IsFiniteSet(Awaited(addr)) /\ n + Len(new) + Cardinality(Awaited(addr)) <= Len(reads)
  BY DEF Reading, DataCounted
<1>2. Cardinality(Awaited(addr)) \in Nat
  BY <1>1, FS_CardinalityType
<1>3. Len(new) \in Nat /\ Len(reads) \in Nat /\ Len(writes) \in Nat /\ Len(q) \in Nat
  BY LenProperties
<1>4. Reads(op) \in Nat
  BY ProperType
<1>5. 0 <= Left(op, reads) /\ Left(op, reads) <= Len(q)
  BY DEF Reading, ReadsInOrder
<1>6. Left(op, reads) = Reads(op) - Len(reads)
  BY DEF Left
<1>7. QED
  BY <1>1, <1>2, <1>3, <1>4, <1>5, <1>6

LEMMA DatumMovesOn ==
    ASSUME NEW op \in ProperOperations, op.logicType # "PAGE_FILL", NEW q \in Seq(Outgoing),
           NEW new \in Seq(Int), new # << >>,
           NEW n \in Nat, NEW addr \in Addresses, NEW reads \in Seq(Int),
           NEW writes \in Seq(Int), Reading(op, q, new, n, addr, reads, writes)
    PROVE  /\ WithWrite(op, q, new) \in Seq(Outgoing) /\ Responses(WithWrite(op, q, new)) = 0
           /\ Reading(op, WithWrite(op, q, new), Tail(new), n + 1, addr, reads, writes)
<1> DEFINE w == Request("DATA_WRITE", MovedTo(op, new[1]))
           next == WithWrite(op, q, new)
           rest == Tail(new)
           left == Left(op, reads)
           count == Cardinality(Awaited(addr))
<1>1. rest \in Seq(Int) /\ new[1] \in Int /\ Len(new) \in Nat /\ Len(rest) = Len(new) - 1
  BY TailPlaces
<1>2. /\ IsFiniteSet(Awaited(addr)) /\ count \in Nat
      /\ n + Len(new) + count <= Len(reads)
      /\ Len(reads) \in Nat /\ Len(writes) \in Nat /\ Len(q) \in Nat
      /\ left \in Nat /\ left <= Len(q)
  BY ReadCounts
<1>3. /\ op.address \in Nat /\ op.logicType \in LogicTypes
      /\ op.logicType = "MEM_COPY" => op.arguments[1] \in Nat
  BY ProperType
<1>4. op.logicType = "MEM_COPY" \/ op.logicType = "PAGE_TABLE_WALK"
  BY <1>3 DEF LogicTypes
<1>5. Responses(q) = 0
  <2>1. Responses(q) # 1
    BY DEF Reading, ResponseIsLast
  <2>2. QED
    BY <2>1 DEF Responses
<1>6. ToCome(addr, new) = ToCome(addr, rest) \union {new[1]}
  BY DatumUsed
<1>7. /\ \A i \in 1 .. Len(reads) : reads[i] = ReadAddress(op, i)
      /\ \A i \in 1 .. left : q[i] = Request("DATA_READ", ReadAddress(op, Len(reads) + i))
      /\ \A i \in left + 1 .. Len(q) - 0 : q[i].transactionType = "DATA_WRITE"
  BY <1>5 DEF Reading, ReadsInOrder
<1>8. DataCounted(rest, n + 1, addr, reads)
  <2> HIDE DEF rest, count
  <2>1. (n + 1) + Len(rest) + count <= Len(reads)
    <3> DEFINE before == Len(new)
               now == Len(rest)
    <3>1. before \in Nat /\ now = before - 1 /\ n + before + count <= Len(reads)
      BY <1>1, <1>2
    <3> HIDE DEF before, now
    <3>2. (n + 1) + now + count = n + before + count
      BY <1>2, <3>1
    <3>3. QED
      BY <3>1, <3>2 DEF now
  <2>2. QED
    BY <1>2, <2>1 DEF DataCounted, count
<1>9. CASE op.logicType = "MEM_COPY"
  <2>1. w \in Outgoing /\ w.transactionType = "DATA_WRITE" /\ w.address = MovedTo(op, new[1])
    <3>1. MovedTo(op, new[1]) \in Int /\ "DATA_WRITE" \in DataTypes
      BY <1>1, <1>3, <1>9 DEF MovedTo, DataTypes
    <3>2. QED
      BY <3>1, RequestType
  <2>2. next = Append(q, w)
    BY <1>9, Zenon DEF WithWrite
  <2> HIDE DEF w, next, rest, left
  <2>3. /\ next \in Seq(Outgoing) /\ Len(next) = Len(q) + 1 /\ next[Len(q) + 1] = w
        /\ \A i \in 1 .. Len(q) : next[i] = q[i]
    BY <2>1, <2>2, AppendPlaces
  <2>4. Responses(next) = 0
    BY <2>1, <2>2, LastOfAppend
  <2>5. InQueue(next) = InQueue(q) \union {MovedTo(op, new[1])}
    <3>1. InQueue(Append(q, w)) = InQueue(q)
             \union (IF w.transactionType = "DATA_WRITE" THEN {w.address} ELSE {})
      BY <2>1, WritesOfAppend
    <3>2. QED
      BY <2>1, <2>2, <3>1
  <2> DEFINE len == Len(q)
             longer == Len(next)
  <2>6. longer = len + 1 /\ len \in Nat /\ left <= len /\ left \in Nat
    BY <1>2, <2>3
  <2>7. ReadsInOrder(op, next, reads)
    <3>1. \A i \in 1 .. left : next[i] = Request("DATA_READ", ReadAddress(op, Len(reads) + i))
      <4>1. \A i \in 1 .. left : i \in 1 .. Len(q)
        BY <1>2
      <4>2. QED
        BY <1>7, <2>3, <4>1
    <3>2. ASSUME NEW i \in left + 1 .. longer PROVE next[i].transactionType = "DATA_WRITE"
      <4>1. CASE i = len + 1
        BY <2>1, <2>3, <4>1
      <4>2. CASE i # len + 1
        <5> HIDE DEF len, longer
        <5>1. i \in left + 1 .. len - 0 /\ i \in 1 .. len
          BY <2>6, <4>2
        <5>2. QED
          BY <1>7, <2>3, <5>1 DEF len
      <4>3. QED
        BY <4>1, <4>2
    <3>3. 0 <= left /\ left <= longer /\ longer - 0 = longer
      <4> HIDE DEF len, longer
      <4>1. QED
        BY <2>6
    <3>4. QED
      BY <1>7, <2>4, <3>1, <3>2, <3>3 DEF ReadsInOrder, left
  <2>8. ResponseIsLast(op, next, rest, n + 1, addr, reads)
    BY <2>4 DEF ResponseIsLast
  <2>9. WritesCounted(op, next, n + 1, reads, writes)
    <3> DEFINE before == Len(writes)
    <3>1. before + (len - left - 0) = n
      BY <1>5, <1>9 DEF Reading, WritesCounted, left
    <3>2. before \in Nat
      BY <1>2
    <3> HIDE DEF before, len, longer
    <3>3. before + (longer - left - 0) = n + 1
      BY <2>6, <3>1, <3>2
    <3>4. QED
      BY <1>9, <2>4, <3>3 DEF WritesCounted, left, before, longer
  <2>10. Copied(op, next, rest, addr, reads, writes)
    <3>1. InQueue(q) \union ToSet(writes) \union {MovedTo(op, b) : b \in ToCome(addr, new)}
             = {MovedTo(op, b) : b \in ToSet(reads)}
      BY <1>9 DEF Reading, Copied
    <3>2. {MovedTo(op, b) : b \in ToCome(addr, new)}
             = {MovedTo(op, b) : b \in ToCome(addr, rest)} \union {MovedTo(op, new[1])}
      BY <1>6
    <3>3. QED
      BY <2>5, <3>1, <3>2 DEF Copied
  <2>11. QED
    BY <1>8, <2>3, <2>4, <2>7, <2>8, <2>9, <2>10 DEF Reading, next, rest
<1>10. CASE op.logicType = "PAGE_TABLE_WALK"
  <2>1. next = q
    BY <1>10 DEF WithWrite
  <2>2. ResponseIsLast(op, q, rest, n + 1, addr, reads)
    BY <1>5 DEF ResponseIsLast
  <2>3. WritesCounted(op, q, n + 1, reads, writes)
    BY <1>10 DEF Reading, WritesCounted
  <2>4. Copied(op, q, rest, addr, reads, writes)
    BY <1>10 DEF Copied
  <2>5. ReadsInOrder(op, q, reads)
    BY DEF Reading
  <2>6. QED
    BY <1>5, <1>8, <2>1, <2>2, <2>3, <2>4, <2>5 DEF Reading, rest
<1>11. QED
  BY <1>4, <1>9, <1>10

LEMMA ResponseMade ==
    ASSUME NEW op \in ProperOperations, op.logicType # "PAGE_FILL", NEW q \in Seq(Outgoing),
           NEW new \in Seq(Int), NEW n \in Nat, NEW addr \in Addresses,
           NEW reads \in Seq(Int), NEW writes \in Seq(Int),
           Reading(op, q, new, n, addr, reads, writes), Responses(q) = 0, n = Reads(op)
    PROVE  /\ Append(q, ResponseTo(op)) \in Seq(Outgoing)
           /\ Reading(op, Append(q, ResponseTo(op)), new, 0, addr, reads, writes)
<1> DEFINE response == ResponseTo(op)
           next == Append(q, response)
           left == Left(op, reads)
           count == Cardinality(Awaited(addr))
           len == Len(q)
           longer == Len(next)
<1>1. /\ IsFiniteSet(Awaited(addr)) /\ count \in Nat
      /\ n + Len(new) + count <= Len(reads)
      /\ Len(reads) \in Nat /\ Len(writes) \in Nat /\ len \in Nat /\ Len(new) \in Nat
      /\ left \in Nat /\ left <= len /\ left = n - Len(reads)
  BY ReadCounts
<1>2. left = 0 /\ count = 0 /\ Len(new) = 0
  <2> DEFINE r == Len(reads)
             m == Len(new)
  <2> HIDE DEF r, m, left, count
  <2>1. r \in Nat /\ m \in Nat /\ count \in Nat /\ n + m + count <= r /\ left \in Nat /\ left = n - r
    BY <1>1 DEF r, m
  <2>2. left = 0 /\ count = 0 /\ m = 0
    BY <2>1
  <2>3. QED
    BY <2>2 DEF m
<1>3. Awaited(addr) = {}
  BY <1>1, <1>2, FS_EmptySet
<1>4. new = << >>
  BY <1>2, EmptySeq
<1>5. /\ response \in Outgoing /\ response.transactionType = "LOGIC_RESPONSE"
  BY ResponseToType
<1> HIDE DEF response, left, count
<1>6. /\ next \in Seq(Outgoing) /\ longer = len + 1 /\ next[len + 1] = response
      /\ \A i \in 1 .. len : next[i] = q[i]
  BY <1>5, AppendPlaces
<1>7. Responses(next) = 1
  BY <1>5, LastOfAppend
<1>8. InQueue(next) = InQueue(q)
  <2>1. InQueue(next) = InQueue(q)
           \union (IF response.transactionType = "DATA_WRITE" THEN {response.address} ELSE {})
    BY <1>5, WritesOfAppend, Zenon
  <2>2. QED
    BY <1>5, <2>1
<1>9. next[longer] = response
  BY <1>6
<1>10. longer - 1 = len /\ len - 0 = len
  <2> HIDE DEF len, longer
  <2>1. QED
    BY <1>1, <1>6
<1>11. ReadsInOrder(op, next, reads)
  <2>1. /\ \A i \in 1 .. Len(reads) : reads[i] = ReadAddress(op, i)
        /\ \A i \in 1 .. len : q[i].transactionType = "DATA_WRITE"
    <3>1. /\ \A i \in 1 .. Len(reads) : reads[i] = ReadAddress(op, i)
          /\ \A i \in left + 1 .. len - 0 : q[i].transactionType = "DATA_WRITE"
      BY DEF Reading, ReadsInOrder, left
    <3>2. QED
      BY <1>2, <1>10, <3>1
  <2>2. \A i \in 1 .. longer - 1 : next[i].transactionType = "DATA_WRITE"
    BY <1>6, <1>10, <2>1
  <2>3. 0 <= longer /\ left = 0
    <3> HIDE DEF len, longer
    <3>1. QED
      BY <1>1, <1>2, <1>6
  <2>4. 1 .. left = {} /\ left + 1 = 1
    BY <2>3
  <2> HIDE DEF next
  <2>5. QED
    BY <1>7, <2>1, <2>2, <2>3, <2>4 DEF ReadsInOrder, left
<1>12. ResponseIsLast(op, next, new, 0, addr, reads)
  <2> HIDE DEF next
  <2>1. QED
    BY <1>2, <1>3, <1>4, <1>9 DEF ResponseIsLast, left, response
<1>13. DataCounted(new, 0, addr, reads)
  BY <1>1, <1>2 DEF DataCounted, count
<1>14. WritesCounted(op, next, 0, reads, writes)
  <2> DEFINE before == Len(writes)
  <2> HIDE DEF next, longer, len, before
  <2>1. op.logicType = "MEM_COPY" => before + (len - 0 - 0) = n
    BY <1>2 DEF Reading, WritesCounted, left, len, before
  <2>2. op.logicType # "MEM_COPY" => writes = << >> /\ len - 0 - 0 = 0
    BY <1>2 DEF Reading, WritesCounted, left, len
  <2>3. before \in Nat /\ longer = len + 1 /\ len \in Nat
    BY <1>1, <1>6 DEF before
  <2>4. op.logicType = "MEM_COPY" => before + (longer - 0 - 1) = n
    BY <2>1, <2>3
  <2>5. op.logicType # "MEM_COPY" => writes = << >> /\ longer - 0 - 1 = 0
    BY <2>2, <2>3
  <2>6. QED
    BY <1>2, <1>7, <2>4, <2>5 DEF WritesCounted, left, longer, before
<1>15. Copied(op, next, new, addr, reads, writes)
  BY <1>8 DEF Reading, Copied
<1>16. QED
  BY <1>6, <1>11, <1>12, <1>13, <1>14, <1>15 DEF Reading, response

-----------------------------------------------------------------------------
(* The layer keeps to its invariant                                        *)

LEMMA LayerFields ==
    ASSUME NEW ly, NEW addr, NEW wk, Consistent(ly, addr, wk)
    PROVE  /\ ly \in Layers /\ addr \in Addresses
           /\ wk = [DATA_READ |-> wk.DATA_READ, DATA_WRITE |-> wk.DATA_WRITE]
           /\ wk.DATA_READ \in Seq(Int) /\ wk.DATA_WRITE \in Seq(Int)
           /\ ly.currentTransaction \in ProperOperations \union {NULL}
           /\ ly.pendingLogicOpsQueue \in Seq(ProperOperations)
           /\ ly.newOperationQueue \in Seq(Int) /\ ly.outgoingQueue \in Seq(Outgoing)
           /\ ly.issuedRequests \in Nat /\ ly.error = "none"
           /\ Working(ly.currentTransaction, ly.outgoingQueue, ly.newOperationQueue,
                      ly.issuedRequests, addr, wk.DATA_READ, wk.DATA_WRITE)
BY DEF Consistent, Layers, Addresses

LEMMA DatumReceived ==
    ASSUME NEW ly, NEW addr, NEW wk, Consistent(ly, addr, wk), NEW id \in Awaited(addr)
    PROVE  Consistent(ReceiveData(ly, addr[id]), [addr EXCEPT ![id] = NULL], wk)
<1> DEFINE new == Append(ly.newOperationQueue, addr[id])
           after == [addr EXCEPT ![id] = NULL]
           next == ReceiveData(ly, addr[id])
<1>1. /\ ly \in Layers /\ addr \in Addresses
      /\ wk.DATA_READ \in Seq(Int) /\ wk.DATA_WRITE \in Seq(Int)
      /\ ly.currentTransaction \in ProperOperations \union {NULL}
      /\ ly.newOperationQueue \in Seq(Int) /\ ly.outgoingQueue \in Seq(Outgoing)
      /\ ly.issuedRequests \in Nat
      /\ Working(ly.currentTransaction, ly.outgoingQueue, ly.newOperationQueue,
                 ly.issuedRequests, addr, wk.DATA_READ, wk.DATA_WRITE)
  BY LayerFields
<1>2. after \in Addresses /\ addr[id] \in Int
  BY <1>1, NoLongerAwaited
<1>3. new \in Seq(Int)
  BY <1>1, <1>2, AppendPlaces
<1>4. Working(ly.currentTransaction, ly.outgoingQueue, new, ly.issuedRequests, after,
              wk.DATA_READ, wk.DATA_WRITE)
  BY <1>1, DatumComes
<1>5. /\ next \in Layers /\ next.currentTransaction = ly.currentTransaction
      /\ next.outgoingQueue = ly.outgoingQueue /\ next.newOperationQueue = new
      /\ next.issuedRequests = ly.issuedRequests
  BY <1>1, <1>3 DEF ReceiveData, Layers
<1> HIDE DEF next, after, new
<1>6. wk \in [DATA_READ : Seq(Int), DATA_WRITE : Seq(Int)]
  BY DEF Consistent
<1>7. QED
  BY <1>2, <1>4, <1>5, <1>6 DEF Consistent, Addresses, next, after

LEMMA OperationReceived ==
    ASSUME NEW ly, NEW addr, NEW wk, Consistent(ly, addr, wk), NEW op \in ProperOperations
    PROVE  Consistent(ReceiveLogicOperation(ly, op), addr, wk)
<1> DEFINE next == ReceiveLogicOperation(ly, op)
           queue == Append(ly.pendingLogicOpsQueue, op)
<1>1. /\ ly \in Layers /\ ly.pendingLogicOpsQueue \in Seq(ProperOperations)
      /\ Working(ly.currentTransaction, ly.outgoingQueue, ly.newOperationQueue,
                 ly.issuedRequests, addr, wk.DATA_READ, wk.DATA_WRITE)
  BY LayerFields
<1>2. queue \in Seq(ProperOperations)
  BY <1>1, AppendPlaces
<1>3. /\ next \in Layers /\ next.currentTransaction = ly.currentTransaction
      /\ next.outgoingQueue = ly.outgoingQueue
      /\ next.newOperationQueue = ly.newOperationQueue
      /\ next.issuedRequests = ly.issuedRequests
  BY <1>1, <1>2 DEF ReceiveLogicOperation, Layers
<1> HIDE DEF next
<1>4. QED
  BY <1>1, <1>3 DEF Consistent, next

\* The next operation is taken when there is none.
LEMMA TakenInOrder ==
    ASSUME NEW ly, NEW addr, NEW wk, Consistent(ly, addr, wk)
    PROVE  Consistent(AfterTake(ly), addr, wk)
<1>1. CASE ly.currentTransaction # NULL \/ ly.pendingLogicOpsQueue = << >>
  BY <1>1 DEF AfterTake
<1>2. CASE ly.currentTransaction = NULL /\ ly.pendingLogicOpsQueue # << >>
  <2> DEFINE op == Head(ly.pendingLogicOpsQueue)
             rest == Tail(ly.pendingLogicOpsQueue)
             q == ly.outgoingQueue \o RequestsOf(op)
             next == [ly EXCEPT !.pendingLogicOpsQueue = rest,
                                !.currentTransaction = op, !.outgoingQueue = q]
  <2>1. /\ ly \in Layers /\ addr \in Addresses
        /\ ly.pendingLogicOpsQueue \in Seq(ProperOperations)
        /\ Working(ly.currentTransaction, ly.outgoingQueue, ly.newOperationQueue,
                   ly.issuedRequests, addr, wk.DATA_READ, wk.DATA_WRITE)
    BY LayerFields
  <2>2. op \in ProperOperations /\ rest \in Seq(ProperOperations)
    BY <1>2, <2>1, TailPlaces
  <2>3. ~ Malformed(op) /\ op.logicType # "NO_CONTENTS"
    BY <2>2, ProperType DEF LogicTypes
  <2>4. AtRest(ly.outgoingQueue, ly.newOperationQueue, ly.issuedRequests, addr,
               wk.DATA_READ, wk.DATA_WRITE)
    BY <1>2, <2>1 DEF Working
  <2>5. AfterTake(ly) = next
    BY <1>2, <2>3, Zenon DEF AfterTake
  <2> HIDE DEF op, rest
  <2>6. /\ q \in Seq(Outgoing)
        /\ Working(op, q, ly.newOperationQueue, ly.issuedRequests, addr,
                   wk.DATA_READ, wk.DATA_WRITE)
    BY <2>1, <2>2, <2>4, OperationTaken
  <2> HIDE DEF q
  <2>7. /\ next \in Layers /\ next.currentTransaction = op
        /\ next.outgoingQueue = q
        /\ next.newOperationQueue = ly.newOperationQueue
        /\ next.issuedRequests = ly.issuedRequests
    BY <2>1, <2>2, <2>6 DEF Layers
  <2> HIDE DEF next
  <2>8. QED
    BY <2>5, <2>6, <2>7 DEF Consistent
<1>3. QED
  BY <1>1, <1>2

LEMMA CountKept ==
    ASSUME NEW ly \in Layers, NEW op \in ProperOperations, op.logicType # "PAGE_FILL",
           ly.currentTransaction = op, NEW addr \in Addresses,
           NEW wk \in [DATA_READ : Seq(Int), DATA_WRITE : Seq(Int)],
           Responses(ly.outgoingQueue) = 0,
           Reading(op, ly.outgoingQueue, ly.newOperationQueue, ly.issuedRequests + 1,
                   addr, wk.DATA_READ, wk.DATA_WRITE)
    PROVE  Consistent(Counted(ly, op, Reads(op)), addr, wk)
<1> DEFINE q == ly.outgoingQueue
           new == ly.newOperationQueue
           n == ly.issuedRequests
           next == Counted(ly, op, Reads(op))
           answered == Append(q, ResponseTo(op))
<1>1. q \in Seq(Outgoing) /\ new \in Seq(Int) /\ n \in Nat /\ n + 1 \in Nat /\ op # NULL
  BY ProperType DEF Layers
<1>2. wk.DATA_READ \in Seq(Int) /\ wk.DATA_WRITE \in Seq(Int)
  OBVIOUS
<1>3. CASE n + 1 = Reads(op)
  <2> DEFINE m == n + 1
  <2>1. Reading(op, q, new, m, addr, wk.DATA_READ, wk.DATA_WRITE) /\ m \in Nat
    BY <1>1
  <2> HIDE DEF m
  <2>2. /\ answered \in Seq(Outgoing)
        /\ Reading(op, answered, new, 0, addr, wk.DATA_READ, wk.DATA_WRITE)
    BY <1>1, <1>2, <1>3, <2>1, ResponseMade DEF m
  <2>3. next = [ly EXCEPT !.issuedRequests = 0, !.outgoingQueue = answered]
    BY <1>3, Zenon DEF Counted
  <2> HIDE DEF answered, next
  <2>4. /\ next \in Layers /\ next.currentTransaction = op /\ next.outgoingQueue = answered
        /\ next.newOperationQueue = new /\ next.issuedRequests = 0
    BY <2>2, <2>3 DEF Layers
  <2>5. Working(op, answered, new, 0, addr, wk.DATA_READ, wk.DATA_WRITE)
    BY <1>1, <2>2 DEF Working
  <2>6. QED
    BY <2>4, <2>5 DEF Consistent, Addresses, next
<1>4. CASE n + 1 # Reads(op)
  <2>1. next = [ly EXCEPT !.issuedRequests = n + 1]
    BY <1>4, Zenon DEF Counted
  <2> HIDE DEF next
  <2>2. /\ next \in Layers /\ next.currentTransaction = op /\ next.outgoingQueue = q
        /\ next.newOperationQueue = new /\ next.issuedRequests = n + 1
    BY <1>1, <2>1 DEF Layers
  <2>3. Working(op, q, new, n + 1, addr, wk.DATA_READ, wk.DATA_WRITE)
    BY <1>1 DEF Working
  <2>4. QED
    BY <2>2, <2>3 DEF Consistent, Addresses, next
<1>5. QED
  BY <1>3, <1>4

\* A datum is used when there is one; it is of the operation that is being carried out.
LEMMA DatumIsUsed ==
    ASSUME NEW ly, NEW addr, NEW wk, Consistent(ly, addr, wk)
    PROVE  Consistent(AfterData(ly), addr, wk)
<1>1. CASE ly.newOperationQueue = << >>
  BY <1>1 DEF AfterData
<1>2. CASE ly.newOperationQueue # << >>
  <2> DEFINE op == ly.currentTransaction
             q == ly.outgoingQueue
             new == ly.newOperationQueue
             rest == Tail(new)
             n == ly.issuedRequests
             moved == MovedTo(op, new[1])
             used == [ly EXCEPT !.newOperationQueue = rest]
             next == WithWrite(op, q, new)
             with == [used EXCEPT !.outgoingQueue = next]
  <2>1. /\ ly \in Layers /\ addr \in Addresses
        /\ wk \in [DATA_READ : Seq(Int), DATA_WRITE : Seq(Int)]
        /\ wk.DATA_READ \in Seq(Int) /\ wk.DATA_WRITE \in Seq(Int)
        /\ op \in ProperOperations \union {NULL}
        /\ new \in Seq(Int) /\ q \in Seq(Outgoing) /\ n \in Nat
        /\ Working(op, q, new, n, addr, wk.DATA_READ, wk.DATA_WRITE)
    BY LayerFields DEF Consistent
  <2>2. op # NULL /\ op.logicType # "PAGE_FILL" /\ op \in ProperOperations
    BY <1>2, <2>1 DEF Working, AtRest, Filling
  <2>3. Reading(op, q, new, n, addr, wk.DATA_READ, wk.DATA_WRITE)
    BY <2>1, <2>2 DEF Working
  <2>4. /\ next \in Seq(Outgoing) /\ Responses(next) = 0
        /\ Reading(op, next, rest, n + 1, addr, wk.DATA_READ, wk.DATA_WRITE)
    BY <1>2, <2>1, <2>2, <2>3, DatumMovesOn
  <2>5. rest \in Seq(Int) /\ Head(new) = new[1]
    BY <1>2, <2>1, TailPlaces
  <2>6. AfterData(ly) = Counted(with, op, Reads(op))
    <3>1. op.logicType = "MEM_COPY" \/ op.logicType = "PAGE_TABLE_WALK"
      BY <2>2, ProperType DEF LogicTypes
    <3>2. CASE op.logicType = "MEM_COPY"
      <4> DEFINE appended == Append(q, Request("DATA_WRITE", Head(new) - op.address + op.arguments[1]))
      <4>1. next = appended
        BY <2>5, <3>2, Zenon DEF WithWrite, MovedTo
      <4>2. Reads(op) = op.arguments[2]
        BY <3>2 DEF Reads
      <4>3. used.outgoingQueue = q
        BY <2>1 DEF Layers
      <4>4. AfterData(ly) = Counted([used EXCEPT !.outgoingQueue =
                 Append(@, Request("DATA_WRITE", Head(new) - op.address + op.arguments[1]))],
                 op, op.arguments[2])
        BY <1>2, <2>2, <3>2 DEF AfterData
      <4>5. QED
        BY <4>1, <4>2, <4>3, <4>4
    <3>3. CASE op.logicType = "PAGE_TABLE_WALK"
      <4>1. next = q /\ Reads(op) = Len(op.arguments)
        BY <3>3 DEF WithWrite, Reads
      <4>2. with = used
        BY <2>1, <4>1 DEF Layers
      <4>3. AfterData(ly) = Counted(used, op, Len(op.arguments))
        BY <1>2, <2>2, <3>3 DEF AfterData
      <4>4. QED
        BY <4>1, <4>2, <4>3, Zenon
    <3>4. QED
      BY <3>1, <3>2, <3>3
  <2> HIDE DEF next, rest
  <2>7. /\ with \in Layers /\ with.currentTransaction = op /\ with.outgoingQueue = next
        /\ with.newOperationQueue = rest /\ with.issuedRequests = n
    BY <2>1, <2>4, <2>5 DEF Layers
  <2> HIDE DEF with, n, op
  <2>8. Consistent(Counted(with, op, Reads(op)), addr, wk)
    BY <2>1, <2>2, <2>4, <2>7, CountKept
  <2>9. QED
    BY <2>6, <2>8
<1>3. QED
  BY <1>1, <1>2

\* What the layer is after its head has left and op is the operation then.
LEMMA HeadLeft ==
    ASSUME NEW ly \in Layers, ly.outgoingQueue # << >>, NEW addr \in Addresses,
           NEW wk \in [DATA_READ : Seq(Int), DATA_WRITE : Seq(Int)],
           NEW op \in ProperOperations \union {NULL},
           op = IF ly.outgoingQueue[1].transactionType = "LOGIC_RESPONSE"
                THEN NULL ELSE ly.currentTransaction,
           Working(op, Tail(ly.outgoingQueue), ly.newOperationQueue, ly.issuedRequests,
                   addr, wk.DATA_READ, wk.DATA_WRITE)
    PROVE  Consistent(AfterSend(ly), addr, wk)
<1> DEFINE q == ly.outgoingQueue
           rest == Tail(q)
           next == AfterSend(ly)
<1>1. q \in Seq(Outgoing)
  BY DEF Layers
<1>2. rest \in Seq(Outgoing) /\ Head(q) = q[1]
  BY <1>1, TailPlaces
<1>3. next = [ly EXCEPT !.outgoingQueue = rest, !.currentTransaction = op]
  BY <1>2 DEF AfterSend
<1> HIDE DEF next, rest
<1>4. /\ next \in Layers /\ next.currentTransaction = op /\ next.outgoingQueue = rest
      /\ next.newOperationQueue = ly.newOperationQueue
      /\ next.issuedRequests = ly.issuedRequests
  BY <1>2, <1>3 DEF Layers
<1>5. QED
  BY <1>4 DEF Consistent, Addresses, next, rest

LEMMA RequestSent ==
    ASSUME NEW ly, NEW addr, NEW wk, Consistent(ly, addr, wk), ly.outgoingQueue # << >>,
           ly.outgoingQueue[1].transactionType \in DataTypes,
           NEW id \in TransactionIDs, addr[id] = NULL, NEW after \in Addresses,
           ly.outgoingQueue[1].transactionType = "DATA_READ" =>
               /\ after[id] = ly.outgoingQueue[1].address
               /\ \A k \in TransactionIDs : k # id => after[k] = addr[k],
           ly.outgoingQueue[1].transactionType = "DATA_WRITE" => after = addr,
           NEW sent,
           sent = [wk EXCEPT ![ly.outgoingQueue[1].transactionType] =
                       Append(@, ly.outgoingQueue[1].address)]
    PROVE  Consistent(AfterSend(ly), after, sent)
<1> DEFINE op == ly.currentTransaction
           q == ly.outgoingQueue
           type == q[1].transactionType
           place == q[1].address
           new == ly.newOperationQueue
           n == ly.issuedRequests
           r == wk.DATA_READ
           w == wk.DATA_WRITE
<1>1. /\ ly \in Layers /\ addr \in Addresses
      /\ wk \in [DATA_READ : Seq(Int), DATA_WRITE : Seq(Int)]
      /\ r \in Seq(Int) /\ w \in Seq(Int)
      /\ op \in ProperOperations \union {NULL}
      /\ new \in Seq(Int) /\ q \in Seq(Outgoing) /\ n \in Nat
      /\ Working(op, q, new, n, addr, r, w)
  BY LayerFields DEF Consistent
<1>2. type = "DATA_READ" \/ type = "DATA_WRITE"
  BY DEF DataTypes
<1>3. q[1] \in Outgoing
  BY <1>1, TailPlaces
<1>4. place \in Int
  BY <1>2, <1>3, OutgoingKinds
<1>5. op # NULL /\ op \in ProperOperations
  BY <1>1 DEF Working, AtRest
<1>6. Append(r, place) \in Seq(Int) /\ Append(w, place) \in Seq(Int)
  BY <1>1, <1>4, AppendPlaces
<1>7. /\ sent \in [DATA_READ : Seq(Int), DATA_WRITE : Seq(Int)]
      /\ type = "DATA_READ" => sent.DATA_READ = Append(r, place) /\ sent.DATA_WRITE = w
      /\ type = "DATA_WRITE" => sent.DATA_READ = r /\ sent.DATA_WRITE = Append(w, place)
  <2> HIDE DEF place
  <2>1. CASE type = "DATA_READ"
    <3>1. sent = [wk EXCEPT !.DATA_READ = Append(r, place)]
      BY <2>1 DEF place
    <3>2. QED
      BY <1>1, <1>6, <2>1, <3>1
  <2>2. CASE type = "DATA_WRITE"
    <3>1. sent = [wk EXCEPT !.DATA_WRITE = Append(w, place)]
      BY <2>2 DEF place
    <3>2. QED
      BY <1>1, <1>6, <2>2, <3>1
  <2>3. QED
    BY <1>2, <2>1, <2>2
<1>8. Working(op, Tail(q), new, n, after, sent.DATA_READ, sent.DATA_WRITE)
  <2>1. CASE op.logicType = "PAGE_FILL"
    <3>1. Filling(op, q, new, n, addr, r, w)
      BY <1>1, <1>5, <2>1 DEF Working
    <3>2. type = "DATA_WRITE" /\ Filling(op, Tail(q), new, n, addr, r, Append(w, place))
      BY <1>1, <1>2, <1>5, <2>1, <3>1, PageLeaves
    <3>3. after = addr
      BY <3>2
    <3> HIDE DEF place, type
    <3>4. QED
      BY <1>5, <1>7, <2>1, <3>2, <3>3 DEF Working
  <2>2. CASE op.logicType # "PAGE_FILL" /\ type = "DATA_READ"
    <3>1. Reading(op, q, new, n, addr, r, w)
      BY <1>1, <1>5, <2>2 DEF Working
    <3>2. after[id] = place /\ \A k \in TransactionIDs : k # id => after[k] = addr[k]
      BY <2>2
    <3>3. Reading(op, Tail(q), new, n, after, Append(r, place), w)
      <4>1. /\ op \in ProperOperations /\ q \in Seq(Outgoing) /\ q # << >>
            /\ new \in Seq(Int) /\ n \in Nat /\ addr \in Addresses
            /\ r \in Seq(Int) /\ w \in Seq(Int) /\ addr[id] = NULL /\ after[id] = q[1].address
            /\ q[1].transactionType = "DATA_READ" /\ q[1].address \in Int
        BY <1>1, <1>4, <1>5, <2>2, <3>2
      <4> HIDE DEF op, q, new, n, r, w
      <4>2. QED
        BY <3>1, <3>2, <4>1, ReadLeaves
    <3>4. QED
      BY <1>5, <1>7, <2>2, <3>3 DEF Working
  <2>3. CASE op.logicType # "PAGE_FILL" /\ type = "DATA_WRITE"
    <3>1. Reading(op, q, new, n, addr, r, w)
      BY <1>1, <1>5, <2>3 DEF Working
    <3>2. Reading(op, Tail(q), new, n, addr, r, Append(w, place))
      BY <1>1, <1>4, <1>5, <2>3, <3>1, WriteLeaves
    <3>3. QED
      BY <1>5, <1>7, <2>3, <3>2 DEF Working
  <2>4. QED
    BY <1>2, <2>1, <2>2, <2>3
<1>9. op = IF type = "LOGIC_RESPONSE" THEN NULL ELSE ly.currentTransaction
  BY <1>2
<1> HIDE DEF op, type, place
<1>10. QED
  BY <1>1, <1>7, <1>8, <1>9, HeadLeft DEF op, type

LEMMA ResponseSent ==
    ASSUME NEW ly, NEW addr, NEW wk, Consistent(ly, addr, wk), ly.outgoingQueue # << >>,
           ly.outgoingQueue[1].transactionType \notin DataTypes
    PROVE  /\ ly.currentTransaction \in ProperOperations
           /\ ly.outgoingQueue[1] = ResponseTo(ly.currentTransaction)
           /\ ly.newOperationQueue = << >> /\ Awaited(addr) = {}
           /\ Done(ly.currentTransaction, wk.DATA_READ, wk.DATA_WRITE)
           /\ Consistent(AfterSend(ly), addr, NoWork)
<1> DEFINE op == ly.currentTransaction
           q == ly.outgoingQueue
           new == ly.newOperationQueue
           n == ly.issuedRequests
           r == wk.DATA_READ
           w == wk.DATA_WRITE
<1>1. /\ ly \in Layers /\ addr \in Addresses
      /\ r \in Seq(Int) /\ w \in Seq(Int)
      /\ op \in ProperOperations \union {NULL}
      /\ new \in Seq(Int) /\ q \in Seq(Outgoing) /\ n \in Nat
      /\ Working(op, q, new, n, addr, r, w)
  BY LayerFields
<1>2. q[1] \in Outgoing
  BY <1>1, TailPlaces
<1>3. q[1].transactionType = "LOGIC_RESPONSE"
  BY <1>2, OutgoingKinds DEF DataTypes
<1>4. op # NULL /\ op \in ProperOperations
  BY <1>1 DEF Working, AtRest
<1>5. /\ q[1] = ResponseTo(op) /\ Len(q) = 1
      /\ new = << >> /\ n = 0 /\ Awaited(addr) = {} /\ Done(op, r, w)
  <2>1. CASE op.logicType = "PAGE_FILL"
    <3>1. Filling(op, q, new, n, addr, r, w)
      BY <1>1, <1>4, <2>1 DEF Working
    <3>2. QED
      BY <1>1, <1>3, <1>4, <2>1, <3>1, ResponseEndsFill
  <2>2. CASE op.logicType # "PAGE_FILL"
    <3>1. Reading(op, q, new, n, addr, r, w)
      BY <1>1, <1>4, <2>2 DEF Working
    <3>2. QED
      BY <1>1, <1>3, <1>4, <2>2, <3>1, ResponseEndsReads
  <2>3. QED
    BY <2>1, <2>2
<1>6. Tail(q) = << >>
  <2>1. Tail(q) \in Seq(Outgoing) /\ Len(Tail(q)) = 0
    BY <1>1, <1>5, TailPlaces
  <2>2. QED
    BY <2>1, NoneQueued, Zenon
<1>7. /\ NoWork \in [DATA_READ : Seq(Int), DATA_WRITE : Seq(Int)]
      /\ NoWork.DATA_READ = << >> /\ NoWork.DATA_WRITE = << >>
  BY DEF NoWork
<1>8. Working(NULL, Tail(q), new, n, addr, NoWork.DATA_READ, NoWork.DATA_WRITE)
  BY <1>5, <1>6, <1>7 DEF Working, AtRest
<1>9. Consistent(AfterSend(ly), addr, NoWork)
  <2> DEFINE none == NULL
  <2>1. /\ none \in ProperOperations \union {NULL}
        /\ none = IF q[1].transactionType = "LOGIC_RESPONSE" THEN NULL ELSE op
        /\ Working(none, Tail(q), new, n, addr, NoWork.DATA_READ, NoWork.DATA_WRITE)
    BY <1>3, <1>8
  <2> HIDE DEF none
  <2>2. QED
    BY <1>1, <1>7, <2>1, HeadLeft
<1>10. QED
  BY <1>4, <1>5, <1>9


-----------------------------------------------------------------------------
(* The reads of the layer in the channel                                   *)

IsRead(p) == p.busPacketType \in {"READ_P", "READ_DATA"}

\* The layer's read that the packet belongs to, if it does, is one of ids.
Expected(p, ids) == IsRead(p) /\ p.fromLogicOp => p.transactionID \in ids

\* What may be on the command bus, on the data bus, and in a rank.
Commanded(p, ids) == p.busPacketType # "READ_DATA" /\ Expected(p, ids)
Carried(p, ids) == p.busPacketType # "READ_P" /\ Expected(p, ids)
Returned(p, ids) == p.busPacketType = "READ_DATA" /\ Expected(p, ids)

\* No read of the layer is in the channel, or on its way back, but those of ids.
ReadsAreOf(ids) ==
    /\ \A i \in DOMAIN commandQueue : Expected(commandQueue[i], ids)
    /\ inFlightCommandPacket # NULL => Commanded(inFlightCommandPacket, ids)
    /\ inFlightDataPacket # NULL => Carried(inFlightDataPacket, ids)
    /\ \A r \in Ranks : \A i \in DOMAIN ranks[r].readReturnQueue :
          Returned(ranks[r].readReturnQueue[i].packet, ids)

\* A READ and the data it brings are of one read.
LEMMA DataOfRead ==
    ASSUME NEW p \in BusPacket, p.busPacketType = "READ_P", NEW ids, Commanded(p, ids)
    PROVE  Returned(AsType(p, "READ_DATA"), ids)
<1>1. /\ AsType(p, "READ_DATA").busPacketType = "READ_DATA"
      /\ AsType(p, "READ_DATA").fromLogicOp = p.fromLogicOp
      /\ AsType(p, "READ_DATA").transactionID = p.transactionID
  BY DEF AsType, BusPacket
<1>2. QED
  BY <1>1 DEF Returned, Commanded, Expected, IsRead

\* The buses deliver: a rank gets the READ that was on the command bus.
LEMMA ReadsOfRankNow ==
    ASSUME TypeOK, NEW ids, ReadsAreOf(ids), NEW r \in Ranks
    PROVE  /\ RanksNow[r].readReturnQueue \in Seq(Burst)
           /\ \A i \in DOMAIN RanksNow[r].readReturnQueue :
                 Returned(RanksNow[r].readReturnQueue[i].packet, ids)
<1>. DEFINE p == inFlightCommandPacket
            queue == ranks[r].readReturnQueue
<1>1. RanksNow[r].readReturnQueue = RanksAfterCommand[r].readReturnQueue
  <2>1. RanksAfterCommand[r] \in RankStates
    BY NowTypes
  <2>2. CASE WriteArrives /\ inFlightDataPacket.rank = r
    <3>1. /\ inFlightDataPacket \in BusPacket
          /\ inFlightDataPacket.busPacketType = "WRITE_DATA"
      BY <2>2 DEF WriteArrives, DataArrives, TypeOK
    <3>2. RanksNow[r] = ReceiveFromBus(RanksAfterCommand[r], inFlightDataPacket)
      BY <2>2 DEF RanksNow
    <3>3. QED
      BY <2>1, <3>1, <3>2, ReceivedReads
  <2>3. CASE ~ (WriteArrives /\ inFlightDataPacket.rank = r)
    BY <2>3 DEF RanksNow
  <2>4. QED
    BY <2>2, <2>3
<1>2. RanksNow[r].readReturnQueue \in Seq(Burst)
  BY NowTypes DEF RankStates
<1>3. /\ ranks[r] \in RankStates /\ queue \in Seq(Burst)
      /\ \A i \in DOMAIN queue : Returned(queue[i].packet, ids)
  BY DEF TypeOK, RankStates, ReadsAreOf
<1>4. CASE CommandArrives /\ p.rank = r /\ p.busPacketType = "READ_P"
  <2>1. p # NULL /\ p \in BusPacket /\ Commanded(p, ids)
    BY <1>4 DEF CommandArrives, TypeOK, ReadsAreOf
  <2>. DEFINE e == [packet |-> AsType(p, "READ_DATA"), countdown |-> tCL]
  <2>2. e \in Burst /\ Returned(e.packet, ids)
    <3>1. AsType(p, "READ_DATA") \in BusPacket
      BY <2>1, AsTypeType DEF BusPacketTypes
    <3>2. Returned(AsType(p, "READ_DATA"), ids)
      BY <1>4, <2>1, DataOfRead
    <3>3. QED
      BY <3>1, <3>2, TimingTypes DEF Burst
  <2>3. RanksNow[r].readReturnQueue = Append(queue, e)
    BY <1>1, <1>3, <1>4, <2>1, ReceivedReads DEF RanksAfterCommand
  <2>. HIDE DEF e, queue
  <2>4. /\ DOMAIN queue = 1 .. Len(queue) /\ DOMAIN Append(queue, e) = 1 .. Len(queue) + 1
        /\ Len(queue) \in Nat
        /\ Append(queue, e)[Len(queue) + 1] = e
        /\ \A i \in 1 .. Len(queue) : Append(queue, e)[i] = queue[i]
    BY <1>3, <2>2, AppendPlaces
  <2>. DEFINE n == Len(queue)
  <2>5. \A i \in 1 .. n + 1 : i = n + 1 \/ i \in 1 .. n
    BY <2>4
  <2>. HIDE DEF n
  <2>6. \A i \in 1 .. n + 1 : Returned(Append(queue, e)[i].packet, ids)
    BY <1>3, <2>2, <2>4, <2>5 DEF n
  <2>7. QED
    BY <1>2, <2>3, <2>4, <2>6 DEF n
<1>5. CASE ~ (CommandArrives /\ p.rank = r /\ p.busPacketType = "READ_P")
  <2>1. RanksAfterCommand[r].readReturnQueue = queue
    <3>1. CASE CommandArrives /\ p.rank = r
      <4>1. p \in BusPacket /\ p.busPacketType # "READ_P"
        BY <1>5, <3>1 DEF CommandArrives, TypeOK
      <4>2. RanksAfterCommand[r] = ReceiveFromBus(ranks[r], p)
        BY <3>1 DEF RanksAfterCommand
      <4>3. QED
        BY <1>3, <4>1, <4>2, ReceivedReads
    <3>2. CASE ~ (CommandArrives /\ p.rank = r)
      BY <3>2 DEF RanksAfterCommand
    <3>3. QED
      BY <3>1, <3>2
  <2>2. QED
    BY <1>1, <1>2, <1>3, <2>1
<1>6. QED
  BY <1>4, <1>5

\* The ranks advance, and the data bus takes what is due.
LEMMA ReadsAfterCycle ==
    ASSUME TypeOK, WritesAreWrites, NEW ids, ReadsAreOf(ids), NEW sendsCommand, NEW sendsCAS,
           Cycle(sendsCommand, sendsCAS)
    PROVE  /\ \A r \in Ranks : \A i \in DOMAIN ranks'[r].readReturnQueue :
                 Returned(ranks'[r].readReturnQueue[i].packet, ids)
           /\ inFlightDataPacket' # NULL => Carried(inFlightDataPacket', ids)
<1>1. ASSUME NEW r \in Ranks, NEW i \in DOMAIN ranks'[r].readReturnQueue
      PROVE  Returned(ranks'[r].readReturnQueue[i].packet, ids)
  <2>. DEFINE now == RanksNow[r].readReturnQueue
  <2>1. ranks'[r].readReturnQueue = AfterCountDown(now)
    BY DEF Cycle, UpdateRank
  <2>2. now \in Seq(Burst) /\ \A j \in DOMAIN now : Returned(now[j].packet, ids)
    BY ReadsOfRankNow
  <2>. HIDE DEF now
  <2>3. \E j \in DOMAIN now : AfterCountDown(now)[i].packet = now[j].packet
    BY <1>1, <2>1, <2>2, AfterCountDownPacket
  <2>4. QED
    BY <2>1, <2>2, <2>3
<1>2. CASE WriteIsDue
  <2>1. DueWrite.busPacketType = "WRITE_DATA"
    <3>1. writeBurstQueue \in Seq(Burst) /\ writeBurstQueue # << >>
      BY <1>2 DEF WriteIsDue, HeadIsDue, TypeOK, ControllerTypeOK
    <3>2. 1 \in DOMAIN writeBurstQueue /\ Head(writeBurstQueue) = writeBurstQueue[1]
      BY <3>1, LenProperties, EmptySeq
    <3>3. QED
      BY <3>2 DEF DueWrite, WritesAreWrites
  <2>2. inFlightDataPacket' = DueWrite
    BY <1>2 DEF Cycle, DataBusAdvances, DataStarts
  <2>3. QED
    BY <1>1, <2>1, <2>2 DEF Carried, Expected, IsRead
<1>3. CASE ~ WriteIsDue /\ ReturningRanks # {}
  <2>1. PICK q \in ReturningRanks : q = CHOOSE x \in ReturningRanks : TRUE
    BY <1>3
  <2>. DEFINE now == RanksNow[q].readReturnQueue
  <2>2. q \in Ranks /\ HeadIsDue(now)
    BY DEF ReturningRanks, ReturnIsDue
  <2>3. inFlightDataPacket' = Head(now).packet
    BY <1>3, <2>1 DEF Cycle, DataBusAdvances, DataStarts, ReturnedPacket
  <2>4. now \in Seq(Burst) /\ \A j \in DOMAIN now : Returned(now[j].packet, ids)
    BY <2>2, ReadsOfRankNow
  <2>5. now # << >>
    BY <2>2 DEF HeadIsDue
  <2>. HIDE DEF now
  <2>6. 1 \in DOMAIN now /\ Head(now) = now[1]
    BY <2>4, <2>5, LenProperties, EmptySeq
  <2>7. QED
    BY <1>1, <2>3, <2>4, <2>6 DEF Returned, Carried
<1>4. CASE ~ WriteIsDue /\ ReturningRanks = {}
  <2>1. inFlightDataPacket' = IF DataArrives THEN NULL ELSE inFlightDataPacket
    BY <1>4 DEF Cycle, DataBusAdvances
  <2>2. QED
    BY <1>1, <2>1 DEF ReadsAreOf
<1>5. QED
  BY <1>1, <1>2, <1>3, <1>4

(* An Update takes no new read of the layer in                             *)

\* What an Update does to the queue and to the command bus.
LEMMA UpdateShape ==
    ASSUME TypeOK, Update
    PROVE  /\ Cycle(TRUE, TRUE) \/ Cycle(TRUE, FALSE) \/ Cycle(FALSE, FALSE)
           /\ \/ /\ commandQueue' = commandQueue
                 /\ \/ inFlightCommandPacket' = NULL
                    \/ inFlightCommandPacket' = inFlightCommandPacket /\ ~ CommandArrives
                    \/ inFlightCommandPacket'.busPacketType = "REFRESH"
              \/ \E k \in DOMAIN commandQueue :
                    /\ commandQueue' = Without(commandQueue, k)
                    /\ inFlightCommandPacket' = commandQueue[k]
<1>1. CASE \E r \in Ranks : IssueRefresh(r)
  <2>1. PICK r \in Ranks : IssueRefresh(r)
    BY <1>1
  <2>2. /\ Cycle(TRUE, FALSE) /\ commandQueue' = commandQueue
        /\ inFlightCommandPacket' = RefreshPacket(r)
    BY <2>1 DEF IssueRefresh, ControllerRefresh, CommandStarts
  <2>3. QED
    BY <2>2 DEF RefreshPacket
<1>2. CASE \E k \in DOMAIN commandQueue : IssueRead(k) \/ IssueWrite(k) \/ IssueActivate(k)
  <2>1. PICK k \in DOMAIN commandQueue : IssueRead(k) \/ IssueWrite(k) \/ IssueActivate(k)
    BY <1>2
  <2>2. /\ Cycle(TRUE, TRUE) \/ Cycle(TRUE, FALSE)
        /\ commandQueue' = Without(commandQueue, k)
        /\ inFlightCommandPacket' = commandQueue[k]
    BY <2>1, Zenon DEF IssueRead, IssueWrite, IssueActivate, ControllerRead,
                       ControllerWrite, ControllerActivate, CommandStarts
  <2>3. QED
    BY <2>2
<1>3. CASE IssueNothing
  <2>1. /\ Cycle(FALSE, FALSE) /\ commandQueue' = commandQueue
        /\ inFlightCommandPacket' = IF CommandArrives THEN NULL ELSE inFlightCommandPacket
    BY <1>3 DEF IssueNothing, ControllerIdle, NoCommandStarts
  <2>2. QED
    BY <2>1
<1>4. QED
  BY <1>1, <1>2, <1>3 DEF Update

LEMMA ReadsAfterUpdate ==
    ASSUME TypeOK, WellFormed(commandQueue), WritesAreWrites, NEW ids, ReadsAreOf(ids), Update
    PROVE  ReadsAreOf(ids)'
<1>1. /\ \A r \in Ranks : \A i \in DOMAIN ranks'[r].readReturnQueue :
            Returned(ranks'[r].readReturnQueue[i].packet, ids)
      /\ inFlightDataPacket' # NULL => Carried(inFlightDataPacket', ids)
  <2>1. Cycle(TRUE, TRUE) \/ Cycle(TRUE, FALSE) \/ Cycle(FALSE, FALSE)
    BY UpdateShape
  <2>2. QED
    BY <2>1, ReadsAfterCycle
<1>2. /\ \A i \in DOMAIN commandQueue' : Expected(commandQueue'[i], ids)
      /\ inFlightCommandPacket' # NULL => Commanded(inFlightCommandPacket', ids)
  <2>1. CASE \E k \in DOMAIN commandQueue :
                /\ commandQueue' = Without(commandQueue, k)
                /\ inFlightCommandPacket' = commandQueue[k]
    <3>1. PICK k \in DOMAIN commandQueue : /\ commandQueue' = Without(commandQueue, k)
                                           /\ inFlightCommandPacket' = commandQueue[k]
      BY <2>1
    <3>2. commandQueue \in Seq(BusPacket)
      BY DEF TypeOK, ControllerTypeOK
    <3>3. \A i \in DOMAIN Without(commandQueue, k) :
            Was(k, i) \in DOMAIN commandQueue /\ Without(commandQueue, k)[i] = commandQueue[Was(k, i)]
      BY <3>2, WithoutPlaces
    <3>4. commandQueue[k].busPacketType # "READ_DATA"
      BY DEF WellFormed, ACTs, CASs, IsCAS
    <3>5. QED
      BY <3>1, <3>3, <3>4 DEF ReadsAreOf, Commanded
  <2>2. CASE /\ commandQueue' = commandQueue
             /\ \/ inFlightCommandPacket' = NULL
                \/ inFlightCommandPacket' = inFlightCommandPacket
                \/ inFlightCommandPacket'.busPacketType = "REFRESH"
    BY <2>2 DEF ReadsAreOf, Commanded, Expected, IsRead
  <2>3. QED
    BY <2>1, <2>2, UpdateShape
<1>3. QED
  BY <1>1, <1>2 DEF ReadsAreOf

\* The read whose data arrives is in the channel no more.
LEMMA ArrivedIsGone ==
    ASSUME IInv, Update, DataArrives
    PROVE  DataIDs \intersect (QueueIDs(commandQueue) \union FlightIDs)' = {}
<1>. DEFINE OldQueue == QueueIDs(commandQueue)
            Stays == IF CommandArrives THEN {} ELSE CommandIDs
<1>1. /\ TypeOK /\ Separate /\ WritesAreWrites
      /\ commandQueue \in Seq(BusPacket) /\ DistinctReads(commandQueue)
  BY DEF IInv, TypeOK, ControllerTypeOK, Separate
<1>2. Cycle(TRUE, TRUE) \/ Cycle(TRUE, FALSE) \/ Cycle(FALSE, FALSE)
  BY <1>1, UpdateShape
<1>3. \E Sent \in SUBSET OldQueue :
        /\ DistinctReads(commandQueue)' /\ QueueIDs(commandQueue)' \subseteq OldQueue \ Sent
        /\ CommandIDs' \subseteq Sent \union Stays
  <2>1. CASE /\ commandQueue' = commandQueue
             /\ \/ inFlightCommandPacket' = NULL
                \/ inFlightCommandPacket' = inFlightCommandPacket /\ ~ CommandArrives
                \/ inFlightCommandPacket'.busPacketType = "REFRESH"
    <3>1. CommandIDs' \subseteq Stays
      BY <2>1 DEF CommandIDs, PacketIDs
    <3>2. DistinctReads(commandQueue)' /\ QueueIDs(commandQueue)' = OldQueue
      BY <1>1, <2>1
    <3>. HIDE DEF OldQueue, Stays
    <3>3. /\ {} \in SUBSET OldQueue /\ CommandIDs' \subseteq {} \union Stays
          /\ QueueIDs(commandQueue)' \subseteq OldQueue \ {}
      BY <3>1, <3>2
    <3>4. QED
      BY <3>2, <3>3
  <2>2. CASE \E k \in DOMAIN commandQueue :
                /\ commandQueue' = Without(commandQueue, k)
                /\ inFlightCommandPacket' = commandQueue[k]
    <3>1. PICK k \in DOMAIN commandQueue : /\ commandQueue' = Without(commandQueue, k)
                                           /\ inFlightCommandPacket' = commandQueue[k]
      BY <2>2
    <3>. DEFINE id == commandQueue[k].transactionID
                Sent == IF commandQueue[k].busPacketType = "READ_P" THEN {id} ELSE {}
    <3>2. /\ DistinctReads(Without(commandQueue, k))
          /\ QueueIDs(Without(commandQueue, k)) \subseteq OldQueue
          /\ commandQueue[k].busPacketType = "READ_P" =>
                id \in OldQueue /\ id \notin QueueIDs(Without(commandQueue, k))
      BY <1>1, <3>1, ReadsWithout
    <3>3. CommandIDs' \subseteq Sent
      BY <3>1 DEF CommandIDs, PacketIDs
    <3>. HIDE DEF OldQueue, Stays, id
    <3>4. /\ Sent \in SUBSET OldQueue
          /\ QueueIDs(Without(commandQueue, k)) \subseteq OldQueue \ Sent
      BY <3>2
    <3>. HIDE DEF Sent
    <3>5. /\ DistinctReads(commandQueue)' /\ QueueIDs(commandQueue)' \subseteq OldQueue \ Sent
          /\ CommandIDs' \subseteq Sent \union Stays
      BY <3>1, <3>2, <3>3, <3>4
    <3>6. QED
      BY <3>4, <3>5
  <2>3. QED
    BY <1>1, <2>1, <2>2, UpdateShape
<1>4. PICK Sent \in SUBSET OldQueue :
        /\ DistinctReads(commandQueue)' /\ QueueIDs(commandQueue)' \subseteq OldQueue \ Sent
        /\ CommandIDs' \subseteq Sent \union Stays
  BY <1>3
<1>5. FlightIDs' \subseteq (FlightIDs \ DataIDs) \union Sent
  <2>1. FlightIDs' \subseteq (FlightIDs \ (IF DataArrives THEN DataIDs ELSE {})) \union Sent
    BY <1>1, <1>2, <1>4, CycleSeparate
  <2>2. QED
    BY <2>1
<1>6. DataIDs \intersect OldQueue = {}
  BY <1>1 DEF Separate
<1>. HIDE DEF OldQueue, Stays
<1>7. QED
  BY <1>4, <1>5, <1>6

(* A transaction is accepted, a read is taken                              *)

LEMMA ReadsOfConcat ==
    ASSUME NEW a \in Seq(BusPacket), NEW b \in Seq(BusPacket), NEW ids,
           \A i \in DOMAIN a : Expected(a[i], ids),
           \A i \in DOMAIN b : Expected(b[i], ids)
    PROVE  \A i \in DOMAIN (a \o b) : Expected((a \o b)[i], ids)
<1>1. SUFFICES ASSUME NEW i \in DOMAIN (a \o b)
               PROVE  Expected((a \o b)[i], ids)
  OBVIOUS
<1>2. /\ \A k \in DOMAIN a : (a \o b)[k] = a[k]
      /\ \A k \in DOMAIN b : (a \o b)[Len(a) + k] = b[k]
      /\ DOMAIN (a \o b) = 1 .. Len(a) + Len(b)
      /\ DOMAIN a = 1 .. Len(a) /\ DOMAIN b = 1 .. Len(b)
      /\ Len(a) \in Nat /\ Len(b) \in Nat
  BY KindsConcat, LenProperties
<1>. DEFINE m == Len(a)
            n == Len(b)
            both == a \o b
<1>. HIDE DEF m, n, both
<1>3. i \in 1 .. m + n /\ m \in Nat /\ n \in Nat
  BY <1>1, <1>2 DEF m, n, both
<1>4. i \in 1 .. m \/ (i - m \in 1 .. n /\ m + (i - m) = i)
  BY <1>3
<1>5. CASE i \in 1 .. m
  BY <1>2, <1>5 DEF m, n, both
<1>6. CASE i - m \in 1 .. n /\ m + (i - m) = i
  <2>1. both[m + (i - m)] = b[i - m] /\ i - m \in DOMAIN b
    BY <1>2, <1>6 DEF m, n, both
  <2>2. QED
    BY <1>6, <2>1 DEF both
<1>7. QED
  BY <1>4, <1>5, <1>6

LEMMA ReadsAfterAdd ==
    ASSUME TypeOK, NEW ids, ReadsAreOf(ids), NEW more, ids \subseteq more,
           NEW t \in Transaction, AddTransaction(t),
           t.originatedFromLogicOp /\ t.transactionType = "DATA_READ" => t.transactionID \in more
    PROVE  ReadsAreOf(more)'
<1>1. /\ UNCHANGED <<ranks, inFlightCommandPacket, inFlightDataPacket>>
      /\ commandQueue' \in {CommandsOf(t) \o commandQueue, commandQueue \o CommandsOf(t)}
  BY DEF AddTransaction, EnqueueCommands, busVars
<1>2. \A p : Expected(p, ids) => Expected(p, more)
  BY DEF Expected
<1>3. \A i \in DOMAIN CommandsOf(t) : Expected(CommandsOf(t)[i], more)
  <2>1. /\ DOMAIN CommandsOf(t) = 1 .. 2
        /\ CommandsOf(t)[1] = PacketOf(t, "ACTIVATE")
        /\ CommandsOf(t)[2] =
             PacketOf(t, IF t.transactionType = "DATA_READ" THEN "READ_P" ELSE "WRITE_P")
    BY CommandsOfType, LenProperties DEF CommandsOf
  <2>2. Expected(CommandsOf(t)[1], more)
    BY <2>1 DEF PacketOf, Expected, IsRead
  <2>3. Expected(CommandsOf(t)[2], more)
    BY <2>1 DEF PacketOf, Expected, IsRead
  <2>4. QED
    BY <2>1, <2>2, <2>3
<1>4. \A i \in DOMAIN commandQueue : Expected(commandQueue[i], more)
  BY <1>2 DEF ReadsAreOf
<1>5. commandQueue \in Seq(BusPacket) /\ CommandsOf(t) \in Seq(BusPacket)
  BY CommandsOfType DEF TypeOK, ControllerTypeOK
<1>6. \A i \in DOMAIN commandQueue' : Expected(commandQueue'[i], more)
  BY <1>1, <1>3, <1>4, <1>5, ReadsOfConcat
<1>7. QED
  BY <1>1, <1>2, <1>6 DEF ReadsAreOf, Commanded, Carried, Returned

LEMMA ReadsUnchanged ==
    ASSUME NEW ids, ReadsAreOf(ids), NEW more, ids \subseteq more,
           UNCHANGED <<commandQueue, ranks, inFlightCommandPacket, inFlightDataPacket>>
    PROVE  ReadsAreOf(more)'
<1>1. \A p : Expected(p, ids) => Expected(p, more)
  BY DEF Expected
<1>2. QED
  BY <1>1 DEF ReadsAreOf, Commanded, Carried, Returned

-----------------------------------------------------------------------------
(* The layer and the channel together                                      *)

\* The read whose data the layer has been handed in this Update, which the channel
\* removes in the second part of it.
Handed == IF layerUpdated /\ LogicDataArrives THEN {inFlightDataPacket.transactionID} ELSE {}

\* The layer waits for every read of its own that is in the channel.
ReadsAwaited == ReadsAreOf(Awaited(addressOf) \union Handed)

LogicInv ==
    /\ TimingInv
    /\ IInv
    /\ Consistent(layer, addressOf, work)
    /\ ReadsAwaited

LEMMA HandedIsRemoved ==
    ASSUME IInv, WellFormed(commandQueue), WellFormed(commandQueue)',
           NEW ids, NEW all, all = ids \union Handed, ReadsAreOf(all), layerUpdated, Update
    PROVE  ReadsAreOf(ids)'
<1>1. ReadsAreOf(all)'
  BY ReadsAfterUpdate DEF IInv
<1>2. CASE ~ LogicDataArrives
  <2>1. all = ids
    BY <1>2 DEF Handed
  <2>2. QED
    BY <1>1, <2>1
<1>3. CASE LogicDataArrives
  <2>1. DataIDs \intersect (QueueIDs(commandQueue) \union FlightIDs)' = {}
    BY <1>3, ArrivedIsGone DEF LogicDataArrives
  <2>2. DataIDs = {inFlightDataPacket.transactionID}
    BY <1>3 DEF LogicDataArrives, DataArrives, DataIDs, PacketIDs
  <2>3. \A id \in all \ ids : id \notin (QueueIDs(commandQueue) \union FlightIDs)'
    BY <1>3, <2>1, <2>2 DEF Handed
  <2>4. \A i \in DOMAIN commandQueue' : Expected(commandQueue'[i], ids)
    <3>1. SUFFICES ASSUME NEW i \in DOMAIN commandQueue', IsRead(commandQueue'[i])
                   PROVE  commandQueue'[i].transactionID \in QueueIDs(commandQueue)'
      BY <1>1, <2>3 DEF ReadsAreOf, Expected
    <3>2. commandQueue'[i].busPacketType = "READ_P"
      BY <3>1 DEF WellFormed, ACTs, CASs, IsCAS, IsRead
    <3>3. QED
      BY <3>2 DEF QueueIDs, ReadPositions
  <2>5. inFlightCommandPacket' # NULL => Commanded(inFlightCommandPacket', ids)
    <3>1. SUFFICES ASSUME inFlightCommandPacket' # NULL, IsRead(inFlightCommandPacket')
                   PROVE  inFlightCommandPacket'.transactionID \in FlightIDs'
      BY <1>1, <2>3 DEF ReadsAreOf, Commanded, Expected
    <3>2. inFlightCommandPacket'.busPacketType = "READ_P"
      BY <1>1, <3>1 DEF ReadsAreOf, Commanded, IsRead
    <3>3. QED
      BY <3>1, <3>2 DEF FlightIDs, CommandIDs, PacketIDs
  <2>6. inFlightDataPacket' # NULL => Carried(inFlightDataPacket', ids)
    <3>1. SUFFICES ASSUME inFlightDataPacket' # NULL, IsRead(inFlightDataPacket')
                   PROVE  inFlightDataPacket'.transactionID \in FlightIDs'
      BY <1>1, <2>3 DEF ReadsAreOf, Carried, Expected
    <3>2. inFlightDataPacket'.busPacketType = "READ_DATA"
      BY <1>1, <3>1 DEF ReadsAreOf, Carried, IsRead
    <3>3. QED
      BY <3>1, <3>2 DEF FlightIDs, DataIDs, PacketIDs
  <2>7. ASSUME NEW r \in Ranks, NEW i \in DOMAIN ranks'[r].readReturnQueue
        PROVE  Returned(ranks'[r].readReturnQueue[i].packet, ids)
    <3>1. ranks'[r].readReturnQueue[i].packet.transactionID \in FlightIDs'
      BY <2>7 DEF FlightIDs, RankIDs, BurstIDs
    <3>2. QED
      BY <1>1, <2>3, <2>7, <3>1 DEF ReadsAreOf, Returned, Expected
  <2>8. QED
    BY <2>4, <2>5, <2>6, <2>7 DEF ReadsAreOf
<1>4. QED
  BY <1>2, <1>3

(* The layer's part of an Update                                           *)

\* The datum that arrives is of a read the layer waits for.
LEMMA ArrivesAwaited ==
    ASSUME LogicInv, ~ layerUpdated, LogicDataArrives
    PROVE  /\ inFlightDataPacket.transactionID \in Awaited(addressOf)
           /\ inFlightDataPacket.transactionID \in LiveIDs
<1>1. ReadsAreOf(Awaited(addressOf))
  <2>1. Handed = {}
    BY DEF Handed
  <2>2. Awaited(addressOf) \union {} = Awaited(addressOf)
    OBVIOUS
  <2>3. QED
    BY <2>1, <2>2 DEF LogicInv, ReadsAwaited
<1>2. /\ inFlightDataPacket # NULL /\ IsRead(inFlightDataPacket)
      /\ inFlightDataPacket.fromLogicOp
  BY DEF LogicDataArrives, DataArrives, IsRead
<1>3. inFlightDataPacket.transactionID \in Awaited(addressOf)
  BY <1>1, <1>2 DEF ReadsAreOf, Carried, Expected
<1>4. inFlightDataPacket.transactionID \in LiveIDs
  BY <1>2 DEF LiveIDs, PacketsInChannel, PacketsOnBuses
<1>5. QED
  BY <1>3, <1>4

\* What the layer is when it has been handed the datum.
LEMMA LayerHanded ==
    ASSUME LogicInv, ~ layerUpdated
    PROVE  /\ Consistent(LayerNow, AddressesNow, work)
           /\ LayerNow.outgoingQueue = layer.outgoingQueue
           /\ AddressesNow \in Addresses
           /\ FreeIDs # {} => AddressesNow[FreeID] = NULL
           /\ LogicDataArrives => LayerNow.newOperationQueue # << >>
           /\ ~ LogicDataArrives => LayerNow = layer /\ AddressesNow = addressOf
           /\ Awaited(addressOf) \subseteq Awaited(AddressesNow)
                 \union (IF LogicDataArrives THEN {inFlightDataPacket.transactionID} ELSE {})
<1>. DEFINE id == inFlightDataPacket.transactionID
<1>1. /\ Consistent(layer, addressOf, work) /\ layer \in Layers /\ addressOf \in Addresses
      /\ layer.newOperationQueue \in Seq(Int)
  BY LayerFields DEF LogicInv
<1>2. CASE LogicDataArrives
  <2>1. id \in Awaited(addressOf) /\ id \in LiveIDs
    BY <1>2, ArrivesAwaited
  <2>2. LayerNow = ReceiveData(layer, addressOf[id]) /\ AddressesNow = [addressOf EXCEPT ![id] = NULL]
    BY <1>2 DEF LayerNow, AddressesNow
  <2>. HIDE DEF id
  <2>3. Consistent(LayerNow, AddressesNow, work)
    BY <1>1, <2>1, <2>2, DatumReceived
  <2>4. /\ LayerNow.outgoingQueue = layer.outgoingQueue
        /\ LayerNow.newOperationQueue = Append(layer.newOperationQueue, addressOf[id])
    BY <1>1, <2>2 DEF ReceiveData, Layers
  <2>5. LayerNow.newOperationQueue # << >>
    <3>1. addressOf[id] \in Int
      BY <1>1, <2>1, NoLongerAwaited
    <3>2. Len(LayerNow.newOperationQueue) = Len(layer.newOperationQueue) + 1
          /\ Len(layer.newOperationQueue) \in Nat
      BY <1>1, <2>4, <3>1, AppendPlaces
    <3>3. Len(LayerNow.newOperationQueue) # 0
      BY <3>2
    <3>4. QED
      BY <3>3, Zenon, EmptySeq
  <2>6. /\ AddressesNow \in Addresses /\ Awaited(AddressesNow) = Awaited(addressOf) \ {id}
    BY <1>1, <2>1, <2>2, NoLongerAwaited, EmptySeq
  <2>7. FreeIDs # {} => AddressesNow[FreeID] = NULL
    <3>1. SUFFICES ASSUME FreeIDs # {} PROVE AddressesNow[FreeID] = NULL
      OBVIOUS
    <3>2. FreeID \in TransactionIDs /\ FreeID # id /\ addressOf[FreeID] = NULL
      BY <2>1, <3>1, FreeIDIsFree
    <3>3. QED
      BY <1>1, <2>2, <3>2 DEF Addresses
  <2>8. QED
    BY <1>2, <2>3, <2>4, <2>5, <2>6, <2>7 DEF id
<1>3. CASE ~ LogicDataArrives
  <2>1. LayerNow = layer /\ AddressesNow = addressOf
    BY <1>3 DEF LayerNow, AddressesNow
  <2>2. QED
    BY <1>1, <1>3, <2>1, FreeIDIsFree
<1>4. QED
  BY <1>2, <1>3

\* The reads that the layer waits for after its part of the Update.
LEMMA HandedNow ==
    ASSUME layerUpdated' = TRUE, inFlightDataPacket' = inFlightDataPacket,
           inFlightDataCountdown' = inFlightDataCountdown
    PROVE  Handed' = IF LogicDataArrives THEN {inFlightDataPacket.transactionID} ELSE {}
BY DEF Handed, LogicDataArrives, DataArrives

\* The layer goes on with its update when its head has left, or stays.
LEMMA LayerGoesOn ==
    ASSUME NEW ly, NEW addr, NEW wk, Consistent(ly, addr, wk)
    PROVE  Consistent(AfterData(AfterTake(ly)), addr, wk)
<1>1. Consistent(AfterTake(ly), addr, wk)
  BY TakenInOrder
<1>2. QED
  BY <1>1, DatumIsUsed

\* What is offered is the head of the queue, whatever has arrived.
LEMMA OfferedIsHead ==
    ASSUME LogicInv, ~ layerUpdated, layer.outgoingQueue # << >>
    PROVE  /\ Offered = LayerNow.outgoingQueue[1] /\ LayerNow.outgoingQueue # << >>
           /\ Offered \in Outgoing
           /\ Offered.transactionType \in DataTypes => Offered.address \in Int
<1>1. LayerNow.outgoingQueue = layer.outgoingQueue /\ layer.outgoingQueue \in Seq(Outgoing)
  BY LayerHanded, LayerFields DEF LogicInv
<1>2. Offered = LayerNow.outgoingQueue[1] /\ Offered \in Outgoing
  BY <1>1, TailPlaces DEF Offered
<1>3. Offered.transactionType \in DataTypes => Offered.address \in Int
  BY <1>2, OutgoingKinds DEF DataTypes
<1>4. QED
  BY <1>1, <1>2, <1>3

LEMMA RequestLeaves ==
    ASSUME LogicInv, ~ layerUpdated, layerUpdated' = TRUE,
           RequestIsOffered, LayerSends(Offered), NEW sent,
           sent = [work EXCEPT ![Offered.transactionType] = Append(@, Offered.address)]
    PROVE  /\ Consistent(layer', addressOf', sent)
           /\ \E t \in Transaction : AddTransaction(t)
           /\ ReadsAwaited'
           /\ waitingACTS' > waitingACTS
<1>. DEFINE t == TransactionAt(Offered.address, Offered.transactionType, TRUE)
<1>1. /\ FreeIDs # {} /\ AddTransaction(t)
      /\ addressOf' = IF Offered.transactionType = "DATA_READ"
                      THEN [AddressesNow EXCEPT ![FreeID] = Offered.address]
                      ELSE AddressesNow
      /\ layer' = AfterData(AfterTake(AfterSend(LayerNow)))
  BY DEF LayerSends
<1>2. /\ Offered = LayerNow.outgoingQueue[1] /\ LayerNow.outgoingQueue # << >>
      /\ Offered.transactionType \in DataTypes /\ Offered.address \in Int
  BY OfferedIsHead DEF RequestIsOffered
<1>3. /\ Consistent(LayerNow, AddressesNow, work) /\ AddressesNow \in Addresses
      /\ AddressesNow[FreeID] = NULL /\ FreeID \in TransactionIDs
      /\ Awaited(addressOf) \subseteq Awaited(AddressesNow)
            \union (IF LogicDataArrives THEN {inFlightDataPacket.transactionID} ELSE {})
  BY <1>1, LayerHanded, FreeIDIsFree
<1>4. t \in Transaction /\ t.transactionID = FreeID /\ t.transactionType = Offered.transactionType
  <2>1. t \in Transaction
    BY <1>1, <1>2, TransactionAtType
  <2>2. QED
    BY <2>1 DEF TransactionAt
<1>5. /\ addressOf' \in Addresses
      /\ Offered.transactionType = "DATA_READ" =>
            /\ addressOf'[FreeID] = Offered.address
            /\ \A k \in TransactionIDs : k # FreeID => addressOf'[k] = AddressesNow[k]
      /\ Offered.transactionType = "DATA_WRITE" => addressOf' = AddressesNow
  BY <1>1, <1>2, <1>3 DEF Addresses
<1>6. Consistent(layer', addressOf', sent)
  <2>1. PICK after : after = addressOf'
    OBVIOUS
  <2>2. /\ after \in Addresses
        /\ Offered.transactionType = "DATA_READ" =>
            /\ after[FreeID] = Offered.address
            /\ \A k \in TransactionIDs : k # FreeID => after[k] = AddressesNow[k]
        /\ Offered.transactionType = "DATA_WRITE" => after = AddressesNow
    BY <1>5, <2>1
  <2>3. PICK head : head = Offered
    OBVIOUS
  <2>4. PICK ly, addr : ly = LayerNow /\ addr = AddressesNow
    OBVIOUS
  <2>5. Consistent(AfterSend(ly), after, sent)
    BY <1>2, <1>3, <2>2, <2>4, RequestSent
  <2>6. Consistent(AfterData(AfterTake(AfterSend(ly))), after, sent)
    BY <2>5, LayerGoesOn
  <2>7. QED
    BY <1>1, <2>1, <2>4, <2>6
<1>7. ReadsAwaited'
  <2>1. PICK more : more = Awaited(addressOf') \union Handed'
    OBVIOUS
  <2>2. /\ inFlightDataPacket' = inFlightDataPacket
        /\ inFlightDataCountdown' = inFlightDataCountdown
    BY <1>1 DEF AddTransaction, busVars
  <2>3. Handed' = IF LogicDataArrives THEN {inFlightDataPacket.transactionID} ELSE {}
    BY <2>2, HandedNow
  <2>4. Awaited(AddressesNow) \subseteq Awaited(addressOf')
    BY <1>2, <1>3, <1>5 DEF Awaited, DataTypes, Addresses
  <2>5. t.transactionType = "DATA_READ" => t.transactionID \in more
    <3>1. Offered.address # NULL
      BY <1>2, TrafficAssumption
    <3>2. QED
      BY <1>3, <1>4, <1>5, <2>1, <3>1 DEF Awaited
  <2>6. Awaited(addressOf) \subseteq more
    BY <1>3, <2>1, <2>3, <2>4
  <2>7. ReadsAreOf(Awaited(addressOf) \union Handed) /\ Handed = {}
    BY DEF LogicInv, ReadsAwaited, Handed
  <2>8. Awaited(addressOf) \union Handed \subseteq more
    BY <2>6, <2>7
  <2>. HIDE DEF t
  <2>9. ReadsAreOf(more)'
    BY <1>1, <1>4, <2>5, <2>7, <2>8, ReadsAfterAdd DEF LogicInv, IInv
  <2>10. QED
    BY <2>1, <2>9 DEF ReadsAwaited
<1>8. waitingACTS' > waitingACTS
  <2>1. waitingACTS' = waitingACTS + 1
    BY <1>1 DEF AddTransaction, EnqueueCommands
  <2>2. waitingACTS \in Int
    BY DEF LogicInv, IInv, TypeOK, ControllerTypeOK
  <2>3. QED
    BY <2>1, <2>2
<1>9. QED
  BY <1>1, <1>4, <1>6, <1>7, <1>8

\* The response leaves when the operation has been carried out, and nothing of it is in
\* the channel any more.
LEMMA ResponseLeaves ==
    ASSUME LogicInv, ~ layerUpdated, ResponseIsOffered, LayerResponds
    PROVE  /\ Consistent(layer', addressOf', NoWork)
           /\ addressOf' = addressOf /\ ~ LogicDataArrives
           /\ layer.newOperationQueue = << >> /\ Awaited(addressOf) = {}
           /\ \E op \in ProperOperations :
                 /\ pendingLogicResponse' = ResponseTo(op)
                 /\ Done(op, work.DATA_READ, work.DATA_WRITE)
<1>1. /\ pendingLogicResponse' = Offered /\ addressOf' = AddressesNow
      /\ layer' = AfterData(AfterTake(AfterSend(LayerNow)))
  BY DEF LayerResponds
<1>2. /\ Offered = LayerNow.outgoingQueue[1] /\ LayerNow.outgoingQueue # << >>
      /\ Offered.transactionType \notin DataTypes
  BY OfferedIsHead DEF ResponseIsOffered
<1>3. Consistent(LayerNow, AddressesNow, work)
  BY LayerHanded
<1>4. PICK ly, addr : ly = LayerNow /\ addr = AddressesNow
  OBVIOUS
<1>5. /\ ly.currentTransaction \in ProperOperations
      /\ ly.outgoingQueue[1] = ResponseTo(ly.currentTransaction)
      /\ ly.newOperationQueue = << >> /\ Awaited(addr) = {}
      /\ Done(ly.currentTransaction, work.DATA_READ, work.DATA_WRITE)
      /\ Consistent(AfterSend(ly), addr, NoWork)
  BY <1>2, <1>3, <1>4, ResponseSent
<1>6. ~ LogicDataArrives
  BY <1>4, <1>5, LayerHanded
<1>7. LayerNow = layer /\ AddressesNow = addressOf
  BY <1>6, LayerHanded
<1>8. Consistent(layer', addressOf', NoWork)
  BY <1>1, <1>4, <1>5, LayerGoesOn
<1>9. QED
  BY <1>1, <1>2, <1>4, <1>5, <1>6, <1>7, <1>8

\* Whatever the layer sends, the reads in the channel stay as they are but for a new one.
LEMMA ReadsStayAwaited ==
    ASSUME LogicInv, ~ layerUpdated, layerUpdated' = TRUE, UNCHANGED vars,
           addressOf' = AddressesNow
    PROVE  ReadsAwaited'
<1>1. PICK more : more = Awaited(addressOf') \union Handed'
  OBVIOUS
<1>2. UNCHANGED <<commandQueue, ranks, inFlightCommandPacket, inFlightDataPacket,
                  inFlightDataCountdown>>
  BY DEF vars, controllerVars, busVars
<1>3. Handed' = IF LogicDataArrives THEN {inFlightDataPacket.transactionID} ELSE {}
  BY <1>2, HandedNow
<1>4. Awaited(addressOf) \subseteq more
  BY <1>1, <1>3, LayerHanded
<1>5. ReadsAreOf(Awaited(addressOf) \union Handed) /\ Handed = {}
  BY DEF LogicInv, ReadsAwaited, Handed
<1>6. ReadsAreOf(more)'
  BY <1>2, <1>4, <1>5, ReadsUnchanged
<1>7. QED
  BY <1>1, <1>6 DEF ReadsAwaited

\* What one step of the layer does to the addresses read and written.
LEMMA LayerRunsInOrder ==
    ASSUME LogicInv, LayerRuns
    PROVE  /\ Consistent(layer', addressOf', work')
           /\ ReadsAwaited'
           /\ (\E t \in Transaction : AddTransaction(t)) \/ UNCHANGED vars
<1>1. /\ ~ layerUpdated /\ layerUpdated' = TRUE
      /\ work' = CASE waitingACTS' > waitingACTS ->
                        [work EXCEPT ![Offered.transactionType] = Append(@, Offered.address)]
                   [] ResponseIsOffered /\ pendingLogicResponse = NULL -> NoWork
                   [] OTHER -> work
      /\ \/ RequestIsOffered /\ LayerSends(Offered)
         \/ ResponseIsOffered /\ LayerResponds
         \/ LayerSendsNothing
  BY DEF LayerRuns, LayerUpdate
<1>2. CASE RequestIsOffered /\ LayerSends(Offered)
  <2>1. ~ ResponseIsOffered
    BY <1>2 DEF RequestIsOffered, ResponseIsOffered
  <2>2. waitingACTS' > waitingACTS
    BY <1>1, <1>2, RequestLeaves
  <2>3. work' = [work EXCEPT ![Offered.transactionType] = Append(@, Offered.address)]
    BY <1>1, <2>1, <2>2
  <2>4. PICK sent : sent = [work EXCEPT ![Offered.transactionType] = Append(@, Offered.address)]
    OBVIOUS
  <2>5. Consistent(layer', addressOf', sent) /\ (\E t \in Transaction : AddTransaction(t))
        /\ ReadsAwaited'
    BY <1>1, <1>2, <2>4, RequestLeaves
  <2>6. QED
    BY <2>3, <2>4, <2>5
<1>3. ASSUME UNCHANGED vars
      PROVE  work' = IF ResponseIsOffered /\ pendingLogicResponse = NULL THEN NoWork ELSE work
  <2>1. waitingACTS' = waitingACTS
    BY <1>3 DEF vars, controllerVars
  <2>2. waitingACTS \in Int
    BY DEF LogicInv, IInv, TypeOK, ControllerTypeOK
  <2>3. ~ (waitingACTS' > waitingACTS)
    BY <2>1, <2>2
  <2>. HIDE <1>1
  <2>4. QED
    BY <1>1, <2>3, Zenon
<1>4. CASE ResponseIsOffered /\ LayerResponds
  <2>1. UNCHANGED vars /\ pendingLogicResponse = NULL /\ addressOf' = AddressesNow
    BY <1>4 DEF LayerResponds
  <2>2. work' = NoWork
    BY <1>3, <1>4, <2>1
  <2>3. Consistent(layer', addressOf', NoWork)
    BY <1>1, <1>4, ResponseLeaves
  <2>4. QED
    BY <1>1, <2>1, <2>2, <2>3, ReadsStayAwaited
<1>5. CASE LayerSendsNothing
  <2>1. /\ UNCHANGED vars /\ addressOf' = AddressesNow
        /\ ResponseIsOffered => pendingLogicResponse # NULL
        /\ layer' = AfterData(AfterTake(LayerNow))
    BY <1>5 DEF LayerSendsNothing
  <2>2. work' = work
    BY <1>3, <2>1
  <2>3. Consistent(layer', addressOf', work)
    BY <1>1, <2>1, LayerHanded, LayerGoesOn
  <2>4. QED
    BY <1>1, <2>1, <2>2, <2>3, ReadsStayAwaited
<1>6. QED
  BY <1>1, <1>2, <1>4, <1>5

-----------------------------------------------------------------------------
(* Between two Updates                                                     *)

LEMMA OperationsAreProper == Operations \subseteq ProperOperations
<1>1. ASSUME NEW op \in Operations PROVE op \in ProperOperations
  <2>1. here \in Nat /\ there \in Nat /\ MaxPages \in Nat
    BY TrafficAssumption
  <2>2. PICK type \in LogicTypes, arguments \in Seq(Nat) :
           /\ op = Operation(type, here, arguments)
           /\ type # "PAGE_TABLE_WALK" => Len(arguments) = 2
    <3>1. CASE op \in {Operation("PAGE_FILL", here, <<MaxPages, 0>>)}
      <4>1. <<MaxPages, 0>> \in Seq(Nat) /\ Len(<<MaxPages, 0>>) = 2
        BY <2>1
      <4>2. QED
        BY <3>1, <4>1 DEF LogicTypes
    <3>2. CASE op \in {Operation("MEM_COPY", here, <<there, n>>) : n \in {0, MaxPages}}
      <4>1. PICK n \in {0, MaxPages} : op = Operation("MEM_COPY", here, <<there, n>>)
        BY <3>2
      <4>2. <<there, n>> \in Seq(Nat) /\ Len(<<there, n>>) = 2
        BY <2>1
      <4>3. QED
        BY <4>1, <4>2 DEF LogicTypes
    <3>3. CASE op \in {Operation("PAGE_TABLE_WALK", here, tables) :
                         tables \in {<< >>, <<here, there>>}}
      <4>1. PICK tables \in {<< >>, <<here, there>>} :
              op = Operation("PAGE_TABLE_WALK", here, tables)
        BY <3>3
      <4>2. tables \in Seq(Nat)
        <5>1. << >> \in Seq(Nat) /\ <<here, there>> \in Seq(Nat)
          BY <2>1, EmptySeq
        <5>2. QED
          BY <4>1, <5>1
      <4>3. QED
        BY <4>1, <4>2 DEF LogicTypes
    <3>4. QED
      BY <1>1, <3>1, <3>2, <3>3 DEF Operations
  <2>3. /\ op \in LogicOperations /\ op.logicType = type /\ op.arguments = arguments
    BY <2>1, <2>2 DEF Operation, LogicOperations
  <2>4. QED
    BY <2>2, <2>3 DEF ProperOperations
<1>2. QED
  BY <1>1

LEMMA RequestArrivesInOrder ==
    ASSUME LogicInv, RequestArrives
    PROVE  /\ Consistent(layer', addressOf', work') /\ ReadsAwaited'
           /\ \E t \in Transaction : AddTransaction(t)
<1>1. PICK type \in DataTypes : AddRequest(here, type)
  BY DEF RequestArrives
<1>. DEFINE t == TransactionAt(here, type, FALSE)
<1>2. /\ FreeIDs # {} /\ AddTransaction(t) /\ ~ layerUpdated /\ layerUpdated' = layerUpdated
      /\ layer' = layer /\ addressOf' = addressOf /\ work' = work
  BY <1>1 DEF AddRequest, Between, RequestArrives
<1>3. t \in Transaction /\ t.originatedFromLogicOp = FALSE
  <2>1. here \in Int /\ FALSE \in BOOLEAN
    BY TrafficAssumption
  <2>2. t \in Transaction
    BY <1>2, <2>1, TransactionAtType
  <2>3. t.originatedFromLogicOp = FALSE
    BY DEF TransactionAt
  <2>4. QED
    BY <2>2, <2>3
<1>. HIDE DEF t
<1>4. PICK ids : ids = Awaited(addressOf) \union Handed
  OBVIOUS
<1>5. ReadsAreOf(ids)'
  BY <1>2, <1>3, <1>4, ReadsAfterAdd DEF LogicInv, IInv, ReadsAwaited
<1>6. Handed = {} /\ Handed' = {}
  BY <1>2 DEF Handed
<1>7. ids = Awaited(addressOf') \union Handed'
  BY <1>2, <1>4, <1>6
<1>8. QED
  BY <1>2, <1>3, <1>5, <1>7 DEF LogicInv, ReadsAwaited

LEMMA OtherArrivesInOrder ==
    ASSUME LogicInv, OperationArrives \/ Takes
    PROVE  /\ Consistent(layer', addressOf', work') /\ ReadsAwaited'
           /\ TakeReturn \/ UNCHANGED vars
<1>1. /\ ~ layerUpdated /\ layerUpdated' = layerUpdated /\ addressOf' = addressOf
      /\ work' = work /\ (TakeReturn \/ UNCHANGED vars)
  BY DEF OperationArrives, AddOperation, Takes, TakeRead, TakeLogicResponse, Between
<1>2. UNCHANGED <<commandQueue, ranks, inFlightCommandPacket, inFlightDataPacket>>
  BY <1>1 DEF TakeReturn, vars, controllerVars, busVars
<1>3. PICK ids : ids = Awaited(addressOf) \union Handed
  OBVIOUS
<1>4. ReadsAreOf(ids)'
  BY <1>2, <1>3, ReadsUnchanged DEF LogicInv, ReadsAwaited
<1>5. Handed = {} /\ Handed' = {}
  BY <1>1 DEF Handed
<1>6. ReadsAwaited'
  BY <1>1, <1>3, <1>4, <1>5 DEF ReadsAwaited
<1>7. Consistent(layer', addressOf', work')
  <2>1. CASE OperationArrives
    <3>1. PICK op \in Operations : layer' = ReceiveLogicOperation(layer, op)
      BY <2>1 DEF OperationArrives, AddOperation
    <3>2. op \in ProperOperations
      BY OperationsAreProper
    <3>3. QED
      BY <1>1, <3>1, <3>2, OperationReceived DEF LogicInv
  <2>2. CASE Takes
    <3>1. layer' = layer
      BY <2>2 DEF Takes, TakeRead, TakeLogicResponse
    <3>2. QED
      BY <1>1, <3>1 DEF LogicInv
  <2>3. QED
    BY <2>1, <2>2
<1>8. QED
  BY <1>1, <1>6, <1>7

-----------------------------------------------------------------------------
(* The invariant holds                                                     *)

LEMMA LogicInit0 == MCInit => LogicInv
<1>1. SUFFICES ASSUME MCInit PROVE LogicInv
  OBVIOUS
<1>2. /\ Init /\ layer = NewLayer /\ addressOf = [id \in TransactionIDs |-> NULL]
      /\ work = NoWork /\ layerUpdated = FALSE
  BY <1>1 DEF MCInit, LogicInit
<1>3. TimingInv /\ IInv
  BY <1>2, TimingInit, InitIInv
<1>4. addressOf \in Addresses /\ Awaited(addressOf) = {}
  BY <1>2 DEF Addresses, Awaited
<1>5. Consistent(layer, addressOf, work)
  <2>1. layer \in Layers
    BY <1>2 DEF NewLayer, Layers
  <2>2. work \in [DATA_READ : Seq(Int), DATA_WRITE : Seq(Int)]
    BY <1>2 DEF NoWork
  <2>3. Working(layer.currentTransaction, layer.outgoingQueue, layer.newOperationQueue,
                layer.issuedRequests, addressOf, work.DATA_READ, work.DATA_WRITE)
    BY <1>2, <1>4 DEF NewLayer, NoWork, Working, AtRest
  <2>4. QED
    BY <1>4, <2>1, <2>2, <2>3 DEF Consistent, Addresses
<1>6. ReadsAwaited
  <2>1. /\ commandQueue = << >> /\ inFlightCommandPacket = NULL /\ inFlightDataPacket = NULL
        /\ \A r \in Ranks : ranks[r].readReturnQueue = << >>
    BY <1>2 DEF Init, ControllerInit, NewRank
  <2>2. QED
    BY <2>1 DEF ReadsAwaited, ReadsAreOf
<1>7. QED
  BY <1>3, <1>5, <1>6 DEF LogicInv

\* Each step of the channel with its layer is one of the channel alone, or none.
LEMMA LogicStep ==
    ASSUME LogicInv, [MCNext]_mcVars
    PROVE  /\ [Next]_vars
           /\ Consistent(layer', addressOf', work')
           /\ (layerUpdated /\ Update /\ ChannelRuns) \/ ReadsAwaited'
<1>1. CASE RequestArrives
  BY <1>1, RequestArrivesInOrder DEF Next
<1>2. CASE OperationArrives \/ Takes
  BY <1>2, OtherArrivesInOrder DEF Next
<1>3. CASE LayerRuns
  BY <1>3, LayerRunsInOrder DEF Next
<1>4. CASE ChannelRuns
  <2>1. /\ layerUpdated /\ Update /\ layer' = layer /\ addressOf' = addressOf /\ work' = work
    BY <1>4 DEF ChannelRuns, ChannelUpdate
  <2>2. QED
    BY <1>4, <2>1 DEF Next, LogicInv
<1>5. CASE UNCHANGED mcVars
  <2>1. UNCHANGED vars /\ UNCHANGED <<layer, addressOf, layerUpdated, work>>
    BY <1>5 DEF mcVars, allVars, logicVars
  <2>2. UNCHANGED <<commandQueue, ranks, inFlightCommandPacket, inFlightDataPacket,
                    inFlightDataCountdown>>
    BY <2>1 DEF vars, controllerVars, busVars
  <2>3. Handed' = Handed
    BY <2>1, <2>2 DEF Handed, LogicDataArrives, DataArrives
  <2>4. PICK ids : ids = Awaited(addressOf) \union Handed
    OBVIOUS
  <2>5. ReadsAreOf(ids)'
    BY <2>2, <2>4, ReadsUnchanged DEF LogicInv, ReadsAwaited
  <2>6. ReadsAwaited'
    BY <2>1, <2>3, <2>4, <2>5 DEF ReadsAwaited
  <2>7. QED
    BY <2>1, <2>6 DEF LogicInv
<1>6. QED
  BY <1>1, <1>2, <1>3, <1>4, <1>5 DEF MCNext

LEMMA LogicNext == LogicInv /\ [MCNext]_mcVars => LogicInv'
<1>1. SUFFICES ASSUME LogicInv, [MCNext]_mcVars PROVE LogicInv'
  OBVIOUS
<1>2. [Next]_vars /\ Consistent(layer', addressOf', work')
  BY <1>1, LogicStep
<1>3. TimingInv' /\ IInv'
  BY <1>1, <1>2, TimingNext, NextIInv DEF LogicInv
<1>4. ReadsAwaited'
  <2>1. CASE layerUpdated /\ Update /\ ChannelRuns
    <3>1. addressOf' = addressOf /\ layerUpdated' = FALSE
      BY <2>1 DEF ChannelRuns, ChannelUpdate
    <3>2. PICK ids, all : ids = Awaited(addressOf) /\ all = ids \union Handed
      OBVIOUS
    <3>3. WellFormed(commandQueue) /\ WellFormed(commandQueue)'
      BY <1>1, <1>3 DEF LogicInv, TimingInv, QueueInv
    <3>4. ReadsAreOf(ids)'
      BY <1>1, <2>1, <3>2, <3>3, HandedIsRemoved DEF LogicInv, ReadsAwaited
    <3>5. ids = Awaited(addressOf') \union Handed'
      BY <3>1, <3>2 DEF Handed
    <3>6. QED
      BY <3>4, <3>5 DEF ReadsAwaited
  <2>2. QED
    BY <1>1, <2>1, LogicStep
<1>5. QED
  BY <1>2, <1>3, <1>4 DEF LogicInv

LEMMA LogicInvariant == MCSpec => []LogicInv
<1>1. MCInit => LogicInv
  BY LogicInit0
<1>2. LogicInv /\ [MCNext]_mcVars => LogicInv'
  BY LogicNext
<1>3. QED
  BY <1>1, <1>2, PTL DEF MCSpec

-----------------------------------------------------------------------------
(* What it says of the channel and the layer                               *)

\* With its layer the channel does nothing that it would not do alone, with some traffic
\* of transactions: what is proved of DRAMChannel (no exit, the bursts apart, a bank
\* opened for each CAS, the queues within their bounds) holds with the layer, which
\* adds to the work queue in the middle of an Update (DRAMChannel.cpp:86-206).
THEOREM LogicChannelImplements == MCSpec => Spec
<1>1. MCInit => Init
  BY DEF MCInit, LogicInit
<1>2. LogicInv /\ [MCNext]_mcVars => [Next]_vars
  BY LogicStep
<1>3. QED
  BY <1>1, <1>2, LogicInvariant, PTL DEF MCSpec, Spec

\* The hazards of the channel's queue, banks, buses and return queue (see DRAMChannel_proof
\* and ChannelTiming_proof) stay out of reach when the traffic is that of the layer, which
\* adds to the work queue inside an Update, and of the CPU together.
THEOREM ChannelStaysSafe ==
    MCSpec => [](/\ OpenBankAwaitsItsCAS /\ WorkQueueAccounted /\ ReturnQueueBounded
                 /\ RankNeverRefuses /\ DataBusNeverCollides /\ BurstsKeepApart)
BY LogicChannelImplements, OpenBankIsAwaited, QueueIsAccounted, ReturnQueueCorrect,
   RanksNeverRefuse, BusesNeverCollide, BurstsStayApart, PTL

\* No datum comes back when the layer carries out no operation, or one that asks for
\* none: the exits of LogicLayerInterface.cpp:208-269 cannot be reached, whatever the
\* operations and the delays of the channel.
THEOREM LayerIsSafe == MCSpec => []LayerNeverExits
<1>1. LogicInv => LayerNeverExits
  BY LayerFields DEF LogicInv, LayerNeverExits
<1>2. QED
  BY <1>1, LogicInvariant, PTL

LEMMA DoneIsCarriedOut ==
    ASSUME NEW op \in ProperOperations, Done(op, work.DATA_READ, work.DATA_WRITE)
    PROVE  CarriedOut(ResponseTo(op))
<1>. DEFINE r == ResponseTo(op)
<1>1. /\ r.logicType = op.logicType /\ r.address = op.address /\ r.arguments = op.arguments
      /\ op.logicType \in LogicTypes
  BY ResponseToType, ProperType
<1>2. CASE op.logicType = "PAGE_FILL"
  <2>1. /\ work.DATA_READ = << >>
        /\ work.DATA_WRITE = PagesFrom(r.address, r.arguments[1])
    BY <1>1, <1>2, Zenon DEF Done
  <2>2. r.logicType = "PAGE_FILL"
    BY <1>1, <1>2
  <2>. HIDE DEF r
  <2>3. CarriedOut(r)
    BY <2>1, <2>2, Zenon DEF CarriedOut, Covered
  <2>4. QED
    BY <2>3 DEF r
<1>3. CASE op.logicType = "MEM_COPY"
  <2>1. /\ work.DATA_READ = PagesFrom(r.address, r.arguments[2])
        /\ Covered(work.DATA_WRITE, r.arguments[1], r.arguments[2])
    BY <1>1, <1>3, Zenon DEF Done
  <2>2. r.logicType = "MEM_COPY"
    BY <1>1, <1>3
  <2>. HIDE DEF r
  <2>3. CarriedOut(r)
    BY <2>1, <2>2, Zenon DEF CarriedOut, Covered
  <2>4. QED
    BY <2>3 DEF r
<1>4. CASE op.logicType = "PAGE_TABLE_WALK"
  <2>1. work.DATA_WRITE = << >> /\ work.DATA_READ = r.arguments
    BY <1>1, <1>4, Zenon DEF Done
  <2>2. r.logicType = "PAGE_TABLE_WALK"
    BY <1>1, <1>4
  <2>. HIDE DEF r
  <2>3. CarriedOut(r)
    BY <2>1, <2>2, Zenon DEF CarriedOut
  <2>4. QED
    BY <2>3 DEF r
<1>5. QED
  BY <1>1, <1>2, <1>3, <1>4 DEF LogicTypes

LEMMA NoReadsInChannel ==
    ASSUME TypeOK, WellFormed(commandQueue), ReadsAreOf({})
    PROVE  LogicReadsInChannel = {}
<1>1. SUFFICES ASSUME NEW p \in PacketsOf(commandQueue) \union ReadsInFlight,
                      p.fromLogicOp, IsRead(p)
               PROVE  FALSE
  BY DEF LogicReadsInChannel, IsRead
<1>2. ~ Expected(p, {})
  BY <1>1 DEF Expected
<1>3. CASE p \in PacketsOf(commandQueue)
  BY <1>2, <1>3 DEF PacketsOf, ReadsAreOf
<1>4. CASE p \in PacketsOnBuses
  BY <1>2, <1>4 DEF PacketsOnBuses, ReadsAreOf, Commanded, Carried
<1>5. CASE p \in UNION {BurstsOf(ranks[r].readReturnQueue) : r \in Ranks}
  <2>1. PICK r \in Ranks : p \in BurstsOf(ranks[r].readReturnQueue)
    BY <1>5
  <2>2. PICK i \in DOMAIN ranks[r].readReturnQueue : p = ranks[r].readReturnQueue[i].packet
    BY <2>1 DEF BurstsOf
  <2>3. QED
    BY <1>2, <2>1, <2>2 DEF ReadsAreOf, Returned
<1>6. QED
  BY <1>1, <1>3, <1>4, <1>5 DEF ReadsInFlight

\* The response to a logic operation leaves the layer when every request it stands for
\* has been sent, in order and once, and none of its reads is in the channel or its data
\* unused (LogicLayerInterface.cpp:60-133 and :208-269), whatever the size of the
\* operation, the traffic of the CPU and the time the requests take.
THEOREM ResponseFollowsWork == MCSpec => ResponseAfterWork
<1>1. LogicInv /\ [MCNext]_mcVars =>
        ((pendingLogicResponse = NULL /\ pendingLogicResponse' # NULL) =>
            /\ CarriedOut(pendingLogicResponse')
            /\ LogicReadsInChannel = {} /\ layer.newOperationQueue = << >>)
  <2>1. SUFFICES ASSUME LogicInv, [MCNext]_mcVars, pendingLogicResponse = NULL,
                        pendingLogicResponse' # NULL
                 PROVE  /\ CarriedOut(pendingLogicResponse')
                        /\ LogicReadsInChannel = {} /\ layer.newOperationQueue = << >>
    OBVIOUS
  <2>2. pendingLogicResponse' # pendingLogicResponse
    BY <2>1
  <2>3. /\ ~ RequestArrives /\ ~ OperationArrives /\ ~ Takes /\ ~ ChannelRuns
        /\ ~ UNCHANGED mcVars
    BY <2>1, <2>2
       DEF RequestArrives, AddRequest, OperationArrives, AddOperation, Takes, TakeRead,
           TakeLogicResponse, ChannelRuns, ChannelUpdate, mcVars, allVars, logicVars
  <2>4. LayerRuns
    BY <2>1, <2>3 DEF MCNext
  <2>5. ~ layerUpdated /\ ResponseIsOffered /\ LayerResponds
    BY <2>2, <2>4 DEF LayerRuns, LayerUpdate, LayerSends, LayerSendsNothing
  <2>6. /\ layer.newOperationQueue = << >> /\ Awaited(addressOf) = {}
        /\ \E op \in ProperOperations :
              /\ pendingLogicResponse' = ResponseTo(op)
              /\ Done(op, work.DATA_READ, work.DATA_WRITE)
    BY <2>1, <2>5, ResponseLeaves
  <2>7. CarriedOut(pendingLogicResponse')
    BY <2>6, DoneIsCarriedOut
  <2>8. LogicReadsInChannel = {}
    <3>1. ReadsAreOf(Awaited(addressOf) \union Handed) /\ Handed = {}
      BY <2>1, <2>5 DEF LogicInv, ReadsAwaited, Handed
    <3>2. ReadsAreOf({})
      BY <2>6, <3>1
    <3>3. TypeOK /\ WellFormed(commandQueue)
      BY <2>1 DEF LogicInv, TimingInv, QueueInv
    <3>4. QED
      BY <3>2, <3>3, NoReadsInChannel
  <2>9. QED
    BY <2>6, <2>7, <2>8
<1>2. QED
  BY <1>1, LogicInvariant, PTL DEF MCSpec, ResponseAfterWork


-----------------------------------------------------------------------------
(* The order in which transactions were accepted                           *)

IDsOf(queue) == {queue[i].transactionID : i \in CASs(queue)}

\* pairs are of transactions in the queue.  One of the CPU comes after those accepted
\* before it, and keeps its ACTIVATE as long as one of them is for its bank.
OrderKept(queue, pairs) ==
    /\ pairs \subseteq IDsOf(queue) \X IDsOf(queue)
    /\ \A i, j \in CASs(queue) :
          (<<queue[i].transactionID, queue[j].transactionID>> \in pairs
              /\ ~ queue[j].fromLogicOp)
          => /\ i < j
             /\ SameBank(queue[i], queue[j]) => j - 1 \in ACTs(queue)

\* Where the packets are when a transaction has joined the queue at its end.
AtEnd(queue, after, t) ==
    /\ \A i \in CASs(after) : i \in Nat /\ (i \in CASs(queue) \/ i = Len(queue) + 2)
    /\ \A i \in CASs(queue) : i \in 1 .. Len(queue) /\ i \in CASs(after) /\ after[i] = queue[i]
    /\ \A i \in ACTs(queue) : i \in ACTs(after)
    /\ Len(queue) + 2 \in CASs(after) /\ Len(queue) + 1 \in ACTs(after)
    /\ after[Len(queue) + 2].transactionID = t.transactionID

LEMMA AppendedPlaces ==
    ASSUME NEW queue \in Seq(BusPacket), NEW t \in Transaction
    PROVE  AtEnd(queue, queue \o CommandsOf(t), t)
<1>. DEFINE after == queue \o CommandsOf(t)
<1>0. PICK n : n = Len(queue)
  OBVIOUS
<1>1. PICK pair : pair = CommandsOf(t)
  OBVIOUS
<1>2. /\ pair \in Seq(BusPacket) /\ Len(pair) = 2 /\ DOMAIN pair = 1 .. 2
      /\ ACTs(pair) = {1} /\ CASs(pair) = {2} /\ pair[2].transactionID = t.transactionID
  BY <1>1, CommandsOfPair, LenProperties
<1>3. DOMAIN queue = 1 .. n /\ n \in Nat /\ ACTs(queue) \subseteq 1 .. n /\ CASs(queue) \subseteq 1 .. n
  BY <1>0, PlacesType
<1>. HIDE DEF after
<1>4. /\ \A i \in Int : /\ i \in ACTs(after) <=> i \in ACTs(queue) \/ i - n \in ACTs(pair)
                        /\ i \in CASs(after) <=> i \in CASs(queue) \/ i - n \in CASs(pair)
      /\ \A i \in DOMAIN queue : after[i] = queue[i]
      /\ \A i \in DOMAIN pair : after[n + i] = pair[i]
      /\ DOMAIN after = 1 .. n + 2
  <2>1. after = queue \o pair /\ n = Len(queue)
    BY <1>0, <1>1 DEF after
  <2>2. /\ \A i \in Int :
              /\ i \in ACTs(queue \o pair) <=> i \in ACTs(queue) \/ i - Len(queue) \in ACTs(pair)
              /\ i \in CASs(queue \o pair) <=> i \in CASs(queue) \/ i - Len(queue) \in CASs(pair)
        /\ \A i \in DOMAIN queue : (queue \o pair)[i] = queue[i]
        /\ \A i \in DOMAIN pair : (queue \o pair)[Len(queue) + i] = pair[i]
        /\ DOMAIN (queue \o pair) = 1 .. Len(queue) + Len(pair)
    BY <1>2, KindsConcat
  <2>3. QED
    BY <1>2, <2>1, <2>2, Zenon
<1>5. \A i \in CASs(after) : i \in 1 .. n + 2
  BY <1>4 DEF CASs
<1>6. after[n + 2] = pair[2]
  BY <1>2, <1>4
<1>7. n + 2 \in Int /\ (n + 2) - n = 2 /\ n + 1 \in Int /\ (n + 1) - n = 1
  BY <1>3
<1>8. n + 2 \in CASs(after) /\ n + 1 \in ACTs(after)
  BY <1>2, <1>4, <1>7
<1>9. ASSUME NEW i \in CASs(after) PROVE i \in Nat /\ (i \in CASs(queue) \/ i = n + 2)
  <2>1. i \in Int /\ i \in Nat
    BY <1>3, <1>5
  <2>2. i \in CASs(queue) \/ i - n = 2
    BY <1>2, <1>4, <2>1
  <2>3. QED
    BY <1>3, <2>1, <2>2
<1>10. ASSUME NEW i \in CASs(queue) PROVE i \in 1 .. n /\ i \in CASs(after) /\ after[i] = queue[i]
  BY <1>3, <1>4
<1>11. ASSUME NEW i \in ACTs(queue) PROVE i \in ACTs(after)
  BY <1>3, <1>4
<1>12. AtEnd(queue, after, t)
  BY <1>0, <1>2, <1>3, <1>6, <1>8, <1>9, <1>10, <1>11, Zenon DEF AtEnd
<1>13. QED
  BY <1>12 DEF after

\* And at its head.
AtHead(queue, after, t) ==
    /\ \A i \in CASs(after) : i \in Nat /\ (i - 2 \in CASs(queue) \/ i = 2)
    /\ \A i \in CASs(queue) : i \in Nat /\ i + 2 \in CASs(after) /\ after[i + 2] = queue[i]
    /\ \A i \in ACTs(queue) : i \in Nat /\ i + 2 \in ACTs(after)
    /\ 2 \in CASs(after)
    /\ after[2].transactionID = t.transactionID
    /\ after[2].fromLogicOp = t.originatedFromLogicOp

LEMMA PrependedPlaces ==
    ASSUME NEW queue \in Seq(BusPacket), NEW t \in Transaction
    PROVE  AtHead(queue, CommandsOf(t) \o queue, t)
<1>. DEFINE after == CommandsOf(t) \o queue
<1>1. PICK pair : pair = CommandsOf(t)
  OBVIOUS
<1>2. /\ pair \in Seq(BusPacket) /\ Len(pair) = 2 /\ DOMAIN pair = 1 .. 2
      /\ ACTs(pair) = {1} /\ CASs(pair) = {2} /\ pair[2].transactionID = t.transactionID
  BY <1>1, CommandsOfPair, LenProperties
<1>3. pair[2].fromLogicOp = t.originatedFromLogicOp
  BY <1>1 DEF CommandsOf, PacketOf
<1>4. PICK n : n = Len(queue)
  OBVIOUS
<1>5. DOMAIN queue = 1 .. n /\ n \in Nat /\ ACTs(queue) \subseteq 1 .. n /\ CASs(queue) \subseteq 1 .. n
  BY <1>4, PlacesType
<1>. HIDE DEF after
<1>6. /\ \A i \in Int : /\ i \in ACTs(after) <=> i \in ACTs(pair) \/ i - 2 \in ACTs(queue)
                        /\ i \in CASs(after) <=> i \in CASs(pair) \/ i - 2 \in CASs(queue)
      /\ \A i \in DOMAIN pair : after[i] = pair[i]
      /\ \A i \in DOMAIN queue : after[2 + i] = queue[i]
      /\ DOMAIN after = 1 .. 2 + n
  <2>1. after = pair \o queue
    BY <1>1 DEF after
  <2>2. /\ \A i \in Int :
              /\ i \in ACTs(pair \o queue) <=> i \in ACTs(pair) \/ i - Len(pair) \in ACTs(queue)
              /\ i \in CASs(pair \o queue) <=> i \in CASs(pair) \/ i - Len(pair) \in CASs(queue)
        /\ \A i \in DOMAIN pair : (pair \o queue)[i] = pair[i]
        /\ \A i \in DOMAIN queue : (pair \o queue)[Len(pair) + i] = queue[i]
        /\ DOMAIN (pair \o queue) = 1 .. Len(pair) + Len(queue)
    BY <1>2, KindsConcat
  <2>3. QED
    BY <1>2, <1>4, <2>1, <2>2, Zenon
<1>7. ASSUME NEW i \in CASs(after) PROVE i \in Nat /\ (i - 2 \in CASs(queue) \/ i = 2)
  <2>1. i \in 1 .. 2 + n
    BY <1>6 DEF CASs
  <2>2. i \in Int /\ i \in Nat
    BY <1>5, <2>1
  <2>3. QED
    BY <1>2, <1>6, <2>2
<1>8. ASSUME NEW i \in CASs(queue)
      PROVE  i \in Nat /\ i + 2 \in CASs(after) /\ after[i + 2] = queue[i]
  <2>1. i \in Nat /\ i + 2 \in Int /\ (i + 2) - 2 = i /\ 2 + i = i + 2 /\ i \in DOMAIN queue
    BY <1>5
  <2>2. QED
    BY <1>6, <2>1
<1>9. ASSUME NEW i \in ACTs(queue) PROVE i \in Nat /\ i + 2 \in ACTs(after)
  <2>1. i \in Nat /\ i + 2 \in Int /\ (i + 2) - 2 = i
    BY <1>5
  <2>2. QED
    BY <1>6, <2>1
<1>10. 2 \in CASs(after) /\ after[2] = pair[2]
  <2>1. 2 \in CASs(pair) /\ 2 \in DOMAIN pair /\ 2 \in Int
    BY <1>2
  <2>2. QED
    BY <1>6, <2>1, Zenon
<1>11. AtHead(queue, after, t)
  BY <1>2, <1>3, <1>7, <1>8, <1>9, <1>10, Zenon DEF AtHead
<1>12. QED
  BY <1>11 DEF after

LEMMA OrderAfterAppend ==
    ASSUME NEW queue \in Seq(BusPacket), NEW t \in Transaction, NEW pairs,
           OrderKept(queue, pairs), t.transactionID \notin IDsOf(queue),
           NEW after, after = queue \o CommandsOf(t)
    PROVE  OrderKept(after, pairs \union {<<id, t.transactionID>> : id \in IDsOf(queue)})
<1>1. PICK n, all : /\ n = Len(queue)
                    /\ all = pairs \union {<<id, t.transactionID>> : id \in IDsOf(queue)}
  OBVIOUS
<1>2. /\ n \in Nat
      /\ \A i \in CASs(after) : i \in Nat /\ (i \in CASs(queue) \/ i = n + 2)
      /\ \A i \in CASs(queue) : i \in 1 .. n /\ i \in CASs(after) /\ after[i] = queue[i]
      /\ \A i \in ACTs(queue) : i \in ACTs(after)
      /\ n + 2 \in CASs(after) /\ n + 1 \in ACTs(after)
      /\ after[n + 2].transactionID = t.transactionID
  <2>1. AtEnd(queue, after, t)
    BY AppendedPlaces, Zenon
  <2>2. n \in Nat
    BY <1>1, PlacesType
  <2>3. QED
    BY <1>1, <2>1, <2>2, Zenon DEF AtEnd
<1>3. \A i \in CASs(queue) : queue[i].transactionID \in IDsOf(queue)
  BY DEF IDsOf
<1>4. IDsOf(queue) \subseteq IDsOf(after) /\ t.transactionID \in IDsOf(after)
  BY <1>2 DEF IDsOf
<1>5. all \subseteq IDsOf(after) \X IDsOf(after)
  <2>1. pairs \subseteq IDsOf(queue) \X IDsOf(queue)
    BY DEF OrderKept
  <2>2. QED
    BY <1>1, <1>4, <2>1
<1>6. ASSUME NEW i \in CASs(after), NEW j \in CASs(after),
             <<after[i].transactionID, after[j].transactionID>> \in all,
             ~ after[j].fromLogicOp
      PROVE  /\ i < j
             /\ SameBank(after[i], after[j]) => j - 1 \in ACTs(after)
  <2>1. i \in CASs(queue)
    <3>1. after[i].transactionID \in IDsOf(queue)
      BY <1>1, <1>6 DEF OrderKept
    <3>2. i # n + 2
      BY <1>2, <3>1
    <3>3. QED
      BY <1>2, <3>2
  <2>2. CASE j \in CASs(queue)
    <3>1. after[i] = queue[i] /\ after[j] = queue[j]
      BY <1>2, <2>1, <2>2
    <3>2. queue[j].transactionID # t.transactionID
      BY <1>3, <2>2
    <3>3. <<queue[i].transactionID, queue[j].transactionID>> \in pairs
      BY <1>1, <1>6, <3>1, <3>2
    <3>4. i < j /\ (SameBank(queue[i], queue[j]) => j - 1 \in ACTs(queue))
      BY <1>6, <2>1, <2>2, <3>1, <3>3 DEF OrderKept
    <3>5. QED
      BY <1>2, <3>1, <3>4
  <2>3. CASE j = n + 2
    <3>1. i \in 1 .. n
      BY <1>2, <2>1
    <3>2. i < j /\ j - 1 = n + 1
      BY <1>2, <2>3, <3>1
    <3>3. QED
      BY <1>2, <3>2
  <2>4. QED
    BY <1>2, <2>2, <2>3
<1>7. QED
  <2>1. OrderKept(after, all)
    BY <1>5, <1>6 DEF OrderKept
  <2>2. QED
    BY <1>1, <2>1

LEMMA OrderAfterPrepend ==
    ASSUME NEW queue \in Seq(BusPacket), NEW t \in Transaction, NEW pairs,
           OrderKept(queue, pairs), t.transactionID \notin IDsOf(queue),
           t.originatedFromLogicOp,
           NEW after, after = CommandsOf(t) \o queue
    PROVE  OrderKept(after, pairs \union {<<id, t.transactionID>> : id \in IDsOf(queue)})
<1>1. PICK all : all = pairs \union {<<id, t.transactionID>> : id \in IDsOf(queue)}
  OBVIOUS
<1>2. /\ \A i \in CASs(after) : i \in Nat /\ (i - 2 \in CASs(queue) \/ i = 2)
      /\ \A i \in CASs(queue) : i \in Nat /\ i + 2 \in CASs(after) /\ after[i + 2] = queue[i]
      /\ \A i \in ACTs(queue) : i \in Nat /\ i + 2 \in ACTs(after)
      /\ 2 \in CASs(after)
      /\ after[2].transactionID = t.transactionID
      /\ after[2].fromLogicOp = t.originatedFromLogicOp
  <2>1. AtHead(queue, after, t)
    BY PrependedPlaces, Zenon
  <2>2. QED
    BY <2>1, Zenon DEF AtHead
<1>3. \A i \in CASs(queue) : queue[i].transactionID \in IDsOf(queue)
  BY DEF IDsOf
<1>4. IDsOf(queue) \subseteq IDsOf(after) /\ t.transactionID \in IDsOf(after)
  <2>1. ASSUME NEW i \in CASs(queue) PROVE queue[i].transactionID \in IDsOf(after)
    <3>1. i + 2 \in CASs(after) /\ after[i + 2].transactionID = queue[i].transactionID
      BY <1>2
    <3>2. QED
      BY <3>1 DEF IDsOf
  <2>2. IDsOf(queue) \subseteq IDsOf(after)
    BY <2>1 DEF IDsOf
  <2>3. QED
    BY <1>2, <2>2 DEF IDsOf
<1>5. all \subseteq IDsOf(after) \X IDsOf(after)
  <2>1. pairs \subseteq IDsOf(queue) \X IDsOf(queue)
    BY DEF OrderKept
  <2>2. QED
    BY <1>1, <1>4, <2>1
<1>6. ASSUME NEW i \in CASs(after), NEW j \in CASs(after),
             <<after[i].transactionID, after[j].transactionID>> \in all,
             ~ after[j].fromLogicOp
      PROVE  /\ i < j
             /\ SameBank(after[i], after[j]) => j - 1 \in ACTs(after)
  <2>1. PICK x : x = i - 2 /\ x \in CASs(queue) /\ x \in Nat /\ i = x + 2 /\ after[i] = queue[x]
    <3>1. after[i].transactionID \in IDsOf(queue)
      BY <1>1, <1>6 DEF OrderKept
    <3>2. i # 2
      BY <1>2, <3>1
    <3>3. i \in Nat /\ i - 2 \in CASs(queue)
      BY <1>2, <3>2
    <3>4. i = (i - 2) + 2
      BY <3>3
    <3>5. after[i] = queue[i - 2] /\ i - 2 \in Nat
      BY <1>2, <3>3, <3>4
    <3>6. QED
      BY <3>3, <3>4, <3>5
  <2>2. PICK y : y = j - 2 /\ y \in CASs(queue) /\ y \in Nat /\ j = y + 2 /\ after[j] = queue[y]
    <3>1. j # 2
      BY <1>2, <1>6
    <3>2. j \in Nat /\ j - 2 \in CASs(queue)
      BY <1>2, <3>1
    <3>3. j = (j - 2) + 2
      BY <3>2
    <3>4. after[j] = queue[j - 2] /\ j - 2 \in Nat
      BY <1>2, <3>2, <3>3
    <3>5. QED
      BY <3>2, <3>3, <3>4
  <2>3. queue[y].transactionID # t.transactionID
    BY <1>3, <2>2
  <2>4. <<queue[x].transactionID, queue[y].transactionID>> \in pairs
    BY <1>1, <1>6, <2>1, <2>2, <2>3
  <2>5. x < y /\ (SameBank(queue[x], queue[y]) => y - 1 \in ACTs(queue))
    BY <1>6, <2>1, <2>2, <2>4 DEF OrderKept
  <2>6. i < j /\ (y - 1) + 2 = j - 1
    BY <2>1, <2>2, <2>5
  <2>7. SameBank(after[i], after[j]) => j - 1 \in ACTs(after)
    BY <1>2, <2>1, <2>2, <2>5, <2>6
  <2>8. QED
    BY <2>6, <2>7
<1>7. QED
  <2>1. OrderKept(after, all)
    BY <1>5, <1>6 DEF OrderKept
  <2>2. QED
    BY <1>1, <2>1

-----------------------------------------------------------------------------
(* A packet leaves the queue                                               *)

\* No loose CAS, and no ACTIVATE before it, is for the bank of the k-th packet.
FirstOfBank(queue, k) ==
    /\ \A j \in Loose(queue) : ~ SameBank(queue[j], queue[k])
    /\ \A m \in ACTs(queue) : m < k => ~ SameBank(queue[m], queue[k])

\* What may leave the queue: not a CAS before its ACTIVATE, and an ACTIVATE only as
\* the first of its bank.
MayLeave(queue, k) ==
    /\ k \in DOMAIN queue /\ k - 1 \notin ACTs(queue)
    /\ k \in ACTs(queue) => FirstOfBank(queue, k)

Still(pairs, ids) == {pair \in pairs : pair[1] \in ids /\ pair[2] \in ids}

LEMMA OrderAfterSent ==
    ASSUME NEW queue \in Seq(BusPacket), WellFormed(queue), NEW pairs,
           OrderKept(queue, pairs), NEW k, MayLeave(queue, k)
    PROVE  OrderKept(Without(queue, k), Still(pairs, IDsOf(Without(queue, k))))
<1>1. PICK after, still : after = Without(queue, k) /\ still = Still(pairs, IDsOf(after))
  OBVIOUS
<1>2. k \in DOMAIN queue /\ k \in Nat /\ k - 1 \notin ACTs(queue)
  BY PlacesType DEF MayLeave
<1>3. /\ DOMAIN after \subseteq Nat \ {0}
      /\ \A i \in DOMAIN after : Was(k, i) \in DOMAIN queue /\ after[i] = queue[Was(k, i)]
      /\ \A i \in DOMAIN after : /\ i \in ACTs(after) <=> Was(k, i) \in ACTs(queue)
                                 /\ i \in CASs(after) <=> Was(k, i) \in CASs(queue)
      /\ \A i \in DOMAIN after :
            i \in Loose(after) => \/ Was(k, i) \in Loose(queue)
                                  \/ k \in ACTs(queue) /\ Was(k, i) = k + 1
  BY <1>1, <1>2, WithoutPlaces, KindsWithout, WithoutLoose
<1>4. still \subseteq IDsOf(after) \X IDsOf(after) /\ still \subseteq pairs
  <2>1. pairs \subseteq IDsOf(queue) \X IDsOf(queue)
    BY DEF OrderKept
  <2>2. ASSUME NEW pair \in still
        PROVE  pair \in IDsOf(after) \X IDsOf(after) /\ pair \in pairs
    <3>1. pair \in pairs /\ pair[1] \in IDsOf(after) /\ pair[2] \in IDsOf(after)
      BY <1>1 DEF Still
    <3>2. pair = <<pair[1], pair[2]>>
      BY <2>1, <3>1
    <3>3. QED
      BY <3>1, <3>2
  <2>3. QED
    BY <2>2
<1>5. ASSUME NEW i \in CASs(after), NEW j \in CASs(after),
             <<after[i].transactionID, after[j].transactionID>> \in still,
             ~ after[j].fromLogicOp
      PROVE  /\ i < j
             /\ SameBank(after[i], after[j]) => j - 1 \in ACTs(after)
  <2>1. i \in DOMAIN after /\ j \in DOMAIN after /\ i \in Nat /\ j \in Nat
    BY <1>3 DEF CASs
  <2>2. PICK x, y : x = Was(k, i) /\ y = Was(k, j)
    OBVIOUS
  <2>3. /\ x \in CASs(queue) /\ y \in CASs(queue) /\ x \in Nat /\ y \in Nat /\ x # k
        /\ after[i] = queue[x] /\ after[j] = queue[y]
        /\ i < j <=> x < y
    BY <1>2, <1>3, <2>1, <2>2, WasProperties
  <2>4. x < y /\ (SameBank(queue[x], queue[y]) => y - 1 \in ACTs(queue))
    BY <1>4, <1>5, <2>3 DEF OrderKept
  <2>5. ASSUME SameBank(queue[x], queue[y]), j - 1 \notin ACTs(after) PROVE FALSE
    <3>1. j \in Loose(after)
      BY <2>5 DEF Loose
    <3>2. y \notin Loose(queue)
      BY <2>4, <2>5 DEF Loose
    <3>3. k \in ACTs(queue) /\ y = k + 1
      BY <1>3, <2>1, <2>2, <3>1, <3>2
    <3>4. SameBank(queue[x], queue[k]) /\ FirstOfBank(queue, k)
      BY <2>5, <3>3 DEF MayLeave, WellFormed, Paired, SameTransaction, SameBank
    <3>5. x < k
      BY <1>2, <2>3, <2>4, <3>3
    <3>6. x - 1 \in ACTs(queue)
      BY <2>3, <3>4 DEF FirstOfBank, Loose
    <3>7. SameBank(queue[x - 1], queue[k])
      <4>1. SameTransaction(queue[x - 1], queue[(x - 1) + 1])
        BY <3>6 DEF WellFormed, Paired
      <4>2. (x - 1) + 1 = x
        BY <2>3
      <4>3. QED
        BY <3>4, <4>1, <4>2 DEF SameTransaction, SameBank
    <3>8. x - 1 < k
      BY <2>3, <1>2, <3>5
    <3>9. QED
      BY <3>4, <3>6, <3>7, <3>8 DEF FirstOfBank
  <2>6. QED
    BY <2>3, <2>4, <2>5
<1>6. OrderKept(after, still)
  BY <1>4, <1>5 DEF OrderKept
<1>7. QED
  BY <1>1, <1>6

\* An Update sends nothing else.
LEMMA SentMayLeave ==
    ASSUME QueueInv, Update
    PROVE  \/ commandQueue' = commandQueue
           \/ \E k \in DOMAIN commandQueue :
                 commandQueue' = Without(commandQueue, k) /\ MayLeave(commandQueue, k)
<1>1. TypeOK /\ QueueAndBanks
  BY DEF QueueInv, QueueAndBanks
<1>2. CASE \E r \in Ranks : IssueRefresh(r)
  BY <1>2 DEF IssueRefresh, ControllerRefresh
<1>3. CASE IssueNothing
  BY <1>3 DEF IssueNothing, ControllerIdle
<1>4. CASE \E k \in DOMAIN commandQueue : IssueRead(k) \/ IssueWrite(k) \/ IssueActivate(k)
  <2>1. PICK k \in DOMAIN commandQueue : IssueRead(k) \/ IssueWrite(k) \/ IssueActivate(k)
    BY <1>4
  <2>2. /\ Selected(k, Queued, OutstandingNow)
        /\ commandQueue' = Without(commandQueue, k)
        /\ k \in ACTs(commandQueue) => ControllerActivate(k, Queued, OutstandingNow)
    BY <2>1 DEF IssueRead, IssueWrite, IssueActivate, ACTs,
                ControllerRead, ControllerWrite, ControllerActivate
  <2>3. k - 1 \notin ACTs(commandQueue)
    BY <1>1, <2>2, SelectedIsFree
  <2>4. k \in ACTs(commandQueue) => FirstOfBank(commandQueue, k)
    BY <1>1, <2>2, ActivateIsFirst DEF FirstOfBank
  <2>5. MayLeave(commandQueue, k)
    BY <2>3, <2>4 DEF MayLeave
  <2>6. QED
    BY <2>2, <2>5
<1>5. QED
  BY <1>2, <1>3, <1>4 DEF Update

-----------------------------------------------------------------------------
(* The order of the queue is kept                                          *)

AcceptedInOrder == OrderKept(commandQueue, older)

LEMMA PendingIsQueued ==
    /\ CASPositions = CASs(commandQueue) /\ CASPositions' = CASs(commandQueue')
    /\ Pending = IDsOf(commandQueue) /\ Pending' = IDsOf(commandQueue')
BY DEF Pending, IDsOf, CASPositions, CASs

\* A transaction joins the queue.
LEMMA OrderAfterAdd ==
    ASSUME TypeOK, WellFormed(commandQueue), AcceptedInOrder,
           NEW t \in Transaction, AddTransaction(t), t.transactionID = FreeID,
           older' = older \union OlderThanNew
    PROVE  AcceptedInOrder'
<1>1. commandQueue \in Seq(BusPacket)
  BY DEF TypeOK, ControllerTypeOK
<1>2. t.transactionID \notin IDsOf(commandQueue)
  <2>1. ASSUME NEW i \in CASs(commandQueue)
        PROVE  commandQueue[i].transactionID \in LiveIDs
    BY DEF CASs, LiveIDs, PacketsInChannel, PacketsOf
  <2>2. QED
    BY <2>1 DEF IDsOf, AddTransaction
<1>3. older' = older \union {<<id, t.transactionID>> : id \in IDsOf(commandQueue)}
  BY PendingIsQueued, Zenon DEF OlderThanNew
<1>4. commandQueue' = IF GIVE_LOGIC_PRIORITY /\ t.originatedFromLogicOp
                      THEN CommandsOf(t) \o commandQueue
                      ELSE commandQueue \o CommandsOf(t)
  BY DEF AddTransaction, EnqueueCommands
<1>5. PICK new, all : new = commandQueue' /\ all = older'
  OBVIOUS
<1>6. CASE GIVE_LOGIC_PRIORITY /\ t.originatedFromLogicOp
  <2>1. new = CommandsOf(t) \o commandQueue
    BY <1>4, <1>5, <1>6
  <2>2. OrderKept(new, older \union {<<id, t.transactionID>> : id \in IDsOf(commandQueue)})
    BY <1>1, <1>2, <1>6, <2>1, OrderAfterPrepend DEF AcceptedInOrder
  <2>3. QED
    BY <1>3, <1>5, <2>2 DEF AcceptedInOrder
<1>7. CASE ~ (GIVE_LOGIC_PRIORITY /\ t.originatedFromLogicOp)
  <2>1. new = commandQueue \o CommandsOf(t)
    BY <1>4, <1>5, <1>7
  <2>2. OrderKept(new, older \union {<<id, t.transactionID>> : id \in IDsOf(commandQueue)})
    BY <1>1, <1>2, <2>1, OrderAfterAppend DEF AcceptedInOrder
  <2>3. QED
    BY <1>3, <1>5, <2>2 DEF AcceptedInOrder
<1>8. QED
  BY <1>6, <1>7

LEMMA OrderNext ==
    ASSUME LogicInv, AcceptedInOrder, [MCNext]_mcVars
    PROVE  AcceptedInOrder'
<1>1. /\ TypeOK /\ QueueInv /\ WellFormed(commandQueue) /\ commandQueue \in Seq(BusPacket)
      /\ waitingACTS \in Int
  BY DEF LogicInv, TimingInv, QueueInv, TypeOK, ControllerTypeOK
<1>2. ASSUME commandQueue' = commandQueue, older' = older PROVE AcceptedInOrder'
  BY <1>2 DEF AcceptedInOrder
<1>3. CASE RequestArrives
  <2>1. PICK type \in DataTypes : AddRequest(here, type)
    BY <1>3 DEF RequestArrives
  <2>2. /\ FreeIDs # {} /\ AddTransaction(TransactionAt(here, type, FALSE))
        /\ older' = older \union OlderThanNew
    BY <1>3, <2>1 DEF RequestArrives, AddRequest
  <2>3. TransactionAt(here, type, FALSE) \in Transaction
    <3>1. here \in Int /\ FALSE \in BOOLEAN
      BY TrafficAssumption
    <3>2. QED
      BY <2>2, <3>1, TransactionAtType
  <2>4. TransactionAt(here, type, FALSE).transactionID = FreeID
    BY DEF TransactionAt
  <2>5. QED
    BY <1>1, <2>2, <2>3, <2>4, OrderAfterAdd
<1>4. CASE OperationArrives
  BY <1>2, <1>4 DEF OperationArrives, AddOperation, vars, controllerVars
<1>5. CASE Takes
  BY <1>2, <1>5 DEF Takes, TakeRead, TakeLogicResponse, TakeReturn, vars, controllerVars
<1>6. CASE LayerRuns
  <2>1. /\ older' = IF waitingACTS' > waitingACTS THEN older \union OlderThanNew ELSE older
        /\ \/ RequestIsOffered /\ LayerSends(Offered)
           \/ ResponseIsOffered /\ LayerResponds
           \/ LayerSendsNothing
    BY <1>6 DEF LayerRuns, LayerUpdate
  <2>2. CASE RequestIsOffered /\ LayerSends(Offered)
    <3>1. /\ Offered.transactionType \in DataTypes /\ FreeIDs # {}
          /\ AddTransaction(TransactionAt(Offered.address, Offered.transactionType, TRUE))
      BY <2>2 DEF RequestIsOffered, LayerSends
    <3>2. TransactionAt(Offered.address, Offered.transactionType, TRUE) \in Transaction
      <4>1. Offered.address \in Int /\ TRUE \in BOOLEAN
        BY <1>6, <2>2, OfferedIsHead DEF LayerRuns, LayerUpdate, RequestIsOffered
      <4>2. QED
        BY <3>1, <4>1, TransactionAtType
    <3>3. TransactionAt(Offered.address, Offered.transactionType, TRUE).transactionID = FreeID
      BY DEF TransactionAt
    <3>4. older' = older \union OlderThanNew
      <4>1. waitingACTS' = waitingACTS + 1
        BY <3>1 DEF AddTransaction, EnqueueCommands
      <4>2. waitingACTS' > waitingACTS
        BY <1>1, <4>1
      <4>3. QED
        BY <2>1, <4>2
    <3>5. QED
      BY <1>1, <3>1, <3>2, <3>3, <3>4, OrderAfterAdd
  <2>3. ASSUME UNCHANGED vars PROVE AcceptedInOrder'
    <3>1. commandQueue' = commandQueue /\ waitingACTS' = waitingACTS
      BY <2>3 DEF vars, controllerVars
    <3>2. ~ (waitingACTS' > waitingACTS)
      BY <1>1, <3>1
    <3>3. QED
      BY <1>2, <2>1, <3>1, <3>2
  <2>4. QED
    BY <2>1, <2>2, <2>3 DEF LayerResponds, LayerSendsNothing
<1>7. CASE ChannelRuns
  <2>1. /\ Update
        /\ older' = {pair \in older : pair[1] \in Pending' /\ pair[2] \in Pending'}
    BY <1>7 DEF ChannelRuns, ChannelUpdate
  <2>2. PICK new, still : new = commandQueue' /\ still = older'
    OBVIOUS
  <2>3. still = Still(older, IDsOf(new))
    BY <2>1, <2>2, PendingIsQueued DEF Still
  <2>4. CASE commandQueue' = commandQueue
    <3>1. older \subseteq IDsOf(commandQueue) \X IDsOf(commandQueue)
      BY DEF AcceptedInOrder, OrderKept
    <3>2. still = older
      BY <2>2, <2>3, <2>4, <3>1 DEF Still
    <3>3. QED
      BY <1>2, <2>2, <2>4, <3>2
  <2>5. CASE \E k \in DOMAIN commandQueue :
                commandQueue' = Without(commandQueue, k) /\ MayLeave(commandQueue, k)
    <3>1. PICK k \in DOMAIN commandQueue :
                commandQueue' = Without(commandQueue, k) /\ MayLeave(commandQueue, k)
      BY <2>5
    <3>2. OrderKept(Without(commandQueue, k), Still(older, IDsOf(Without(commandQueue, k))))
      BY <1>1, <3>1, OrderAfterSent DEF AcceptedInOrder
    <3>3. OrderKept(new, still)
      BY <2>2, <2>3, <3>1, <3>2
    <3>4. QED
      BY <2>2, <3>3 DEF AcceptedInOrder
  <2>6. QED
    BY <1>1, <2>1, <2>4, <2>5, SentMayLeave
<1>8. CASE UNCHANGED mcVars
  BY <1>2, <1>8 DEF mcVars, allVars, vars, controllerVars
<1>9. QED
  BY <1>3, <1>4, <1>5, <1>6, <1>7, <1>8 DEF MCNext

LEMMA OrderInvariant == MCSpec => [](LogicInv /\ AcceptedInOrder)
<1>1. MCInit => AcceptedInOrder
  <2>1. SUFFICES ASSUME MCInit PROVE AcceptedInOrder
    OBVIOUS
  <2>2. commandQueue = << >> /\ older = {}
    BY <2>1 DEF MCInit, LogicInit, Init, ControllerInit
  <2>3. CASs(commandQueue) = {}
    BY <2>2 DEF CASs
  <2>4. QED
    BY <2>2, <2>3 DEF AcceptedInOrder, OrderKept
<1>2. LogicInv /\ AcceptedInOrder /\ [MCNext]_mcVars => AcceptedInOrder'
  BY OrderNext
<1>3. QED
  BY <1>1, <1>2, LogicInvariant, PTL DEF MCSpec

\* The requests of the layer enter at the head of the queue and overtake what waits there
\* for their bank (SimpleController.cpp:611-634), and nothing else overtakes: a CPU's
\* transaction is sent after all that the channel has accepted before it for its bank,
\* whatever the geometry, the timing and the traffic of both.
THEOREM LogicOvertakesOnly == MCSpec => OnlyLogicOvertakes
<1>1. ASSUME LogicInv, AcceptedInOrder, [MCNext]_mcVars,
             NEW i \in CASPositions, NEW j \in CASPositions,
             commandQueue' = Without(commandQueue, j), Older(i, j),
             commandQueue[i].rank = commandQueue[j].rank,
             commandQueue[i].bank = commandQueue[j].bank
      PROVE  commandQueue[j].fromLogicOp
  <2>1. SUFFICES ASSUME ~ commandQueue[j].fromLogicOp PROVE FALSE
    OBVIOUS
  <2>2. /\ QueueInv /\ TypeOK /\ WellFormed(commandQueue) /\ commandQueue \in Seq(BusPacket)
        /\ i \in CASs(commandQueue) /\ j \in CASs(commandQueue)
        /\ j \in DOMAIN commandQueue
    BY <1>1, PendingIsQueued
       DEF LogicInv, TimingInv, QueueInv, TypeOK, ControllerTypeOK, CASPositions
  <2>3. j - 1 \in ACTs(commandQueue)
    BY <1>1, <2>1, <2>2 DEF AcceptedInOrder, OrderKept, Older, SameBank
  <2>4. PICK n : n = Len(commandQueue)
    OBVIOUS
  <2>5. n \in Nat /\ Len(commandQueue') = n - 1
    BY <1>1, <2>2, <2>4, PlacesType, WithoutType
  <2>6. ~ \E t \in Transaction : AddTransaction(t)
    <3>1. SUFFICES ASSUME NEW t \in Transaction, AddTransaction(t) PROVE FALSE
      OBVIOUS
    <3>2. Len(commandQueue') = n + 2
      BY <2>2, <2>4, <3>1, JoinedLength DEF AddTransaction, EnqueueCommands
    <3>3. QED
      BY <2>5, <3>2
  <2>7. commandQueue' # commandQueue
    BY <2>4, <2>5
  <2>8. Update
    <3>1. [Next]_vars
      BY <1>1, LogicStep
    <3>2. QED
      BY <2>6, <2>7, <3>1 DEF Next, TakeReturn, vars, controllerVars
  <2>9. PICK k \in DOMAIN commandQueue :
              commandQueue' = Without(commandQueue, k) /\ MayLeave(commandQueue, k)
    BY <2>2, <2>7, <2>8, SentMayLeave
  <2>10. j - 1 \notin ACTs(commandQueue)
    BY <1>1, <2>2, <2>9, RemovedIsFree DEF MayLeave
  <2>11. QED
    BY <2>3, <2>10
<1>2. (LogicInv /\ AcceptedInOrder) /\ [MCNext]_mcVars =>
        [\A i, j \in CASPositions :
            (/\ commandQueue' = Without(commandQueue, j)
             /\ Older(i, j)
             /\ commandQueue[i].rank = commandQueue[j].rank
             /\ commandQueue[i].bank = commandQueue[j].bank)
            => commandQueue[j].fromLogicOp]_mcVars
  BY <1>1
<1>3. QED
  BY <1>2, OrderInvariant, PTL DEF MCSpec, OnlyLogicOvertakes

=============================================================================
