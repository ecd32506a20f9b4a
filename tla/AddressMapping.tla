--------------------------- MODULE AddressMapping ---------------------------
(***************************************************************************)
(* Where a physical address goes.  The main controller picks the channel   *)
(* (BOB::FindChannelID), the channel's controller the rank, bank, row and  *)
(* column (SimpleController::AddressMapping); each has its own copy of the *)
(* widths of the fields, taken from the geometry and the memory's size by  *)
(* two different logarithms (Globals.h).                                   *)
(*                                                                         *)
(* An address is a number; shifting it right by the width of a field is a  *)
(* division, what the shift drops is the field.                            *)
(***************************************************************************)
EXTENDS Integers, Sequences

CONSTANTS
    NUM_RANKS, NUM_BANKS, NUM_ROWS, NUM_COLS, NUM_CHANNELS,
    BUS_ALIGNMENT_SIZE, CACHE_LINE_SIZE,      \* bytes
    QEMU_MEMORY_SIZE,                         \* bytes, a 64-bit number
    mappingScheme,
    UINT_BITS                                 \* width of unsigned and of int

\* 1 << n
PowerOf2[n \in Nat] == IF n = 0 THEN 1 ELSE 2 * PowerOf2[n - 1]

\* An unsigned has 16 bits at least; eight are enough for the widths to be summed in one.
AddressAssumption ==
    /\ UINT_BITS \in Nat /\ UINT_BITS >= 8
    /\ \A n \in {NUM_RANKS, NUM_BANKS, NUM_ROWS, NUM_COLS, NUM_CHANNELS,
                 BUS_ALIGNMENT_SIZE, CACHE_LINE_SIZE} :
          \E w \in 0 .. UINT_BITS - 1 : n = PowerOf2[w]
    /\ BUS_ALIGNMENT_SIZE <= CACHE_LINE_SIZE
    /\ CACHE_LINE_SIZE <= BUS_ALIGNMENT_SIZE * NUM_COLS

-----------------------------------------------------------------------------
(* The two logarithms                                                      *)

\* The position of the highest bit; 0 for 0.
HighestBit(value) ==
    IF value = 0 THEN 0
    ELSE CHOOSE n \in 0 .. 2 * UINT_BITS - 1 : PowerOf2[n] <= value /\ value < PowerOf2[n + 1]

\* Bug: rounds down.
RoundedDown(value) == HighestBit(value)

\* log2 of an unsigned, rounded up; 1 << n is converted to unsigned.
log2(value) ==
    LET n == HighestBit(value) IN IF PowerOf2[n] < value THEN n + 1 ELSE n

\* log2_64: the 1 << n is still an int, whose n the machine takes modulo its width.
\* 1 << UINT_BITS - 1 is negative, and as a 64-bit number one of the largest.
log2_64(value) ==
    LET n == HighestBit(value)
        shifted == IF n % UINT_BITS = UINT_BITS - 1
                   THEN PowerOf2[2 * UINT_BITS] - PowerOf2[UINT_BITS - 1]
                   ELSE PowerOf2[n % UINT_BITS]
    IN IF shifted < value THEN n + 1 ELSE n

rankBitWidth == log2(NUM_RANKS)
bankBitWidth == log2(NUM_BANKS)
colBitWidth == log2(NUM_COLS)
channelBitWidth == log2(NUM_CHANNELS)
busOffsetBitWidth == log2(BUS_ALIGNMENT_SIZE)
cacheOffset == log2(CACHE_LINE_SIZE)

TotalBits ==
    busOffsetBitWidth + colBitWidth + log2(NUM_ROWS) + channelBitWidth
    + rankBitWidth + bankBitWidth

\* Bits the memory does not have are taken from the row, in unsigned arithmetic.
RowBits(memoryBits) == (log2(NUM_ROWS) - (TotalBits - memoryBits)) % PowerOf2[UINT_BITS]

\* In the channel's controller the size is narrowed to an unsigned.
rowBitWidth == RowBits(log2(QEMU_MEMORY_SIZE % PowerOf2[UINT_BITS]))

\* In the main controller it is not.
BOBRowBitWidth == RowBits(log2_64(QEMU_MEMORY_SIZE))

-----------------------------------------------------------------------------
(* SimpleController::AddressMapping, one scheme each: the parts of the     *)
(* address from the lowest one up, as the controller takes them off        *)

\* Bug: only the byte offset is shifted off below the channel, not the line.
RankInLine == <<"by", "chan", "rank", "row", "colHigh", "bank">>

BK_CLH_RW_RK_CH_CLL_BY == <<"line", "chan", "rank", "row", "colHigh", "bank">>

CLH_RW_RK_BK_CH_CLL_BY == <<"line", "chan", "bank", "rank", "row", "colHigh">>

RK_BK_RW_CLH_CH_CLL_BY == <<"line", "chan", "colHigh", "row", "bank", "rank">>

\* Bug: the bits of the channel are not shifted off.
RowAtChannel == <<"by", "col", "rank", "bank", "row">>

RW_CH_BK_RK_CL_BY == <<"by", "col", "rank", "bank", "chan", "row">>

RW_BK_RK_CH_CL_BY == <<"by", "col", "chan", "rank", "bank", "row">>

RW_BK_RK_CLH_CH_CLL_BY == <<"line", "chan", "colHigh", "rank", "bank", "row">>

RW_CLH_BK_RK_CH_CLL_BY == <<"line", "chan", "rank", "bank", "colHigh", "row">>

CH_RW_BK_RK_CL_BY == <<"by", "col", "rank", "bank", "row">>

Layouts ==
    [BK_CLH_RW_RK_CH_CLL_BY |-> BK_CLH_RW_RK_CH_CLL_BY,
     CLH_RW_RK_BK_CH_CLL_BY |-> CLH_RW_RK_BK_CH_CLL_BY,
     RK_BK_RW_CLH_CH_CLL_BY |-> RK_BK_RW_CLH_CH_CLL_BY,
     RW_CH_BK_RK_CL_BY |-> RW_CH_BK_RK_CL_BY,
     RW_BK_RK_CH_CL_BY |-> RW_BK_RK_CH_CL_BY,
     RW_BK_RK_CLH_CH_CLL_BY |-> RW_BK_RK_CLH_CH_CLL_BY,
     RW_CLH_BK_RK_CH_CLL_BY |-> RW_CLH_BK_RK_CH_CLL_BY,
     CH_RW_BK_RK_CL_BY |-> CH_RW_BK_RK_CL_BY]

AddressMappingSchemes == DOMAIN Layouts

colLowBitWidth == cacheOffset - busOffsetBitWidth

Widths ==
    [by |-> busOffsetBitWidth, line |-> cacheOffset, chan |-> channelBitWidth,
     rank |-> rankBitWidth, bank |-> bankBitWidth, row |-> rowBitWidth,
     col |-> colBitWidth, colLow |-> colLowBitWidth,
     colHigh |-> colBitWidth - colLowBitWidth]

\* A 64-bit number shifted right; the machine takes the count modulo its width.
ShiftedRight(x, width) == x \div PowerOf2[width % (2 * UINT_BITS)]

\* What the shift drops, as an unsigned.
Dropped(x, width) == (x % PowerOf2[width % (2 * UINT_BITS)]) % PowerOf2[UINT_BITS]

\* What is left of the address when the parts below the i-th have been shifted off.
ShiftedTo(layout, i, address) ==
    LET rest[k \in 0 .. Len(layout)] ==
            IF k = 0 THEN address ELSE ShiftedRight(rest[k - 1], Widths[layout[k]])
    IN rest[i - 1]

PartOf(layout, part, address) ==
    LET i == CHOOSE j \in DOMAIN layout : layout[j] = part
    IN Dropped(ShiftedTo(layout, i, address), Widths[part])

\* The column bits below the channel are those of an aligned address: 0.
MappedColumn(layout, address) ==
    IF \E i \in DOMAIN layout : layout[i] = "col" THEN PartOf(layout, "col", address)
    ELSE PartOf(layout, "colHigh", address) * PowerOf2[colLowBitWidth]

-----------------------------------------------------------------------------
(* BOB::FindChannelID                                                      *)

channelIDOffset(scheme) ==
    CASE scheme = "RW_BK_RK_CH_CL_BY" -> colBitWidth + busOffsetBitWidth
      [] scheme = "RW_CH_BK_RK_CL_BY" ->
            busOffsetBitWidth + colBitWidth + rankBitWidth + bankBitWidth
      [] scheme = "CH_RW_BK_RK_CL_BY" ->
            (BOBRowBitWidth + bankBitWidth + rankBitWidth + colBitWidth + busOffsetBitWidth)
            % PowerOf2[UINT_BITS]
      [] OTHER -> cacheOffset

\* Bug: what is above the channel is not masked off.
FindUnmaskedChannelID(address) == ShiftedRight(address, channelIDOffset(mappingScheme))

FindChannelID(address) ==
    ShiftedRight(address, channelIDOffset(mappingScheme)) % NUM_CHANNELS

\* Where the address goes.
Mapped(address) ==
    LET layout == Layouts[mappingScheme]
    IN [chan |-> FindChannelID(address),
        rank |-> PartOf(layout, "rank", address),
        bank |-> PartOf(layout, "bank", address),
        row |-> PartOf(layout, "row", address),
        col |-> MappedColumn(layout, address)]

-----------------------------------------------------------------------------
(* The logic layer's step from one transaction of an operation to the next *)

LogicStride == PowerOf2[log2(BUS_ALIGNMENT_SIZE) + log2(NUM_CHANNELS)]

=============================================================================
