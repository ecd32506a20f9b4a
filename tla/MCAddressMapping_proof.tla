----------------------- MODULE MCAddressMapping_proof -----------------------
(***************************************************************************)
(* The properties of MCAddressMapping, for every geometry, every set of    *)
(* sizes of the memory and every address.                                  *)
(***************************************************************************)
EXTENDS MCAddressMapping, TLAPS

\* What is proved of the operators, with the scheme and the size of this module.
Mapping == INSTANCE AddressMapping_proof

-----------------------------------------------------------------------------
(* Both instances define the same                                          *)

LEMMA SamePower == PowerOf2 = Mapping!PowerOf2
BY Zenon DEF PowerOf2, Mapping!PowerOf2

LEMMA SameAssumption == AddressAssumption <=> Mapping!AddressAssumption
BY Zenon DEF AddressAssumption, Mapping!AddressAssumption, PowerOf2, Mapping!PowerOf2

LEMMA SameSchemes == AddressMappingSchemes = Mapping!AddressMappingSchemes
BY Zenon DEF AddressMappingSchemes, Mapping!AddressMappingSchemes, Layouts, Mapping!Layouts,
     BK_CLH_RW_RK_CH_CLL_BY, Mapping!BK_CLH_RW_RK_CH_CLL_BY, CLH_RW_RK_BK_CH_CLL_BY,
     Mapping!CLH_RW_RK_BK_CH_CLL_BY, RK_BK_RW_CLH_CH_CLL_BY,
     Mapping!RK_BK_RW_CLH_CH_CLL_BY, RW_CH_BK_RK_CL_BY, Mapping!RW_CH_BK_RK_CL_BY,
     RW_BK_RK_CH_CL_BY, Mapping!RW_BK_RK_CH_CL_BY, RW_BK_RK_CLH_CH_CLL_BY,
     Mapping!RW_BK_RK_CLH_CH_CLL_BY, RW_CLH_BK_RK_CH_CLL_BY,
     Mapping!RW_CLH_BK_RK_CH_CLL_BY, CH_RW_BK_RK_CL_BY, Mapping!CH_RW_BK_RK_CL_BY

LEMMA SameRow == rowBitWidth = Mapping!rowBitWidth
BY Zenon DEF PowerOf2, Mapping!PowerOf2, HighestBit, Mapping!HighestBit, log2, Mapping!log2,
     log2_64, Mapping!log2_64, rankBitWidth, Mapping!rankBitWidth, bankBitWidth,
     Mapping!bankBitWidth, colBitWidth, Mapping!colBitWidth, channelBitWidth,
     Mapping!channelBitWidth, busOffsetBitWidth, Mapping!busOffsetBitWidth,
     cacheOffset, Mapping!cacheOffset, TotalBits, Mapping!TotalBits, RowBits,
     Mapping!RowBits, rowBitWidth, Mapping!rowBitWidth

LEMMA SameBOBRow == BOBRowBitWidth = Mapping!BOBRowBitWidth
BY Zenon DEF PowerOf2, Mapping!PowerOf2, HighestBit, Mapping!HighestBit, log2, Mapping!log2,
     log2_64, Mapping!log2_64, rankBitWidth, Mapping!rankBitWidth, bankBitWidth,
     Mapping!bankBitWidth, colBitWidth, Mapping!colBitWidth, channelBitWidth,
     Mapping!channelBitWidth, busOffsetBitWidth, Mapping!busOffsetBitWidth,
     cacheOffset, Mapping!cacheOffset, TotalBits, Mapping!TotalBits, RowBits,
     Mapping!RowBits, rowBitWidth, Mapping!rowBitWidth, BOBRowBitWidth,
     Mapping!BOBRowBitWidth

LEMMA SameFits == RowFits <=> Mapping!RowFits
BY Zenon DEF RowFits, Mapping!RowFits, PowerOf2, Mapping!PowerOf2, HighestBit,
     Mapping!HighestBit, log2, Mapping!log2, log2_64, Mapping!log2_64, rankBitWidth,
     Mapping!rankBitWidth, bankBitWidth, Mapping!bankBitWidth, colBitWidth,
     Mapping!colBitWidth, channelBitWidth, Mapping!channelBitWidth,
     busOffsetBitWidth, Mapping!busOffsetBitWidth, cacheOffset, Mapping!cacheOffset,
     TotalBits, Mapping!TotalBits, RowBits, Mapping!RowBits, rowBitWidth,
     Mapping!rowBitWidth

LEMMA SameCapacity == Capacity = Mapping!Capacity
BY Zenon DEF Capacity, Mapping!Capacity, PowerOf2, Mapping!PowerOf2, HighestBit,
     Mapping!HighestBit, log2, Mapping!log2, log2_64, Mapping!log2_64, rankBitWidth,
     Mapping!rankBitWidth, bankBitWidth, Mapping!bankBitWidth, colBitWidth,
     Mapping!colBitWidth, channelBitWidth, Mapping!channelBitWidth,
     busOffsetBitWidth, Mapping!busOffsetBitWidth, cacheOffset, Mapping!cacheOffset,
     TotalBits, Mapping!TotalBits, RowBits, Mapping!RowBits, rowBitWidth,
     Mapping!rowBitWidth

LEMMA SameStride == LogicStride = Mapping!LogicStride
BY Zenon DEF LogicStride, Mapping!LogicStride, PowerOf2, Mapping!PowerOf2, HighestBit,
     Mapping!HighestBit, log2, Mapping!log2

LEMMA SameMapped == \A a : Mapped(a) = Mapping!Mapped(a)
BY Zenon DEF PowerOf2, Mapping!PowerOf2, HighestBit, Mapping!HighestBit, log2, Mapping!log2,
     log2_64, Mapping!log2_64, rankBitWidth, Mapping!rankBitWidth, bankBitWidth,
     Mapping!bankBitWidth, colBitWidth, Mapping!colBitWidth, channelBitWidth,
     Mapping!channelBitWidth, busOffsetBitWidth, Mapping!busOffsetBitWidth,
     cacheOffset, Mapping!cacheOffset, TotalBits, Mapping!TotalBits, RowBits,
     Mapping!RowBits, rowBitWidth, Mapping!rowBitWidth, BOBRowBitWidth,
     Mapping!BOBRowBitWidth, colLowBitWidth, Mapping!colLowBitWidth, Widths,
     Mapping!Widths, ShiftedRight, Mapping!ShiftedRight, Dropped, Mapping!Dropped,
     ShiftedTo, Mapping!ShiftedTo, PartOf, Mapping!PartOf, MappedColumn,
     Mapping!MappedColumn, channelIDOffset, Mapping!channelIDOffset, FindChannelID,
     Mapping!FindChannelID, Mapped, Mapping!Mapped, Layouts, Mapping!Layouts,
     BK_CLH_RW_RK_CH_CLL_BY, Mapping!BK_CLH_RW_RK_CH_CLL_BY, CLH_RW_RK_BK_CH_CLL_BY,
     Mapping!CLH_RW_RK_BK_CH_CLL_BY, RK_BK_RW_CLH_CH_CLL_BY,
     Mapping!RK_BK_RW_CLH_CH_CLL_BY, RW_CH_BK_RK_CL_BY, Mapping!RW_CH_BK_RK_CL_BY,
     RW_BK_RK_CH_CL_BY, Mapping!RW_BK_RK_CH_CL_BY, RW_BK_RK_CLH_CH_CLL_BY,
     Mapping!RW_BK_RK_CLH_CH_CLL_BY, RW_CLH_BK_RK_CH_CLL_BY,
     Mapping!RW_CLH_BK_RK_CH_CLL_BY, CH_RW_BK_RK_CL_BY, Mapping!CH_RW_BK_RK_CL_BY

LEMMA SameAddress == \A place : AddressAt(place) = Mapping!AddressAt(place)
BY Zenon DEF PowerOf2, Mapping!PowerOf2, HighestBit, Mapping!HighestBit, log2, Mapping!log2,
     log2_64, Mapping!log2_64, rankBitWidth, Mapping!rankBitWidth, bankBitWidth,
     Mapping!bankBitWidth, colBitWidth, Mapping!colBitWidth, channelBitWidth,
     Mapping!channelBitWidth, busOffsetBitWidth, Mapping!busOffsetBitWidth,
     cacheOffset, Mapping!cacheOffset, TotalBits, Mapping!TotalBits, RowBits,
     Mapping!RowBits, rowBitWidth, Mapping!rowBitWidth, BOBRowBitWidth,
     Mapping!BOBRowBitWidth, colLowBitWidth, Mapping!colLowBitWidth, Widths,
     Mapping!Widths, Names, Mapping!Names, Composed, Mapping!Composed, AddressAt,
     Mapping!AddressAt, RowFits, Mapping!RowFits, Capacity, Mapping!Capacity

-----------------------------------------------------------------------------
(* The invariant: a known scheme, a size that is tried, a line's address   *)

IInv ==
    /\ mappingScheme \in AddressMappingSchemes
    /\ QEMU_MEMORY_SIZE \in MemorySizes
    /\ address \in Nat /\ address % CACHE_LINE_SIZE = 0

LEMMA LineSize == CACHE_LINE_SIZE \in Nat /\ CACHE_LINE_SIZE > 0
<1>1. Mapping!AddressAssumption
  BY GeometryIsPowers, SameAssumption
<1>2. PICK w \in 0 .. UINT_BITS - 1 : CACHE_LINE_SIZE = Mapping!PowerOf2[w]
  BY <1>1 DEF Mapping!AddressAssumption
<1>3. UINT_BITS \in Nat /\ w \in Nat
  BY <1>1 DEF Mapping!AddressAssumption
<1> QED
  BY <1>2, <1>3, Mapping!PowerPositive

LEMMA InitIInv == Init => IInv
<1> SUFFICES ASSUME Init PROVE IInv
  OBVIOUS
<1>1. 0 % CACHE_LINE_SIZE = 0
  <2>1. 0 \in 0 .. CACHE_LINE_SIZE - 1 /\ 0 \in Int
    BY LineSize
  <2> QED
    BY <2>1, LineSize, Mapping!IntOperators
<1> QED
  BY <1>1 DEF Init, IInv

LEMMA NextIInv == IInv /\ [MapNext]_vars => IInv'
<1> SUFFICES ASSUME IInv, [MapNext]_vars PROVE IInv'
  OBVIOUS
<1> USE DEF IInv
<1>1. CASE MapNext
  <2> DEFINE n == CACHE_LINE_SIZE
             q == address \div n
  <2>1. n \in Nat /\ n > 0 /\ address \in Nat /\ address % n = 0
    BY LineSize
  <2>2. /\ address' = address + n
        /\ mappingScheme' = mappingScheme /\ QEMU_MEMORY_SIZE' = QEMU_MEMORY_SIZE
    BY <1>1 DEF MapNext
  <2> HIDE DEF n
  <2>3. q \in Int /\ address = n * q + (address % n)
    BY <2>1, Mapping!IntOperators
  <2> HIDE DEF q
  <2>4. address + n = n * (q + 1) + 0 /\ q + 1 \in Int /\ 0 \in 0 .. n - 1
    BY <2>1, <2>3
  <2>5. (n * (q + 1) + 0) % n = 0
    BY <2>1, <2>4, Mapping!QuotientUnique
  <2>6. (address + n) % n = 0 /\ address + n \in Nat
    BY <2>1, <2>4, <2>5
  <2>7. address' \in Nat /\ address' % CACHE_LINE_SIZE = 0
    BY <2>2, <2>6 DEF n
  <2>8. AddressMappingSchemes' = AddressMappingSchemes
    BY DEF AddressMappingSchemes, Layouts
  <2> QED
    BY <2>2, <2>7, <2>8
<1>2. CASE UNCHANGED vars
  <2>1. AddressMappingSchemes' = AddressMappingSchemes
    BY DEF AddressMappingSchemes, Layouts
  <2> QED
    BY <1>2, <2>1 DEF vars
<1> QED
  BY <1>1, <1>2

LEMMA SpecIInv == Spec => []IInv
BY InitIInv, NextIInv, PTL DEF Spec

\* What the lemmas about the operators ask for.
LEMMA Hypotheses ==
    IInv => /\ Mapping!AddressAssumption /\ Mapping!MemorySizeType
            /\ Mapping!StrideAssumption
            /\ mappingScheme \in Mapping!AddressMappingSchemes
            /\ address \in Int /\ address % CACHE_LINE_SIZE = 0
<1> SUFFICES ASSUME IInv
             PROVE  /\ Mapping!AddressAssumption /\ Mapping!MemorySizeType
                    /\ Mapping!StrideAssumption
                    /\ mappingScheme \in Mapping!AddressMappingSchemes
                    /\ address \in Int /\ address % CACHE_LINE_SIZE = 0
  OBVIOUS
<1>1. Mapping!AddressAssumption
  BY GeometryIsPowers, SameAssumption
<1>2. Mapping!StrideAssumption
  BY GeometryOfLogic DEF Mapping!StrideAssumption
<1>3. mappingScheme \in Mapping!AddressMappingSchemes
  BY SameSchemes DEF IInv
<1>4. Mapping!MemorySizeType
  <2> DEFINE m == Mapping!PowerOf2[2 * UINT_BITS]
  <2>1. QEMU_MEMORY_SIZE \in 0 .. m - 1
    BY SixtyFourBits, SamePower DEF IInv
  <2>2. m \in Nat
    <3>1. 2 * UINT_BITS \in Nat
      BY <1>1 DEF Mapping!AddressAssumption
    <3> QED
      BY <3>1, Mapping!PowerPositive
  <2>3. QEMU_MEMORY_SIZE \in Nat /\ QEMU_MEMORY_SIZE < m
    <3> HIDE DEF m
    <3> QED
      BY <2>1, <2>2
  <2> QED
    BY <2>3 DEF Mapping!MemorySizeType
<1> QED
  BY <1>1, <1>2, <1>3, <1>4 DEF IInv

-----------------------------------------------------------------------------

\* Every field of the place of an address indexes its array, whatever the geometry, the
\* scheme, the size of the memory and the address.
THEOREM PlaceIsInRange == Spec => []PlaceInRange
<1>1. IInv => PlaceInRange
  <2> SUFFICES ASSUME IInv PROVE PlaceInRange
    OBVIOUS
  <2> DEFINE place == Mapped(address)
  <2>1. place = Mapping!Mapped(address)
    BY SameMapped
  <2>2. LET there == Mapping!Mapped(address) IN
        /\ there.chan \in 0 .. NUM_CHANNELS - 1
        /\ there.rank \in 0 .. NUM_RANKS - 1
        /\ there.bank \in 0 .. NUM_BANKS - 1
        /\ there.col \in 0 .. NUM_COLS - 1
        /\ Mapping!RowFits => there.row \in 0 .. NUM_ROWS - 1
    BY Hypotheses, Mapping!MappedRange
  <2>3. /\ NUM_CHANNELS \in Int /\ NUM_RANKS \in Int /\ NUM_BANKS \in Int
        /\ NUM_COLS \in Int /\ NUM_ROWS \in Int
    BY Hypotheses, Mapping!PowerPositive DEF Mapping!AddressAssumption
  <2> HIDE DEF place
  <2>4. /\ place.chan < NUM_CHANNELS /\ place.rank < NUM_RANKS /\ place.bank < NUM_BANKS
        /\ place.col < NUM_COLS
        /\ RowFits => place.row < NUM_ROWS
    BY <2>1, <2>2, <2>3, SameFits
  <2> QED
    BY <2>4 DEF PlaceInRange, place
<1> QED
  BY <1>1, SpecIInv, PTL

\* The two copies of the row's width agree up to half of what an unsigned counts, and
\* nowhere else.
THEOREM WidthsAgreeBelowHalf == Spec => []RowWidthsAgree
<1>1. IInv => RowWidthsAgree
  BY Hypotheses, Mapping!WidthsAgree, SameRow, SameBOBRow, SamePower DEF RowWidthsAgree
<1> QED
  BY <1>1, SpecIInv, PTL

\* Where the widths agree, a line's place is the one the scheme's name describes, and
\* no other line of the memory has it.
THEOREM EveryLineIsPlaced == Spec => []EveryLineHasItsPlace
<1>1. IInv => EveryLineHasItsPlace
  <2> SUFFICES ASSUME IInv, RowFits, BOBRowBitWidth = rowBitWidth
               PROVE  AddressAt(Mapped(address)) = address % Capacity
    BY DEF EveryLineHasItsPlace
  <2>1. Mapping!RowFits /\ Mapping!BOBRowBitWidth = Mapping!rowBitWidth
    BY SameFits, SameRow, SameBOBRow
  <2>2. Mapping!AddressAt(Mapping!Mapped(address)) = address % Mapping!Capacity
    BY <2>1, Hypotheses, Mapping!MappedIsAddress
  <2> QED
    BY <2>2, SameAddress, SameMapped, SameCapacity
<1> QED
  BY <1>1, SpecIInv, PTL

\* A logic operation's stride reaches another place of its channel exactly under the
\* schemes that keep the column below the channel.
THEOREM StrideMovesByScheme == Spec => []StrideReachesNextPlace
<1>1. IInv => StrideReachesNextPlace
  <2> DEFINE Columns == {"RW_BK_RK_CH_CL_BY", "RW_CH_BK_RK_CL_BY", "CH_RW_BK_RK_CL_BY"}
             here == Mapped(address)
             there == Mapped(address + LogicStride)
  <2> SUFFICES ASSUME IInv, RowFits, (address \div LogicStride) % NUM_CHANNELS = 0
               PROVE  here # [there EXCEPT !.chan = here.chan] <=> mappingScheme \in Columns
    BY DEF StrideReachesNextPlace
  <2>1. here = Mapping!Mapped(address)
    BY SameMapped
  <2>2. there = Mapping!Mapped(address + Mapping!LogicStride)
    BY SameMapped, SameStride
  <2>3. Mapping!RowFits /\ (address \div Mapping!LogicStride) % NUM_CHANNELS = 0
    BY SameFits, SameStride
  <2>4. Mapping!Mapped(address)
          # [Mapping!Mapped(address + Mapping!LogicStride)
               EXCEPT !.chan = Mapping!Mapped(address).chan]
        <=> mappingScheme \in Columns
    BY <2>3, Hypotheses, Mapping!StrideMoves
  <2> QED
    BY <2>1, <2>2, <2>4, Zenon
<1> QED
  BY <1>1, SpecIInv, PTL

=============================================================================
