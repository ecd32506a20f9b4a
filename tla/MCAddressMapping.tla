-------------------------- MODULE MCAddressMapping --------------------------
(***************************************************************************)
(* AddressMapping for TLC: a behaviour fixes a scheme and a memory size    *)
(* and maps one cache line of the memory after the other.  mappingScheme   *)
(* and QEMU_MEMORY_SIZE, constants of a simulation, are variables here, so *)
(* that one run covers all schemes and sizes.                              *)
(***************************************************************************)
EXTENDS Integers, Sequences

CONSTANTS
    NUM_RANKS, NUM_BANKS, NUM_ROWS, NUM_COLS, NUM_CHANNELS,
    BUS_ALIGNMENT_SIZE, CACHE_LINE_SIZE, UINT_BITS,
    MemorySizes,          \* the sizes that are tried
    MaxAddress            \* the last address that is mapped

VARIABLES mappingScheme, QEMU_MEMORY_SIZE, address

INSTANCE AddressScheme

ASSUME GeometryIsPowers == AddressAssumption

\* A stride of the logic layer is shorter than a row of columns, and longer than the
\* bytes of a column; addresses and sizes of the memory are 64-bit numbers.
ASSUME GeometryOfLogic == BUS_ALIGNMENT_SIZE < CACHE_LINE_SIZE /\ NUM_CHANNELS < NUM_COLS
ASSUME SixtyFourBits ==
    MemorySizes \subseteq 0 .. PowerOf2[2 * UINT_BITS] - 1 /\ MaxAddress \in Nat

vars == <<mappingScheme, QEMU_MEMORY_SIZE, address>>

Init ==
    /\ mappingScheme \in AddressMappingSchemes
    /\ QEMU_MEMORY_SIZE \in MemorySizes
    /\ address = 0

MapNext ==
    /\ address + CACHE_LINE_SIZE <= MaxAddress
    /\ address' = address + CACHE_LINE_SIZE
    /\ UNCHANGED <<mappingScheme, QEMU_MEMORY_SIZE>>

Spec == Init /\ [][MapNext]_vars

-----------------------------------------------------------------------------

\* Every cache line of the memory has a place of its own, the one its scheme's name
\* describes (not the comment at Globals.h:91, see AddressScheme): what the main controller takes out for the channel is what the channel
\* skips, and the fields lose no bit to each other (SimpleController.cpp:664-961,
\* BOB.cpp:774-827).  Lines beyond the memory wrap round to its beginning.
EveryLineHasItsPlace ==
    (RowFits /\ BOBRowBitWidth = rowBitWidth) =>
        AddressAt(Mapped(address)) = address % Capacity

\* The fields index the arrays of channels, ranks and banks: in range for every
\* address, inside the memory or not, and for every size of the memory, also those for
\* which the width of the row wraps (SimpleController.cpp:67-69).
PlaceInRange ==
    LET place == Mapped(address) IN
    /\ place.chan < NUM_CHANNELS /\ place.rank < NUM_RANKS /\ place.bank < NUM_BANKS
    /\ place.col < NUM_COLS
    /\ RowFits => place.row < NUM_ROWS

\* The two copies of the row's width agree for memories of at most half of what an
\* unsigned counts (2 GB) and for no other: above, log2_64 does not round up any more
\* (its 1 << 31 is negative), and from 4 GB on the controller's size is narrowed.
RowWidthsAgree ==
    (BOBRowBitWidth = rowBitWidth) <=> (QEMU_MEMORY_SIZE <= PowerOf2[UINT_BITS - 1])

\* Successive transactions of a logic operation, LogicStride bytes apart and all sent
\* to the operation's channel, reach different places of it exactly when the scheme
\* keeps the column below the channel; otherwise the step changes nothing but the bits
\* of the channel, and a fill of NUM_CHANNELS pages writes one place as many times
\* (LogicLayerInterface.cpp:129; with the constants of the code the stride is one line).
StrideReachesNextPlace ==
    LET here == Mapped(address)
        there == Mapped(address + LogicStride)
        sameChannel == [there EXCEPT !.chan = here.chan]
    IN (RowFits /\ (address \div LogicStride) % NUM_CHANNELS = 0) =>
          (here # sameChannel <=>
               mappingScheme \in {"RW_BK_RK_CH_CL_BY", "RW_CH_BK_RK_CL_BY",
                                  "CH_RW_BK_RK_CL_BY"})

=============================================================================
