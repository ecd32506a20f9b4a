--------------------------- MODULE AddressScheme ---------------------------
(***************************************************************************)
(* The reference for AddressMapping: the names of the schemes              *)
(* (Globals.h:86-93) list the parts of an address from the highest to the  *)
(* lowest.  The comments behind the names say the same, but for that of    *)
(* RK_BK_RW_CLH_CH_CLL_BY, chan:rank:bank:row:col:byte (Globals.h:91): it  *)
(* contradicts the name, which the code and the comments of its two cases  *)
(* follow (SimpleController.cpp:748, BOB.cpp:789).                         *)
(***************************************************************************)
EXTENDS AddressMapping

Names ==
    [RW_BK_RK_CH_CL_BY |-> <<"row", "bank", "rank", "chan", "col", "by">>,
     RW_CH_BK_RK_CL_BY |-> <<"row", "chan", "bank", "rank", "col", "by">>,
     RW_BK_RK_CLH_CH_CLL_BY |->
         <<"row", "bank", "rank", "colHigh", "chan", "colLow", "by">>,
     RW_CLH_BK_RK_CH_CLL_BY |->
         <<"row", "colHigh", "bank", "rank", "chan", "colLow", "by">>,
     CH_RW_BK_RK_CL_BY |-> <<"chan", "row", "bank", "rank", "col", "by">>,
     RK_BK_RW_CLH_CH_CLL_BY |->
         <<"rank", "bank", "row", "colHigh", "chan", "colLow", "by">>,
     CLH_RW_RK_BK_CH_CLL_BY |->
         <<"colHigh", "row", "rank", "bank", "chan", "colLow", "by">>,
     BK_CLH_RW_RK_CH_CLL_BY |->
         <<"bank", "colHigh", "row", "rank", "chan", "colLow", "by">>]

\* The number that the fields make up, put one after the other.
Composed(name, fields) ==
    LET high[k \in 0 .. Len(name)] ==
            IF k = 0 THEN 0 ELSE high[k - 1] * PowerOf2[Widths[name[k]]] + fields[name[k]]
    IN high[Len(name)]

\* The address that the fields of a place, put where the scheme's name says, make up.
AddressAt(place) ==
    Composed(Names[mappingScheme],
             [chan |-> place.chan, rank |-> place.rank, bank |-> place.bank,
              row |-> place.row, col |-> place.col, by |-> 0,
              colHigh |-> place.col \div PowerOf2[colLowBitWidth],
              colLow |-> place.col % PowerOf2[colLowBitWidth]])

\* The row keeps some of its bits, or as many as there are.
RowFits == rowBitWidth \in 0 .. log2(NUM_ROWS)

Capacity == PowerOf2[TotalBits - log2(NUM_ROWS) + rowBitWidth]

=============================================================================
