--------------------------- MODULE MCDRAMChannel ----------------------------
(***************************************************************************)
(* Instances of DRAMChannel for TLC.  Traffic is finite: MaxTransactions   *)
(* transactions arrive, each at most MaxGap cycles after the one before    *)
(* it, of any type, to any address; after a longer silence no more come.   *)
(* With Drained the main controller takes the returned reads, at any time; *)
(* without it the return queue keeps all of them.  New transactions take   *)
(* the first id that is not in use: ids are only compared with each other. *)
(*                                                                         *)
(* activates remembers, per rank, the ACTIVATEs of the last HistoryDepth   *)
(* cycles with their ages.                                                 *)
(***************************************************************************)
EXTENDS ChannelRefinement, TLC

CONSTANTS MaxTransactions, MaxGap, Drained

VARIABLES budget, gap, activates

mcVars == <<vars, service, budget, gap, activates>>

Symmetry == Permutations(Banks)

HistoryDepth == Larger(tFAW, tRC)

\* With tCMDS = 1 a command on the bus after Update was put there by it.
AgedActivates(r) ==
    LET older == {[x EXCEPT !.age = @ + 1] : x \in activates[r]}
        sent == {p \in {inFlightCommandPacket'} \ {NULL} :
                    p.busPacketType = "ACTIVATE" /\ p.rank = r}
    IN {x \in older : x.age < HistoryDepth}
       \union {[bank |-> p.bank, age |-> 0] : p \in sent}

Arrival ==
    /\ budget > 0
    /\ \E t \in Transaction :
          /\ t.transactionID = CHOOSE id \in TransactionIDs : id \notin LiveIDs
          /\ AddTransaction(t)
    /\ budget' = budget - 1
    /\ gap' = 0
    /\ UNCHANGED activates

Cycling ==
    /\ Update
    /\ IF budget = 0 \/ gap = MaxGap
       THEN budget' = 0 /\ gap' = 0
       ELSE gap' = gap + 1 /\ UNCHANGED budget
    /\ activates' = [r \in Ranks |-> AgedActivates(r)]

Reading == Drained /\ TakeReturn /\ UNCHANGED <<budget, gap, activates>>

MCInit ==
    /\ Init /\ ServiceInit
    /\ budget = MaxTransactions
    /\ gap = 0
    /\ activates = [r \in Ranks |-> {}]

MCNext == (Arrival \/ Cycling \/ Reading) /\ ServiceFollows

MCSpec == MCInit /\ [][MCNext]_mcVars

-----------------------------------------------------------------------------

\* No rank receives a fifth ACTIVATE within tFAW cycles, although the loop that
\* ages the window (SimpleController.cpp:228-236) skips an entry after each erase.
FourActivateWindow ==
    \A r \in Ranks : Cardinality({x \in activates[r] : x.age < tFAW}) <= 4

\* A bank is never activated twice within tRC cycles, although a WRITE_P
\* overwrites the nextActivate its ACTIVATE has set (SimpleController.cpp:418).
RowCycleTime ==
    \A r \in Ranks : \A x, y \in activates[r] :
        (x.bank = y.bank /\ x.age < y.age) => y.age - x.age >= tRC

=============================================================================
