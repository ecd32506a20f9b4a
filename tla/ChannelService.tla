--------------------------- MODULE ChannelService ---------------------------
(***************************************************************************)
(* What a DRAM channel promises to the main BOB controller, without its    *)
(* timing: the transactions it accepts leave its work queue in any order,  *)
(* one command per Update; the data of reads comes back in the order their *)
(* commands were sent, into a return queue that holds no more than         *)
(* CHANNEL_RETURN_Q_MAX; a logic operation becomes writes that compete for *)
(* the work queue and then a response (a PAGE_FILL of                      *)
(* LogicLayerInterface.cpp; the other operations are not modelled here).   *)
(* A channel is a value; the modules of the main controller keep one per   *)
(* channel, DRAMChannel is the detailed one.                               *)
(***************************************************************************)
EXTENDS Integers, Sequences, FiniteSets

CONSTANTS
    NULL,                 \* the null pointer
    CHANNEL_WORK_Q_MAX,   \* transactions the work queue may hold
    CHANNEL_RETURN_Q_MAX, \* the return queue's bytes / TRANSACTION_SIZE
    PageCount             \* the writes a logic operation issues

ASSUME ChannelAssumption ==
    /\ CHANNEL_WORK_Q_MAX \in Nat \ {0}
    /\ CHANNEL_RETURN_Q_MAX \in Nat \ {0}
    /\ PageCount \in Nat

NewChannel ==
    [work |-> {},                    \* transactions whose CAS is to be sent
     logicWrites |-> 0,              \* writes of the logic layer among them
     issued |-> << >>,               \* reads sent, oldest first
     readReturnQueue |-> << >>,
     logicOps |-> << >>,             \* logic operations, the current one first
     logicLeft |-> PageCount,        \* writes the current one has yet to issue
     pendingLogicResponse |-> NULL]

WaitingACTS(ch) == Cardinality(ch.work) + ch.logicWrites

Accepts(ch, t) ==
    t.transactionType = "LOGIC_OPERATION" \/ WaitingACTS(ch) < CHANNEL_WORK_Q_MAX

Accept(ch, t) ==
    IF t.transactionType = "LOGIC_OPERATION"
    THEN [ch EXCEPT !.logicOps = Append(@, t)]
    ELSE [ch EXCEPT !.work = @ \union {t}]

-----------------------------------------------------------------------------
(* One Update: a burst completes, the logic layer acts, a CAS is sent; any *)
(* of them may not happen in this cycle.                                   *)

Returns(ch) ==
    IF ch.issued = << >> THEN {}
    ELSE {[ch EXCEPT !.issued = Tail(@),
                     !.readReturnQueue = Append(@, Head(ch.issued))]}

LogicWrites(ch) ==
    IF ch.logicOps # << >> /\ ch.logicLeft > 0 /\ WaitingACTS(ch) < CHANNEL_WORK_Q_MAX
    THEN {[ch EXCEPT !.logicWrites = @ + 1, !.logicLeft = @ - 1]}
    ELSE {}

LogicResponds(ch) ==
    IF ch.logicOps # << >> /\ ch.logicLeft = 0 /\ ch.pendingLogicResponse = NULL
    THEN {[ch EXCEPT !.logicOps = Tail(@),
                     !.logicLeft = PageCount,
                     !.pendingLogicResponse =
                         [Head(ch.logicOps) EXCEPT !.transactionType = "LOGIC_RESPONSE"]]}
    ELSE {}

Sends(ch) ==
    IF Len(ch.readReturnQueue) + Len(ch.issued) >= CHANNEL_RETURN_Q_MAX THEN {}
    ELSE {[ch EXCEPT !.work = @ \ {t},
                     !.issued = IF t.transactionType = "DATA_READ"
                                THEN Append(@, t) ELSE @] : t \in ch.work}
         \union (IF ch.logicWrites = 0 THEN {} ELSE {[ch EXCEPT !.logicWrites = @ - 1]})

AfterUpdate(ch) ==
    LET returned == {ch} \union Returns(ch)
        logic == returned \union UNION {LogicWrites(x) \union LogicResponds(x) : x \in returned}
    IN logic \union UNION {Sends(x) : x \in logic}

\* The channel after the main controller has transferred its oldest read.
WithoutReturn(ch) == [ch EXCEPT !.readReturnQueue = Tail(@)]

=============================================================================
