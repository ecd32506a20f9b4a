------------------------------- MODULE MCBOB --------------------------------
(***************************************************************************)
(* Instances of BOBWrapper for TLC: at most MaxRequests requests are added *)
(* in all, at any time, of any type, on any port, to any channel; each     *)
(* takes the first id that is not in use, as ids are only compared.        *)
(***************************************************************************)
EXTENDS BOBWrapper

CONSTANTS
    MaxRequests,
    ChosenPorts           \* ports a simulation that chooses them itself may choose

VARIABLE budget

mcVars == <<vars, budget>>

FreeIDs == TransactionIDs \ (accepted \union refused \union InSystem)

\* The first free id, if there is one.
NextID == IF FreeIDs = {} THEN {} ELSE {CHOOSE id \in FreeIDs : TRUE}

Adds ==
    /\ budget > 0
    /\ \E id \in NextID, type \in RequestTypes, c \in Channels :
          \/ \E p \in ChosenPorts : AddTransaction(p, id, type, c)
          \/ \E coreID \in Cores : AddRequest(coreID, id, type, c)
    /\ budget' = budget - 1

Runs == (BOBUpdate \/ WrapperUpdate) /\ UNCHANGED budget

MCInit == Init /\ budget = MaxRequests

MCNext == Adds \/ Runs

MCSpec == MCInit /\ [][MCNext]_mcVars

\* A channel is updated to what ends its wait: it sends a command it could have
\* sent before, hands over a read, or goes on with its logic operation.
Sending(c) ==
    /\ pc = "channels" /\ turn = c /\ ChannelStep /\ UNCHANGED <<cpuVars, budget>>
    /\ WaitingACTS(channels'[c]) < WaitingACTS(channels[c])

Returning(c) ==
    /\ pc = "channels" /\ turn = c /\ ChannelStep /\ UNCHANGED <<cpuVars, budget>>
    /\ channels'[c].readReturnQueue # channels[c].readReturnQueue

\* The simulator calls Update in every CPU cycle, and a channel that again and again
\* has a command to send or a read to return does so: DRAMChannel shows it does.
Fairness ==
    /\ WF_mcVars(Runs)
    /\ \A c \in Channels : SF_mcVars(Sending(c)) /\ SF_mcVars(Returning(c))

MCFairSpec == MCSpec /\ Fairness

\* Traffic without end: the CPU may always add another request.
AddsAgain ==
    /\ \E p \in ChosenPorts, id \in NextID, type \in RequestTypes, c \in Channels :
          AddTransaction(p, id, type, c)
    /\ UNCHANGED budget

MCBusySpec == MCInit /\ [][AddsAgain \/ Runs]_mcVars /\ Fairness

\* BOB.h:101 says that priorityPort is used for round-robin: a port whose buffer
\* holds a request gets its turn to send it, whatever the other ports do.  (It need
\* not: BOB.cpp:550, :577 and :581 advance it up to three times in a row.)
PortsGetTheirTurn ==
    \A id \in TransactionIDs :
        (\E p \in Ports : id \in IDs(Elements(inputBuffer[p])))
            ~> ~ (\E p \in Ports : id \in IDs(Elements(inputBuffer[p])))

\* Every request the CPU has put on a port is answered; the CPU adds finitely many.
RequestsAnswered == accepted # {} ~> accepted = {}

=============================================================================
