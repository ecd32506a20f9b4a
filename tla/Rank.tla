-------------------------------- MODULE Rank --------------------------------
(***************************************************************************)
(* A rank of DRAM (Rank.cpp).  It repeats the bookkeeping of its banks and *)
(* ends the program when the controller sends a command its banks cannot   *)
(* accept.  A rank is a value: its banks and the reads it has to return,   *)
(* each with the cycles left until its data reaches the data bus.          *)
(***************************************************************************)
EXTENDS BankState

NewRank == [bankStates |-> [b \in Banks |-> IdleBank], readReturnQueue |-> << >>]

RankStates ==
    [bankStates : [Banks -> BankStates], readReturnQueue : Seq(Burst)]

\* ReceiveFromBus prints an error and exits.
Refuses(rank, p) ==
    LET bank == rank.bankStates[p.bank] IN
    CASE p.busPacketType = "REFRESH" -> \E b \in Banks : ~ Quiet(rank.bankStates[b])
      [] p.busPacketType = "READ_P" -> ~ RowOpen(bank, p.row) \/ bank.nextRead > 0
      [] p.busPacketType = "WRITE_P" -> ~ RowOpen(bank, p.row) \/ bank.nextWrite > 0
      [] p.busPacketType = "ACTIVATE" -> ~ Quiet(bank)
      [] p.busPacketType = "WRITE_DATA" -> ~ RowOpen(bank, p.row)
      [] OTHER -> FALSE

\* Every bank waits tCCD after a CAS; the bank it closes waits for its precharge.
BanksAfterCAS(banks, p, busy, untilPrecharge) ==
    [b \in Banks |->
        IF b = p.bank
        THEN [banks[b] EXCEPT !.lastCommand = p.busPacketType,
                              !.stateChangeCountdown = busy,
                              !.nextActivate = untilPrecharge + tRP,
                              !.nextRead = untilPrecharge + tRP,
                              !.nextWrite = untilPrecharge + tRP]
        ELSE [banks[b] EXCEPT !.nextRead = Larger(@, tCCD),
                              !.nextWrite = Larger(@, tCCD)]]

BanksAfterActivate(banks, p) ==
    [b \in Banks |->
        IF b = p.bank
        THEN [banks[b] EXCEPT !.currentBankState = "ROW_ACTIVE",
                              !.openRowAddress = p.row,
                              !.nextRead = tRCD,
                              !.nextWrite = tRCD,
                              !.nextActivate = tRC]
        ELSE [banks[b] EXCEPT !.nextActivate = Larger(@, tRRD)]]

ReceiveFromBus(rank, p) ==
    LET banks == rank.bankStates IN
    CASE p.busPacketType = "REFRESH" ->
           [rank EXCEPT !.bankStates = [b \in Banks |-> Refreshing(banks[b])]]
      [] p.busPacketType = "READ_P" ->
           [bankStates |-> BanksAfterCAS(banks, p, tRTP, tRTP),
            readReturnQueue |-> Append(rank.readReturnQueue,
                                       [packet |-> AsType(p, "READ_DATA"),
                                        countdown |-> tCL])]
      [] p.busPacketType = "WRITE_P" ->
           [rank EXCEPT !.bankStates =
               BanksAfterCAS(banks, p, tCWL + BURST + tWR, tCWL + BURST + tWR)]
      [] p.busPacketType = "ACTIVATE" ->
           [rank EXCEPT !.bankStates = BanksAfterActivate(banks, p)]
      [] p.busPacketType = "WRITE_DATA" ->
           [rank EXCEPT !.bankStates[p.bank].stateChangeCountdown = tWR,
                        !.bankStates[p.bank].nextActivate = tWR + tRP]
      [] OTHER -> rank

-----------------------------------------------------------------------------
(* Update: the banks and the read countdowns advance, the head of the      *)
(* queue goes to the data bus when its countdown ends, the clock ticks.    *)

ReturnIsDue(rank) == HeadIsDue(rank.readReturnQueue)

ReturnedPacket(rank) == Head(rank.readReturnQueue).packet

UpdateRank(rank) ==
    [bankStates |-> [b \in Banks |-> Elapse(UpdateStateChange(rank.bankStates[b]))],
     readReturnQueue |-> AfterCountDown(rank.readReturnQueue)]

=============================================================================
