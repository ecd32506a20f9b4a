----------------------------- MODULE BankState ------------------------------
(***************************************************************************)
(* The state of one bank (BankState.h).  The controller keeps one per bank *)
(* as its own bookkeeping and every rank keeps its own copy, one command   *)
(* bus transfer behind.                                                    *)
(*                                                                         *)
(* The code stores nextActivate, nextRead and nextWrite as absolute clock  *)
(* cycles and only ever compares them with the current one; here they are  *)
(* the cycles still to wait, 0 once the moment has come, and Elapse is the *)
(* increment of the clock at the end of an Update.                         *)
(***************************************************************************)
EXTENDS DRAMParams, Sequences

CurrentBankStates == {"IDLE", "ROW_ACTIVE", "PRECHARGING", "REFRESHING"}

LastCommands == {"NONE", "ACTIVATE", "READ_P", "WRITE_P", "PRECHARGE", "REFRESH"}

BankStates ==
    [currentBankState : CurrentBankStates,
     openRowAddress : Rows,
     nextActivate : Nat, nextRead : Nat, nextWrite : Nat,
     lastCommand : LastCommands,
     stateChangeCountdown : Nat]

\* A bank as calloc leaves it; every run starts with the same row address.
IdleBank ==
    [currentBankState |-> "IDLE",
     openRowAddress |-> CHOOSE row \in Rows : TRUE,
     nextActivate |-> 0, nextRead |-> 0, nextWrite |-> 0,
     lastCommand |-> "NONE",
     stateChangeCountdown |-> 0]

Burst == [packet : BusPacket, countdown : Nat]

\* A queue of packets whose countdowns all advance: one cycle passes.
CountDown(queue) ==
    [i \in DOMAIN queue |-> [queue[i] EXCEPT !.countdown = Decremented(@)]]

\* The head of such a queue is sent in this cycle, and leaves it.
HeadIsDue(queue) == queue # << >> /\ Head(queue).countdown = 1

AfterCountDown(queue) ==
    IF HeadIsDue(queue) THEN Tail(CountDown(queue)) ELSE CountDown(queue)

\* The auto-precharge that follows a CAS, the end of a precharge and of a refresh.
UpdateStateChange(bank) ==
    CASE bank.stateChangeCountdown = 0 -> bank
      [] bank.stateChangeCountdown > 1 ->
           [bank EXCEPT !.stateChangeCountdown = @ - 1]
      [] bank.stateChangeCountdown = 1 /\ bank.lastCommand \in {"READ_P", "WRITE_P"} ->
           [bank EXCEPT !.currentBankState = "PRECHARGING",
                        !.lastCommand = "PRECHARGE",
                        !.stateChangeCountdown = tRP]
      [] OTHER ->
           [bank EXCEPT !.currentBankState = "IDLE", !.stateChangeCountdown = 0]

\* lastCommand is one for which the switch of UpdateStateChange has no case.
StateChangeFails(bank) ==
    /\ bank.stateChangeCountdown = 1
    /\ bank.lastCommand \notin {"REFRESH", "READ_P", "WRITE_P", "PRECHARGE"}

\* Bug: a moment that has come is counted on.
OneLessAlways(n) == n - 1

OneLess(n) == IF n = 0 THEN 0 ELSE n - 1

\* One clock cycle passes.
Elapse(bank) ==
    [bank EXCEPT !.nextActivate = OneLess(@),
                 !.nextRead = OneLess(@),
                 !.nextWrite = OneLess(@)]

Quiet(bank) == bank.currentBankState = "IDLE" /\ bank.nextActivate = 0

Refreshing(bank) ==
    [bank EXCEPT !.currentBankState = "REFRESHING",
                 !.stateChangeCountdown = tRFC,
                 !.nextActivate = tRFC,
                 !.lastCommand = "REFRESH"]

RowOpen(bank, row) ==
    bank.currentBankState = "ROW_ACTIVE" /\ bank.openRowAddress = row

=============================================================================
