---------------------------- MODULE DRAMService -----------------------------
(***************************************************************************)
(* A DRAM channel as the main controller sees it: ChannelService as a      *)
(* specification.  Between two Updates the channel is handed transactions  *)
(* and relieved of the oldest read; an Update is any of AfterUpdate.       *)
(***************************************************************************)
EXTENDS ChannelService

CONSTANT Requests         \* what the main controller may send

VARIABLE ch

Init == ch = NewChannel

AddTransaction(t) == Accepts(ch, t) /\ ch' = Accept(ch, t)

TakeReturn == ch.readReturnQueue # << >> /\ ch' = WithoutReturn(ch)

Update == ch' \in AfterUpdate(ch)

Next == Update \/ TakeReturn \/ \E t \in Requests : AddTransaction(t)

Spec == Init /\ [][Next]_ch

=============================================================================
