# BOBSim, specified in TLA+

BOBSim simulates the memory system of a CPU: a main controller on the CPU chip
(BOB) talks over narrow fast links to simple controllers, each driving one DRAM
channel.  It is a single-threaded, cycle-driven program; what makes it hard to
get right is that many small machines (ports, links, controllers, banks, ranks,
queues) advance in the same cycle, each with its own countdowns, and that several
of them keep separate copies of what must be the same fact.  This directory holds
TLA+ models of those machines, the instances TLC checks and proofs for TLAPS.

## The system

| part | state | operations | talks to |
|---|---|---|---|
| `BOBWrapper` | request and response in flight on each port, countdowns | `AddTransaction`, `Update`, callbacks | the CPU; the ports of `BOB` |
| `BOB` (main controller), `Port` | port buffers, SerDes buffers, link buses, `pendingReads`, round-robin counters | `Update` | wrapper through the ports; `DRAMChannel::AddTransaction`, `Update`, `readReturnQueue`, `pendingLogicResponse`, and it reads `waitingACTS` |
| `DRAMChannel` | command bus, data bus, return queue | `AddTransaction`, `Update`, `ReceiveOnCmdBus`, `ReceiveOnDataBus` | controller and ranks by callback; `BOB` by `ReportCallback` |
| `SimpleController` | command queue, bank states, write bursts, tFAW window, refresh counters, `waitingACTS`, `outstandingReads` | `AddTransaction`, `Update`, `IsIssuable` | its channel's buses |
| `Rank`, `BankState` | a second copy of the bank states, the reads to return | `ReceiveFromBus`, `Update`, `UpdateStateChange` | its channel's data bus |
| `LogicLayerInterface`, `LogicOperation` | operations waiting, transactions to send, the current operation | `ReceiveLogicOperation`, `Update` | its channel, in both directions |
| clocks | `BOB`'s cycle, the channels' cycle, the adjustment counter | the `if` at BOB.cpp:739-765 | decides when channels are updated |
| `FindChannelID`, `AddressMapping` | none | address to channel, rank, bank, row, column | |
| configuration (`Globals.h`), `Callback`, `SimulatorObject`, `BusPacket`, `Transaction` | data and plumbing | | |
| `RandomStreamSim`, `LibraryStubs`, `BOBSim.h`, statistics and power | | drivers and output | |

What makes each part correct, and is hard to see in a test:

* **Controller.**  A bank is opened for one CAS and closed by it; a CAS never goes
  before its ACTIVATE; the two counters that guard the queues agree with the
  queues; same-bank order; the device's timing (tRC, tFAW) holds; refreshes recur.
* **Rank.**  Its own bookkeeping accepts everything the controller sends.  The
  copies are a command transfer apart and are not computed the same way.
* **Channel.**  Bursts from the controller and from all ranks meet on one data bus
  that nobody arbitrates.  A slot of the return queue is reserved when a read is
  sent and filled many cycles later.
* **Main controller and wrapper.**  No request is lost, duplicated or given the
  data of another, though it is known by position in one queue and by id in
  another; the links and ports are never reused too early; every port and every
  channel gets its turn.
* **Clocks.**  The truncated clock ratio and its correction, truncated in its turn, keep
  both clocks together.
* **Configuration.**  The widths of an address's fields are computed twice, and both
  controllers take the address apart as the scheme's name says.

`PROJECT.json` lists the hazards at their lines with the properties that cover
them, and, for those not covered yet, why.

## Modules

```
DRAMParams            geometry, timing, queue sizes, transactions, packets
  BankState           one bank
    Rank              a rank and its banks
    SimpleController  the controller of a channel
      DRAMChannel     controller + ranks + buses + return queue
        DRAMChannel_proof         types; ReturnQueueBounded, by counting the reads on their
                                  way; the work queue: its counter, open banks, same-bank order
          ChannelTiming_proof     ranks, buses, bursts: no exit is reachable
        ChannelRefinement     DRAMChannel implements DRAMService
          MCDRAMChannel
            ChannelRefinement_proof at most four ACTIVATEs in tFAW, tRC between two to a bank;
                                    the reads: no slot leaked, data in order (uses ChannelTiming_proof)
        MCChannelStream       the channel under endless traffic
AddressMapping        the eight schemes, FindChannelID, log2
  AddressScheme       what the schemes' names say, put together again
    AddressMapping_proof    fields, widths, lines and strides, for every size and address
    MCAddressMapping
      MCAddressMapping_proof
LogicLayer            the logic layer of a channel (with AddressMapping)
  LogicChannel        DRAMChannel + LogicLayer
    MCLogicChannel
      LogicChannel_proof    LogicChannel implements DRAMChannel; an operation is carried out
                            before it is answered (uses ChannelTiming_proof, AddressMapping_proof)
ChannelService        the channel without time, as BOB sees it, with logic operations
  DRAMService         ChannelService as a specification of its own
  BOB                 the main controller
    BOBWrapper        the CPU's side; the whole memory system
      BOBWrapper_proof        types, input buffers, wires, room in the work queues; every
                              request is in one place until it is answered
      MCBOB
ClockDomain           the two clocks
  ClockDomain_proof
MCConfiguration       MCAddressMapping and ClockDomain: what the constructor derives
```

**DRAMParams, BankState.**  The code keeps `nextActivate`, `nextRead` and
`nextWrite` as absolute cycles and only compares them with the current one.  The
models keep the cycles still to wait and `Elapse` them when the code increments
`currentClockCycle`, which makes the state space finite without a bound.  Fields
that are written and never read are left out.  `Decremented` is the `--` of an
unsigned counter and wraps to `UINT_MAX`; a model value would hide the wrap.

**Rank.**  A rank is a value.  `Refuses` collects the conditions under which
`ReceiveFromBus` exits the program, `ReceiveFromBus` and `UpdateRank` are the two
functions of the class.

**SimpleController.**  `EnqueueCommands` is `AddTransaction`.  `Update` is cut
into what it computes before it decides (`WindowNow`, `BanksNow`, `RefreshNow`),
the decision (`RefreshIsIssuable`, `CanSend`, `Selected`: the first packet the scan
stops at) and one action per decision.  The erase-while-iterating of the tFAW
window is kept as it is (`WindowAfter`).  A transaction arrives with its rank, bank
and row, so that any address may follow any other; LogicChannel computes them.

**DRAMChannel.**  One `DRAMChannel::Update` is one step: `Cycle` is what every
Update does (the buses deliver, ranks advance, the data bus takes what is due) and
is conjoined with one decision of the controller.  Between Updates the main
controller adds transactions (`AddTransaction`) and takes reads (`TakeReturn`).
Transactions of the logic layer come from nowhere here (`Origins`): LogicChannel adds
the layer.  `exit(0)` becomes `error`, and
the channel stops.  `CommandStarts` writes the bus as the code does; that two
packets are never put on it in one cycle is what `DataBusCollides` checks.

**AddressMapping.**  An address is a natural number, a mapping the fields the
nested shifts and xors of `SimpleController::AddressMapping` cut off it: `Dropped`
and `PartOf` are the two steps every case of the switch repeats, the eight
definitions list the parts in the order of their case.  `log2` and `log2_64` are kept
with the widths of their arguments and the signed shifts that decide whether they
round up; the width of a row is computed twice, as in the code.  AddressScheme is the
reference it is compared with: the parts of a place, put one after the other in the order
in which the scheme's name lists them.  The repository contradicts itself here once: the
comment on `RK_BK_RW_CLH_CH_CLL_BY` at Globals.h:91 says `chan:rank:bank:row:col:byte`, the
channel on top and the column whole, which is neither what the name says, nor the comments
of its two cases (SimpleController.cpp:748, BOB.cpp:789), nor what the code does.  The name
is taken as the reference, and the comment at Globals.h:91 as mistaken.

**LogicLayer, LogicChannel.**  `LogicLayerInterface::Update` is the composition of
`AfterSend`, `AfterTake` and `AfterData`.  LogicChannel puts the layer where
`DRAMChannel::Update` calls it: after the buses have delivered, with the data of this
cycle in its queue, and before the controller decides; `layerUpdated` marks the place
between the two steps, at which nobody else acts.  MCLogicChannel keeps two histories that
the code does not have and the properties are judged by: `older`, the pairs of transactions
in the queue in the order they were accepted, and `work`, the addresses read and written
for the current operation.  Two reads of deleted memory
(LogicLayerInterface.cpp:70, SimpleController.cpp:641) take the value the usual
allocators leave there; the comment at `AfterSend` says why it is not LOGIC_RESPONSE.  An
operation without contents, on which the layer exits (LogicLayerInterface.cpp:199-203), is
one of the type `NO_CONTENTS`; the wrapper gives every operation contents
(BOBWrapper.cpp:271-274), so the runs have none.

**ChannelRefinement, DRAMService.**  What BOB relies on is checked, not assumed:
`ServiceView` reads the untimed channel off the detailed one (the work set off the
CASs of the queue, the reads sent, in the order in which their data will reach the
data bus, off the command bus, the ranks and the data bus), and `ImplementsService`
says that every step of DRAMChannel is a step of DRAMService or a stutter.  The order is
stated by counting (`InOrder`: the i-th read is the one with i - 1 before it), which
the proof can reason about and a sort it could not.  The view
is kept in the variable `service`, so that TLC computes it once per state.  It holds
while the logic layer is silent; with logic reads `channel_leak` shows it does not.

**ChannelService, BOB, BOBWrapper.**  The main controller sees of a channel only
whether it accepts, what is in its return queue and its logic response; the
channel is therefore the untimed `ChannelService`, in which an Update may return a
read, let the logic layer act and send a command, or do none of these.  This also
stands for the CPU cycles in which channels are not updated.  `BOB::Update` is
split by `pc` at the points where its loops end: buses, SerDes, input ports (one
step per turn, because `priorityPort` moves while the loop runs), responses,
channels (one step per channel), wrapper.  A simulation that chooses the port itself adds
with `AddTransaction`, a CPU simulator with `AddRequest`, which leaves the port to one
of the three heuristics of `FindOpenPort`.  The lengths of packets
on links and ports are computed as in the code, with the two roundings.

The exits for a transaction of no known type (BOB.cpp:417, :472, :542; BOBWrapper.cpp:440,
:470), the defaults of case distinctions over what a request or a response can be, are left
to the types; so is that for a header that ends without a request (BOBWrapper.cpp:387).

**ClockDomain.**  The two periods, in a unit of which both are multiples, the ratio and
the adjustment as BOB.cpp:95-97 truncate them, and the counter of BOB.cpp:743-756.
MCConfiguration runs it next to the mapping of addresses.

**MCChannelStream.**  Traffic without end for DRAMChannel: a work queue that is always full
of one write and otherwise reads, to given ranks.  `StreamSpec` leaves rank, bank and row
of each transaction open; `AvoidingSpec` is one such stream, for the timing of a real
device, whose reads keep away from a rank that is being refreshed.

## What TLC checks

| run | instance | states | question |
|---|---|---|---|
| `channel_safe` | 2 ranks x 2 banks x 2 rows, return queue of 2, 3 transactions, up to 2 cycles apart | 227 000 | types, bank discipline, queue and read accounting, ranks never refuse, bursts keep apart, same-bank order; implements DRAMService |
| `channel_logic` | the same with its logic layer: 2 operations (fill, copy, walk, empty copy and walk), 1 request of the CPU at any time, work queue of 2 | 129 000 | operations are carried out before they are answered, and answered; the layer never exits; who may overtake |
| `channel_ddr3` | 1 rank x 5 banks, DDR3-1333 timing, 5 transactions back to back | 276 000 | the device timing: ranks, bus, tFAW, tRC |
| `channel_live` | 3 ranks x 1 bank, endless traffic, writes to the second rank, reads from the others, queues of 2 and 3 | 19 000 | refreshes recur, writes are not starved, reads return |
| `channel_starve` | 4 ranks x 8 banks, DDR3-1333 timing, endless traffic, writes to the last rank | | **violated**: see below |
| `channel_leak` | logic reads, return queue of 1 | | **violated**: see below |
| `bob_safe` | 2 ports, 2 links of a channel each, 3 reads or writes | 1 292 000 | nothing lost, mismatched, refused or overwritten |
| `bob_live` | 2 ports of depth 1 chosen round robin, 1 link of 2 channels, 3 requests, fair | 237 000 | every request is answered; input buffers |
| `bob_lost_read`, `bob_refused`, `bob_starve` | with logic operations; endless traffic | | **violated**: see below |
| `configuration` | ratio 4, adjustment 6; 2 channels, 2 ranks, 4 banks, 8 rows, 4 columns; 8 schemes, 10 sizes of the memory, all lines | 22 000 | the clocks do not drift; lines and places correspond, the fields are in range, the copies of the row's width agree |

Timing constants of the small instances keep the order relations of the real ones
(a burst shorter than a CAS latency, tRC longer than tRCD + tRTP, a turnaround of at
least one cycle, a refresh longer than a precharge) but are a third of their size;
`channel_ddr3` and `channel_starve` take the real ones.  `REFRESH_PERIOD` is 12 to 24 cycles
(14 in `channel_logic`), 160 or 300 rather than 5200: what matters is that refreshes fall
due before, between and during
transactions, and they do at any phase because the gaps between transactions are
chosen by TLC.  Three transactions are enough for two banks of one rank and another
rank to conflict, five for the four-activate window.  After a silence of more than
`MaxGap` cycles no more transactions come (a bound of the instance).  Queues of the
instances hold two to five entries so that their limits are reached.  `UINT_MAX` is
255.  The banks are symmetric: the only bank the model chooses itself, in a REFRESH
packet, is never looked at.  Transaction ids take the first free value because the
code only compares them with each other.

In `channel_logic` the two addresses lie in one bank and different rows, and the
second page of one of them in the other rank.  The endless traffic of `channel_live`
always holds one write and otherwise reads, which is what keeps a write back the
longest.  Its timing has what makes that hard in the configured system: a burst no longer
than the CAS latency, and a read that postpones a write (by tCL + BURST + tRTRS - tCWL = 4)
longer than a read of the same rank (2) or of another (3), as 8 against 4 and 6 cycles.  The
writes go to the second of three ranks: the last rank to which `RefreshesRecur` and
`WritesComplete` apply, because `channel_starve` violates them for the third.  The unsigned
integers of `configuration` are 9 bits wide, so that the sizes at which
`log2` wraps (2 GB, 4 GB) are 256 and 512, the first sizes tried on both sides.

`CHECK_DEADLOCK FALSE` appears in `configuration.cfg` only, whose instance ends at
`MaxAddress`; all other systems always have a next cycle.

**Fairness.**  The simulator calls `Update` in every cycle, hence weak fairness of
the channel's cycle (`LayerRuns`, `ChannelRuns`), of the main controller's steps and
the wrapper's (`Runs`).  In `channel_logic` the response link takes what a channel has
for it (`Takes`), strongly, because it does so between two Updates only.  In
`channel_live` and `channel_starve` weak fairness of the whole step is enough: the traffic never pauses, so
there is always exactly one thing to do next.  In `MCBOB` a channel is strongly fair in
sending and in returning: DRAMService may idle, the real channel, given traffic that ends,
does not.  `channel_live` checks that it does not even under endless traffic to the first
ranks (`ReadsReturn`, `WritesComplete`); under that of `channel_starve` this fairness
would be too much, and `RequestsAnswered` is claimed for the finitely many requests of
`bob_live` only.  Elsewhere the CPU is never fair.

**What the passing runs show beyond their names.**

* `channel_live`: each read that is sent postpones the writes by more cycles than it
  postpones the next read (SimpleController.cpp:371-390), so reads alone could starve a
  write; what ends it is the next refresh that silences every rank with reads.  While the
  first rank waits for its refresh no other is refreshed (canIssueRefresh, :282-291), and
  the others, due themselves, run dry; while the second waits, the first is refreshed, which
  takes longer (tRFC) than a write is postponed, and the third is held back.  With the hold
  on a due rank's ACTIVATEs removed (the mutant of `ActivateIsReady`) a write starves.
* `channel_logic`: an empty MEM_COPY or PAGE_TABLE_WALK never responds and holds the
  operations behind it; `OperationsAnswered` says that nothing else does.
* `configuration`: the channel and the row of an address are cut off with the same width
  exactly up to 2 GB (`RowWidthsAgree`), and only there is `EveryLineHasItsPlace` claimed;
  `StrideReachesNextPlace` names the schemes under which the pages of a logic operation
  are different places of its channel.

**What the violated runs show.**

* `channel_leak`: a read of the logic layer takes a slot of the return queue
  (SimpleController.cpp:355) that is never given back (DRAMChannel.cpp:127-136).
  When all are gone the channel issues no CAS any more.
* `channel_starve`: writes to the last of four ranks, reads from the others.  When the last
  rank's refresh is due, the write that must leave before it is postponed by 8 cycles by
  every read, and the reads go on: `canIssueRefresh` holds back only ranks after the busy
  one (SimpleController.cpp:273-291), so the first three ranks are refreshed in turn, and
  while one is the two others are read, every 4 or 6 cycles.  The write, the bank opened for
  it and the refresh of its rank wait for ever.  The stream keeps three transactions in the
  queue and needs a refresh period longer than the refreshes of the three ranks and the
  pauses before them; 300 cycles are enough, and between two refreshes the reads may go on
  for as long as the period lasts.  Two ranks for the reads to go to are needed, hence three in
  all: every memory of Globals.h's default four ranks has this traffic.
* `bob_lost_read`: when a logic response has crossed the link, BOB.cpp:352 removes
  the head of the return queue although the response never was in it.
* `bob_refused`: the room in the work queue is checked before the link is crossed
  (BOB.cpp:506), the logic layer may take it, and the refusal is ignored (:326).
* `bob_starve`: `priorityPort`, "used for round-robin" (BOB.h:101), advances up to
  three times per cycle and can pass over a port for ever.

The passing runs of the main controller leave logic operations out, because these
break its properties, as the violated runs show.

## What is proved

* `TypeCorrect` (DRAMChannel_proof): `Spec => []TypeOK`, for every geometry, timing
  and size of the queues.  `TypeOK` is inductive: the differences
  `tCL + BURST + tRTRS - tCWL` and its mirror are not negative (`TimingAssumption`),
  and erasing and shifting keep the queues sequences.  That no counter wraps it does not
  say, because a wrapped counter is a natural number too.
* `NoCounterWraps` (ChannelRefinement_proof): `Spec => []CountersNeverWrap`, for every device,
  geometry and traffic.  The loops over bursts and windows decrement unsigned counters and
  compare them with 0 afterwards.  Only the head of a queue of bursts is compared, so no
  two may run out together (`TimingInv`).  The loop over a window passes over the entry
  behind the one it erases, which must be the next head and not yet 0 when its turn comes
  (`Staggered`).  `outstandingReads` is not 0 when a read returns because that read is
  counted (`ReadsCounted`).
* `ClocksAgree` (ClockDomain_proof): `ClockSpec => []NoDrift` for all periods, the CPU's not the
  longer one.  BOB.cpp:97 truncates tCK / fmod(tCK, CPU_CLK_PERIOD) when the quotient is no whole
  number, so the clocks then do part, slowly: `NoDrift` says by how much, by one
  `LostFraction` for each update left out and otherwise by no more than a DRAM cycle.
  It is not inductive: it follows from counting.  The invariant says that n = the number
  of ticks so far is the CPU cycle divided by the ratio, and that A times the updates made
  equals (A - 1) times n plus the adjustment counter, which lies between 1 and A once the
  first tick has passed.  `ConfiguredClocksAgree` is the same without the fraction, for the CPU
  period and the three devices of Globals.h, for which it is 0.
* `ReturnQueueCorrect` (DRAMChannel_proof): `Spec => []ReturnQueueBounded`, for every
  device and size of the queues.  The room for a read is checked when its READ is
  sent; the slot changes hands two buses and a rank later, when the data arrives and
  `outstandingReads` is decremented, unsigned and without a test.  The bound survives
  that only if the counter is not 0 then, so the invariant adds `ReadsCounted`: the
  counter is at least the number of reads on their way (command bus, ranks, data
  bus).  It is not equal to it: the reads of the logic layer keep their slot
  (`channel_leak`).  For the count to go down by one, `Separate` says every read is
  in one place only, no place twice; `AddTransaction` keeps that because the id is
  new.  `WritesAreWrites` keeps the write bursts out of the count.  The proof first
  shows what a cycle does to the reads whatever the controller sends
  (`CycleSeparate`), then takes the decisions one by one (`NoReadSent`, `ReadSent`).

* `QueueIsAccounted`, `OpenBankIsAwaited`, `SameBankStaysInOrder` (DRAMChannel_proof):
  `WorkQueueAccounted`, `OpenBankAwaitsItsCAS` and `SameBankInOrder`, for every device,
  size of the queue and traffic, the logic layer's priority included.  None of them is
  inductive.  The invariant, `QueueInv`, describes the shape of the queue: an ACTIVATE is
  followed by its CAS (`WellFormed`), so that a CAS without one before it is loose, that
  is, its bank has been opened.  A loose CAS finds its row and has the bank to itself
  (`LooseFindsRow`), an open bank has a loose CAS (`OpenHasLoose`), a loose CAS has
  overtaken nothing but what the layer put before it (`OvertakenIsLogic`), and the
  counter is the number of CASs (`Counted`).  Most of the proof is about positions: what
  removing the k-th packet, or inserting two behind those of the logic layer, does to them.
* `RanksNeverRefuse`, `BusesNeverCollide`, `BurstsStayApart`, `ChannelNeverExits`
  (ChannelTiming_proof): `RankNeverRefuses`, `DataBusNeverCollides`, `BurstsKeepApart`
  and `error = "none"`, for every geometry and every timing that satisfies
  `DeviceAssumption`.  The invariant, `TimingInv`, has two parts that need each other.
  The bank a rank keeps is the controller's with its waits at most as long, once the
  command on the bus has been taken into account (`RankBanksMirror`, `CommandAccepted`);
  the two are a command transfer apart, and computed by different code.  And no bank of
  the controller lets a CAS through whose burst would come too near to a burst already
  committed, wherever that is (`BurstsClear`; tRTRS counts only between bursts of
  different ranks, a change of direction within a rank adds nothing): in the queue of writes, in a rank, on the
  command bus or on the data bus.  A read moves between these places while its start
  stays the same, which is what makes the second part provable (`Slots`).
* `ReadsAreAccounted` (ChannelRefinement_proof): `ReadsAccounted`, an equality where
  DRAMChannel_proof has an inequality, when the layer reads nothing (`Origins = {FALSE}`:
  `channel_leak` shows the slots a logic read loses).  The invariant, `AccountInv`, adds
  to those above that the channel holds packets of the CPU only.  That no read is
  dropped on its way is where `ChannelNeverExits` is needed.
* `ChannelImplementsService` (ChannelRefinement_proof): `MCSpec => ImplementsService`, when
  the layer reads nothing: what BOB and BOBWrapper are composed with is what DRAMChannel
  does, for every geometry, device and size of the queues, and not only on the instance of
  `channel_safe`.  The main controller matches data by
  position, so the order in which reads return must be that in which their commands were
  sent, from ranks that answer independently.  The invariant, `OrderInv`, adds to `AccountInv`
  that the reads on their way can be listed by the cycle their data is due, no two in the
  same cycle, and are `outstandingReads` many (`ReadsListed`).  One cycle then brings every read one
  cycle nearer, whatever place it moves to (`ReadsLater`); the one whose data has arrived
  is the head of the list (`ListAdvances`), and a READ that is sent is due after all others
  (`ReadIssued`).  What is left is that each decision of the controller is a step of the
  service: `waitingACTS` counts its work set (`WorkCounted`), a CAS leaves it only when
  the return queue has room (`CASIsSend`), and data that has arrived is its `Returns`
  (`DeliveryIsReturn`).
* `FourActivatesAtMost`, `RowsCycleInTime` (ChannelRefinement_proof): `MCSpec =>
  []FourActivateWindow` and `MCSpec => []RowCycleTime`, for every device, geometry and
  traffic.  Both are about the past, which MCDRAMChannel keeps as a history of ages, while
  the controller keeps countdowns only.  The invariant, `HistoryInv`, ties the two: every
  ACTIVATE younger than tFAW has an entry of its rank's window, which does not run out
  before the ACTIVATE is tFAW old (`WindowsRemember`), and what a bank still has to wait
  plus the age of each of its ACTIVATEs is at least tRC - 1 for the next ACTIVATE
  (`BanksHeld`).  The loop that ages the window skips an entry after each erase, so an entry
  may live a cycle too long; `Staggered` shows that it is then the head, and that no entry
  is ever decremented below 1.  WRITE_P overwrites `nextActivate` whatever it was; that
  this never shortens the row cycle needs `RowCycleAssumption` (DRAMParams), which the
  three devices of Globals.h satisfy.
* `InputBuffersCorrect` (BOBWrapper_proof): `Spec => []InputBuffersBounded`, for every
  number of ports, packet size and port heuristic.  A port is looked at a cycle before the
  request enters its buffer; what makes the check good for that cycle is that the port
  stays busy at least as long as its header is under way, which needs a transaction to
  be no smaller than the port's width (`BOBAssumption`).
* `NothingRefusedWithoutLogic` (BOBWrapper_proof): without logic operations,
  `Spec => []NothingRefused`, for every number of ports, links and channels.  The
  invariant, `RoomIsKept`, says that a channel whose link has a request in its SerDes
  buffer has room for it: a request stays in that buffer until it has crossed the link,
  only one request can be there, and an Update of the channel only takes from its work
  queue (`SilentUpdate`).  `bob_refused` shows that the assumption is needed.
* `BOBTypeCorrect`, `ResponsePortsCorrect`, `NoWireTaken` (BOBWrapper_proof), for any
  traffic, logic operations included: `TypeOK`; `ResponsePortsInStep`, the agreement of a
  countdown in `BOB` with one in the wrapper; and `WiresNeverTaken`, that the exits of
  `BOB::Update` for a wire that is taken, or taken for no time, are unreachable.  The
  invariant, `WiresInv`, says of each wire and of
  each part of the cycle when it is free and when what it carries is still there.
* `NoRequestLost`, `SimulatorNeverExits`, `LinksTransferHeads`, `PendingReadsCorrect`
  (BOBWrapper_proof): `RequestsConserved`, `BOBNeverExits`, `LinkTransfersHead` and
  `PendingReadsMatch`, for every number of ports, links and channels, every size of the
  queues and every heuristic, without logic operations (`bob_lost_read` and `bob_refused`
  show why).  The invariant, `RequestsInv`, follows the ids: there are eight kinds of place
  a request can be at (`Holds`), every id the CPU waits for is at one place and one only
  (`OnePlace`, `Accounted`), a queue holds it once (`QueuesDistinct`), what is in a channel
  is where that channel's requests go (`ChannelsOwn`), the response on a link is the head of
  its return queue (`HeadOnLink`), and the list of pending reads is the reads between the
  two crossings (`ReadsPending`).  The four theorems need each other's parts: the search
  of that list succeeds only because no id is in two channels.  One lemma (`Travel`) says
  that moving a request from one place to the next keeps all this; each action is then
  shown to be such moves (`RequestsCPU` .. `RequestsWrapper`).
* `EveryLineIsPlaced`, `PlaceIsInRange`, `WidthsAgreeBelowHalf`, `StrideMovesByScheme`
  (MCAddressMapping_proof): the four properties of `configuration` about addresses, for
  every geometry of powers
  of two, every width of the integers, scheme, size of the memory and address.  The powers
  and logarithms of 2 and the parts shifted off an address are defined by recursion, on
  functions; AddressMapping_proof derives induction for them (`Induction`,
  `FiniteRecursion`) from the fact that a set of naturals has a least element, and from it
  the laws of powers, what both `log2` return (`WidthsAgree`: the negative `1 << 31`
  included), and that the parts cut off an address, put together again, are the address
  (`MappedIsAddress`).  Each scheme's sixteen shifts are then followed one by one.
  `EveryLineHasItsPlace` is claimed, as in the run, where the two copies of the row's width
  agree and the row fits; PlaceInRange's fields other than the row, without that.
* `LogicChannelImplements` (LogicChannel_proof): `MCSpec => Spec`, the channel with its
  logic layer implements the channel alone.  That needs an invariant, because the steps of
  DRAMChannel allow any transaction and the layer's are computed: its requests are
  transactions with a place in the channel only if what it has queued are addresses, its
  data only if the read is one it knows.  `ChannelStaysSafe` draws the conclusion: what
  DRAMChannel_proof and ChannelTiming_proof show of queue, banks and buses holds
  with the layer.
* `LayerIsSafe`, `ResponseFollowsWork` (LogicChannel_proof): `LayerNeverExits` and
  `ResponseAfterWork`, for every geometry, timing, mapping and size of the queues, any
  number of pages, operations and requests of the CPU.  What a response says is done
  (`CarriedOut`) are the writes of a fill, the reads of a copy and the reads of a walk, in
  order and each once, and of the writes of a copy the number and the set of places: they
  follow the data as it comes back, and the data of two banks may change places.  The layer
  counts that data and never looks whose it is.  The invariant, `LogicInv`, has two parts besides those of the
  channel.  `Consistent` is about the layer: the reads sent and those still queued are the
  operation's, in order (`ReadsInOrder`), what has been used, has come or is awaited is no
  more than was sent (`DataCounted`), each datum of a copy that was used has become one write,
  to the place that corresponds (`WritesCounted`, `Copied`), and a response
  in the queue is last, and there only when all data has been used (`ResponseIsLast`).
  `ReadsAwaited` is about the
  channel, which knows nothing of operations: every read of the layer that is in it, on the
  command bus, in a rank or on the data bus, is one the layer waits for.  In the middle of
  an Update one read is handed to the layer and still on the bus (`Handed`).
* `LogicOvertakesOnly` (LogicChannel_proof): `OnlyLogicOvertakes`, with the same generality.
  SameBankStaysInOrder compares positions in the queue; this is about the order of
  acceptance, which the queue does not show once the layer has put its own packets at the
  head.  The invariant, `OrderKept`, says that a transaction of the CPU stands behind all
  that were accepted before it, and keeps its ACTIVATE as long as one of them is for
  its bank.  It is kept because the ACTIVATE that is sent is the first to its bank, which
  no CAS has open (`ActivateIsFirst`): another would have been sent in its place.

The assumptions are the named ASSUMEs of `DRAMParams`, `ChannelService`, `BOB`,
`BOBWrapper`, `MCAddressMapping` and `MCLogicChannel`, and the `ClockAssumption` of
ClockDomain, a hypothesis of its theorem that MCConfiguration assumes; all three devices of Globals.h
satisfy them, and TLC evaluates them in every run.  Those on addresses say that the sizes
of the geometry are powers of two that an unsigned holds and that a line is neither smaller
than the bus is wide nor larger than a row (`AddressAssumption`), that the size of the memory
is a 64-bit number, for the stride that a line is larger than the bus is wide and a row has
more columns than there are channels (`GeometryOfLogic`), and for the logic channel that
ranks, banks and rows are numbered as the mapping numbers them and a row's number has at
most the bits the device has (`GeometryIsMapped`).  `DeviceAssumption` is what the proofs of ChannelTiming_proof found
to be needed beyond the types: a command takes one cycle on its bus, and four order
relations between a burst and the latencies around it.  `RowCycleAssumption` is the same for
the row cycle: tRC is no longer than a write with its recovery and precharge.

**Model-checked only**: liveness (`RefreshesRecur`, `WritesComplete`, `ReadsReturn`,
`RequestsAnswered`, `OperationsAnswered`), because fairness and ENABLED are out of the
prover's reach.  Every other property of a passing run is a theorem; those that
`channel_logic` shares with `channel_safe` are in `ChannelStaysSafe`, and those of
`channel_ddr3` are instances of the theorems on DRAMChannel.  Induction was within reach
after all, for functions: the library's own induction theorems take a predicate as a
parameter, which the provers cannot instantiate, but a set of counterexamples serves
in its place.

## Not modelled

Undefined values that need a model of the allocator: the uninitialised
`pendingLogicResponse` (the models start with NULL, which fresh memory holds), what the
two reads of a deleted transaction find, and the conversion of an infinite double at
BOB.cpp:97 for the devices without drift (taken as 0).  The writeDone callback of a
logic write.  Random traffic generation, statistics, latencies, energy and all output;
plumbing (`Callback`, `SimulatorObject`, `LibraryStubs`).  BOB is composed with
ChannelService rather than with LogicChannel, whose state would not fit next to it.

## Plan

1. *Done:* channel, main controller, wrapper, clocks; the address mapping; the logic
   layer composed with its channel; the channel as an implementation of DRAMService;
   liveness under endless traffic; the first theorems about each side.
2. *Done:* theorems on the work queue, the ranks and buses, the account of reads, the
   device's limits on ACTIVATEs, and on the requests of the whole system.
3. *Done:* DRAMChannel implements DRAMService, as a theorem.
4. *Done:* theorems on the addresses, and on the logic layer: LogicChannel implements
   DRAMChannel, operations are carried out before they are answered, the order of a bank.
5. Left: ChannelImplementsService with the logic layer, for which DRAMService would have to
   lose the slots that `channel_leak` shows lost; a model of the allocator for the reads
   of deleted memory.
