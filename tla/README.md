# WindShare verification project

TLA+ models of WindShare, the TLC runs that check them on small instances, and
TLAPS proofs of what they say for every instance. Paths below are relative to
the repository.

## 1. The system

WindShare shares files end to end encrypted. A **sender** (`wind share`) keeps
the files; a **receiver** (`wind get`, or a browser) downloads them; a **relay**
introduces the two and forwards opaque frames. The layers, as
`docs/protocol.md` names them:

| layer | what it does | code |
|---|---|---|
| relay control | REGISTER, RESUME, JOIN and STOP of a share; liveness; flow control | `relay-rust/crates/relay-core`, hosts `relay-native` and `relay-cloudflare`; client `transport/relayv2`, `connectivity/relayset`, `senderrelay` |
| lanes | ordered channels between the two ends, over the relay or a direct peer path | `transport/*`, `connectivity/v2peer`, `nativepeer`, `turn*` |
| protocol session | authenticated operations over lanes, surviving lane loss | `core/session/*` |
| sender objects | catalog pages, revisions, leases and blocks | `core/catalog`, `core/content`, `core/liveshare` |
| transfer | range reads, block loads, memory, output | `core/transfer`, `osfs` |
| applications | engine tasks, command line, desktop, browser | `engine`, `cmd/wind`, `desktop`, `web` |

`PROJECT.json` lists every part under `components`, with what is modelled and
why the rest is not, and under `hazards` what each part is exposed to.

How the modelled parts meet: a share's **actor** in the relay owns the route
authority (`ShareAuthority`); each connection of the share has a **delivery
ledger** (`ConnectionLedger`) that grants its peers credit and accounts for
their frames; at the other end of the socket an endpoint's **receive window**
(`ReceiveWindow`) keeps its own ledger (`ReceiveLedger`) of the same frames, and
the two have to agree (`Delivery`). The sender serves blocks from its **revision
stores** (`RevisionStore`), which share the process's file handles
(`RevisionCapacity`). On the receiver, the **block broker** (`BlockBroker`) turns range
reads into block loads under a **plaintext budget** (`BufferBudget`), which
counts with the **capacity ledger** (`CapacityLedger`); loads travel over lanes,
some of them TURN paths admitted by the **TURN pool** (`TurnCapacity`).

## 2. Modules

| module | models | variables |
|---|---|---|
| `ConnectionLedger` | `relay-core/src/flow`: delivery accounting of one destination connection | the ledger's fields, and the host's keys, receipts and retired sessions |
| `ShareAuthority` | `relay-core/src/lifecycle`, `share/storage.rs`, `share/lifecycle.rs`, `authority.rs`, restoration | the actor's state, its task queue, the durable row, connections |
| `ShareRegister` | what the relay promises of one share: an abstract specification that `ShareAuthority` implements (`ImplementsRegister`) | the durable record, the served route, what resuming senders observed, STOPPED answers |
| `ReceiveLedger` | `transport/relayv2/internal/receiveledger` | none: operators on a ledger value |
| `ReceiveWindow` | `transport/relayv2/receive_window.go` and what drives it in `link.go`, `channel.go` | the ledger, the flow of each session with its worker, the writer's wake-up |
| `Delivery` | composition of `ConnectionLedger` and `ReceiveWindow` over a socket, and the stop of a link (`link.go`) | both, messages in each direction, the reader's place, the link |
| `RevisionCapacity` | `core/content/revisioncapacity`: the process's file handles | none: operators on a coordinator value |
| `RevisionStore` | `core/content`: revisions, leases, readers, recovery, reclamation | the clock, what the stores guard, the coordinator, the calls under way, open files |
| `CapacityLedger` | `core/capacityledger` | ledgers, holdStates, the Hold values handed out |
| `BufferBudget` | `core/transfer/bufferbudget` | none: operators on a budget value |
| `BlockBroker` | `core/transfer/broker.go`, `broker_admission.go`, `ReadRange` of `range.go`, over `BufferBudget` | budget, cache index, loads, tasks, readers |
| `TurnCapacity` | `connectivity/turncapacity` | reservations, the queue, the pool's counters |
| `Sums`, `SumsTheorems` | finite sums used by the ledgers, and what is proved of them | none |
| `ConnectionLedgerLemmas`, `ConnectionLedgerSteps`, `ConnectionLedgerProofs` | lemmas on the operators; one lemma per action; the theorems | |
| `CapacityLedgerProofs` | the theorems about the capacity ledger | |
| `ReceiveWindowProofs`, `DeliveryProofs` | the theorems about the receive window, alone and composed with the relay | |
| `MC*` | constants and symmetry for TLC | |

Definitions whose comment begins with *Variant* are alternatives to the
definition that follows them, each with one plausible mistake in it. Nothing uses
them; `PROJECT.json` (`mutants`) pairs each with the property that detects it.

### ConnectionLedger

One action per public operation of the ledger: `DeclareCapacity`, `Open`,
`Grant`, `Receive`, `Submit`, `Retire`, `Discarded`, `Consume`, `Settle`, `Tick`,
`ConfirmClosed`, and the checkpoint's `Flush` and `Restore`. Every operation is
given a clock reading that may stand still or go back, and expires the connection
first, as `run` does. Frames are their encoded sizes; counts have the code's two
dimensions, frames and bytes. A connection is the destination of one direction of
a session, so a permit is named by its session. The host's side is what the
ledger's contract lets it do: present any key it was ever given, submit the
payloads it holds, and confirm a close.

### ShareAuthority

The actor serializes its inputs, and `ShareRelay::handle` runs due timers before
any of them. So a handler is one step with the guard `~Due`, and each expiry is a
step of its own; time may still pass while something is due. The host executes
one storage work at a time: it may land with its receipt, land without one, or
fail (`ExecuteLands`, `ExecuteFails`, `CompleteUncertain`), and is retried. The
actor may be lost at any point, with any subset of its connections surviving,
and restored from the row (`Restart`); surviving handshakes are replayed.

Abstractions. A connection makes one admission and names its OperationId. Work
identities are left out because one work is outstanding and each is completed
once; the native host drains a generation before it restores the next and a
Durable Object is single threaded. A STOP's handshake is one event. The frames of
an owner's sessions are one bit per owner (`queued`). Once the sessions are
retired the host drops them at any later time (`Discarded`), and the barrier of a
STOP waits for those of every owner, earlier ones included. A restart keeps them:
a frame that no checkpoint holds is dropped by the same step. A connection that is closing
and one that is gone are both `Closed`. `registered` starts afresh with each
actor, so `OneOwner` speaks of one incarnation.

`ShareRegister` is the promise behind this: a record that moves through a fixed
life cycle, a route that is served on its strength, STOPPED answers that only
name the final record. Its actions know nothing of queues, works or receipts. The
mapping takes the row for the record, the owner of a published actor for the
served route and what a pending resume observed for what its sender has seen;
every step of the actor is one step of the register or none.

### ReceiveLedger, ReceiveWindow and Delivery

The methods of the ledger run under the window's mutex, so they are operators on
its value, with their error checks as `Can...`. A step of the window is one
critical section, or what a goroutine does between two. There are three kinds of
goroutine: the socket's reader, one worker per flow that hands frames to the
application, and the ordered writer that sends one feedback per turn. What a
goroutine sleeps on is kept (`wake` of a flow, `writer`), so that a wake-up sent
too early is one that is lost.

`Delivery` joins the window to an instance of `ConnectionLedger` by two queues.
The relay's clock stands still there: its deadlines are the subject of the
`ledger` run, and a relay that gives up on a flow closes the connection, which to
the endpoint is a failing link. The relay's steps are the ledger calls of
`share/delivery.rs` and `share/session_workflow.rs` with the message each sends.
`LinkFails`, `OwnerCloses`, `OwnerReturns`, `OwnerReleases` and `Stop...` are
`link.stop` with its two callers, in the order of its parts.

Abstractions. A wire session is never reused. A frame is its receipt. A reader
that cannot take a message ends (the code then fails the link); `NeitherRefuses`
says that no such message is sent while both ends are up.

### RevisionCapacity and RevisionStore

Several stores share one coordinator of file handles. A step is one critical
section of a store's mutex or of the coordinator's; a call is the list of
sections it still has to run (`calls`), so that every interleaving of two calls
is explored. Calls open, coalesce with an opening in progress, lease, renew,
read, retire, reclaim an idle handle of another store, invalidate, and close.
`open` is what the operating system sees. Closing a file, settling its charge with
the coordinator and marking its revision are three sections; so are completing an
open, committing its grant and publishing its lease, and a claim's last look at its
requester and its callback. A close that panics leaves the file in doubt, and its
unit is quarantined, also for a file that an open discards. A source may prove the
identity of a file by its name and metadata or only by an open handle
(`HandleBound`).

Abstractions. The contents of blocks, session registration and the tombstones of
closed leases are left out. The budgets of active leases, session handles and
invalidation metadata appear as a refusal that may happen at any admission. The
clock moves between steps.

### CapacityLedger

Every method of `Ledger` and `Hold` that changes state. A Hold may be copied, so
a program may use any copy at any later time; `copies` is that set. The chain of
parents is the set `walk`. `MaxGeneration` stands for the width of the
generation counter, where the code refuses instead of wrapping.

### BufferBudget and BlockBroker

A step is one critical section of the broker's lock, or what a goroutine does
between two. The goroutines are readers (`ReadRange`; `GetBlock` is a reader of
one block), their tasks (one `getBlock` per block of the window), and loads
(`runLoad`). The budget's methods are functions on its value and the broker's
steps compose them in the code's order. `LoadResumes`, `Supplement`, `FetchWins`,
`AttemptFails`, `RoundFails` and `FetchEnds` are what a load can tell apart of
`core/transfer/lanes`: a load that waits for capacity may look again at any time
the lane set does, a round has one attempt and at most one rescue per fetch, and
which lane is taken is left open. `OtherReserve` and `OtherRelease` are other receivers of the process.

Abstractions. Blocks are of one revision and one length class each. `callOrder`,
a preference among loads, is left open, so every order is checked. A load nobody
refers to any more is forgotten (`Collected`). `Stop` ends the readers' contexts
at once: nothing can observe the delay of `context.AfterFunc`. `Close` follows the
lane set's `Close`, which joins the attempts (`receiversession/receiver.go`).
Closing the process budget is left out.

### TurnCapacity

Every method runs under the pool's lock and is a step that ends with the
`drainLocked` it calls. A call that gives up after it was answered closes its
lease, which is `Close` of an unclaimed reservation; one that gives up while
queued is `Withdraw`. A renewal shares its predecessor's connection, and the
larger of the two socket counts, until one of them closes. The release function
of a route may be called after its reservation closed. What nothing reads any
more once a call has ended (its request and its links) is forgotten.

## 3. Runs

Sizes are distinct states.

| run | cfg | checks | size |
|---|---|---|---|
| `ledger` | `ConnectionLedger.cfg` | accounting exact, pools and declared capacity respected, alarm exact, what a checkpoint writes is accepted back, a lone flow can always be refilled, retirement final, dirty flag complete; a retired flow settles or its connection closes | 67,060 |
| `share_authority` | `ShareAuthority.cfg` | the actor always knows the row it writes over; one owner; STOP fences former owners; the task queue ends in the actor's state; the whole implements `ShareRegister` | 1,887,884 |
| `share_authority_live` | `ShareAuthorityLive.cfg` | an accepted STOP, and a durable one whichever actor finishes it, completes | 538,656 |
| `share_authority_lapse` | `ShareAuthorityLapse.cfg` | *violated*, see findings | |
| `delivery` | `Delivery.cfg` | neither end refuses what the other sends; frames and capacity are conserved between the ends and exact at the endpoint; every settlement has someone who carries it on; a Close that joins leaves no worker waiting | 855,584 |
| `revision_store` | `RevisionStore.cfg` | a lease and a read in progress keep their file open; files open and about to be opened stay within the limit of the process; the coordinator's counters are what is owed | 1,804,851 |
| `capacity_ledger` | `CapacityLedger.cfg` | charges exact, ceilings kept, live capacity releasable, stale copies stay void, a closed ledger only drains | 46,041 |
| `block_broker` | `BlockBroker.cfg` | cache index, admission in range order, no block of a range sleeps through a wakeup (loads are not covered, see findings), a range that waits has someone who will answer, every charged byte has one owner | 1,191,454 |
| `block_broker_stop` | `BlockBrokerStop.cfg` | nothing stays charged after Close | 1,876,553 |
| `block_broker_live` | `BlockBrokerLive.cfg` | every read ends unless it waits for a load that overslept (see findings); a stop lets Close return | 202,519 |
| `block_broker_contention` | `BlockBrokerContention.cfg` | *violated*, see findings | |
| `turn_capacity` | `TurnCapacity.cfg` | counters exact and within their limits, routes covered, one handoff at a time, no grant overlooked | 288,516 |

`TypeOK` of `ShareAuthority`, `BlockBroker` and `TurnCapacity` is a conjunct of
`StoredIsCurrent`, `ChargedToOwners` and `Accounted`; that of the two ledgers with
proofs is a theorem.

### Bounds

- *ConnectionLedger*: two sessions and two slots let one flow's credit compete
  with another's; envelopes of one and two bytes separate the two dimensions;
  `MaxCount` 4 and `MaxTime` 2 reach counter exhaustion and saturated deadlines.
- *ShareAuthority*: three connections give an owner, its resume and a rival; two
  registrations and two STOPs give conflicts; the actor is lost once, at any point.
  The liveness run has two connections and two losses, so that a restored actor is
  lost again in the middle of what it continues. The first run with two losses was
  checked once and holds (3,273,502 states).
- *Delivery*: two sessions that follow each other in the one slot of the relay,
  capacity for one frame, and two frames per session, so that every frame waits
  for the credit of another; a notice may be repeated while the first is on its
  way; a failure and the owner's Close come at any point. With capacity for one
  frame at most one total is on its way, and the clause of `Conserved` about the
  last of several says little. With capacity for two (`Capacity <- MCTwo`), where
  two totals follow each other, all five invariants were checked once and hold
  (2,251,202 states). The theorem covers every other size for `UsageExact`.
- *RevisionStore*: two stores with a file each, one proved only by its handle,
  one file handle in all, and two calls, so that each open needs the other's
  handle; two lease identities; durations of one or two units, so that each
  deadline can pass between any two sections. Checked once on larger instances,
  where it holds: three lease identities with store closes and one unit of time
  (2,448,966 states), and without faults and two units (3,286,619).
- *CapacityLedger*: a chain or fork of three ledgers, two holds, and one
  generation step before the counter ends. The proofs cover every other size.
- *BlockBroker*: ranges of three blocks and one that overlap, a window of two and
  four blocks of memory, so that every reader must wait for another. Failing
  attempts, failing sinks and other receivers are in one run; cancellation,
  invalidation and stop in the other, with ranges within the window, three blocks
  of memory and at most two loads at once, because together they exceed five
  minutes. These larger instances were checked once and hold: the second run
  with four blocks of memory (2.5 million states), fetch failures with
  invalidation and another receiver, cancel with stop and supplements, cancel with
  sink failures and invalidation, stop with invalidation and supplements (1.2 to
  2.4 million each), and three loads at once with cancel, stop and invalidation (4.9
  million). In the liveness run the caller of one read gives up or the broker
  stops, not both (`LiveNext`), on four blocks of memory. Checked once, where both
  properties hold: the same with both (404,405 states), every caller may give up
  with five blocks (562,336), and one invalidation with four and five blocks
  (223,946 and 322,150). Where every caller may give up on four blocks, memory may
  run out for good, see findings.
- *TurnCapacity*: five calls are two paths, both their renewals and one more, at
  limits that a first path and a growing renewal exceed. `MaximumQueuedRequests`
  2 lets the queue be full.

`CHECK_DEADLOCK FALSE` stands where the system really ends: all readers done, all
calls closed, every connection used and the clock at its bound.

### Fairness

- *ConnectionLedger*: the host keeps the alarm the ledger asks for
  (`nextExpiration`), hence weak fairness of an expiring `Tick`.
- *ShareAuthority*: timers fire and completions are handled (weak fairness);
  retried storage work succeeds in the end if it is tried for ever (strong
  fairness of the landing that reports its completion).
- *BlockBroker*: goroutines that can run do, and a sink returns (weak fairness of
  tasks, readers, settlements and the close together); each load is served by its
  lane set (weak fairness of each load). A load that waits on a channel still open
  is owed nothing: the code looks again only when it is woken. Other
  receivers are not in the liveness run: the budget keeps no queue between
  receivers, and nothing in the code promises one of them a share of what the
  others release.
- *Delivery* and *RevisionStore* are checked for safety only. Where something has
  to happen, an invariant says who will do it (`SettlementCarried`,
  `ClosedWorkersEnd`).

## 4. Findings

**A lapsed share may leave its grace record** (`share_authority_lapse`). A storage
task equal to one still queued is dropped (`share/storage.rs:49`) and every lapse
queues the same deletion. When a route lapses behind a stalled write, is
republished, lost, and lapses again before the first deletion is confirmed, the
second deletion is dropped: once storage drains, the second grace record stays
while the share is vacant, and the next REGISTER conflicts with it.
`lifecycle/effect.rs:228` says the lapse deletes its record so as not to block a
new publication.

**Overlapping range reads may block each other for good**
(`block_broker_contention`). A load reserves memory for the delivery to the
consumer it was admitted for, but `deliverCall` (`broker.go:298`) gives it to
whichever consumer comes first. With an account of five blocks and a window of
three, two ranges over the same blocks and a reader of the last one reach a state
in which all memory is held by blocks that wait for each other. The run explores
the schedules of `Schedule` in `MCBlockBroker`, a sub-behaviour of the
specification. The plans say contention is temporary. `RangeNeverStarves` is
what does hold: a range that waits for a result has a goroutine that will send
one. Two readers suffice with an account of four blocks if a caller may give up.

The following were met while modelling and confirmed with TLC, but have no run of
their own. Each says how to see it.

**A load may sleep although a reader is ready for it** (drop the alternative
`Overslept` from `ReadsEnd`: `block_broker_live` is then violated by a trace of 15
steps). A load created by a reader that is not yet ready for its block waits
for budget; a ready reader joins the load in `getBlock` (`broker.go:210`) without
waking it; the creator is canceled. Nothing then signals the load, and the ready
reader waits. `docs/.archive/2026.10.23/webrtc-single-connection.md:28`: "A ready
consumer may advance shared work without waiting for a stalled subscriber".
`ReadsEnd` therefore excepts exactly the readers of such a load.

**An owner's Close during a failure's stop does not join the workers** (in
`Delivery`: `LinkFails`, `OwnerReturns`, `StopRetires`, `StopCloses`, `StopEnds`).
The stop under way closes the window without discarding; the owner's Close finds
the link retiring and returns (`link.go:376-378`). A worker that is handing a
frame to an application which takes nothing more then stays, unless the owner
closes again once the link is closed.
`link.go:345-346`: "A later owner close must still join their workers and release
the remaining storage." `ClosedWorkersEnd` therefore speaks of a Close that joins.

**A file handle's charge may outlive its file** (`INVARIANT ChargeOwned` in
`RevisionStore.cfg`, violated by a trace of 24 states). `core/content/lease.go:288-297`
rechecks a revision after its idle handle was published. If another open has
claimed the candidate and the recovery deadline has passed, the recheck closes the
file directly, without joining the claim; the release of its charge is refused
because it is claimed, and the claim then ends without it: its callback declines,
or its requester leaves and abandons it. Either leaves the charge active. The unit is never returned, and the store's Close reports live
ownership. `revisioncapacity/reclaim.go:213-214`: "ReclaimDeclined asserts that the target retained
ownership because the store generation no longer matched the claim."

**A recovery grace may end early** (`PROPERTY GraceKept` in `RevisionStore.cfg`,
violated by a trace of 20 states). A resident admission withdraws an idle handle before the
release that published it has reached the coordinator; the admission is refused
and the revision becomes idle again under a new generation. The late publication
of the old token makes the new one fail, and the fallback (`lease.go:283-287`)
closes the revision before its deadline. `revision_open.go:491-492`: "Join that
ownership before resident admission can fail and republish the same physical
handle under a new lifecycle generation."

## 5. Proofs

| theorem | module | rests on |
|---|---|---|
| `LedgerTypeCorrect`, `LedgerPrefixOrder`, `LedgerUsageIsSum`, `LedgerPoolsRespected`, `LedgerNextExpirationExact`, `LedgerQueueCharged` | `ConnectionLedgerProofs` | `Inv` |
| `LedgerRetirementIsFinal`, `LedgerDirtyFlagComplete` | `ConnectionLedgerProofs` | `Inv`, action by action |
| `CapacityTypeCorrect`, `CapacityChargedExactly`, `CapacityWithinLimits`, `CapacityLiveIsOwned` | `CapacityLedgerProofs` | `IInv` |
| `CapacityVoidCopiesStayVoid`, `CapacityClosedOnlyDrains` | `CapacityLedgerProofs` | `IInv`, action by action |
| `WindowUsageExact` | `ReceiveWindowProofs` | `Inv` |
| `DeliveryUsageExact` | `DeliveryProofs` | `DeliveryInv`, the steps of `ReceiveWindowProofs` |

**ConnectionLedger.** `Inv` is the conjunction of `TypeOK`, `HandlesExact`,
`PrefixOrder`, `QueueCharged`, `UsageIsSum`, `PoolsRespected` and
`NextExpirationExact`. No conjunct is inductive alone: that a grant stays inside
its pool needs the cached usage to be the sum over the flows; that a subtraction
stays above zero needs the prefixes ordered and the sum; that a submission
charges the right bytes needs the host's receipts to be the charged ordinals; and
that a key presented late does no harm needs `HandlesExact`. `SumsTheorems` gives
the sums: changing one term changes the sum by the difference, and a sum of
naturals covers each term. The assumptions are the named ones of
`ConnectionLedger`: limits that the code's constructor validates.

**CapacityLedger.** `IInv` adds to the four invariants `WalksCreated` (a walk
names created ledgers, is closed upwards and contains its own ledger) and
`CopiesTrail` (no copy has a generation ahead of its hold). With them a release
refunds exactly the ledgers it charged, and a stale copy stays stale.

**ReceiveWindow and Delivery.** `Inv` of `ReceiveWindowProofs` says that the
ledger's counters are the sums over its flows (`Exact`), that the progress of
each flow is ordered (reported within consumed within completed, and everything
completed consumed until the first drop), and that receipts in the window never
run backwards. The order is needed because a report and a settlement subtract: what
`TakeSettlement` refunds is what `TakeConsumed` has not. One lemma per method of
the ledger reduces it to the counters of one flow (`FlowUpdate`), one per action
lifts it to the window. `WindowSpec` is the window against an arbitrary relay, so
the theorem assumes nothing of what is sent. `DeliveryProofs` adds that messages
name sessions, shows that every step of the composition is a step of the window
or leaves it alone, and so carries `UsageExact` over to `Delivery`.

**Only model-checked.** All liveness and everything under fairness, which the
prover does not treat; `CheckpointRestorable` and `LoneFlowRefillable`; the
agreement of the two ends in `Delivery`; all of `ShareAuthority` with its
refinement, `RevisionStore`, `BlockBroker` and `TurnCapacity`. `BufferBudget` and `TurnCapacity`
fold over queues, and what a fold computes for every queue needs induction over
data, out of the prover's reach.

## 6. Not modelled

`PROJECT.json` gives the reason part by part. The larger ones:

- *Relay sessions, generations and batch checkpoints* (`relay-core` sessions,
  `share/generations`, `share/checkpoint*.rs`). A session has two directions, each
  with a `ConnectionLedger`; the models have one, and no session registry. The
  failure of the second ledger when a session opens, and a batch of checkpoint
  records that fails half way, are therefore not covered.
- *The native registry of actors* (`relay-native`). `ShareAuthority` takes the loss
  of an actor and its restoration as one step.
- *The choices of the lane set* (`core/transfer/lanes`): which lane a load takes,
  its estimates and the lanes' life cycle. `BlockBroker` is checked against every
  choice.
- *The protocol session* (`core/session`) and what rests on it: flows, the sender
  and receiver sessions, engine tasks.
- *The send side of `transport/relayv2`*, its heartbeat and dialing; WebRTC,
  direct paths and TURN credentials, which rest on external libraries.
- *Catalogs, codecs, cryptography and file output*: hashing and byte layouts are
  out of TLC's reach, and the rest is operating-system I/O.
- *Applications*: command line, desktop, browser.

## 7. Running

In this directory: `tlc -config X.cfg MCM` for a run (see `runs` in
`PROJECT.json` for the module of each cfg), `tlapm M.tla` for the proofs of a
module.
