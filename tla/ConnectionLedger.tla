-------------------------- MODULE ConnectionLedger --------------------------
(***************************************************************************)
(* Delivery accounting of one destination connection of the relay          *)
(* (relay-core/src/flow).  A connection is the destination of at most one  *)
(* direction of a session, so a ForwardPermit is identified with its       *)
(* session.  Frames are abstracted to their encoded size.  Every operation *)
(* of the ledger takes the host's wall clock as an input, which may stand  *)
(* still or go backwards, and first expires the connection (`run`).        *)
(*                                                                         *)
(* The host side of the contract is modelled by three variables: `issued`  *)
(* (the FlowKeys the ledger handed out, which the host may present at any  *)
(* later time), `receipts` (the ReceivedFrames the host still owns with    *)
(* their payload) and `retired` (the sessions whose authority is gone).    *)
(***************************************************************************)
EXTENDS Integers, FiniteSets, Sums

CONSTANTS
    Sessions,           \* sessions with a direction towards this connection
    MaxFlows,           \* metadata bound: the number of slots
    MinEnvelope,        \* OpaqueHeader::MIN_ENCODED_BYTES
    MaxEnvelope,        \* OpaqueHeader::MAX_ENCODED_BYTES
    Total,              \* Limits.total
    StartupReserve,     \* Limits.startup_reserve
    StartupGrant,       \* Limits.startup_grant
    SettlementTimeout,  \* Limits.settlement_timeout
    Capacities,         \* receive capacities a peer may declare
    Credits,            \* ordinary grants the host may ask for
    MaxCount,           \* largest cumulative counter (u64::MAX in the code)
    MaxTime,            \* largest instant (u64::MAX milliseconds in the code)
    None

VARIABLES
    receiveCapacity,    \* Option<ReceiveCapacity>
    entries,            \* DeliverySlots: slot -> Option<Delivery>
    usage,              \* cached occupancy of the three stages
    startupUsed,        \* cached occupancy of the startup pool
    state,              \* ConnectionState without its request
    closeRequest,       \* the CloseRequest of ConnectionState::Closing
    nextExpiration,     \* cached earliest cleanup deadline
    checkpointChanged,  \* dirty flag drained by the aggregate
    issued,             \* host: the slot of each session's FlowKey
    receipts,           \* host: size of each ReceivedFrame it still owns, else 0
    retired             \* sessions that lost their forwarding authority

ledger == <<receiveCapacity, entries, usage, startupUsed, state, closeRequest,
            nextExpiration, checkpointChanged>>
vars == <<ledger, issued, receipts, retired>>

-----------------------------------------------------------------------------
(* Counts: two independent dimensions, frames and encoded bytes.           *)

Dim == {"frames", "encoded_bytes"}

Counts == [Dim -> 0 .. MaxCount]

Slots == 1 .. MaxFlows

Ordinals == 1 .. MaxCount

Times == 0 .. MaxTime

Zero == [d \in Dim |-> 0]

Covers(a, b) == \A d \in Dim : a[d] >= b[d]

Add(a, b) == [d \in Dim |-> a[d] + b[d]]

Sub(a, b) == [d \in Dim |-> a[d] - b[d]]

Least(a, b) == [d \in Dim |-> IF a[d] < b[d] THEN a[d] ELSE b[d]]

SaturatingSub(a, b) == [d \in Dim |-> IF a[d] < b[d] THEN 0 ELSE a[d] - b[d]]

Frame(bytes) == [d \in Dim |-> IF d = "frames" THEN 1 ELSE bytes]

\* Zero frames describe exactly zero bytes; every envelope is at least
\* MinEnvelope and at most MaxEnvelope bytes.
IsEnvelopeBatch(c) ==
    /\ c["frames"] <= c["encoded_bytes"] \div MinEnvelope
    /\ (c["encoded_bytes"] + MaxEnvelope - 1) \div MaxEnvelope <= c["frames"]

SaturatingAdd(now, timeout) ==
    IF now + timeout > MaxTime THEN MaxTime ELSE now + timeout

ASSUME LimitsValid ==
    /\ MaxCount \in Nat /\ MaxTime \in Nat \ {0} /\ MaxFlows \in Nat \ {0}
    /\ MinEnvelope \in Nat \ {0} /\ MaxEnvelope \in Nat
    /\ MinEnvelope <= MaxEnvelope
    /\ Total \in Counts /\ StartupReserve \in Counts /\ StartupGrant \in Counts
    /\ StartupGrant["frames"] > 0 /\ StartupGrant["encoded_bytes"] >= MaxEnvelope
    /\ Covers(Total, StartupReserve) /\ Covers(StartupReserve, StartupGrant)
    /\ SettlementTimeout \in Nat \ {0}

ASSUME InputsValid ==
    /\ Capacities \subseteq {c \in Counts : \A d \in Dim : c[d] > 0}
    /\ Credits \subseteq Counts \ {Zero}
    /\ None \notin Counts /\ None \notin Slots /\ None \notin Times

-----------------------------------------------------------------------------
(* Delivery: the cumulative prefixes of one direction.                     *)

Keys == [slot : Slots, permit : Sessions]

Requests == [flow : Keys, deadline : Times]

Deliveries ==
    [key : Keys, startup : Counts, granted : Counts, received : Counts,
     submitted : Counts, consumed : Counts,
     phase : {"open", "discarding", "settling"}, deadline : Times \cup {None}]

ASSUME NoneIsNoRecord == None \notin Deliveries /\ None \notin Requests

NewDelivery(key, credit, startup) ==
    [key |-> key, startup |-> startup, granted |-> credit, received |-> Zero,
     submitted |-> Zero, consumed |-> Zero, phase |-> "open", deadline |-> None]

NoUsage == [granted |-> Zero, received |-> Zero, submitted |-> Zero]

DeliveryUsage(e) ==
    [granted   |-> IF e.phase = "open" THEN Sub(e.granted, e.received) ELSE Zero,
     received  |-> IF e.phase = "settling" THEN Zero ELSE Sub(e.received, e.submitted),
     submitted |-> Sub(e.submitted, e.consumed)]

\* The prefix still retained shrinks as the flow is retired and cleaned up.
Retained(e) ==
    IF e.phase = "open" THEN e.granted
    ELSE IF e.phase = "discarding" THEN e.received ELSE e.submitted

DeliveryStartupUsed(e) ==
    Sub(Least(Retained(e), e.startup), Least(e.consumed, e.startup))

UsageOf(e) == IF e = None THEN NoUsage ELSE DeliveryUsage(e)

StartupUsedOf(e) == IF e = None THEN Zero ELSE DeliveryStartupUsed(e)

DeadlineOf(e) == IF e = None THEN None ELSE e.deadline

TotalOf(u) == Add(Add(u.granted, u.received), u.submitted)

\* Variant: the refund of the submitted stage is forgotten.
ReplaceUsageUnrefunded(u, before, after) ==
    [granted   |-> Add(Sub(u.granted, before.granted), after.granted),
     received  |-> Add(Sub(u.received, before.received), after.received),
     submitted |-> Add(u.submitted, SaturatingSub(after.submitted, before.submitted))]

ReplaceUsage(u, before, after) ==
    [granted   |-> Add(Sub(u.granted, before.granted), after.granted),
     received  |-> Add(Sub(u.received, before.received), after.received),
     submitted |-> Add(Sub(u.submitted, before.submitted), after.submitted)]

-----------------------------------------------------------------------------
(* Capacity of the connection.                                             *)

RegularUsed == Sub(TotalOf(usage), startupUsed)

EffectiveTotal ==
    IF receiveCapacity = None THEN Total ELSE Least(Total, receiveCapacity)

\* Variant: the reserve may take the whole capacity of a small peer.
StartupPoolGreedy == Least(StartupReserve, EffectiveTotal)

\* Even a small peer keeps room for one startup grant of ordinary credit.
StartupPool == Least(StartupReserve, SaturatingSub(EffectiveTotal, StartupGrant))

RegularPool == Sub(EffectiveTotal, StartupPool)

ReceiveAvailable == Sub(Least(receiveCapacity, Total), TotalOf(usage))

RegularFree == Sub(RegularPool, RegularUsed)

\* Advisory view a host uses to refill a flow up to an outstanding window.
WindowCredit(e, target) ==
    Least(Least(SaturatingSub(target, TotalOf(DeliveryUsage(e))), ReceiveAvailable),
          RegularFree)

-----------------------------------------------------------------------------
(* Slots and the cached aggregates.                                        *)

Occupied(es) == {s \in Slots : es[s] # None}

Deadlines(es) == [i \in Slots |-> DeadlineOf(es[i])]

\* The earliest deadline; the lowest slot among equals (min_by_key).
FirstDue(deadlines) ==
    CHOOSE i \in Slots :
        /\ deadlines[i] # None
        /\ \A j \in Slots : deadlines[j] # None =>
               \/ deadlines[i] < deadlines[j]
               \/ deadlines[i] = deadlines[j] /\ i <= j

EarliestExpiration(es) ==
    LET first == FirstDue(Deadlines(es))
    IN  IF \A i \in Slots : DeadlineOf(es[i]) = None THEN None
        ELSE [flow |-> es[first].key, deadline |-> es[first].deadline]

\* Variant: a flow is overdue only after its deadline.
ExpiringLate(now) ==
    /\ state = "open"
    /\ nextExpiration # None
    /\ now > nextExpiration.deadline

Expiring(now) ==
    /\ state = "open"
    /\ nextExpiration # None
    /\ now >= nextExpiration.deadline

\* `run` expires the connection before it applies the operation.
StateAt(now) == IF Expiring(now) THEN "closing" ELSE state

Expire(now) ==
    /\ state' = StateAt(now)
    /\ closeRequest' = IF Expiring(now) THEN nextExpiration ELSE closeRequest

\* Variant: the alarm is not recomputed when an overdue candidate leaves.
ReplaceStaleAlarm(slot, next, now) ==
    /\ entries' = [entries EXCEPT ![slot] = next]
    /\ usage' = ReplaceUsage(usage, UsageOf(entries[slot]), UsageOf(next))
    /\ startupUsed' = Add(Sub(startupUsed, StartupUsedOf(entries[slot])),
                          StartupUsedOf(next))
    /\ nextExpiration' = IF DeadlineOf(next) # None
                         THEN EarliestExpiration(entries')
                         ELSE nextExpiration
    /\ checkpointChanged' = (checkpointChanged \/ Expiring(now) \/ entries[slot] # next)

Replace(slot, next, now) ==
    /\ entries' = [entries EXCEPT ![slot] = next]
    /\ usage' = ReplaceUsage(usage, UsageOf(entries[slot]), UsageOf(next))
    /\ startupUsed' = Add(Sub(startupUsed, StartupUsedOf(entries[slot])),
                          StartupUsedOf(next))
    /\ nextExpiration' = IF DeadlineOf(entries[slot]) # DeadlineOf(next)
                         THEN EarliestExpiration(entries')
                         ELSE nextExpiration
    /\ checkpointChanged' = (checkpointChanged \/ Expiring(now) \/ entries[slot] # next)

\* Variant: expiring the connection does not mark the checkpoint.
KeepClean(now) ==
    /\ checkpointChanged' = checkpointChanged
    /\ UNCHANGED <<entries, usage, startupUsed, nextExpiration>>

\* An operation that only expires: Ok without effect, or refused.
Keep(now) ==
    /\ checkpointChanged' = (checkpointChanged \/ Expiring(now))
    /\ UNCHANGED <<entries, usage, startupUsed, nextExpiration>>

\* FlowKey lookup: the slot must still hold exactly this key.
Holds(s) ==
    /\ issued[s] # None
    /\ entries[issued[s]] # None
    /\ entries[issued[s]].key = [slot |-> issued[s], permit |-> s]

EntryOf(s) == entries[issued[s]]

\* live_delivery: open connection, live route, exact open flow.
Live(s, now) ==
    /\ StateAt(now) = "open"
    /\ s \notin retired
    /\ Holds(s)
    /\ EntryOf(s).phase = "open"

-----------------------------------------------------------------------------
NoReceipts == [o \in Ordinals |-> 0]

Init ==
    /\ receiveCapacity = None
    /\ entries = [s \in Slots |-> None]
    /\ usage = NoUsage
    /\ startupUsed = Zero
    /\ state = "open"
    /\ closeRequest = None
    /\ nextExpiration = None
    /\ checkpointChanged = FALSE
    /\ issued = [s \in Sessions |-> None]
    /\ receipts = [s \in Sessions |-> NoReceipts]
    /\ retired = {}

\* The first declaration binds; a replay is harmless, a change is refused.
DeclareCapacity(capacity, now) ==
    /\ Expire(now)
    /\ StateAt(now) = "open"
    /\ receiveCapacity = None
    /\ receiveCapacity' = capacity
    /\ checkpointChanged' = TRUE
    /\ UNCHANGED <<entries, usage, startupUsed, nextExpiration, issued, receipts, retired>>

Vacant == {i \in Slots : entries[i] = None}

FirstVacant == CHOOSE i \in Vacant : \A j \in Vacant : i <= j

Open(s, now) ==
    /\ Expire(now)
    /\ StateAt(now) = "open"
    /\ s \notin retired
    /\ \A slot \in Occupied(entries) : entries[slot].key.permit # s
    /\ receiveCapacity # None
    /\ Covers(ReceiveAvailable, StartupGrant)
    /\ Vacant # {}
    /\ LET startup == Least(StartupGrant, Sub(StartupPool, startupUsed))
           slot == FirstVacant
       IN  /\ Covers(RegularFree, Sub(StartupGrant, startup))
           /\ Replace(slot,
                      NewDelivery([slot |-> slot, permit |-> s], StartupGrant, startup),
                      now)
           /\ issued' = [issued EXCEPT ![s] = slot]
    /\ UNCHANGED <<receiveCapacity, receipts, retired>>

\* Variant: only the peer's capacity bounds an ordinary grant.
GrantFromReserve(s, credit, now) ==
    /\ Expire(now)
    /\ Live(s, now)
    /\ credit # Zero
    /\ \A d \in Dim : EntryOf(s).granted[d] + credit[d] <= MaxCount
    /\ Covers(ReceiveAvailable, credit)
    /\ Replace(issued[s],
               [EntryOf(s) EXCEPT !.granted = Add(EntryOf(s).granted, credit)], now)
    /\ UNCHANGED <<receiveCapacity, issued, receipts, retired>>

Grant(s, credit, now) ==
    /\ Expire(now)
    /\ Live(s, now)
    /\ credit # Zero
    /\ \A d \in Dim : EntryOf(s).granted[d] + credit[d] <= MaxCount
    /\ Covers(ReceiveAvailable, credit)
    /\ Covers(RegularFree, credit)
    /\ Replace(issued[s],
               [EntryOf(s) EXCEPT !.granted = Add(EntryOf(s).granted, credit)], now)
    /\ UNCHANGED <<receiveCapacity, issued, receipts, retired>>

Receive(s, bytes, now) ==
    /\ Expire(now)
    /\ Live(s, now)
    /\ Covers(Sub(EntryOf(s).granted, EntryOf(s).received), Frame(bytes))
    /\ LET received == Add(EntryOf(s).received, Frame(bytes))
       IN  /\ Replace(issued[s], [EntryOf(s) EXCEPT !.received = received], now)
           /\ receipts' = [receipts EXCEPT ![s][received["frames"]] = bytes]
    /\ UNCHANGED <<receiveCapacity, issued, retired>>

\* Variant: receipts are submitted in any order.
SubmitUnordered(s, ordinal, now) ==
    /\ Expire(now)
    /\ receipts[s][ordinal] # 0
    /\ Live(s, now)
    /\ Replace(issued[s],
               [EntryOf(s) EXCEPT
                   !.submitted = Add(EntryOf(s).submitted, Frame(receipts[s][ordinal]))],
               now)
    /\ receipts' = [receipts EXCEPT ![s][ordinal] = 0]
    /\ UNCHANGED <<receiveCapacity, issued, retired>>

\* The receipt is consumed by the synchronous hand-off to the destination host.
Submit(s, ordinal, now) ==
    /\ Expire(now)
    /\ receipts[s][ordinal] # 0
    /\ Live(s, now)
    /\ EntryOf(s).submitted["frames"] + 1 = ordinal
    /\ Replace(issued[s],
               [EntryOf(s) EXCEPT
                   !.submitted = Add(EntryOf(s).submitted, Frame(receipts[s][ordinal]))],
               now)
    /\ receipts' = [receipts EXCEPT ![s][ordinal] = 0]
    /\ UNCHANGED <<receiveCapacity, issued, retired>>

\* Variant: a repeated retirement restarts the settlement timeout.
RetireAgain(s, now) ==
    /\ Expire(now)
    /\ retired' = retired \cup {s}
    /\ IF Holds(s)
       THEN Replace(issued[s],
                    [EntryOf(s) EXCEPT !.phase = "discarding",
                                       !.deadline = SaturatingAdd(now, SettlementTimeout)],
                    now)
       ELSE Keep(now)
    /\ UNCHANGED <<receiveCapacity, issued, receipts>>

\* Session retirement; repeating it keeps the original deadline.
Retire(s, now) ==
    /\ Expire(now)
    /\ retired' = retired \cup {s}
    /\ IF Holds(s) /\ EntryOf(s).phase = "open"
       THEN Replace(issued[s],
                    [EntryOf(s) EXCEPT !.phase = "discarding",
                                       !.deadline = SaturatingAdd(now, SettlementTimeout)],
                    now)
       ELSE Keep(now)
    /\ UNCHANGED <<receiveCapacity, issued, receipts>>

\* The host dropped every unsent payload of the flow and says so, perhaps twice.
Discarded(s, now) ==
    /\ Expire(now)
    /\ issued[s] # None
    /\ Holds(s) => EntryOf(s).phase # "open"
    /\ receipts' = [receipts EXCEPT ![s] = NoReceipts]
    /\ IF ~Holds(s) THEN Keep(now)
       ELSE IF EntryOf(s).submitted = EntryOf(s).consumed
            THEN Replace(issued[s], None, now)
            ELSE Replace(issued[s], [EntryOf(s) EXCEPT !.phase = "settling"], now)
    /\ UNCHANGED <<receiveCapacity, issued, retired>>

\* Variant: consumed bytes need not belong to consumed frames.
ConsumeUnsized(s, total, now) ==
    /\ Expire(now)
    /\ Holds(s)
    /\ ~Covers(EntryOf(s).consumed, total)
    /\ Covers(total, EntryOf(s).consumed)
    /\ Covers(EntryOf(s).submitted, total)
    /\ IF EntryOf(s).phase = "settling" /\ total = EntryOf(s).submitted
       THEN Replace(issued[s], None, now)
       ELSE Replace(issued[s], [EntryOf(s) EXCEPT !.consumed = total], now)
    /\ UNCHANGED <<receiveCapacity, issued, receipts, retired>>

\* Cumulative consumption reported by the destination.
Consume(s, total, now) ==
    /\ Expire(now)
    /\ Holds(s)
    /\ ~Covers(EntryOf(s).consumed, total)
    /\ Covers(total, EntryOf(s).consumed)
    /\ Covers(EntryOf(s).submitted, total)
    /\ IsEnvelopeBatch(Sub(total, EntryOf(s).consumed))
    /\ IsEnvelopeBatch(Sub(EntryOf(s).submitted, total))
    /\ IF EntryOf(s).phase = "settling" /\ total = EntryOf(s).submitted
       THEN Replace(issued[s], None, now)
       ELSE Replace(issued[s], [EntryOf(s) EXCEPT !.consumed = total], now)
    /\ UNCHANGED <<receiveCapacity, issued, receipts, retired>>

\* Final acknowledgement of the ordered retirement notice.
Settle(s, total, now) ==
    /\ Expire(now)
    /\ Holds(s)
    /\ EntryOf(s).phase = "settling"
    /\ total = EntryOf(s).submitted
    /\ Replace(issued[s], None, now)
    /\ UNCHANGED <<receiveCapacity, issued, receipts, retired>>

\* A tick, and every input that is refused or changes nothing but time.
Tick(now) ==
    /\ Expire(now)
    /\ Keep(now)
    /\ UNCHANGED <<receiveCapacity, issued, receipts, retired>>

\* The host knows that no queue or transport buffer retains data any more.
ConfirmClosed ==
    /\ state # "closed"
    /\ state' = "closed"
    /\ closeRequest' = None
    /\ entries' = [s \in Slots |-> None]
    /\ usage' = NoUsage
    /\ startupUsed' = Zero
    /\ nextExpiration' = None
    /\ checkpointChanged' = TRUE
    /\ receipts' = [s \in Sessions |-> NoReceipts]
    /\ UNCHANGED <<receiveCapacity, issued, retired>>

-----------------------------------------------------------------------------
(* Checkpoint and restore.                                                 *)

\* `checkpoint` refuses while accepted, unsubmitted payloads remain.
Checkpointable == usage.received = Zero

SumUsage(es) ==
    [granted   |-> [d \in Dim |-> Sum([i \in Slots |-> UsageOf(es[i]).granted[d]], MaxFlows)],
     received  |-> [d \in Dim |-> Sum([i \in Slots |-> UsageOf(es[i]).received[d]], MaxFlows)],
     submitted |-> [d \in Dim |-> Sum([i \in Slots |-> UsageOf(es[i]).submitted[d]], MaxFlows)]]

SumStartup(es) ==
    [d \in Dim |-> Sum([i \in Slots |-> StartupUsedOf(es[i])[d]], MaxFlows)]

ValidEntry(e) ==
    /\ Covers(e.granted, e.received)
    /\ Covers(e.received, e.submitted)
    /\ Covers(e.submitted, e.consumed)
    /\ Covers(e.granted, e.startup)
    /\ IsEnvelopeBatch(e.received)
    /\ IsEnvelopeBatch(e.submitted)
    /\ IsEnvelopeBatch(e.consumed)
    /\ IsEnvelopeBatch(Sub(e.submitted, e.consumed))
    /\ DeliveryUsage(e).received = Zero
    /\ e.deadline # 0

\* Every error return of `restore` for a checkpoint of this connection.
RestoreAccepts(es) ==
    LET total == TotalOf(SumUsage(es))
        startup == SumStartup(es)
    IN  /\ \A s \in Occupied(es) : ValidEntry(es[s]) /\ es[s].key.slot = s
        /\ \A s, t \in Occupied(es) : s # t => es[s].key.permit # es[t].key.permit
        /\ Occupied(es) # {} =>
               /\ receiveCapacity # None
               /\ Covers(receiveCapacity, total)
               /\ Covers(Total, total)
               /\ Covers(StartupPool, startup)
               /\ Covers(RegularPool, Sub(total, startup))
        /\ state = "closing" => closeRequest.deadline # 0
        /\ state = "closed" => Occupied(es) = {}

\* The aggregate stores the dirty checkpoint.
Flush ==
    /\ checkpointChanged
    /\ Checkpointable
    /\ checkpointChanged' = FALSE
    /\ UNCHANGED <<receiveCapacity, entries, usage, startupUsed, state, closeRequest,
                   nextExpiration, issued, receipts, retired>>

\* The hibernated host rebuilds the ledger of a surviving connection from its
\* stored checkpoint: only entries, capacity and state are read back.
Restore ==
    /\ ~checkpointChanged
    /\ Checkpointable
    /\ RestoreAccepts(entries)
    /\ usage' = SumUsage(entries)
    /\ startupUsed' = SumStartup(entries)
    /\ nextExpiration' = EarliestExpiration(entries)
    /\ UNCHANGED <<receiveCapacity, entries, state, closeRequest, checkpointChanged,
                   issued, receipts, retired>>

-----------------------------------------------------------------------------
Next ==
    \/ \E now \in Times :
        \/ \E capacity \in Capacities : DeclareCapacity(capacity, now)
        \/ \E s \in Sessions :
            \/ Open(s, now)
            \/ \E credit \in Credits : Grant(s, credit, now)
            \/ \E bytes \in MinEnvelope .. MaxEnvelope : Receive(s, bytes, now)
            \/ Retire(s, now)
            \/ Discarded(s, now)
            \/ \E total \in Counts : Consume(s, total, now)
            \/ \E total \in Counts : Settle(s, total, now)
        \/ \E s \in Sessions, ordinal \in Ordinals : Submit(s, ordinal, now)
        \/ Tick(now)
    \/ ConfirmClosed
    \/ Flush
    \/ Restore

Spec == Init /\ [][Next]_vars

\* The aggregate schedules an alarm for the ledger's deadline.
Alarm == \E now \in Times : Expiring(now) /\ Tick(now)

FairSpec == Spec /\ WF_vars(Alarm)

-----------------------------------------------------------------------------
(* Properties.                                                             *)

\* Every variable of the ledger and of its host has its type.
TypeOK ==
    /\ receiveCapacity \in Capacities \cup {None}
    /\ entries \in [Slots -> Deliveries \cup {None}]
    /\ usage \in [granted : [Dim -> Int], received : [Dim -> Int], submitted : [Dim -> Int]]
    /\ startupUsed \in [Dim -> Int]
    /\ state \in {"open", "closing", "closed"}
    /\ closeRequest \in Requests \cup {None}
    /\ nextExpiration \in Requests \cup {None}
    /\ checkpointChanged \in BOOLEAN
    /\ issued \in [Sessions -> Slots \cup {None}]
    /\ receipts \in [Sessions -> [Ordinals -> 0 .. MaxEnvelope]]
    /\ retired \subseteq Sessions

Ordered(e) ==
    /\ Covers(e.granted, e.received)
    /\ Covers(e.received, e.submitted)
    /\ Covers(e.submitted, e.consumed)
    /\ Covers(e.granted, e.startup)

\* The four cumulative counters of a flow are ordered prefixes, so none of the
\* checked subtractions of `Delivery::usage` and `startup_used` can panic.
PrefixOrder == \A i \in Occupied(entries) : Ordered(entries[i])

\* Handles are exact: a retained flow sits in the slot its FlowKey names, that
\* key is the one its session holds, and so no session is registered twice.
HandlesExact ==
    \A i \in Occupied(entries) :
        /\ entries[i].key.slot = i
        /\ issued[entries[i].key.permit] = i
        /\ entries[i].phase = "open" <=> entries[i].deadline = None

\* The incrementally maintained aggregates (`replace`) are the sums of the flows
\* the ledger retains: every stage is charged once and refunded exactly once.
UsageIsSum ==
    /\ usage = SumUsage(entries)
    /\ startupUsed = SumStartup(entries)

\* The debug assertions of `replace`: the two pools and the peer's declared
\* capacity are never over-committed, counting retired but unsettled flows.
PoolsRespected ==
    /\ Covers(StartupPool, startupUsed)
    /\ Covers(RegularPool, RegularUsed)
    /\ IF receiveCapacity = None THEN Occupied(entries) = {}
       ELSE Covers(receiveCapacity, TotalOf(usage))

\* The cached alarm is the earliest deadline of a retired flow, although it is
\* recomputed only by operations that change a deadline.
NextExpirationExact == nextExpiration = EarliestExpiration(entries)

Charged(s) ==
    IF Holds(s) /\ EntryOf(s).phase # "settling"
    THEN /\ \A o \in Ordinals :
                receipts[s][o] # 0 <=>
                    /\ EntryOf(s).submitted["frames"] < o
                    /\ o <= EntryOf(s).received["frames"]
         /\ Sum(receipts[s], MaxCount) =
                Sub(EntryOf(s).received, EntryOf(s).submitted)["encoded_bytes"]
    ELSE receipts[s] = NoReceipts

\* The payloads a host retains are exactly the charged ones, in order: the
\* receipts of a flow are the ordinals after its submitted prefix and weigh what
\* the ledger charges for them; a settled or removed flow retains none.
QueueCharged == \A s \in Sessions : Charged(s)

\* A checkpoint the ledger agrees to take is one `restore` accepts.
CheckpointRestorable == Checkpointable => RestoreAccepts(entries)

\* A lone open flow can always be refilled to a whole startup window, however
\* small the peer: "reserving its entire window would deadlock its very first
\* flow" (capacity_pools).
LoneFlowRefillable ==
    \A slot \in Slots :
        (Occupied(entries) = {slot} /\ entries[slot].phase = "open") =>
            WindowCredit(entries[slot], StartupGrant) =
                SaturatingSub(StartupGrant, TotalOf(DeliveryUsage(entries[slot])))

\* Retirement is final: no operation reopens a retired flow, moves its deadline
\* or changes the totals it is settled against; only its slot can be freed.
RetirementIsFinal ==
    [][\A slot \in Occupied(entries) :
          (entries[slot].phase # "open" /\ entries'[slot] # None) =>
              /\ entries'[slot].key = entries[slot].key
              /\ entries'[slot].deadline = entries[slot].deadline
              /\ entries'[slot].submitted = entries[slot].submitted
              /\ entries'[slot].received = entries[slot].received
              /\ entries'[slot].phase \in {entries[slot].phase, "settling"}]_vars

\* No change of what a checkpoint contains escapes the dirty flag, so a
\* hibernating host never resumes from an older image.
DirtyFlagComplete ==
    [][(<<receiveCapacity, entries, state, closeRequest>>' #
            <<receiveCapacity, entries, state, closeRequest>>) => checkpointChanged']_vars

\* A retired flow is eventually settled, or its connection must close: partial
\* feedback never keeps an overdue flow alive.
RetiredFlowsEnd ==
    \A slot \in Slots, s \in Sessions :
        (entries[slot] # None /\ entries[slot].key.permit = s /\ entries[slot].phase # "open")
            ~> (state # "open" \/ entries[slot] = None)

=============================================================================
