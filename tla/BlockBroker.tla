------------------------------ MODULE BlockBroker ------------------------------
(***************************************************************************)
(* The receiver's block broker (core/transfer/broker.go): range readers    *)
(* fetch blocks in parallel and write them in order, share one load per    *)
(* block, and hold plaintext only against the process budget.              *)
(*                                                                         *)
(* A step is one critical section of the broker's lock, or what a          *)
(* goroutine does between two of them.  Goroutines are the readers         *)
(* (ReadRange), their tasks (one getBlock per block of the window) and the *)
(* loads (runLoad).  GetBlock is a reader of one block.  A load runs in    *)
(* lanes.Set.Fetch, of which the model keeps what the broker can tell      *)
(* apart: when it asks Ready and Claim, which attempts run, and when each  *)
(* returns its capacity, possibly after the load has returned.  Which lane *)
(* runs an attempt, and how fast, is left open.  Blocks are of one file    *)
(* revision.                                                               *)
(***************************************************************************)
EXTENDS BufferBudget, FiniteSets

CONSTANTS
    Receiver,               \* this broker's account
    Readers,                \* calls of ReadRange
    FirstBlock, LastBlock,            \* the blocks they intersect
    BlockLength,            \* plaintext bytes of a block
    MaxConcurrentBlocks,    \* BlockBrokerConfig.MaxConcurrentBlocks
    MaximumSupplements,     \* lanescheduling.MaximumSupplements
    MaxDemandAttempts,      \* lanes.MaxDemandAttempts
    Calls,                  \* bound on loads that exist together
    Buffers,                \* bound on cached buffers of one block
    MaxInvalidations,       \* bound on InvalidateRevision
    MaxOther,               \* bound on what other receivers hold
    Events,                 \* outside events that may happen
    None

VARIABLES
    budget,         \* the process budget
    stopped,        \* b.closed and b.lifecycle
    entries,        \* the cached buffer of a block
    inflight,       \* the load of a block
    call,           \* blockCalls and their workers
    task,           \* getBlock goroutines
    reader,         \* ReadRange goroutines
    invalidations

vars == <<budget, stopped, entries, inflight, call, task, reader, invalidations>>

Blocks == UNION {FirstBlock[q] .. LastBlock[q] : q \in Readers}

Tasks == {t \in Readers \X Blocks : t[2] \in FirstBlock[t[1]] .. LastBlock[t[1]]}

Window(q) == FirstBlock[q] .. (FirstBlock[q] + MaxConcurrentBlocks - 1)

OtherReceivers == Accounts \ {Receiver}

ASSUME BrokerAssumption ==
    /\ Receiver \in Accounts
    /\ FirstBlock \in [Readers -> Nat] /\ LastBlock \in [Readers -> Nat]
    /\ \A q \in Readers : FirstBlock[q] =< LastBlock[q]
    /\ BlockLength \in [Blocks -> Nat \ {0}]
    /\ MaxConcurrentBlocks \in Nat \ {0}
    /\ \A i \in Blocks : 3 * BlockLength[i] =< Limit(Receiver)

-----------------------------------------------------------------------------
(* Loads.                                                                  *)

\* pc is the worker's place; `reserved` and `delivery` say whether the slots
\* call.reserved and call.deliveryReserved hold a reservation; `attempts` are
\* the admitted attempts that still hold their bytes, `tried` those admitted
\* so far, `supplemented` whether one of them was a rescue.
NoCall ==
    [pc |-> "free", key |-> None, waiters |-> {}, completed |-> FALSE, failed |-> FALSE,
     canceled |-> FALSE, reserved |-> FALSE, delivery |-> FALSE, attempts |-> 0, tried |-> 0,
     supplemented |-> FALSE]

NewCall(i, t) == [NoCall EXCEPT !.pc = "queue", !.key = i, !.waiters = {t}]

WorkerDone(k) == k.pc = "done"

Length(k) == BlockLength[k.key]

\* What the call's two slots hold.
SlotBytes(k) == (IF k.reserved THEN Length(k) ELSE 0) + (IF k.delivery THEN Length(k) ELSE 0)

\* A call nobody refers to is garbage.
Collected(k) == IF WorkerDone(k) /\ k.waiters = {} /\ k.attempts = 0 THEN NoCall ELSE k

ReleaseSlots(b, k) == Release(b, Receiver, SlotBytes(k))

SlotsReleased(k) == [k EXCEPT !.reserved = FALSE, !.delivery = FALSE]

\* Variant: abandoning a call returns the slots of a worker that still runs.
AbandonReleasing(k) == SlotsReleased([k EXCEPT !.completed = TRUE, !.failed = TRUE,
                                               !.canceled = TRUE])

\* completeAbandonedCallLocked; a worker that still runs keeps the slots.
Abandon(k) ==
    LET a == [k EXCEPT !.completed = TRUE, !.failed = TRUE, !.canceled = TRUE]
    IN  IF k.completed /\ k.failed THEN k
        ELSE IF WorkerDone(k) THEN SlotsReleased(a) ELSE a

\* The bytes Abandon returns.
AbandonBytes(k) == SlotBytes(k) - SlotBytes(Abandon(k))

ActiveAttempts == MapThenSumSet(LAMBDA c : call[c].attempts, Calls)

-----------------------------------------------------------------------------
(* Consumers: a block of a range is ready once its predecessor is          *)
(* admitted.                                                               *)

\* Variant: any block of the window may take memory.
ReadyAlways(t) == TRUE

Ready(t) == task[t].admitted \/ t[2] = reader[t[1]].next

\* consumer.admitted(): the next block becomes ready, once.
NextAdmitted(t) ==
    IF task[t].admitted THEN reader ELSE [reader EXCEPT ![t[1]].next = @ + 1]

WakeAdmitted(t, b) == IF task[t].admitted THEN b ELSE Wake(b)

Canceled(t) == reader[t[1]].ctx # "live"

NoTask == [pc |-> "none", call |-> None, admitted |-> FALSE, data |-> FALSE]

\* A waiter's channel was closed since it was observed.
Signalled(w) == w \notin budget.observers

Init ==
    /\ budget = NewBudget
    /\ stopped = FALSE
    /\ entries = [i \in Blocks |-> None]
    /\ inflight = [i \in Blocks |-> None]
    /\ call = [c \in Calls |-> NoCall]
    /\ task = [t \in Tasks |-> NoTask]
    /\ reader = [q \in Readers |-> [pc |-> "idle", ctx |-> "live", next |-> FirstBlock[q],
                                    write |-> FirstBlock[q]]]
    /\ invalidations = 0

-----------------------------------------------------------------------------
(* getBlock.                                                               *)

\* The goroutine starts; a demand whose context is done is not made.
Begin(t) ==
    /\ task[t].pc = "begin"
    /\ \/ /\ Canceled(t)
          /\ task' = [task EXCEPT ![t].pc = "sent"]
          /\ UNCHANGED budget
       \/ /\ ~Canceled(t)
          /\ task' = [task EXCEPT ![t].pc = "get"]
          /\ budget' = Changes(budget, t)
    /\ UNCHANGED <<stopped, entries, inflight, call, reader, invalidations>>

GetStopped(t) ==
    /\ task[t].pc = "get"
    /\ stopped
    /\ task' = [task EXCEPT ![t].pc = "sent"]
    /\ budget' = Unobserve(budget, t)
    /\ UNCHANGED <<stopped, entries, inflight, call, reader, invalidations>>

\* copyCachedLocked finds a live buffer: the copy waits for its turn and for
\* capacity.
GetCached(t) ==
    LET e == entries[t[2]]
        r == Copy(budget, e)
    IN  /\ task[t].pc = "get"
        /\ ~stopped
        /\ e # None
        /\ \/ /\ ~Ready(t)
              /\ task' = [task EXCEPT ![t].pc = "wait"]
              /\ UNCHANGED <<budget, reader>>
           \/ /\ Ready(t) /\ Live(budget, e) /\ ~r.ok
              /\ task' = [task EXCEPT ![t].pc = "wait"]
              /\ budget' = r.budget
              /\ UNCHANGED reader
           \/ /\ Ready(t) /\ Live(budget, e) /\ r.ok
              /\ task' = [task EXCEPT ![t].pc = "sent", ![t].admitted = TRUE, ![t].data = TRUE]
              /\ reader' = NextAdmitted(t)
              /\ budget' = Unobserve(WakeAdmitted(t, r.budget), t)
        /\ UNCHANGED <<stopped, entries, inflight, call, invalidations>>

\* Nothing is cached, or the buffer was evicted: join the load, or start one.
GetLoaded(t) ==
    LET i == t[2]
    IN  /\ task[t].pc = "get"
        /\ ~stopped
        /\ entries[i] # None => Ready(t) /\ ~Live(budget, entries[i])
        /\ entries' = [entries EXCEPT ![i] = None]
        /\ \/ /\ inflight[i] # None
              /\ call' = [call EXCEPT ![inflight[i]].waiters = @ \cup {t}]
              /\ UNCHANGED inflight
           \/ /\ inflight[i] = None
              /\ \E c \in Calls : /\ call[c].pc = "free"
                                  /\ call' = [call EXCEPT ![c] = NewCall(i, t)]
                                  /\ inflight' = [inflight EXCEPT ![i] = c]
        /\ task' = [task EXCEPT ![t].pc = "await", ![t].call = inflight'[i]]
        /\ budget' = Unobserve(budget, t)
        /\ UNCHANGED <<stopped, reader, invalidations>>

\* waitCapacity, in getBlock and in deliverCall.
WaitEnds(t) ==
    /\ task[t].pc \in {"wait", "delayed"}
    /\ \/ /\ Signalled(t)
          /\ task' = [task EXCEPT ![t].pc = IF @ = "wait" THEN "get" ELSE "deliver"]
          /\ budget' = Changes(budget, t)
       \/ /\ Canceled(t) \/ stopped
          /\ task' = [task EXCEPT ![t].pc = IF @ = "wait" THEN "sent" ELSE "leave"]
          /\ budget' = Unobserve(budget, t)
    /\ UNCHANGED <<stopped, entries, inflight, call, reader, invalidations>>

Await(t) ==
    /\ task[t].pc = "await"
    /\ \/ /\ call[task[t].call].completed
          /\ task' = [task EXCEPT ![t].pc = "deliver"]
          /\ budget' = Changes(budget, t)
       \/ /\ Canceled(t)
          /\ task' = [task EXCEPT ![t].pc = "leave"]
          /\ UNCHANGED budget
    /\ UNCHANGED <<stopped, entries, inflight, call, reader, invalidations>>

DeliverFails(t) ==
    /\ task[t].pc = "deliver"
    /\ Canceled(t) \/ call[task[t].call].failed
    /\ task' = [task EXCEPT ![t].pc = "leave"]
    /\ budget' = Unobserve(budget, t)
    /\ UNCHANGED <<stopped, entries, inflight, call, reader, invalidations>>

\* deliverCall: the first to come takes the reservation made with the load,
\* the others make their own.
Deliver(t) ==
    LET c == task[t].call
        k == call[c]
        r == IF k.delivery THEN [ok |-> TRUE, budget |-> budget]
             ELSE Reserve(budget, Receiver, Length(k))
    IN  /\ task[t].pc = "deliver"
        /\ ~Canceled(t) /\ ~k.failed
        /\ \/ /\ ~Ready(t)
              /\ task' = [task EXCEPT ![t].pc = "delayed"]
              /\ UNCHANGED <<budget, call, reader>>
           \/ /\ Ready(t) /\ ~r.ok
              /\ task' = [task EXCEPT ![t].pc = "delayed"]
              /\ budget' = r.budget
              /\ UNCHANGED <<call, reader>>
           \/ /\ Ready(t) /\ r.ok
              /\ task' = [task EXCEPT ![t].pc = "leave", ![t].admitted = TRUE, ![t].data = TRUE]
              /\ call' = [call EXCEPT ![c].delivery = FALSE]
              /\ reader' = NextAdmitted(t)
              /\ budget' = Unobserve(WakeAdmitted(t, r.budget), t)
        /\ UNCHANGED <<stopped, entries, inflight, invalidations>>

\* pruneEvictedLocked: the index forgets what pressure evicted.
Pruned == [i \in Blocks |-> IF entries[i] \in budget.evicted[Receiver] THEN None ELSE entries[i]]

\* The last one out of a successful load leaves its block in the cache.
StoreBlock(i, k) ==
    \E id \in Buffers :
        LET e == [account |-> Receiver, key |-> i, bytes |-> BlockLength[i], id |-> id]
        IN  /\ ~Live(budget, e)
            /\ entries' = [Pruned EXCEPT ![i] = e]
            /\ budget' = ReleaseSlots(Store(TakeEvicted(budget, Receiver), e), k)

\* leaveCall, and the result goes to the reader.
Leave(t) ==
    LET c == task[t].call
        k == [call[c] EXCEPT !.waiters = @ \ {t}]
        active == inflight[k.key] = c
        keep == active /\ ~stopped /\ ~k.failed /\ k.reserved
    IN  /\ task[t].pc = "leave"
        /\ task' = [task EXCEPT ![t].pc = "sent", ![t].call = None]
        /\ inflight' = IF k.waiters = {} /\ active THEN [inflight EXCEPT ![k.key] = None]
                       ELSE inflight
        /\ \/ /\ k.waiters # {} \/ (k.completed /\ ~WorkerDone(k))
              /\ call' = [call EXCEPT ![c] = k]
              /\ UNCHANGED <<budget, entries>>
           \/ /\ k.waiters = {} /\ ~k.completed
              /\ call' = [call EXCEPT ![c] = Abandon(k)]
              /\ UNCHANGED <<budget, entries>>
           \/ /\ k.waiters = {} /\ WorkerDone(k)
              /\ call' = [call EXCEPT ![c] = Collected(SlotsReleased(k))]
              /\ \/ keep /\ StoreBlock(k.key, [k EXCEPT !.reserved = FALSE])
                 \/ ~keep /\ budget' = ReleaseSlots(budget, k) /\ UNCHANGED entries
        /\ UNCHANGED <<stopped, reader, invalidations>>

-----------------------------------------------------------------------------
(* Loads: callReady and claimCall as the lane set calls them, its rounds   *)
(* of attempts, and runLoad.                                               *)

KeepReaders == UNCHANGED <<stopped, entries, inflight, task, reader, invalidations>>

AttemptLimit(k) == MaxConcurrentBlocks + IF k.attempts > 0 THEN MaximumSupplements ELSE 0

\* The first claim also takes the canonical block and the first delivery.
ClaimBytes(k) == IF k.reserved THEN Length(k) ELSE 3 * Length(k)

HasConsumer(k) == k.reserved \/ \E t \in k.waiters : Ready(t)

Ended(k) == stopped \/ k.canceled

LoadReady(c) ==
    LET k == call[c]
        open == /\ HasConsumer(k)
                /\ Available(budget, Receiver, ClaimBytes(k))
                /\ ActiveAttempts < AttemptLimit(k)
    IN  /\ k.pc = "queue"
        /\ \/ /\ Ended(k) \/ open
              /\ call' = [call EXCEPT ![c].pc = "claim"]
              /\ UNCHANGED budget
           \/ /\ ~Ended(k) /\ ~open
              /\ call' = [call EXCEPT ![c].pc = "wait"]
              /\ budget' = Changes(budget, c)
        /\ KeepReaders

\* claimCall observes the budget, then asks it if the load may have another
\* attempt; what it evicted stays evicted when it is refused.
ClaimResult(c) ==
    LET k == call[c]
    IN  IF HasConsumer(k) /\ ActiveAttempts < AttemptLimit(k)
        THEN Reserve(Changes(budget, c), Receiver, ClaimBytes(k))
        ELSE Refused(Changes(budget, c))

\* The claim succeeds and the attempt runs, beside another if it is a rescue.
Claim(c) ==
    LET k == call[c]
        r == ClaimResult(c)
        admitted == [k EXCEPT !.pc = "fetch", !.attempts = @ + 1, !.tried = @ + 1,
                              !.supplemented = @ \/ k.pc = "fetch"]
    IN  /\ ~Ended(k)
        /\ r.ok
        /\ \/ /\ k.reserved
              /\ call' = [call EXCEPT ![c] = admitted]
              /\ budget' = Unobserve(r.budget, c)
              /\ UNCHANGED <<task, reader>>
           \/ /\ ~k.reserved
              /\ call' = [call EXCEPT ![c] = [admitted EXCEPT !.reserved = TRUE,
                                                             !.delivery = TRUE]]
              /\ \E t \in k.waiters :
                    /\ Ready(t)
                    /\ task' = [task EXCEPT ![t].admitted = TRUE]
                    /\ reader' = NextAdmitted(t)
                    /\ budget' = Unobserve(WakeAdmitted(t, r.budget), c)
        /\ UNCHANGED <<stopped, entries, inflight, invalidations>>

ClaimRefused(c) == ~Ended(call[c]) /\ ~ClaimResult(c).ok

LoadClaim(c) ==
    /\ call[c].pc = "claim"
    /\ \/ Claim(c)
       \/ /\ ClaimRefused(c)
          /\ call' = [call EXCEPT ![c].pc = "wait"]
          /\ budget' = ClaimResult(c).budget
          /\ KeepReaders
       \/ /\ Ended(call[c])
          /\ call' = [call EXCEPT ![c].pc = "lost"]
          /\ UNCHANGED budget
          /\ KeepReaders

\* candidates(): the load's own signal, or an allocation pass of another load,
\* looks at it again.
LoadResumes(c) ==
    /\ call[c].pc = "wait"
    /\ call' = [call EXCEPT ![c].pc = "queue"]
    /\ budget' = Unobserve(budget, c)
    /\ KeepReaders

\* A rescue: a second attempt in a round that is slow, once in a load.
Supplement(c) ==
    /\ call[c].pc = "fetch"
    /\ ~call[c].supplemented
    /\ call[c].tried < MaxDemandAttempts
    /\ \/ Claim(c)
       \/ /\ ClaimRefused(c)
          /\ budget' = Unobserve(ClaimResult(c).budget, c)
          /\ UNCHANGED call
          /\ KeepReaders

\* An attempt delivers; a load that was canceled before ignores it.
FetchWins(c) ==
    /\ call[c].pc = "fetch"
    /\ call[c].attempts > 0
    /\ ~call[c].canceled
    /\ call' = [call EXCEPT ![c].pc = "won"]
    /\ UNCHANGED budget
    /\ KeepReaders

\* An attempt fails and returns its capacity before the round hears of it.
AttemptFails(c) ==
    /\ "fetch" \in Events
    /\ call[c].pc = "fetch"
    /\ call[c].attempts > 0
    /\ call' = [call EXCEPT ![c].attempts = @ - 1]
    /\ budget' = Release(budget, Receiver, Length(call[c]))
    /\ KeepReaders

\* The last attempt of the round failed: another lane is tried, or the failure
\* cannot be reassigned.
RoundFails(c) ==
    /\ call[c].pc = "fetch"
    /\ call[c].attempts = 0
    /\ \/ /\ call[c].tried < MaxDemandAttempts
          /\ call' = [call EXCEPT ![c].pc = "queue"]
       \/ call' = [call EXCEPT ![c].pc = "lost"]
    /\ UNCHANGED budget
    /\ KeepReaders

\* Variant: a parked load does not look at its context.
FetchExhausted(c) ==
    /\ call[c].pc \in {"queue", "wait"} /\ "fetch" \in Events
    /\ call' = [call EXCEPT ![c].pc = "lost"]
    /\ budget' = Unobserve(budget, c)
    /\ KeepReaders

\* Fetch returns without a block: no lane is left, or the load is canceled.
FetchEnds(c) ==
    /\ \/ call[c].pc \in {"queue", "wait"} /\ "fetch" \in Events
       \/ call[c].pc \in {"queue", "wait", "fetch"} /\ Ended(call[c])
    /\ call' = [call EXCEPT ![c].pc = "lost"]
    /\ budget' = Unobserve(budget, c)
    /\ KeepReaders

\* An attempt that outlived its load returns its capacity.
Settle(c) ==
    /\ call[c].pc \in {"won", "lost", "done"}
    /\ call[c].attempts > 0
    /\ call' = [call EXCEPT ![c] = Collected([@ EXCEPT !.attempts = @ - 1])]
    /\ budget' = Release(budget, Receiver, Length(call[c]))
    /\ KeepReaders

\* runLoad after Fetch.
FinishLoad(c) ==
    LET k == [call[c] EXCEPT !.pc = "done"]
    IN  /\ call[c].pc \in {"won", "lost"}
        /\ \/ /\ k.completed
              /\ call' = [call EXCEPT ![c] = Collected(SlotsReleased(k))]
              /\ budget' = ReleaseSlots(budget, k)
           \/ /\ ~k.completed
              /\ call' = [call EXCEPT ![c] = [k EXCEPT !.completed = TRUE, !.canceled = TRUE,
                                                      !.failed = call[c].pc = "lost"]]
              /\ UNCHANGED budget
        /\ KeepReaders

-----------------------------------------------------------------------------
(* ReadRange.                                                              *)

KeepLoads == UNCHANGED <<stopped, entries, inflight, call, invalidations>>

TasksOf(q) == {t \in Tasks : t[1] = q}

Pending(q) == {t \in TasksOf(q) : task[t].pc = "pending"}

\* nextWrite can be written.
Written(q) == <<q, reader[q].write>>

CanWrite(q) == Written(q) \in Pending(q)

Start(q) ==
    /\ reader[q].pc = "idle"
    /\ \/ /\ stopped
          /\ reader' = [reader EXCEPT ![q].pc = "done"]
          /\ UNCHANGED task
       \/ /\ ~stopped
          /\ task' = [t \in Tasks |-> IF t[1] = q /\ t[2] \in Window(q)
                                      THEN [task[t] EXCEPT !.pc = "begin"] ELSE task[t]]
          /\ reader' = [reader EXCEPT ![q].pc = "reading"]
    /\ UNCHANGED budget
    /\ KeepLoads

\* The range returns its error: its context ends, what it holds is released,
\* and it waits for the goroutines in flight.  `last` is a result without a
\* block, if it was one.
Fails(q, last) ==
    /\ task' = [t \in Tasks |-> IF t \in Pending(q) \cup last
                                THEN [task[t] EXCEPT !.pc = "closed", !.data = FALSE] ELSE task[t]]
    /\ reader' = [reader EXCEPT ![q].pc = "failing", ![q].ctx = "canceled"]
    /\ budget' = Release(budget, Receiver,
                         MapThenSumSet(LAMBDA t : BlockLength[t[2]], Pending(q)))

Receive(q) ==
    /\ reader[q].pc = "reading"
    /\ ~CanWrite(q)
    /\ \E t \in TasksOf(q) :
          /\ task[t].pc = "sent"
          /\ \/ /\ task[t].data
                /\ task' = [task EXCEPT ![t].pc = "pending"]
                /\ UNCHANGED <<budget, reader>>
             \/ ~task[t].data /\ Fails(q, {t})
    /\ KeepLoads

\* The caller's context ends while the range waits for a result.
Interrupted(q) ==
    /\ reader[q].pc = "reading"
    /\ ~CanWrite(q)
    /\ reader[q].ctx = "canceled"
    /\ Fails(q, {})
    /\ KeepLoads

\* Variant: nothing is launched behind a written block.
WriteOnly(q) ==
    LET i == reader[q].write
    IN  /\ reader[q].pc = "reading"
        /\ CanWrite(q)
        /\ task' = [t \in Tasks |->
                       IF t = Written(q) THEN [task[t] EXCEPT !.pc = "closed", !.data = FALSE]
                       ELSE task[t]]
        /\ reader' = [reader EXCEPT ![q].write = i + 1,
                                    ![q].pc = IF i = LastBlock[q] THEN "done" ELSE @]
        /\ budget' = Release(budget, Receiver, BlockLength[i])
        /\ KeepLoads

\* writeRangeBlock; the next block of the range is launched behind it.
Write(q) ==
    LET i == reader[q].write
        next == i + MaxConcurrentBlocks
    IN  /\ reader[q].pc = "reading"
        /\ CanWrite(q)
        /\ task' = [t \in Tasks |->
                       IF t = Written(q) THEN [task[t] EXCEPT !.pc = "closed", !.data = FALSE]
                       ELSE IF t = <<q, next>> THEN [task[t] EXCEPT !.pc = "begin"]
                       ELSE task[t]]
        /\ reader' = [reader EXCEPT ![q].write = i + 1,
                                    ![q].pc = IF i = LastBlock[q] THEN "done" ELSE @]
        /\ budget' = Release(budget, Receiver, BlockLength[i])
        /\ KeepLoads

WriteFails(q) ==
    /\ reader[q].pc = "reading"
    /\ CanWrite(q)
    /\ "sink" \in Events \/ reader[q].ctx # "live"
    /\ Fails(q, {})
    /\ KeepLoads

\* releaseRangeBlocks waits for every goroutine of the range.
Drain(q) ==
    /\ reader[q].pc = "failing"
    /\ \/ \E t \in TasksOf(q) :
             /\ task[t].pc = "sent"
             /\ task' = [task EXCEPT ![t].pc = "closed", ![t].data = FALSE]
             /\ budget' = IF task[t].data THEN Release(budget, Receiver, BlockLength[t[2]])
                          ELSE budget
             /\ UNCHANGED reader
       \/ /\ \A t \in TasksOf(q) : task[t].pc \in {"none", "closed"}
          /\ reader' = [reader EXCEPT ![q].pc = "done"]
          /\ UNCHANGED <<budget, task>>
    /\ KeepLoads

\* The caller of ReadRange gives up.
Cancel(q) ==
    /\ "cancel" \in Events
    /\ reader[q].pc = "reading"
    /\ reader[q].ctx = "live"
    /\ reader' = [reader EXCEPT ![q].ctx = "canceled"]
    /\ UNCHANGED <<budget, task>>
    /\ KeepLoads

-----------------------------------------------------------------------------
(* Revision invalidation, stop and close, and the other receivers.         *)

\* The entries are dropped and the loads in flight abandoned.
Forgets(b) ==
    LET dropped == FoldLeft(Drop, b, SelectSeq(b.local[Receiver],
                                               LAMBDA e : entries[e.key] = e))
        active == {inflight[i] : i \in Blocks} \ {None}
    IN  /\ entries' = [i \in Blocks |-> None]
        /\ inflight' = [i \in Blocks |-> None]
        /\ call' = [c \in Calls |-> IF c \in active THEN Abandon(call[c]) ELSE call[c]]
        /\ budget' = Release(dropped, Receiver,
                             MapThenSumSet(LAMBDA c : AbandonBytes(call[c]), active))

InvalidateRevision ==
    /\ invalidations < MaxInvalidations
    /\ invalidations' = invalidations + 1
    /\ Forgets(TakeEvicted(budget, Receiver))
    /\ UNCHANGED <<stopped, task, reader>>

Stop ==
    /\ "stop" \in Events
    /\ ~stopped
    /\ stopped' = TRUE
    /\ Forgets(TakeEvicted(budget, Receiver))
    /\ reader' = [q \in Readers |-> [reader[q] EXCEPT !.ctx = IF @ = "live" THEN "stopped" ELSE @]]
    /\ UNCHANGED <<task, invalidations>>

\* Variant: the readers are not waited for.
CloseEarly ==
    /\ stopped
    /\ Receiver \notin budget.closed
    /\ \A c \in Calls : call[c].pc \in {"free", "done"} /\ call[c].attempts = 0
    /\ budget' = CloseAccount(budget, Receiver)
    /\ UNCHANGED <<stopped, entries, inflight, call, task, reader, invalidations>>

\* The receiver closes its lanes first, which joins the attempts.
Close ==
    /\ stopped
    /\ Receiver \notin budget.closed
    /\ \A q \in Readers : reader[q].pc \in {"idle", "done"}
    /\ \A c \in Calls : call[c].pc \in {"free", "done"} /\ call[c].attempts = 0
    /\ budget' = CloseAccount(budget, Receiver)
    /\ UNCHANGED <<stopped, entries, inflight, call, task, reader, invalidations>>

OtherReserve(a) ==
    /\ budget.used[a] < MaxOther
    /\ budget' = Reserve(budget, a, 1).budget
    /\ budget' # budget
    /\ UNCHANGED <<stopped, entries, inflight, call, task, reader, invalidations>>

OtherRelease(a) ==
    /\ budget.used[a] > 0
    /\ budget' = Release(budget, a, 1)
    /\ UNCHANGED <<stopped, entries, inflight, call, task, reader, invalidations>>

-----------------------------------------------------------------------------
TaskStep(t) ==
    \/ Begin(t) \/ GetStopped(t) \/ GetCached(t) \/ GetLoaded(t) \/ WaitEnds(t)
    \/ Await(t) \/ DeliverFails(t) \/ Deliver(t) \/ Leave(t)

LoadStep(c) ==
    LoadReady(c) \/ LoadClaim(c) \/ FetchWins(c) \/ RoundFails(c) \/ FinishLoad(c)

ReaderStep(q) == Start(q) \/ Receive(q) \/ Interrupted(q) \/ Write(q) \/ Drain(q)

Next ==
    \/ \E t \in Tasks : TaskStep(t)
    \/ \E c \in Calls : \/ LoadStep(c) \/ LoadResumes(c) \/ Supplement(c)
                        \/ AttemptFails(c) \/ FetchEnds(c) \/ Settle(c)
    \/ \E q \in Readers : ReaderStep(q) \/ WriteFails(q) \/ Cancel(q)
    \/ InvalidateRevision
    \/ Stop
    \/ Close
    \/ \E a \in OtherReceivers : OtherReserve(a) \/ OtherRelease(a)

Spec == Init /\ [][Next]_vars

\* What brings a load on: its own steps, its signal, and the end of its context.
LoadProceeds(c) ==
    \/ LoadStep(c)
    \/ Signalled(c) /\ LoadResumes(c)
    \/ Ended(call[c]) /\ FetchEnds(c)

\* The scheduler does not idle while a goroutine can run, an attempt ends and a
\* sink returns.  A load may be looked at again and again for nothing, so each
\* has a fairness of its own.  The other receivers give back what they hold
\* and in the end want no more: the budget serves whoever comes when there is
\* room, and keeps no queue.
Fairness ==
    /\ WF_vars(\/ \E t \in Tasks : TaskStep(t)
               \/ \E q \in Readers : ReaderStep(q)
               \/ \E c \in Calls : Settle(c)
               \/ Close)
    /\ \A c \in Calls : WF_vars(LoadProceeds(c))
    /\ \A a \in OtherReceivers : /\ WF_vars(OtherRelease(a))
                                 /\ <>[][~OtherReserve(a)]_vars

FairSpec == Spec /\ Fairness

-----------------------------------------------------------------------------
(* Properties.                                                             *)

TypeOK ==
    /\ budget.used \in [Accounts -> Nat] /\ budget.total \in Nat
    /\ budget.closed \subseteq Accounts /\ budget.observers \subseteq Tasks \cup Calls
    /\ stopped \in BOOLEAN
    /\ \A i \in Blocks : entries[i] # None => entries[i].key = i
    /\ inflight \in [Blocks -> Calls \cup {None}]
    /\ \A c \in Calls : /\ call[c].pc \in {"free", "queue", "claim", "wait", "fetch", "won", "lost", "done"}
                        /\ call[c].waiters \subseteq Tasks
                        /\ call[c].attempts \in 0 .. MaxDemandAttempts
                        /\ call[c].pc = "free" => call[c] = NoCall
    /\ \A t \in Tasks : /\ task[t].pc \in {"none", "begin", "get", "wait", "await", "deliver",
                                            "delayed", "leave", "sent", "pending", "closed"}
                        /\ task[t].call \in Calls \cup {None}
    /\ \A q \in Readers : /\ reader[q].pc \in {"idle", "reading", "failing", "done"}
                          /\ reader[q].next \in FirstBlock[q] .. LastBlock[q] + 1
                          /\ reader[q].write \in FirstBlock[q] .. LastBlock[q] + 1
    /\ invalidations \in 0 .. MaxInvalidations

\* Every byte the receiver is charged belongs to exactly one owner: a cached
\* buffer, a slot of a load, an attempt, or a block delivered to a range.
\* Reservation.Split, Transfer and Release keep it so across loads that are
\* shared, abandoned, or outlived by their attempts. No receiver exceeds its limit,
\* nor all of them the process's (Account.reserveLocked).
ChargedToOwners ==
    /\ TypeOK
    /\ budget.used[Receiver] =
          Bytes(budget.local[Receiver])
          + MapThenSumSet(LAMBDA c : SlotBytes(call[c]) + call[c].attempts * Length(call[c]),
                          {c \in Calls : call[c].pc # "free"})
          + MapThenSumSet(LAMBDA t : BlockLength[t[2]], {t \in Tasks : task[t].data})
    /\ \A a \in Accounts : budget.used[a] =< Limit(a)
    /\ budget.total =< ProcessLimit
    /\ budget.total = MapThenSumSet(LAMBDA a : budget.used[a], Accounts)

\* The two eviction orders agree, and the broker's index names every cached
\* buffer and nothing else but buffers whose eviction it has yet to be told
\* of (cache_list.go, evictLocked, pruneEvictedLocked).
IndexFollowsCache ==
    /\ \A a \in Accounts : budget.local[a] = SelectSeq(budget.cache, LAMBDA e : e.account = a)
    /\ \A e \in ToSet(budget.local[Receiver]) : entries[e.key] = e
    /\ \A i \in Blocks : entries[i] # None =>
          Live(budget, entries[i]) \/ entries[i] \in budget.evicted[Receiver]

\* The blocks of a range are given memory in the order in which they are
\* written: a block is admitted only after all its predecessors, so what the
\* range holds is always what its sink needs first (rangeConsumer).
AdmittedInOrder ==
    \A t \in Tasks : /\ task[t].admitted <=> t[2] < reader[t[1]].next
                     /\ task[t].data => task[t].admitted

\* A block of a range that waits for capacity (waitCapacity in getBlock and
\* deliverCall) on a channel still open could not go on if it looked: whatever
\* could let it on has closed the channel (Wake in release, Store, dropLocked
\* and rangeConsumer.admitted).  Loads wait for capacity too and are not
\* covered: see Overslept.
NoLostWakeup ==
    \A t \in Tasks \cap budget.observers :
        LET k == call[task[t].call]
            e == entries[t[2]]
        IN  /\ task[t].pc = "wait" =>
                  (Ready(t) => e # None /\ Live(budget, e) /\ ~Copy(budget, e).ok)
            /\ task[t].pc = "delayed" =>
                  ~k.failed /\ (Ready(t) => ~k.delivery /\ ~Reserve(budget, Receiver, Length(k)).ok)

\* A range that waits for a result has a goroutine that will send one, so
\* `inflight == 0 && nextWrite <= last` never ends a read.
RangeNeverStarves ==
    \A q \in Readers : reader[q].pc = "reading" /\ ~CanWrite(q) =>
        \E t \in TasksOf(q) : task[t].pc \notin {"none", "pending", "closed"}

\* Close finds nothing charged: no reservation outlives its owner, whatever
\* was canceled, abandoned, invalidated or rescued before (Account.Close
\* reports a leak otherwise).
CloseLeavesNothing == Receiver \in budget.closed => budget.used[Receiver] = 0

Parked(t) == task[t].pc \in {"wait", "delayed"} /\ t \in budget.observers

\* Contention is temporary: while ranges are being read, not everything waits
\* for something else to release memory.
NotWedged ==
    (\E q \in Readers : reader[q].pc = "reading") =>
        \/ \E q \in Readers : reader[q].pc = "idle" \/ CanWrite(q)
        \/ \E t \in Tasks : task[t].pc \notin {"none", "pending", "closed"} /\ ~Parked(t)
        \/ \E c \in Calls : call[c].pc \notin {"free", "done"} \/ call[c].attempts > 0

\* A load sleeps on a channel still open although one of its consumers is ready
\* and it would be admitted if it looked: the consumer joined it in getBlock,
\* which does not wake it.
Overslept(c) ==
    LET k == call[c]
    IN  /\ k.pc = "wait" /\ ~Signalled(c) /\ ~Ended(k)
        /\ HasConsumer(k)
        /\ Available(budget, Receiver, ClaimBytes(k))
        /\ ActiveAttempts < AttemptLimit(k)

\* Where memory does not run out for good (NotWedged is about that), a range
\* read ends unless it waits for a load that overslept: a reader that gives up
\* a load it shares, and Stop, hold no other read (getBlock, deliverCall,
\* leaveCall, runLoad).
ReadsEnd ==
    \A q \in Readers : reader[q].pc = "reading" ~>
        \/ reader[q].pc = "done"
        \/ \E t \in TasksOf(q) : task[t].pc = "await" /\ Overslept(task[t].call)

\* A stopped broker comes to its close.
StopCloses == stopped ~> Receiver \in budget.closed

=============================================================================
