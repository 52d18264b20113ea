----------------------------- MODULE BufferBudget -----------------------------
(***************************************************************************)
(* The plaintext budget of the receivers of a process                      *)
(* (core/transfer/bufferbudget): one account per receiver under the        *)
(* process limit, the cached buffers in the eviction order of the process  *)
(* and of their account, and the channel that announces changes.           *)
(*                                                                         *)
(* Every method runs under the budget's lock, so a budget is a value and a *)
(* method a function of it; the components that share a budget compose the *)
(* functions.  CapacityLedger is the accounting below: a reservation is    *)
(* here its number of bytes.                                               *)
(***************************************************************************)
EXTENDS Integers, Sequences, SequencesExt

CONSTANTS
    Accounts,       \* the receivers
    ProcessLimit,   \* New(limit)
    AccountLimit    \* NewAccount(budget, limit)

ASSUME LimitsAssumption ==
    /\ ProcessLimit \in Nat \ {0}
    /\ AccountLimit \in [Accounts -> Nat]

\* used, total   what the account's and the process's ledger are charged
\* cache, local  the buffers that hold data, most recently used first
\* evicted       pressure-eviction records the account's owner has not taken
\* observers     who holds the current, still open channel of Changes
NewBudget ==
    [used      |-> [a \in Accounts |-> 0],
     total     |-> 0,
     cache     |-> <<>>,
     local     |-> [a \in Accounts |-> <<>>],
     evicted   |-> [a \in Accounts |-> {}],
     closed    |-> {},
     observers |-> {}]

Wake(b) == [b EXCEPT !.observers = {}]

Changes(b, w) == [b EXCEPT !.observers = @ \cup {w}]

\* An observer that has nothing to wait for drops its channel.
Unobserve(b, w) == [b EXCEPT !.observers = @ \ {w}]

Limit(a) == IF AccountLimit[a] < ProcessLimit THEN AccountLimit[a] ELSE ProcessLimit

LocalRoom(b, a) == Limit(a) - b.used[a]

ProcessRoom(b) == ProcessLimit - b.total

Charge(b, a, bytes) == [b EXCEPT !.used[a] = @ + bytes, !.total = @ + bytes]

\* Variant: a release is not announced.
ReleaseSilently(b, a, bytes) == Charge(b, a, -bytes)

\* Releasing an empty or void reservation changes and announces nothing.
Release(b, a, bytes) == IF bytes = 0 THEN b ELSE Wake(Charge(b, a, -bytes))

\* A buffer is [account, key, bytes, id]; id tells buffers of one key apart.
Live(b, e) == Contains(b.cache, e)

Unlink(b, e) == [b EXCEPT !.cache = Remove(@, e), !.local[e.account] = Remove(@, e)]

Link(b, e) == [b EXCEPT !.cache = Cons(e, @), !.local[e.account] = Cons(e, @)]

Drop(b, e) == IF Live(b, e) THEN Release(Unlink(b, e), e.account, e.bytes) ELSE b

\* Variant: an eviction leaves the buffer in its account's own order.
EvictGloballyOnly(b, e) ==
    LET d == Release([b EXCEPT !.cache = Remove(@, e)], e.account, e.bytes)
    IN  [d EXCEPT !.evicted[e.account] = @ \cup {e}]

Evict(b, e) == [Drop(b, e) EXCEPT !.evicted[e.account] = @ \cup {e}]

\* The loops of reserveLocked: the oldest buffers go until the bytes fit.
EvictLocal(b, a, bytes) ==
    FoldLeft(LAMBDA c, e : IF bytes > LocalRoom(c, a) THEN Evict(c, e) ELSE c,
             b, Reverse(b.local[a]))

EvictGlobal(b, bytes) ==
    FoldLeft(LAMBDA c, e : IF bytes > ProcessRoom(c) THEN Evict(c, e) ELSE c,
             b, Reverse(b.cache))

Refused(b) == [ok |-> FALSE, budget |-> b]

\* What was evicted stays evicted when the reservation is refused after all.
Reserve(b, a, bytes) ==
    LET local  == EvictLocal(b, a, bytes)
        global == EvictGlobal(local, bytes)
    IN  IF bytes = 0 \/ bytes > Limit(a) \/ a \in b.closed THEN Refused(b)
        ELSE IF bytes > LocalRoom(local, a) THEN Refused(local)
        ELSE IF bytes > ProcessRoom(global) THEN Refused(global)
        ELSE [ok |-> TRUE, budget |-> Charge(global, a, bytes)]

Bytes(entries) == FoldLeft(LAMBDA sum, e : sum + e.bytes, 0, entries)

\* Reclaimable cache counts, nothing is evicted.
Available(b, a, bytes) ==
    /\ bytes > 0
    /\ a \notin b.closed
    /\ bytes =< LocalRoom(b, a) + Bytes(b.local[a])
    /\ bytes =< ProcessRoom(b) + Bytes(b.cache)

\* The reservation's bytes become the buffer's.
Store(b, e) == Wake(Link(b, e))

\* The source is pinned while its copy is reserved, and used last in any case.
Copy(b, e) ==
    LET r == Reserve(Unlink(b, e), e.account, e.bytes)
    IN  [r EXCEPT !.budget = Link(@, e)]

TakeEvicted(b, a) == [b EXCEPT !.evicted[a] = {}]

CloseAccount(b, a) ==
    LET drained == FoldLeft(Drop, b, b.local[a])
    IN  Wake([TakeEvicted(drained, a) EXCEPT !.closed = @ \cup {a}])

=============================================================================
