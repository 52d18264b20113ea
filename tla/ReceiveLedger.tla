---------------------------- MODULE ReceiveLedger ----------------------------
(***************************************************************************)
(* Inbound delivery accounting of one connection at an endpoint            *)
(* (transport/relayv2/internal/receiveledger).  The caller serializes      *)
(* access and owns the payloads, so the methods are operators on the value *)
(* of a ledger; `Can...` is a method's error check.  A Session token is    *)
(* identified with its wire session, which the relay never reuses.         *)
(***************************************************************************)
EXTENDS Integers, FiniteSets, Sequences, Sums

CONSTANTS
    NSessions,      \* wire sessions 1 .. NSessions
    MaxSessions,    \* Config.MaxSessions
    Capacity,       \* Config.Capacity
    MinEnvelope,    \* minimumEnvelopeBytes
    MaxEnvelope,    \* maximumEnvelopeBytes
    MaxCount,       \* largest cumulative counter (math.MaxUint64)
    None

Sessions == 1 .. NSessions

Dim == {"frames", "encoded_bytes"}

Counts == [Dim -> 0 .. MaxCount]

Zero == [d \in Dim |-> 0]

Add(a, b) == [d \in Dim |-> a[d] + b[d]]

Subtract(a, b) == [d \in Dim |-> a[d] - b[d]]

Size(bytes) == [d \in Dim |-> IF d = "frames" THEN 1 ELSE bytes]

ASSUME ReceiveConfig ==
    /\ NSessions \in Nat /\ MaxSessions \in Nat \ {0} /\ MaxCount \in Nat
    /\ Capacity \in Counts /\ \A d \in Dim : Capacity[d] > 0
    /\ MinEnvelope \in Nat \ {0} /\ MaxEnvelope \in Nat

-----------------------------------------------------------------------------
(* A flow, the receipts its owner keeps with its frames, and the ledger.   *)

Phases == {"active", "retiring", "draining", "settled"}

Flows ==
    [phase : Phases, received : Counts, discarded : Counts, consumedPrefix : Counts,
     completed : Counts, reported : Counts, ackPending : BOOLEAN]

ASSUME NoneIsNoFlow == None \notin Flows

NewFlow ==
    [phase |-> "active", received |-> Zero, discarded |-> Zero, consumedPrefix |-> Zero,
     completed |-> Zero, reported |-> Zero, ackPending |-> FALSE]

Receipts == [before : Counts, after : Counts]

NewLedger ==
    [sessions |-> [s \in Sessions |-> None], order |-> <<>>, cursor |-> 0,
     held |-> Zero, outstanding |-> Zero, pendingConsumed |-> Zero, closed |-> FALSE]

\* check: the connection is open and the token names a retained flow.
Known(l, s) == ~l.closed /\ l.sessions[s] # None

Retained(l) == {s \in Sessions : l.sessions[s] # None}

CanOpen(l, s) ==
    /\ ~l.closed
    /\ l.sessions[s] = None
    /\ Cardinality(Retained(l)) < MaxSessions

Open(l, s) == [l EXCEPT !.sessions[s] = NewFlow, !.order = Append(l.order, s)]

-----------------------------------------------------------------------------
(* Progress.                                                               *)

\* Variant: a flow whose channel is closed accepts nothing more.
CanReceiveActive(l, s, bytes) ==
    /\ Known(l, s)
    /\ l.sessions[s].phase = "active"
    /\ bytes \in MinEnvelope .. MaxEnvelope
    /\ l.sessions[s].received["frames"] < MaxCount
    /\ bytes <= MaxCount - l.sessions[s].received["encoded_bytes"]
    /\ l.outstanding["frames"] # Capacity["frames"]
    /\ bytes <= Capacity["encoded_bytes"] - l.outstanding["encoded_bytes"]

\* Retirement still accepts frames until the settlement notice.
CanReceive(l, s, bytes) ==
    /\ Known(l, s)
    /\ l.sessions[s].phase \in {"active", "retiring"}
    /\ bytes \in MinEnvelope .. MaxEnvelope
    /\ l.sessions[s].received["frames"] < MaxCount
    /\ bytes <= MaxCount - l.sessions[s].received["encoded_bytes"]
    /\ l.outstanding["frames"] # Capacity["frames"]
    /\ bytes <= Capacity["encoded_bytes"] - l.outstanding["encoded_bytes"]

Receipt(l, s, bytes) ==
    [before |-> l.sessions[s].received, after |-> Add(l.sessions[s].received, Size(bytes))]

Receive(l, s, bytes) ==
    [l EXCEPT !.sessions[s].received = Add(l.sessions[s].received, Size(bytes)),
              !.held = Add(l.held, Size(bytes)),
              !.outstanding = Add(l.outstanding, Size(bytes))]

\* Frames are completed in the order of their receipt, and dropped only after
\* retirement.
CanComplete(l, s, receipt, discard) ==
    /\ Known(l, s)
    /\ receipt.before = l.sessions[s].completed
    /\ receipt.after["frames"] > receipt.before["frames"]
    /\ discard => l.sessions[s].phase # "active"

\* ConsumedPrefix stops at the first dropped frame.
Complete(l, s, receipt, discard) ==
    LET size == Subtract(receipt.after, receipt.before)
        f == [l.sessions[s] EXCEPT !.completed = receipt.after]
        released == [l EXCEPT !.held = Subtract(l.held, size)]
    IN  IF discard
        THEN [released EXCEPT !.sessions[s] = [f EXCEPT !.discarded = Add(f.discarded, size)]]
        ELSE IF f.discarded["frames"] = 0
        THEN [released EXCEPT !.sessions[s] = [f EXCEPT !.consumedPrefix = f.completed],
                              !.pendingConsumed = Add(l.pendingConsumed, size)]
        ELSE [released EXCEPT !.sessions[s] = f]

Retire(l, s) ==
    IF Known(l, s) /\ l.sessions[s].phase = "active"
    THEN [l EXCEPT !.sessions[s].phase = "retiring"]
    ELSE l

CanNotice(l, s, total) == Known(l, s) /\ total = l.sessions[s].received

Notice(l, s) ==
    [l EXCEPT !.sessions[s].phase = IF @ = "settled" THEN @ ELSE "draining",
              !.sessions[s].ackPending = TRUE]

-----------------------------------------------------------------------------
(* Feedback.                                                               *)

\* One turn around from the cursor, which counts from 0.
Position(l, k) == ((l.cursor + k) % Len(l.order)) + 1

IndexOf(l, s) == CHOOSE i \in DOMAIN l.order : l.order[i] = s

Reportable(l, s) ==
    /\ l.sessions[s].phase # "settled"
    /\ l.sessions[s].consumedPrefix # l.sessions[s].reported

\* TakeConsumed reports the first flow of the turn that has something to report.
CanTakeConsumed(l, s) ==
    /\ ~l.closed
    /\ l.pendingConsumed["frames"] # 0
    /\ \E k \in 0 .. Len(l.order) - 1 :
          /\ l.order[Position(l, k)] = s
          /\ Reportable(l, s)
          /\ \A j \in 0 .. k - 1 : ~Reportable(l, l.order[Position(l, j)])

TakeConsumed(l, s) ==
    LET f == l.sessions[s]
        delta == Subtract(f.consumedPrefix, f.reported)
    IN  [l EXCEPT !.cursor = IndexOf(l, s) % Len(l.order),
                  !.outstanding = Subtract(l.outstanding, delta),
                  !.pendingConsumed = Subtract(l.pendingConsumed, delta),
                  !.sessions[s].reported = f.consumedPrefix]

CanTakeSettlement(l, s) ==
    /\ Known(l, s)
    /\ l.sessions[s].ackPending
    /\ l.sessions[s].completed = l.sessions[s].received

\* Variant: the settlement refunds the whole prefix, reported or not.
TakeSettlementWhole(l, s) ==
    LET f == l.sessions[s]
    IN  [l EXCEPT !.outstanding = Subtract(l.outstanding, f.received),
                  !.pendingConsumed =
                      Subtract(l.pendingConsumed, Subtract(f.consumedPrefix, f.reported)),
                  !.sessions[s] = [f EXCEPT !.phase = "settled", !.ackPending = FALSE]]

\* Only what no consumption has reported is refunded, and only once.
TakeSettlement(l, s) ==
    LET f == l.sessions[s]
        settled == [l EXCEPT !.sessions[s] = [f EXCEPT !.phase = "settled", !.ackPending = FALSE]]
    IN  IF f.phase = "settled" THEN settled
        ELSE [settled EXCEPT !.outstanding =
                                 Subtract(l.outstanding, Subtract(f.received, f.reported)),
                             !.pendingConsumed =
                                 Subtract(l.pendingConsumed,
                                          Subtract(f.consumedPrefix, f.reported))]

CanForget(l, s) ==
    Known(l, s) /\ l.sessions[s].phase = "settled" /\ ~l.sessions[s].ackPending

\* The cursor stays on the flow it was about to look at.
Forget(l, s) ==
    LET index == IndexOf(l, s)
        order == [i \in 1 .. Len(l.order) - 1 |->
                     IF i < index THEN l.order[i] ELSE l.order[i + 1]]
        cursor == IF l.cursor >= index THEN l.cursor - 1 ELSE l.cursor
    IN  [l EXCEPT !.sessions[s] = None, !.order = order,
                  !.cursor = IF cursor >= Len(order) THEN 0 ELSE cursor]

Close(l) == [l EXCEPT !.closed = TRUE]

=============================================================================
