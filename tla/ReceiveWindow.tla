---------------------------- MODULE ReceiveWindow ----------------------------
(***************************************************************************)
(* The receive buffer of one endpoint connection (transport/relayv2        *)
(* receive_window.go, with the parts of link.go and channel.go that drive  *)
(* it).  A step is one critical section of its mutex, or what a goroutine  *)
(* does between two: the socket's reader, a worker per flow that hands     *)
(* frames to the application, and the connection's ordered writer.         *)
(* Frames are their receipts; `discard` stands for the flag and for the    *)
(* closed channel `abort`, which change together.                          *)
(***************************************************************************)
EXTENDS ReceiveLedger

VARIABLES
    ledger,     \* receiveBuffer.ledger
    flows,      \* the receiveFlow of each session, once opened
    closed,     \* receiveBuffer.closed
    writer      \* writeLoop will look again: not asleep, or a token is in writeWake

windowVars == <<ledger, flows, closed, writer>>

\* worker: at the top of run's loop or asleep ("idle"), "handing" a frame to the
\* application, "completing" it, "disposed" before done is closed, "done". An idle
\* worker will look at its flow (`wake`) if it is not asleep or f.wake has a token.
NewReceiveFlow ==
    [queue |-> <<>>, frame |-> None, drop |-> FALSE, worker |-> "idle", wake |-> TRUE,
     discard |-> FALSE, sealed |-> FALSE, forgotten |-> FALSE]

\* wakeReceive; a worker that is gone leaves the token unread.
Wakened(f) == [f EXCEPT !.wake = f.worker \notin {"disposed", "done"}]

Opened(s) == flows[s] # None

\* r.flows[f.id] == f
Registered(s) == Opened(s) /\ ~flows[s].forgotten

Disposed(s) == flows[s].worker \in {"disposed", "done"}

WindowInit ==
    /\ ledger = NewLedger
    /\ flows = [s \in Sessions |-> None]
    /\ closed = FALSE
    /\ writer = TRUE

-----------------------------------------------------------------------------
(* The reader and the owners of channels.                                  *)

OpenFlow(s) ==
    /\ ~Opened(s)
    /\ CanOpen(ledger, s)
    /\ ledger' = Open(ledger, s)
    /\ flows' = [flows EXCEPT ![s] = NewReceiveFlow]
    /\ UNCHANGED <<closed, writer>>

\* Variant: late frames of a disposed flow are dropped without a receipt.
ReceiveFrameUncounted(s, bytes) ==
    /\ Opened(s)
    /\ CanReceive(ledger, s, bytes)
    /\ \/ /\ Disposed(s)
          /\ UNCHANGED <<ledger, flows>>
       \/ /\ ~Disposed(s)
          /\ ledger' = Receive(ledger, s, bytes)
          /\ flows' = [flows EXCEPT ![s].queue = Append(@, Receipt(ledger, s, bytes)),
                                    ![s].wake = TRUE]
    /\ UNCHANGED <<closed, writer>>

\* A disposed flow has no worker any more: its late frames are dropped at once.
ReceiveFrame(s, bytes) ==
    /\ Opened(s)
    /\ CanReceive(ledger, s, bytes)
    /\ LET receipt == Receipt(ledger, s, bytes)
           received == Receive(ledger, s, bytes)
       IN  \/ /\ Disposed(s)
              /\ CanComplete(received, s, receipt, TRUE)
              /\ ledger' = Complete(received, s, receipt, TRUE)
              /\ flows' = flows
           \/ /\ ~Disposed(s)
              /\ ledger' = received
              /\ flows' = [flows EXCEPT ![s].queue = Append(@, receipt), ![s].wake = TRUE]
    /\ UNCHANGED <<closed, writer>>

\* retire: graceful retirement keeps what was accepted, the owner's release
\* aborts the hand-off and drops it.
RetireFlow(s, discard) ==
    /\ Opened(s)
    /\ ledger' = IF ~closed /\ Registered(s) THEN Retire(ledger, s) ELSE ledger
    /\ flows' = [flows EXCEPT
                    ![s] = Wakened([flows[s] EXCEPT !.sealed = TRUE, !.discard = @ \/ discard])]
    /\ UNCHANGED <<closed, writer>>

\* A notice of a flow already acknowledged and forgotten is ignored.
NoticeFlow(s, total) ==
    /\ \/ /\ Registered(s)
          /\ CanNotice(ledger, s, total)
          /\ ledger' = Notice(ledger, s)
          /\ flows' = [flows EXCEPT ![s] = Wakened([@ EXCEPT !.sealed = TRUE])]
          /\ writer' = TRUE
       \/ /\ ~Registered(s)
          /\ UNCHANGED <<ledger, flows, writer>>
    /\ closed' = closed

\* Variant: a window that is closed already is left alone.
CloseWindowOnce(discard) ==
    /\ closed' = TRUE
    /\ ledger' = Close(ledger)
    /\ flows' = [s \in Sessions |->
                    IF ~closed /\ Registered(s)
                    THEN Wakened([flows[s] EXCEPT !.sealed = TRUE, !.discard = @ \/ discard])
                    ELSE flows[s]]
    /\ writer' = writer

\* close: the failure of a connection leaves accepted frames to be handed over;
\* the owner's close drops them, even after a failure.
CloseWindow(discard) ==
    /\ closed' = TRUE
    /\ ledger' = Close(ledger)
    /\ flows' = [s \in Sessions |->
                    IF Registered(s)
                    THEN Wakened([flows[s] EXCEPT !.sealed = TRUE, !.discard = @ \/ discard])
                    ELSE flows[s]]
    /\ writer' = writer

-----------------------------------------------------------------------------
(* The worker of a flow: run.                                              *)

\* Under the lock: take the next frame, end, or go to sleep.
WorkerTakes(s) ==
    /\ Opened(s) /\ flows[s].worker = "idle" /\ flows[s].wake /\ flows[s].queue # <<>>
    /\ flows' = [flows EXCEPT
                    ![s].queue = Tail(@), ![s].frame = Head(flows[s].queue),
                    ![s].drop = flows[s].discard,
                    ![s].worker = IF flows[s].discard THEN "completing" ELSE "handing"]
    /\ UNCHANGED <<ledger, closed, writer>>

WorkerRests(s) ==
    /\ Opened(s) /\ flows[s].worker = "idle" /\ flows[s].wake /\ flows[s].queue = <<>>
    /\ flows' = [flows EXCEPT ![s].worker = IF flows[s].sealed THEN "disposed" ELSE "idle",
                              ![s].wake = FALSE]
    /\ UNCHANGED <<ledger, closed, writer>>

\* select: the application takes the frame, or the hand-off is aborted.
WorkerHands(s) ==
    /\ Opened(s) /\ flows[s].worker = "handing"
    /\ flows' = [flows EXCEPT ![s].worker = "completing", ![s].drop = FALSE]
    /\ UNCHANGED <<ledger, closed, writer>>

WorkerAborts(s) ==
    /\ Opened(s) /\ flows[s].worker = "handing" /\ flows[s].discard
    /\ flows' = [flows EXCEPT ![s].worker = "completing", ![s].drop = TRUE]
    /\ UNCHANGED <<ledger, closed, writer>>

\* The ledger is told, unless it is closed. That it refuses a completion, which
\* would fail the link, is excluded by NeitherRefuses of Delivery.
WorkerCompletes(s) ==
    /\ Opened(s) /\ flows[s].worker = "completing"
    /\ \/ /\ closed
          /\ ledger' = ledger
       \/ /\ ~closed
          /\ CanComplete(ledger, s, flows[s].frame, flows[s].drop)
          /\ ledger' = Complete(ledger, s, flows[s].frame, flows[s].drop)
    /\ flows' = [flows EXCEPT ![s].worker = "idle", ![s].wake = TRUE,
                              ![s].frame = None, ![s].drop = FALSE]
    /\ writer' = TRUE
    /\ closed' = closed

\* Variant: the writer is woken before done is closed, and not after it.
WorkerEndsSilently(s) ==
    /\ Opened(s) /\ flows[s].worker = "disposed"
    /\ flows' = [flows EXCEPT ![s].worker = "done"]
    /\ UNCHANGED <<ledger, closed, writer>>

\* The deferred calls: done is closed, then the writer is woken.
WorkerEnds(s) ==
    /\ Opened(s) /\ flows[s].worker = "disposed"
    /\ flows' = [flows EXCEPT ![s].worker = "done"]
    /\ writer' = TRUE
    /\ UNCHANGED <<ledger, closed>>

-----------------------------------------------------------------------------
(* The ordered writer: one feedback per turn of writeLoop.                 *)

\* take looks at the flows in any order (a Go map).
Settleable(s) ==
    /\ Registered(s)
    /\ flows[s].worker = "done"
    /\ CanTakeSettlement(ledger, s)

TakeFinal(s) ==
    /\ writer /\ ~closed
    /\ Settleable(s)
    /\ LET settled == TakeSettlement(ledger, s)
       IN  CanForget(settled, s) /\ ledger' = Forget(settled, s)
    /\ flows' = [flows EXCEPT ![s].forgotten = TRUE]
    /\ UNCHANGED <<closed, writer>>

NoneSettleable == \A s \in Retained(ledger) : ~Settleable(s)

TakePrefix(s) ==
    /\ writer /\ ~closed
    /\ NoneSettleable
    /\ s \in Retained(ledger)
    /\ CanTakeConsumed(ledger, s)
    /\ ledger' = TakeConsumed(ledger, s)
    /\ UNCHANGED <<flows, closed, writer>>

\* Nothing to take: wait for a wake. take returns nothing once closed.
WriterRests ==
    /\ writer
    /\ closed \/ (NoneSettleable /\ \A s \in Retained(ledger) : ~CanTakeConsumed(ledger, s))
    /\ writer' = FALSE
    /\ UNCHANGED <<ledger, flows, closed>>

Worker(s) ==
    \/ WorkerTakes(s) \/ WorkerRests(s) \/ WorkerHands(s) \/ WorkerAborts(s)
    \/ WorkerCompletes(s) \/ WorkerEnds(s)

WindowNext ==
    \/ \E s \in Sessions :
        \/ OpenFlow(s)
        \/ \E bytes \in MinEnvelope .. MaxEnvelope : ReceiveFrame(s, bytes)
        \/ \E discard \in BOOLEAN : RetireFlow(s, discard)
        \/ \E total \in Counts : NoticeFlow(s, total)
        \/ Worker(s)
        \/ TakeFinal(s) \/ TakePrefix(s)
    \/ WriterRests
    \/ \E discard \in BOOLEAN : CloseWindow(discard)

WindowSpec == WindowInit /\ [][WindowNext]_windowVars

-----------------------------------------------------------------------------
(* Properties.                                                             *)

\* What a flow still owes to each counter of the connection.
Owed(f) ==
    IF f = None \/ f.phase = "settled" THEN Zero ELSE Subtract(f.received, f.reported)

Unreported(f) ==
    IF f = None \/ f.phase = "settled" THEN Zero ELSE Subtract(f.consumedPrefix, f.reported)

Buffered(f) == IF f = None THEN Zero ELSE Subtract(f.received, f.completed)

Exact(l) ==
    \A d \in Dim :
        /\ l.outstanding[d] = Sum([s \in Sessions |-> Owed(l.sessions[s])[d]], NSessions)
        /\ l.pendingConsumed[d] = Sum([s \in Sessions |-> Unreported(l.sessions[s])[d]], NSessions)
        /\ l.held[d] = Sum([s \in Sessions |-> Buffered(l.sessions[s])[d]], NSessions)
        /\ l.outstanding[d] <= Capacity[d]

\* The connection's counters, each maintained step by step, are sums over the
\* flows the ledger retains: capacity taken by a frame returns exactly once, with
\* the report of its consumption or with the settlement of its flow, and the
\* declared capacity is never exceeded.
UsageExact == Exact(ledger)

=============================================================================
