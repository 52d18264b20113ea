------------------------------ MODULE Delivery ------------------------------
(***************************************************************************)
(* One connection between the relay and an endpoint, and the flows that    *)
(* deliver frames over it: the relay's ConnectionLedger and the endpoint's *)
(* ReceiveWindow, joined by the two directions of an ordered socket.       *)
(* `down` carries the credit that opens a session's channel, frames and    *)
(* settlement notices; `up` carries cumulative consumption and settlement  *)
(* acknowledgements.  The relay's clock stands still: its deadlines are    *)
(* the subject of ConnectionLedger.                                        *)
(***************************************************************************)
EXTENDS ReceiveWindow

CONSTANTS
    MaxFlows, Total, StartupReserve, StartupGrant, SettlementTimeout, Credits,
    MaxTime,        \* of ConnectionLedger
    MaxNotices,     \* bound on the notices on their way, which cleanup may repeat
    Events          \* what may interrupt: "failure", "close"

VARIABLES
    receiveCapacity, entries, usage, startupUsed, state, closeRequest,
    nextExpiration, checkpointChanged, issued, receipts, retired,   \* the relay's
    down, up,       \* messages on their way
    reading,        \* "message", or "notice": the reader is between its two steps
    link            \* lifecycle, retirement, and what the owner's Close came to

relayVars == <<receiveCapacity, entries, usage, startupUsed, state, closeRequest,
               nextExpiration, checkpointChanged, issued, receipts, retired>>
socketVars == <<down, up, reading, link>>
vars == <<windowVars, relayVars, socketVars>>

Relay == INSTANCE ConnectionLedger WITH Capacities <- {Capacity}

Message(kind, s, counts) == [kind |-> kind, session |-> s, counts |-> counts]

Init ==
    /\ WindowInit
    /\ Relay!Init
    /\ down = <<>>
    /\ up = <<>>
    /\ reading = "message"
    /\ link = [lifecycle |-> "open", natural |-> FALSE, owner |-> "holds"]

-----------------------------------------------------------------------------
(* The relay.  It knows the connection until it has seen the socket close. *)

\* The endpoint declares its capacity when it is admitted.
RelayAdmits ==
    /\ Relay!DeclareCapacity(Capacity, 0)
    /\ UNCHANGED <<windowVars, socketVars>>

\* The initial credit for the opposite direction announces the session.
RelayOpens(s) ==
    /\ Relay!Open(s, 0)
    /\ down' = Append(down, Message("credit", s, Zero))
    /\ UNCHANGED <<windowVars, up, reading, link>>

\* The source is granted credit, or sends a frame.
RelayAccepts(s) ==
    /\ \/ \E credit \in Credits : Relay!Grant(s, credit, 0)
       \/ \E bytes \in MinEnvelope .. MaxEnvelope : Relay!Receive(s, bytes, 0)
    /\ UNCHANGED <<windowVars, socketVars>>

\* The frame is charged at the hand-off to the socket's writer.
RelaySubmits(s) ==
    /\ \E ordinal \in Relay!Ordinals :
          /\ Relay!Submit(s, ordinal, 0)
          /\ down' = Append(down, Message("frame", s, Size(receipts[s][ordinal])))
    /\ UNCHANGED <<windowVars, up, reading, link>>

RelayRetires(s) ==
    /\ s \notin retired /\ Relay!Holds(s)
    /\ Relay!Retire(s, 0)
    /\ UNCHANGED <<windowVars, socketVars>>

Notices == {i \in DOMAIN down : down[i].kind = "notice"}

\* The host dropped what it had not submitted. The notice follows all frames, and
\* is sent even when nothing remains to be settled.
RelayDiscards(s) ==
    /\ Cardinality(Notices) < MaxNotices
    /\ s \in retired /\ Relay!Holds(s)
    /\ Relay!Discarded(s, 0)
    /\ down' = Append(down, Message("notice", s, Relay!EntryOf(s).submitted))
    /\ UNCHANGED <<windowVars, up, reading, link>>

Repeats(s, total) == Relay!Covers(Relay!EntryOf(s).consumed, total)

\* Feedback for a flow that is gone, or that repeats what is known, is ignored.
RelayReads ==
    /\ up # <<>> /\ state # "closed"
    /\ LET m == Head(up)
           s == m.session
       IN  \/ m.kind = "consumed" /\ Relay!Consume(s, m.counts, 0)
           \/ m.kind = "settled" /\ Relay!Settle(s, m.counts, 0)
           \/ /\ ~Relay!Holds(s) \/ (m.kind = "consumed" /\ Repeats(s, m.counts))
              /\ UNCHANGED relayVars
    /\ up' = Tail(up)
    /\ UNCHANGED <<windowVars, down, reading, link>>

\* The socket is closed by either side, or broke. A relay that sees this before
\* the endpoint does is to the endpoint an idle one.
RelayConfirmsClosed ==
    /\ link.lifecycle # "open"
    /\ Relay!ConfirmClosed
    /\ up' = <<>>
    /\ UNCHANGED <<windowVars, down, reading, link>>

-----------------------------------------------------------------------------
(* The endpoint's reader takes one message; it ends with the first it cannot. *)

ReaderOpens ==
    /\ down # <<>> /\ Head(down).kind = "credit"
    /\ link.lifecycle = "open"
    /\ OpenFlow(Head(down).session)
    /\ down' = Tail(down)
    /\ UNCHANGED <<relayVars, up, reading, link>>

ReaderReceives ==
    /\ down # <<>> /\ Head(down).kind = "frame"
    /\ ReceiveFrame(Head(down).session, Head(down).counts["encoded_bytes"])
    /\ down' = Tail(down)
    /\ UNCHANGED <<relayVars, up, reading, link>>

\* A notice first retires the channel gracefully.
ReaderRetires ==
    /\ down # <<>> /\ Head(down).kind = "notice" /\ ~closed
    /\ reading = "message"
    /\ RetireFlow(Head(down).session, FALSE)
    /\ reading' = "notice"
    /\ UNCHANGED <<relayVars, down, up, link>>

\* The first step is missing where the channel is closed already, or defers its
\* retirement until a terminal frame is sent.
ReaderNotices ==
    /\ down # <<>> /\ Head(down).kind = "notice" /\ ~closed
    /\ NoticeFlow(Head(down).session, Head(down).counts)
    /\ down' = Tail(down)
    /\ reading' = "message"
    /\ UNCHANGED <<relayVars, up, link>>

-----------------------------------------------------------------------------
(* The endpoint's workers, its writer and the owners of channels.          *)

\* The application closes the channel, or its terminal frame is sent.
ChannelCloses(s) ==
    /\ Opened(s) /\ ~flows[s].discard /\ ~Disposed(s)
    /\ RetireFlow(s, TRUE)
    /\ UNCHANGED <<relayVars, socketVars>>

WorkerSteps(s) ==
    /\ Worker(s)
    /\ UNCHANGED <<relayVars, socketVars>>

Sent(m) == IF state = "closed" THEN up ELSE Append(up, m)

WriterAcknowledges(s) ==
    /\ TakeFinal(s)
    /\ up' = Sent(Message("settled", s, ledger.sessions[s].received))
    /\ UNCHANGED <<relayVars, down, reading, link>>

WriterReports(s) ==
    /\ TakePrefix(s)
    /\ up' = Sent(Message("consumed", s, ledger.sessions[s].consumedPrefix))
    /\ UNCHANGED <<relayVars, down, reading, link>>

WriterTurns ==
    /\ link.lifecycle # "closed"
    /\ WriterRests
    /\ UNCHANGED <<relayVars, socketVars>>

-----------------------------------------------------------------------------
(* stop: a failure, or the owner's Close.                                  *)

\* The socket, the heartbeat or the protocol fails first.
LinkFails ==
    /\ "failure" \in Events
    /\ link.lifecycle = "open"
    /\ link' = [link EXCEPT !.lifecycle = "retiring", !.natural = FALSE]
    /\ UNCHANGED <<windowVars, relayVars, down, up, reading>>

\* The owner closes first.
OwnerCloses ==
    /\ "close" \in Events
    /\ link.lifecycle = "open"
    /\ link' = [lifecycle |-> "retiring", natural |-> TRUE, owner |-> "joins"]
    /\ UNCHANGED <<windowVars, relayVars, down, up, reading>>

\* The owner closes while another stop is under way: nothing is left to do here.
OwnerReturns ==
    /\ "close" \in Events
    /\ link.lifecycle = "retiring" /\ link.owner = "holds"
    /\ link' = [link EXCEPT !.owner = "returned"]
    /\ UNCHANGED <<windowVars, relayVars, down, up, reading>>

\* The owner closes after a failure has run its course.
OwnerReleases ==
    /\ "close" \in Events
    /\ link.lifecycle = "closed" /\ link.owner # "joins"
    /\ CloseWindow(TRUE)
    /\ link' = [link EXCEPT !.owner = "joins"]
    /\ UNCHANGED <<relayVars, down, up, reading>>

\* Every channel is retired, one after the other, as the cause demands; ...
StopRetires(s) ==
    /\ link.lifecycle = "retiring" /\ ~closed
    /\ Opened(s) /\ ~flows[s].sealed
    /\ RetireFlow(s, link.natural)
    /\ UNCHANGED <<relayVars, socketVars>>

\* ... then the window is closed, which after the owner's close joins every
\* worker, and the socket with it.
StopCloses ==
    /\ link.lifecycle = "retiring" /\ ~closed
    /\ \A s \in Sessions : Opened(s) => flows[s].sealed
    /\ CloseWindow(link.natural)
    /\ UNCHANGED <<relayVars, socketVars>>

StopEnds ==
    /\ link.lifecycle = "retiring" /\ closed
    /\ link.natural => \A s \in Sessions : Registered(s) => flows[s].worker = "done"
    /\ link' = [link EXCEPT !.lifecycle = "closed"]
    /\ down' = <<>>
    /\ reading' = "message"
    /\ UNCHANGED <<windowVars, relayVars, up>>

-----------------------------------------------------------------------------
Reader == ReaderOpens \/ ReaderReceives \/ ReaderRetires \/ ReaderNotices

Writer == WriterTurns \/ \E s \in Sessions : WriterAcknowledges(s) \/ WriterReports(s)

Stop == StopCloses \/ StopEnds \/ \E s \in Sessions : StopRetires(s)

Next ==
    \/ RelayAdmits
    \/ \E s \in Sessions :
        \/ RelayOpens(s) \/ RelayAccepts(s) \/ RelaySubmits(s) \/ RelayRetires(s)
        \/ RelayDiscards(s) \/ ChannelCloses(s) \/ WorkerSteps(s)
    \/ RelayReads \/ RelayConfirmsClosed
    \/ Reader \/ Writer
    \/ LinkFails \/ OwnerCloses \/ OwnerReturns \/ OwnerReleases \/ Stop

Spec == Init /\ [][Next]_vars

-----------------------------------------------------------------------------
(* Properties.                                                             *)

Acceptable(s, total) ==
    /\ Relay!Covers(total, Relay!EntryOf(s).consumed)
    /\ Relay!Covers(Relay!EntryOf(s).submitted, total)
    /\ Relay!IsEnvelopeBatch(Subtract(total, Relay!EntryOf(s).consumed))
    /\ Relay!IsEnvelopeBatch(Subtract(Relay!EntryOf(s).submitted, total))

\* A message the peer sent is one its reader accepts: the relay never sends a
\* frame the endpoint has no room or no flow for, and the endpoint never reports
\* a prefix or a total the relay refuses. Either refusal would close a healthy
\* connection.
NeitherRefuses ==
    /\ (down # <<>> /\ ~closed /\ link.lifecycle = "open") =>
           LET m == Head(down)
               s == m.session
           IN  /\ m.kind = "credit" => ~Opened(s) /\ CanOpen(ledger, s)
               /\ m.kind = "frame" => Opened(s) /\ CanReceive(ledger, s, m.counts["encoded_bytes"])
               /\ (m.kind = "notice" /\ Registered(s)) => CanNotice(ledger, s, m.counts)
    /\ (up # <<>> /\ state # "closed") =>
           LET m == Head(up)
               s == m.session
           IN  Relay!Holds(s) =>
                   IF m.kind = "consumed"
                   THEN Repeats(s, m.counts) \/ Acceptable(s, m.counts)
                   ELSE /\ Relay!EntryOf(s).phase = "settling"
                        /\ m.counts = Relay!EntryOf(s).submitted
    /\ \A s \in Sessions :
           (~closed /\ Opened(s) /\ flows[s].worker = "completing") =>
               CanComplete(ledger, s, flows[s].frame, flows[s].drop)

InFlight(s) == {i \in DOMAIN down : down[i].kind = "frame" /\ down[i].session = s}

Totals(s) == {up[i].counts : i \in {j \in DOMAIN up : up[j].session = s}}

\* What one side charges the other accounts for: a frame the relay submitted is
\* on its way or received, never both or neither, and the prefix the endpoint
\* has reported is the relay's or the last of the totals on their way to it.
Conserved ==
    (state # "closed" /\ ~closed) =>
        \A s \in Sessions : (Relay!Holds(s) /\ ledger.sessions[s] # None) =>
            LET relay == Relay!EntryOf(s)
                own == ledger.sessions[s]
            IN  /\ relay.submitted["frames"] = own.received["frames"] + Cardinality(InFlight(s))
                /\ own.reported \in Totals(s) \cup {relay.consumed}
                /\ \A total \in Totals(s) \cup {relay.consumed} :
                       Relay!Covers(own.reported, total)

Acknowledged(s) == \E i \in DOMAIN up : up[i].kind = "settled" /\ up[i].session = s

Noticed(s) == \E i \in Notices : down[i].session = s

\* The worker has something to do, or a frame to offer to the application.
Moves(s) == flows[s].worker # "done" /\ (flows[s].worker = "idle" => flows[s].wake)

\* A retired flow the relay still charges is always being settled: its notice is
\* on its way, or a worker or the writer has yet to look at it, or the answer is
\* on its way. No wake-up is lost between reader, worker and writer, and so each
\* such flow settles if the application takes its frames or closes its channel.
SettlementCarried ==
    \A s \in Sessions :
        (/\ Relay!Holds(s) /\ Relay!EntryOf(s).phase = "settling"
         /\ link.lifecycle = "open") =>
            \/ Noticed(s) \/ Acknowledged(s)
            \/ ledger.sessions[s] # None /\ ledger.sessions[s].ackPending /\ (Moves(s) \/ writer)

\* A Close that joins the workers leaves none waiting for the application, whether
\* it stops the link itself or comes after a failure: every worker that is not
\* done can go on by itself.
ClosedWorkersEnd ==
    (closed /\ link.owner = "joins") =>
        \A s \in Sessions : Opened(s) =>
            /\ flows[s].worker = "idle" => flows[s].wake
            /\ flows[s].worker = "handing" => flows[s].discard

=============================================================================
