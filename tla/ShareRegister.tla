--------------------------- MODULE ShareRegister ---------------------------
(***************************************************************************)
(* What the relay promises of one share, whoever hosts its actor and       *)
(* however often that actor is lost: one durable record, which moves       *)
(* through a fixed life cycle; a route that is served on the strength of   *)
(* that record and is withdrawn before the record moves on; and STOPPED    *)
(* answers that only ever name the final record.  ShareAuthority           *)
(* implements it.                                                          *)
(***************************************************************************)
EXTENDS Integers

CONSTANTS
    Connections,    \* connection lifetimes of the share's senders
    Registrations,  \* registrations they may hold
    StopIds,        \* STOP identities
    Instants,       \* deadlines of a grace period
    NoConnection    \* nobody

VARIABLES
    clock,          \* the host's clock
    record,         \* the durable record
    serving,        \* the owner JOIN is routed to, or nobody
    seen,           \* the ownership each resuming sender was challenged over
    acknowledged    \* STOPPED answers

shareVars == <<clock, record, serving, seen, acknowledged>>

None == [owner |-> NoConnection, epoch |-> 0]

Vacancy == [phase |-> "Vacant"]

Held(c, n, reg) == [phase |-> "Held", owner |-> c, epoch |-> n, reg |-> reg]

Lost(r, t) ==
    [phase |-> "Lost", owner |-> r.owner, epoch |-> r.epoch, reg |-> r.reg, until |-> t]

Ending(reg, stop) == [phase |-> "Ending", reg |-> reg, stop |-> stop]

Ended(reg, stop) == [phase |-> "Ended", reg |-> reg, stop |-> stop]

Possessed == record.phase \in {"Held", "Lost"}

Init ==
    /\ clock = 0
    /\ record = Vacancy
    /\ serving = NoConnection
    /\ seen = [c \in Connections |-> None]
    /\ acknowledged = {}

-----------------------------------------------------------------------------
\* The record moves only while nobody is served on it.
Moves(next) ==
    /\ serving = NoConnection
    /\ record' = next
    /\ UNCHANGED <<clock, serving, seen, acknowledged>>

Claim(c, reg) == record = Vacancy /\ Moves(Held(c, 1, reg))

\* Only the sender that was challenged over this very ownership takes it over.
TakeOver(c) ==
    /\ Possessed
    /\ seen[c] = [owner |-> record.owner, epoch |-> record.epoch]
    /\ Moves(Held(c, record.epoch + 1, record.reg))

Lose(t) == record.phase = "Held" /\ Moves(Lost(record, t))

Lapsed == record.phase = "Lost" /\ record.until =< clock

Lapse == Lapsed /\ Moves(Vacancy)

\* STOP fences the registration it names, a vacant share, or one that has lapsed.
BeginEnd(reg, stop) ==
    /\ record = Vacancy \/ Lapsed \/ (Possessed /\ record.reg = reg)
    /\ Moves(Ending(reg, stop))

CommitEnd == record.phase = "Ending" /\ Moves(Ended(record.reg, record.stop))

Serve ==
    /\ record.phase = "Held"
    /\ serving' = record.owner
    /\ UNCHANGED <<clock, record, seen, acknowledged>>

Withdraw ==
    /\ serving' = NoConnection
    /\ UNCHANGED <<clock, record, seen, acknowledged>>

\* A sender is challenged once, over whatever the actor then believes.
Challenge(c) ==
    /\ seen[c] = None
    /\ seen'[c] \in [owner : Connections, epoch : Nat]
    /\ seen' = [seen EXCEPT ![c] = seen'[c]]
    /\ UNCHANGED <<clock, record, serving, acknowledged>>

Acknowledge(c) ==
    /\ record.phase = "Ended"
    /\ acknowledged' = acknowledged \cup {[to |-> c, reg |-> record.reg, stop |-> record.stop]}
    /\ UNCHANGED <<clock, record, serving, seen>>

Tick ==
    /\ clock' > clock
    /\ UNCHANGED <<record, serving, seen, acknowledged>>

RecordMoves ==
    \/ \E c \in Connections : TakeOver(c) \/ \E reg \in Registrations : Claim(c, reg)
    \/ \E t \in Instants : Lose(t)
    \/ Lapse
    \/ \E reg \in Registrations, stop \in StopIds : BeginEnd(reg, stop)
    \/ CommitEnd

Next ==
    \/ Tick
    \/ record' # record /\ RecordMoves
    \/ serving' # serving /\ (Serve \/ Withdraw)
    \/ \E c \in Connections : Challenge(c) \/ Acknowledge(c)

Spec == Init /\ [][Next]_shareVars

=============================================================================
