----------------------------- MODULE TurnCapacity -----------------------------
(***************************************************************************)
(* Admission of TURN paths to one process (connectivity/turncapacity).  A  *)
(* call of Owner.Acquire queues, is answered with a Reservation or an      *)
(* error, and its reservation is claimed, starts and releases routes, and  *)
(* is closed.  A renewal names the path it replaces: the two reservations  *)
(* then share the larger of their socket counts until one of them closes.  *)
(*                                                                         *)
(* Every method runs under the pool's lock and is one step.  A method that *)
(* returns an error or false without touching the pool is a stuttering     *)
(* step.  A call whose context ends after its answer closes the lease it   *)
(* was given, which is `Close` of a reservation not yet claimed.           *)
(***************************************************************************)
EXTENDS Integers, FiniteSets, SequencesExt

CONSTANTS
    Calls,                      \* calls of Owner.Acquire
    Requests,                   \* the requests they make
    None,                       \* no predecessor, no successor, nothing replaced
    MaximumConnections,
    MaximumSockets,
    MaximumPathSockets,
    MaximumHandoffEndpoints,
    MaximumQueuedRequests

VARIABLES
    res,        \* per call, the request and the reservation it got
    queue,      \* Pool.queue
    pool        \* Pool.connections, Pool.sockets and Pool.replacements

vars == <<res, queue, pool>>

\* What acquire accepts: everything else returns before the lock is taken.
ASSUME RequestsAssumption ==
    \A r \in Requests : /\ DOMAIN r = {"owner", "session", "path", "replaces", "service", "sockets"}
                        /\ r.path # None /\ r.path # r.replaces
                        /\ r.sockets \in 1 .. MaximumPathSockets

\* The life of a call: its reservation is in Pool.paths while Live.
States == {"New", "Queued", "Refused", "Withdrawn", "Reserved", "Claimed", "Closed"}

Live == {"Reserved", "Claimed"}

\* The reservation of a call.  `sockets` is request.Sockets, which routes change;
\* `routes` counts the release functions handed out and not yet called.
NoReservation == [state |-> "New", request |-> None, sockets |-> 0, unstarted |-> 0,
                  routes |-> 0, predecessor |-> None, successor |-> None]

\* Nothing reads a reservation's request and links any more once it has ended.
Ended(state, routes) == [NoReservation EXCEPT !.state = state, !.routes = routes]

\* All of the pool, as the operators below pass it along.
Whole == [res |-> res, queue |-> queue, connections |-> pool.connections,
          sockets |-> pool.sockets, replacements |-> pool.replacements]

Become(p) ==
    /\ res' = p.res
    /\ queue' = p.queue
    /\ pool' = [connections |-> p.connections, sockets |-> p.sockets, replacements |-> p.replacements]

Paths(p) == {c \in Calls : p.res[c].state \in Live}

-----------------------------------------------------------------------------
(* Admission.                                                              *)

\* Whoever holds the path the request names: the key is the owner, the session
\* and the path.
Holders(p, r, path) ==
    {c \in Paths(p) : /\ p.res[c].request.owner = r.owner
                      /\ p.res[c].request.session = r.session
                      /\ p.res[c].request.path = path}

Predecessors(p, r) == Holders(p, r, r.replaces)

\* tryAcquireLocked returns ErrReservation.
Refused(p, r) ==
    \/ Holders(p, r, r.path) # {}
    \/ \E old \in Predecessors(p, r) : p.res[old].request.service # r.service

SameHandoff(r, s) ==
    /\ r.session = s.session
    /\ r.path = s.path
    /\ r.replaces = s.replaces
    /\ r.service = s.service

\* Variant: any two handoffs may overlap.
HandoffAvailableToAny(p, r) == p.replacements < MaximumHandoffEndpoints

\* Only the other endpoint of the handoff in progress may join it.
HandoffAvailable(p, r) ==
    \/ p.replacements = 0
    \/ /\ p.replacements < MaximumHandoffEndpoints
       /\ \A c \in Paths(p) : p.res[c].predecessor # None => SameHandoff(p.res[c].request, r)

Growth(p, r, old) == IF r.sockets > p.res[old].sockets THEN r.sockets - p.res[old].sockets ELSE 0

Replaceable(p, r, old) ==
    /\ p.res[old].state = "Claimed"
    /\ p.res[old].predecessor = None
    /\ p.res[old].successor = None
    /\ HandoffAvailable(p, r)
    /\ p.sockets + Growth(p, r, old) =< MaximumSockets

Admissible(p, r) ==
    /\ ~Refused(p, r)
    /\ \/ /\ Predecessors(p, r) = {}
          /\ p.connections < MaximumConnections
          /\ p.sockets + r.sockets =< MaximumSockets
       \/ \E old \in Predecessors(p, r) : Replaceable(p, r, old)

Reserve(p, c) ==
    LET r == p.res[c].request
    IN  [p EXCEPT !.res[c].state = "Reserved", !.res[c].sockets = r.sockets,
                  !.res[c].unstarted = r.sockets]

Ordinary(p, c) ==
    [Reserve(p, c) EXCEPT !.connections = @ + 1, !.sockets = @ + p.res[c].request.sockets]

Replacement(p, c, old) ==
    [Reserve(p, c) EXCEPT !.sockets = @ + Growth(p, p.res[c].request, old),
                          !.replacements = @ + 1,
                          !.res[c].predecessor = old,
                          !.res[old].successor = c]

Grant(p, c) ==
    LET olds == Predecessors(p, p.res[c].request)
    IN  IF olds = {} THEN Ordinary(p, c) ELSE Replacement(p, c, CHOOSE old \in olds : TRUE)

\* One turn of drainLocked's loop.
Answer(p, c) ==
    LET answered == [p EXCEPT !.queue = Remove(@, c)]
    IN  CASE Refused(p, p.res[c].request) -> [answered EXCEPT !.res[c] = Ended("Refused", 0)]
          [] Admissible(p, p.res[c].request) -> Grant(answered, c)
          [] OTHER -> p

\* drainLocked passes once over the queue, and over a request that must still
\* wait, to the ones behind it.
Drain(p) == FoldLeft(Answer, p, p.queue)

-----------------------------------------------------------------------------
(* The methods.                                                            *)

Init ==
    /\ res = [c \in Calls |-> NoReservation]
    /\ queue = <<>>
    /\ pool = [connections |-> 0, sockets |-> 0, replacements |-> 0]

\* Owner.Acquire up to its select.
Acquire(c, r) ==
    /\ res[c].state = "New"
    /\ IF Len(queue) >= MaximumQueuedRequests
       THEN Become([Whole EXCEPT !.res[c] = Ended("Refused", 0)])
       ELSE Become(Drain([Whole EXCEPT !.res[c].state = "Queued", !.res[c].request = r,
                                       !.queue = Append(@, c)]))

\* The context of a queued call ends.
Withdraw(c) ==
    /\ res[c].state = "Queued"
    /\ Become([Whole EXCEPT !.res[c] = Ended("Withdrawn", 0), !.queue = Remove(@, c)])

\* Variant: nobody looks at the queue after a claim.
ClaimSilently(c) ==
    /\ res[c].state = "Reserved"
    /\ Become([Whole EXCEPT !.res[c].state = "Claimed"])

Claim(c) ==
    /\ res[c].state = "Reserved"
    /\ Become(Drain([Whole EXCEPT !.res[c].state = "Claimed"]))

Partner(p, c) ==
    IF p.res[c].predecessor # None THEN p.res[c].predecessor ELSE p.res[c].successor

Larger(m, n) == IF m > n THEN m ELSE n

\* Variant: a closing side of a handoff returns all its sockets.
ReleasedEntirely(p, c) ==
    LET other == Partner(p, c)
    IN  IF other = None
        THEN [p EXCEPT !.connections = @ - 1, !.sockets = @ - p.res[c].sockets]
        ELSE [p EXCEPT !.sockets = @ - p.res[c].sockets,
                       !.replacements = @ - 1,
                       !.res[other].predecessor = None, !.res[other].successor = None]

\* What a closing reservation gives back: in a handoff only what the side that
\* stays does not cover, and the connection goes to that side.
Released(p, c) ==
    LET other == Partner(p, c)
    IN  IF other = None
        THEN [p EXCEPT !.connections = @ - 1, !.sockets = @ - p.res[c].sockets]
        ELSE [p EXCEPT !.sockets = @ - Larger(0, p.res[c].sockets - p.res[other].sockets),
                       !.replacements = @ - 1,
                       !.res[other].predecessor = None, !.res[other].successor = None]

Close(c) ==
    /\ res[c].state \in Live
    /\ LET released == Released(Whole, c)
       IN  Become(Drain([released EXCEPT !.res[c] = Ended("Closed", res[c].routes)]))

-----------------------------------------------------------------------------
(* Routes.                                                                 *)

SocketDelta(p, c, delta) ==
    LET other == Partner(p, c)
        mine == p.res[c].sockets
    IN  IF other = None
        THEN delta
        ELSE Larger(mine + delta, p.res[other].sockets) - Larger(mine, p.res[other].sockets)

\* Variant: a route of a handoff is counted although the other side covers it.
ResizeAlone(p, c, delta) == [p EXCEPT !.sockets = @ + delta, !.res[c].sockets = @ + delta]

Resize(p, c, delta) ==
    [p EXCEPT !.sockets = @ + SocketDelta(p, c, delta), !.res[c].sockets = @ + delta]

StartInitialRoute(c) ==
    /\ res[c].state = "Claimed"
    /\ res[c].unstarted # 0
    /\ Become([Whole EXCEPT !.res[c].unstarted = @ - 1, !.res[c].routes = @ + 1])

TryBackupRoute(c) ==
    /\ res[c].state = "Claimed"
    /\ queue = <<>>
    /\ res[c].sockets < MaximumPathSockets
    /\ pool.sockets + SocketDelta(Whole, c, 1) =< MaximumSockets
    /\ Become(Resize([Whole EXCEPT !.res[c].routes = @ + 1], c, 1))

\* The release function of a route, effective once; after Close it returns
\* nothing, because Close returned it.
ReleaseRoute(c) ==
    /\ res[c].routes # 0
    /\ LET released == [Whole EXCEPT !.res[c].routes = @ - 1]
       IN  IF res[c].state = "Closed" THEN Become(released) ELSE Become(Drain(Resize(released, c, -1)))

Next ==
    \E c \in Calls :
        \/ \E r \in Requests : Acquire(c, r)
        \/ Withdraw(c)
        \/ Claim(c)
        \/ Close(c)
        \/ StartInitialRoute(c)
        \/ TryBackupRoute(c)
        \/ ReleaseRoute(c)

Spec == Init /\ [][Next]_vars

-----------------------------------------------------------------------------
(* Properties.                                                             *)

\* The pool holds calls, reservations and counts of the types pool.go declares.
TypeOK ==
    /\ \A c \in Calls :
          /\ res[c].state \in States
          /\ res[c].request \in Requests \union {None}
          /\ res[c].sockets \in 0 .. MaximumPathSockets
          /\ res[c].unstarted \in 0 .. MaximumPathSockets
          /\ res[c].routes \in Nat
          /\ res[c].predecessor \in Calls \union {None}
          /\ res[c].successor \in Calls \union {None}
    /\ queue \in Seq(Calls)
    /\ pool \in [connections : Nat, sockets : Nat, replacements : Nat]

Held == Paths(Whole)

Successors == {c \in Held : res[c].predecessor # None}

\* The sockets a reservation and its handoff need together.
Envelope(c) ==
    IF res[c].successor = None THEN res[c].sockets
    ELSE Larger(res[c].sockets, res[res[c].successor].sockets)

\* The three counters of the pool are the reservations' own state: one connection
\* per path or handoff, one replacement per handoff, and for each the larger of
\* its two socket counts, through growth, route releases and either side closing
\* first (reserveReplacementLocked, resizeSocketsLocked, Reservation.Close). The
\* limits are kept, and the sockets of an open path are the prepaid routes it has
\* not started and the routes running: a route released twice, or released after
\* its reservation closed, returns nothing more (startRoute's release function).
Accounted ==
    /\ TypeOK
    /\ pool.connections = Cardinality(Held \ Successors)
    /\ pool.replacements = Cardinality(Successors)
    /\ pool.sockets = MapThenSumSet(Envelope, Held \ Successors)
    /\ pool.connections =< MaximumConnections
    /\ pool.sockets =< MaximumSockets
    /\ pool.replacements =< MaximumHandoffEndpoints
    /\ \A c \in Held : res[c].sockets = res[c].unstarted + res[c].routes

\* Handoffs pair reservations off: a successor's predecessor names it back, both
\* belong to one owner, session and service, nobody is in two handoffs, and all
\* handoffs in progress are the two endpoints of the same one
\* (handoffAvailableLocked).
OneHandoff ==
    /\ \A c \in Held : res[c].predecessor = None \/ res[c].successor = None
    /\ \A c \in Successors :
          LET old == res[c].predecessor
          IN  /\ old \in Held
              /\ res[old].successor = c
              /\ res[old].request.owner = res[c].request.owner
              /\ res[old].request.session = res[c].request.session
              /\ res[old].request.service = res[c].request.service
    /\ \A c, d \in Successors : SameHandoff(res[c].request, res[d].request)

\* No request waits for what is already there: whenever the lock is free, the
\* queue holds exactly the calls that wait and none of them could be granted,
\* although drainLocked passes over the queue only once, and only some methods
\* call it.
NoLostGrant ==
    /\ \A c \in Calls : res[c].state = "Queued" <=> \E i \in 1 .. Len(queue) : queue[i] = c
    /\ \A i \in 1 .. Len(queue) : ~Admissible(Whole, res[queue[i]].request)

=============================================================================
