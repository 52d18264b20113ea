--------------------------- MODULE RevisionCapacity ---------------------------
(***************************************************************************)
(* The process-wide coordinator of stable file handles                     *)
(* (core/content/revisioncapacity).  Its methods run under one mutex, so   *)
(* they are operators on the value of a coordinator.  A handle is charged  *)
(* to the process and to the share of its store; a requester that finds    *)
(* either full may claim an idle handle of any store and have it closed.   *)
(* Active leases and session handles are counted beside it and never       *)
(* reclaimed; that one of their limits refuses is an input of RevisionStore. *)
(***************************************************************************)
EXTENDS Integers, FiniteSets

CONSTANTS
    Stores,         \* registered stores, one per share
    Ids,            \* identities of charges
    ProcessLimit,   \* Coordinator.limits.StableHandles
    ShareLimit,     \* storeState.limits.StableHandles
    None

ASSUME CapacityLimits == ProcessLimit \in Nat \ {0} /\ ShareLimit \in Nat \ {0}

Process == "process"

\* used: charged handles by scope. charges: store and status of each charge.
\* candidates: idle handles, each with the call that claims it. closing: the
\* stores whose registration closes.
NewCoordinator ==
    [used |-> [x \in Stores \cup {Process} |-> 0], charges |-> [i \in Ids |-> None],
     candidates |-> {}, closing |-> {}]

Charged(c, i) == c.charges[i] # None /\ c.charges[i].status = "active"

Count(c, s, n) == [c EXCEPT !.used[Process] = @ + n, !.used[s] = @ + n]

-----------------------------------------------------------------------------
(* Candidates.                                                             *)

Candidate(s, token, i, until, gen) ==
    [store |-> s, token |-> token, charge |-> i, until |-> until, gen |-> gen,
     claim |-> None, withdrawn |-> FALSE]

\* A charge has one candidate, and a token names one.
CanPublish(c, x) ==
    /\ x.store \notin c.closing
    /\ Charged(c, x.charge)
    /\ \A y \in c.candidates : y.charge # x.charge /\ (y.store = x.store => y.token # x.token)

Publish(c, x) == [c EXCEPT !.candidates = @ \cup {x}]

\* A claimed candidate stays until its callback has decided.
WithdrawIdle(c, s, token) ==
    LET named == {x \in c.candidates : x.store = s /\ x.token = token}
        claimed == {x \in named : x.claim # None}
    IN  [c EXCEPT !.candidates =
                      (@ \ named) \cup {[x EXCEPT !.withdrawn = TRUE] : x \in claimed}]

Claims(c, s) == {x \in c.candidates : x.store = s /\ x.claim # None}

\* releaseCharge: refused while the charge is claimed, without effect.
Release(c, i) ==
    IF ~Charged(c, i) \/ \E x \in c.candidates : x.charge = i /\ x.claim # None
    THEN c
    ELSE [Count(c, c.charges[i].store, -1) EXCEPT
             !.charges[i].status = "released",
             !.candidates = {x \in @ : x.charge # i}]

\* Variant: a handle in doubt counts as closed.
QuarantineReleased(c, i) == Release(c, i)

\* Quarantine: the unit stays charged for good.
Quarantine(c, i) ==
    IF ~Charged(c, i) \/ \E x \in c.candidates : x.charge = i /\ x.claim # None
    THEN c
    ELSE [c EXCEPT !.charges[i].status = "quarantined",
                   !.candidates = {x \in @ : x.charge # i}]

CloseRegistration(c, s) ==
    [c EXCEPT !.closing = @ \cup {s},
              !.candidates = {x \in @ : x.store # s}
                             \cup {[x EXCEPT !.withdrawn = TRUE] : x \in Claims(c, s)}]

-----------------------------------------------------------------------------
(* Admission of a new revision: one handle.                                *)

ShareBlocked(c, s) == c.used[s] >= ShareLimit

Blocked(c, s) == ShareBlocked(c, s) \/ c.used[Process] >= ProcessLimit

Grant(c, s) == Count(c, s, 1)

Abort(c, s) == Count(c, s, -1)

\* The reservation becomes a charge, or stays charged for a handle in doubt.
Commit(c, s, i) == [c EXCEPT !.charges[i] = [store |-> s, status |-> "active"]]

QuarantineStableHandle(c, s, i) ==
    [c EXCEPT !.charges[i] = [store |-> s, status |-> "quarantined"]]

Available(c) ==
    {x \in c.candidates : x.claim = None /\ ~x.withdrawn /\ x.store \notin c.closing
                          /\ Charged(c, x.charge)}

\* The oldest first; the look drops what is no longer available.
Oldest(c, s) ==
    LET eligible == {x \in Available(c) : ShareBlocked(c, s) => x.store = s}
    IN  {x \in eligible : \A y \in eligible : x.until <= y.until}

Purged(c) == [c EXCEPT !.candidates = {x \in @ : x.claim # None} \cup Available(c)]

\* The requester's share is charged in advance, the process is not: the unit
\* stays charged to its present owner.
Cross(x, s) == IF x.store # s THEN 1 ELSE 0

Claim(c, s, x, call) ==
    [Purged(c) EXCEPT !.candidates = (@ \ {x}) \cup {[x EXCEPT !.claim = call]},
                      !.used[s] = @ + Cross(x, s)]

\* Variant: the advance charge on the requester's share is forgotten.
AbandonKept(c, s, x) ==
    [c EXCEPT !.candidates = (@ \ {x}) \cup {[x EXCEPT !.claim = None]}]

\* The requester stopped before the callback: the candidate is free again.
Abandon(c, s, x) ==
    LET free == IF x.withdrawn \/ x.store \in c.closing THEN {} ELSE {[x EXCEPT !.claim = None]}
    IN  [c EXCEPT !.candidates = (@ \ {x}) \cup free, !.used[s] = @ - Cross(x, s)]

Declined(c, s, x) ==
    [c EXCEPT !.candidates = @ \ {x}, !.used[s] = @ - Cross(x, s)]

\* The unit moves to the requester without becoming free.
Transferred(c, s, x) ==
    [c EXCEPT !.candidates = @ \ {x}, !.charges[x.charge].status = "transferred",
              !.used[x.store] = @ - Cross(x, s)]

\* The requester stopped after the close: the unit is free.
Freed(c, s, x) ==
    LET returned == [c EXCEPT !.candidates = @ \ {x}, !.charges[x.charge].status = "released",
                              !.used[s] = @ - Cross(x, s)]
    IN  Count(returned, x.store, -1)

Uncertain(c, s, x) ==
    [c EXCEPT !.candidates = @ \ {x}, !.charges[x.charge].status = "quarantined",
              !.used[s] = @ - Cross(x, s)]

=============================================================================
