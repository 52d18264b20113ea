---------------------------- MODULE RevisionStore ----------------------------
(***************************************************************************)
(* The revision stores of a sender process (core/content) over one         *)
(* RevisionCapacity: opening, leasing, reading, retiring and reclaiming     *)
(* file revisions.  A step is one critical section of a store's mutex or   *)
(* of the coordinator's; a call is a sequence of them, which it works off   *)
(* while other calls work off theirs.  `open` is what the operating system  *)
(* sees: the stable files that are open.                                    *)
(***************************************************************************)
EXTENDS RevisionCapacity, Sequences, FiniteSetsExt

CONSTANTS
    Files,
    StoreOf,        \* the store that shares a file
    HandleBound,    \* files whose source proves identity only by an open handle
    Calls,          \* concurrent calls
    MaxAdmissions,  \* bound on lease identities
    LeaseTTL, LeaseRenewWindow, MaxLeaseLifetime, RevisionResumeGrace, MaxTime,
    Events          \* faults: "mismatch", "panic", "unavailable", "close"

VARIABLES
    now,            \* the clock
    store,          \* what the stores' mutexes guard
    coordinator,
    calls,          \* what each call has still to do
    open            \* stable files open, by the identity of their charge

vars == <<now, store, coordinator, calls, open>>

LeaseIds == 1 .. MaxAdmissions

\* revisions: every revisionState ever published. resident: the revisions map.
\* opening: the attempt of each file. leases: active ones; issued: identities used.
NewStore ==
    [revisions |-> [i \in Ids |-> None], resident |-> [f \in Files |-> None],
     opening |-> [f \in Files |-> None], leases |-> [l \in LeaseIds |-> None],
     issued |-> 0, invalidated |-> {}, closed |-> {}]

NewRevision(f) ==
    [file |-> f, source |-> TRUE, until |-> 0, gen |-> 1, idle |-> 0, admission |-> None,
     readers |-> 0, closePending |-> FALSE, closing |-> FALSE, closed |-> FALSE,
     lifecycle |-> "active"]

\* The attempt: the call that runs it, the revision it published, whether its owner
\* has left and whether completeOpen has begun.
NewAttempt(t) ==
    [call |-> t, revision |-> None, lease |-> None, abandoned |-> FALSE, completed |-> FALSE]

Home(st, i) == StoreOf[st.revisions[i].file]

\* The tuple (file, revision) that outlives a revisionState, unless only the
\* handle proves it.
Identity(f, i) == IF f \in HandleBound THEN <<f, i>> ELSE <<f, 0>>

Token(st, i, gen) == <<Identity(st.revisions[i].file, i), gen>>

LeasesOf(st, i) == {l \in LeaseIds : st.leases[l] # None /\ st.leases[l].revision = i}

Init ==
    /\ now = 0
    /\ store = NewStore
    /\ coordinator = NewCoordinator
    /\ calls = [t \in Calls |-> <<>>]
    /\ open = {}

-----------------------------------------------------------------------------
(* Sections of a store.  Each yields the store and what its call does next. *)

Then(st, jobs) == [store |-> st, jobs |-> jobs]

\* revisionCleanup.run of a source already taken, or of one still to be taken once
\* no claim can own it.
CloseSource(i) == <<[op |-> "close", revision |-> i]>>

WithdrawAndClose(st, i, gen) ==
    <<[op |-> "withdraw", store |-> Home(st, i), token |-> Token(st, i, gen)],
      [op |-> "join", store |-> Home(st, i)],
      [op |-> "take", revision |-> i]>>

Taken(st, i) == [st EXCEPT !.revisions[i].source = FALSE, !.revisions[i].closing = TRUE]

\* retireRevisionIfIdleLocked: a revision nobody uses is offered to the
\* coordinator while a receiver may come back for it, and closed after that.
RetireIfIdle(st, i) ==
    LET r == st.revisions[i]
        attempt == st.opening[r.file]
        busy == \/ r.lifecycle # "active" \/ LeasesOf(st, i) # {} \/ r.admission # None
                \/ attempt # None /\ attempt.revision = i
        recoverable == StoreOf[r.file] \notin st.closed /\ now < r.until
        offered == [st EXCEPT !.revisions[i].gen = @ + 1, !.revisions[i].idle = r.gen + 1]
        released ==
            [st EXCEPT !.resident[r.file] = IF @ = i THEN None ELSE @,
                       !.revisions[i].gen = @ + 1, !.revisions[i].idle = 0,
                       !.revisions[i].lifecycle = "released", !.revisions[i].closePending = TRUE]
    IN  IF busy \/ (recoverable /\ (r.readers # 0 \/ r.idle # 0))
        THEN Then(st, <<>>)
        ELSE IF recoverable
        THEN Then(offered, <<[op |-> "publish", revision |-> i, gen |-> r.gen + 1, until |-> r.until]>>
                           \o <<[op |-> "leave", store |-> StoreOf[r.file]]>>)
        ELSE IF r.readers # 0
        THEN Then(released, <<>>)
        ELSE IF r.idle # 0
        THEN Then(released, WithdrawAndClose(st, i, r.idle))
        ELSE IF r.source /\ ~r.closing /\ ~r.closed
        THEN Then(Taken(released, i), CloseSource(i))
        ELSE Then(released, <<>>)

Latest(a, b) == IF a < b THEN b ELSE a

\* endLeaseLocked: only a detached lease leaves time to come back.
Ended(st, l, kind, at) ==
    LET i == st.leases[l].revision
    IN  [st EXCEPT !.leases[l] = None,
                   !.revisions[i].until =
                       IF kind = "detached" THEN Latest(@, at + RevisionResumeGrace) ELSE @]

Expired(st, s) ==
    {l \in LeaseIds : st.leases[l] # None /\ Home(st, st.leases[l].revision) = s
                      /\ now >= st.leases[l].expires}

\* reap: expiry detaches, then every resident revision may retire.
Reap(st, s) ==
    LET EndOne(l, acc) == Ended(acc, l, "detached", acc.leases[l].expires)
        RetireOne(i, acc) ==
            LET next == RetireIfIdle(acc.store, i)
            IN  Then(next.store, acc.jobs \o next.jobs)
        detached == FoldSet(EndOne, st, Expired(st, s))
        residents == {detached.resident[f] : f \in {g \in Files : StoreOf[g] = s}} \ {None}
    IN  FoldSet(RetireOne, Then(detached, <<>>), residents)

\* invalidateStateLocked
Revoked(st, i) ==
    LET r == st.revisions[i]
        fresh ==
            IF r.lifecycle = "invalidated" THEN st
            ELSE [st EXCEPT !.resident[r.file] = IF @ = i THEN None ELSE @,
                            !.leases = [l \in LeaseIds |->
                                           IF l \in LeasesOf(st, i) THEN None ELSE st.leases[l]],
                            !.revisions[i].gen = @ + 1,
                            !.revisions[i].lifecycle = "invalidated",
                            !.revisions[i].closePending = TRUE]
    IN  IF r.readers # 0 \/ r.closed \/ r.closing
        THEN Then(fresh, <<>>)
        ELSE IF r.idle # 0
        THEN Then([fresh EXCEPT !.revisions[i].idle = 0], WithdrawAndClose(st, i, r.idle))
        ELSE Then(Taken(fresh, i), CloseSource(i))

\* invalidateIdentityLocked: every incarnation of the tuple that is resident or
\* being read loses its authority at once.
Invalidated(st, identity, origin) ==
    LET RevokeOne(i, acc) ==
            LET next == Revoked(acc.store, i)
            IN  Then(next.store, acc.jobs \o next.jobs)
        incarnations ==
            {i \in Ids : /\ st.revisions[i] # None
                         /\ Identity(st.revisions[i].file, i) = identity
                         /\ \/ st.resident[st.revisions[i].file] = i
                            \/ st.revisions[i].readers # 0
                            \/ i = origin}
    IN  FoldSet(RevokeOne, Then([st EXCEPT !.invalidated = @ \cup {identity}], <<>>), incarnations)

-----------------------------------------------------------------------------
(* Calls.                                                                  *)

Job(t) == Head(calls[t])

Doing(t, op) == calls[t] # <<>> /\ Job(t).op = op

\* The end of what Close waits for: openWG, readWG or capacityWG of a store.
Leave(s) == <<[op |-> "leave", store |-> s]>>

\* Done follows the last step of its work at once.
Settled(jobs) ==
    LET done == {n \in 0 .. Len(jobs) : \A k \in 1 .. n : jobs[k].op = "leave"}
    IN  SubSeq(jobs, Max(done) + 1, Len(jobs))

\* The call goes on with `jobs` before the rest of what it has to do.
Continue(t, jobs) == calls' = [calls EXCEPT ![t] = Settled(jobs \o Tail(@))]

\* A public method reaps before it takes the mutex again.
Call(t, s, jobs) ==
    /\ calls[t] = <<>>
    /\ LET reaped == Reap(store, s)
       IN  /\ store' = reaped.store
           /\ calls' = [calls EXCEPT ![t] = reaped.jobs \o jobs]
    /\ UNCHANGED <<now, coordinator, open>>

OpenRevision(t, f) ==
    /\ store.issued < MaxAdmissions
    /\ Call(t, StoreOf[f], <<[op |-> "open", file |-> f]>>)

EndLease(t, l, kind) ==
    /\ store.leases[l] # None
    /\ Call(t, Home(store, store.leases[l].revision), <<[op |-> "end", lease |-> l, kind |-> kind]>>)

ReadBlock(t, l) ==
    /\ store.leases[l] # None
    /\ Call(t, Home(store, store.leases[l].revision), <<[op |-> "read", lease |-> l]>>)

RenewLease(t, l) ==
    /\ store.leases[l] # None
    /\ Call(t, Home(store, store.leases[l].revision), <<[op |-> "renew", lease |-> l]>>)

\* The lease of a call may be gone by the time the mutex is taken.
End(t) ==
    /\ Doing(t, "end")
    /\ LET l == Job(t).lease
           i == store.leases[l].revision
           next == RetireIfIdle(Ended(store, l, Job(t).kind, now), i)
       IN  \/ /\ store.leases[l] = None
              /\ Continue(t, <<>>)
              /\ store' = store
           \/ /\ store.leases[l] # None
              /\ store' = next.store
              /\ Continue(t, next.jobs)
    /\ UNCHANGED <<now, coordinator, open>>

Usable(l) == store.leases[l] # None /\ now < store.leases[l].expires

Renew(t) ==
    /\ Doing(t, "renew")
    /\ LET l == Job(t).lease
           lease == store.leases[l]
           due == /\ Usable(l)
                  /\ lease.expires - now <= LeaseRenewWindow
                  /\ now + LeaseTTL <= lease.created + MaxLeaseLifetime
       IN  store' = IF due THEN [store EXCEPT !.leases[l].expires = now + LeaseTTL] ELSE store
    /\ Continue(t, <<>>)
    /\ UNCHANGED <<now, coordinator, open>>

Read(t) ==
    /\ Doing(t, "read")
    /\ LET l == Job(t).lease
           i == store.leases[l].revision
       IN  \/ /\ ~Usable(l)
              /\ store' = store
              /\ Continue(t, <<>>)
           \/ /\ Usable(l)
              /\ store' = [store EXCEPT !.revisions[i].readers = @ + 1]
              /\ Continue(t, <<[op |-> "reading", revision |-> i]>> \o Leave(Home(store, i)))
    /\ UNCHANGED <<now, coordinator, open>>

\* finishRead: the last reader of a revision that is to be closed closes it.
FinishRead(t) ==
    /\ Doing(t, "reading")
    /\ \E mismatch \in {FALSE} \cup (IF "mismatch" \in Events THEN {TRUE} ELSE {}) :
        LET i == Job(t).revision
            left == [store EXCEPT !.revisions[i].readers = @ - 1]
            next == IF mismatch THEN Invalidated(left, Identity(left.revisions[i].file, i), i)
                    ELSE RetireIfIdle(left, i)
            r == next.store.revisions[i]
            last == r.closePending /\ r.readers = 0 /\ ~r.closed /\ r.source /\ ~r.closing
        IN  /\ store' = IF last THEN Taken(next.store, i) ELSE next.store
            /\ Continue(t, IF last THEN next.jobs \o CloseSource(i) ELSE next.jobs)
    /\ UNCHANGED <<now, coordinator, open>>

-----------------------------------------------------------------------------
(* Opening.                                                                *)

\* A resident revision is withdrawn from the coordinator and joined with any
\* claim before it is leased again; otherwise the file is opened, once.
Open(t) ==
    /\ Doing(t, "open")
    /\ LET f == Job(t).file
           i == store.resident[f]
           r == store.revisions[i]
           s == StoreOf[f]
           withdraw == IF r.idle = 0 THEN <<>>
                       ELSE SubSeq(WithdrawAndClose(store, i, r.idle), 1, 2)
       IN  \/ /\ s \in store.closed \/ (i # None /\ r.admission # None) \/ store.opening[f] # None
              /\ store' = store       \* closed, or waits for another call and leaves
              /\ Continue(t, <<>>)
           \/ /\ s \notin store.closed /\ i # None /\ r.admission = None
              /\ store.issued < MaxAdmissions
              /\ store' = [store EXCEPT !.issued = @ + 1, !.revisions[i].idle = 0,
                                        !.revisions[i].gen = @ + 1, !.revisions[i].admission = t]
              /\ Continue(t, withdraw \o <<[op |-> "admitted", revision |-> i, gen |-> r.gen + 1,
                                            lease |-> store.issued + 1]>> \o Leave(s))
           \/ /\ s \notin store.closed /\ i = None /\ store.opening[f] = None
              /\ store' = [store EXCEPT !.opening[f] = NewAttempt(t)]
              /\ Continue(t, <<[op |-> "identify", file |-> f]>> \o Leave(s))
    /\ UNCHANGED <<now, coordinator, open>>

Leased(st, l, i) ==
    [st EXCEPT !.leases[l] = [revision |-> i, created |-> now, expires |-> now + LeaseTTL]]

\* Variant: nothing is checked again but that the admission is this call's.
AdmissionMine(t) == store.revisions[Job(t).revision].admission = t

\* residentAdmissionValidLocked
AdmissionValid(t) ==
    LET i == Job(t).revision
        r == store.revisions[i]
    IN  /\ Home(store, i) \notin store.closed
        /\ r.lifecycle = "active" /\ ~r.closed /\ ~r.closing
        /\ r.admission = t /\ r.gen = Job(t).gen /\ store.resident[r.file] = i

\* The rest of admitResidentRevision. A limit or the caller's context may refuse.
Admitted(t) ==
    /\ Doing(t, "admitted")
    /\ LET i == Job(t).revision
           r == store.revisions[i]
           ended == [store EXCEPT !.revisions[i].admission = IF @ = t THEN None ELSE @]
           next == IF r.admission = t /\ r.gen = Job(t).gen
                   THEN RetireIfIdle(ended, i) ELSE Then(ended, <<>>)
       IN  \/ /\ AdmissionValid(t)
              /\ store' = Leased(ended, Job(t).lease, i)
              /\ Continue(t, <<>>)
           \/ /\ store' = next.store
              /\ Continue(t, next.jobs)
    /\ UNCHANGED <<now, coordinator, open>>

Attempting(t, f) == store.opening[f] # None /\ store.opening[f].call = t

\* The context of an attempt, and its store's registration.
Stopped(t, f) ==
    ~Attempting(t, f) \/ StoreOf[f] \in store.closed \/ StoreOf[f] \in coordinator.closing

KnownInvalid(f) == f \notin HandleBound /\ <<f, 0>> \in store.invalidated

Step(t, op) == [Job(t) EXCEPT !.op = op]

Identify(t) ==
    /\ Doing(t, "identify")
    /\ LET f == Job(t).file
           ready == Attempting(t, f) /\ StoreOf[f] \notin store.closed /\ ~KnownInvalid(f)
       IN  \/ /\ ~ready \/ "unavailable" \in Events
              /\ store' = store
              /\ Continue(t, <<Step(t, "failed")>>)
           \/ /\ ready
              /\ store.issued < MaxAdmissions
              /\ store' = [store EXCEPT !.issued = @ + 1]
              /\ Continue(t, <<[op |-> "admit", file |-> f, lease |-> store.issued + 1]>>)
    /\ UNCHANGED <<now, coordinator, open>>

\* beginAdmission and claimOrResolve. A limit on leases or sessions may refuse.
Admit(t) ==
    /\ Doing(t, "admit")
    /\ LET f == Job(t).file
           s == StoreOf[f]
       IN  \/ /\ Stopped(t, f) \/ "unavailable" \in Events
              /\ coordinator' = coordinator
              /\ Continue(t, <<Step(t, "failed")>>)
           \/ /\ ~Stopped(t, f) /\ Blocked(coordinator, s) /\ Oldest(coordinator, s) = {}
              /\ coordinator' = Purged(coordinator)
              /\ Continue(t, <<Step(t, "failed")>>)
           \/ /\ ~Stopped(t, f) /\ ~Blocked(coordinator, s)
              /\ coordinator' = Grant(coordinator, s)
              /\ Continue(t, <<Step(t, "source")>>)
           \/ /\ ~Stopped(t, f) /\ Blocked(coordinator, s)
              /\ \E x \in Oldest(coordinator, s) : coordinator' = Claim(coordinator, s, x, t)
              /\ Continue(t, <<Step(t, "reclaim")>>)
    /\ UNCHANGED <<now, store, open>>

Claimed(t) == CHOOSE x \in coordinator.candidates : x.claim = t

\* The store's callback looks the token up and takes the revision only if nothing
\* has changed since it was offered.
Reclaimable(x) ==
    {i \in Ids :
        /\ store.revisions[i] # None
        /\ LET r == store.revisions[i]
           IN  /\ r.idle # 0 /\ StoreOf[r.file] = x.store /\ Token(store, i, r.idle) = x.token
               /\ x.store \notin store.closed
               /\ r.lifecycle = "active" /\ r.gen = x.gen /\ r.until = x.until
               /\ r.source /\ r.readers = 0 /\ LeasesOf(store, i) = {} /\ r.admission = None
               /\ ~r.closePending /\ ~r.closing /\ ~r.closed}

\* A requester that stopped by now leaves the candidate alone. One that stops later
\* does not keep the callback from closing it.
CancelBeforeReclaim(t) ==
    /\ Doing(t, "reclaim")
    /\ LET f == Job(t).file
       IN  IF Stopped(t, f)
           THEN /\ coordinator' = Abandon(coordinator, StoreOf[f], Claimed(t))
                /\ Continue(t, <<Step(t, "failed")>>)
           ELSE /\ coordinator' = coordinator
                /\ Continue(t, <<Step(t, "callback")>>)
    /\ UNCHANGED <<now, store, open>>

\* The first section of ReclaimIdle.
Reclaim(t) ==
    /\ Doing(t, "callback")
    /\ LET x == Claimed(t)
       IN  \/ /\ Reclaimable(x) = {}
              /\ store' = store
              /\ Continue(t, <<Step(t, "declined")>>)
           \/ \E i \in Reclaimable(x) :
                /\ store' = [Taken(store, i) EXCEPT
                                !.resident[store.revisions[i].file] = None,
                                !.revisions[i].idle = 0, !.revisions[i].gen = @ + 1,
                                !.revisions[i].lifecycle = "released",
                                !.revisions[i].closePending = TRUE]
                /\ Continue(t, <<[op |-> "reclaimClose", file |-> Job(t).file,
                                  lease |-> Job(t).lease, revision |-> i]>>)
    /\ UNCHANGED <<now, coordinator, open>>

\* A Close that panics leaves the file in doubt.
ReclaimClose(t) ==
    /\ Doing(t, "reclaimClose")
    /\ LET i == Job(t).revision
           job == [op |-> "completed", file |-> Job(t).file, lease |-> Job(t).lease]
       IN  \/ /\ open' = open \ {i}
              /\ store' = [store EXCEPT !.revisions[i].closing = FALSE,
                                        !.revisions[i].closed = TRUE]
              /\ Continue(t, <<job>>)
           \/ /\ "panic" \in Events
              /\ open' = open
              /\ store' = [store EXCEPT !.revisions[i].closing = FALSE]
              /\ Continue(t, <<[job EXCEPT !.op = "uncertain"]>>)
    /\ UNCHANGED <<now, coordinator>>

\* finishReclaim: a declined claim looks again, a completed one has its handle.
FinishReclaim(t) ==
    /\ \/ Doing(t, "declined") \/ Doing(t, "completed") \/ Doing(t, "uncertain")
    /\ LET x == Claimed(t)
           f == Job(t).file
           s == StoreOf[f]
           op == Job(t).op
       IN  /\ coordinator' = CASE op = "declined" -> Declined(coordinator, s, x)
                               [] op = "uncertain" -> Uncertain(coordinator, s, x)
                               [] op = "completed" /\ Stopped(t, f) -> Freed(coordinator, s, x)
                               [] OTHER -> Transferred(coordinator, s, x)
           /\ Continue(t, <<Step(t, CASE op = "uncertain" \/ Stopped(t, f) -> "failed"
                                      [] op = "declined" -> "admit"
                                      [] OTHER -> "source")>>)
    /\ UNCHANGED <<now, store, open>>

\* OpenStable, then Verify and the geometry of what was opened: a file that fails
\* either is discarded before the attempt completes.
OpenStable(t) ==
    /\ Doing(t, "source")
    /\ LET f == Job(t).file
           i == Min({j \in Ids : coordinator.charges[j] = None /\ j \notin open})
           opened == [op |-> "complete", file |-> f, lease |-> Job(t).lease, revision |-> i]
           failures == (IF Stopped(t, f) \/ "unavailable" \in Events THEN {"failed"} ELSE {})
                       \cup (IF "mismatch" \in Events THEN {"mismatched"} ELSE {})
       IN  \/ /\ open' = open
              /\ coordinator' = Abort(coordinator, StoreOf[f])
              /\ \E op \in failures : Continue(t, <<Step(t, op)>>)
           \/ /\ ~Stopped(t, f)
              /\ open' = open \cup {i}
              /\ coordinator' = coordinator
              /\ \/ Continue(t, <<opened>>)
                 \/ \E op \in failures :
                        Continue(t, <<[opened EXCEPT !.op = "discard"], Step(t, op)>>)
    /\ UNCHANGED <<now, store>>

\* cleanupOpenWork: Close of the file, then what its outcome does to the grant. A
\* Close that panics leaves the file in doubt: it counts as open.
Discard(t) ==
    /\ Doing(t, "discard")
    /\ \/ /\ open' = open \ {Job(t).revision}
          /\ Continue(t, <<Step(t, "abort")>>)
       \/ /\ "panic" \in Events
          /\ open' = open
          /\ Continue(t, <<Step(t, "doubt")>>)
    /\ UNCHANGED <<now, store, coordinator>>

SettleGrant(t) ==
    /\ Doing(t, "abort") \/ Doing(t, "doubt")
    /\ LET s == StoreOf[Job(t).file]
       IN  coordinator' = IF Job(t).op = "abort" THEN Abort(coordinator, s)
                          ELSE QuarantineStableHandle(coordinator, s, Job(t).revision)
    /\ Continue(t, <<>>)
    /\ UNCHANGED <<now, store, open>>

\* From the first section of completeOpen on, the attempt outlives its waiters.
Completed(t, f) ==
    IF Attempting(t, f) THEN [store EXCEPT !.opening[f].completed = TRUE] ELSE store

\* completeOpen of a failure. A mismatch invalidates the identity, unless it is
\* handle-bound: then it is never seen again.
CompleteFailed(t) ==
    /\ Doing(t, "failed") \/ Doing(t, "mismatched")
    /\ LET f == Job(t).file
           next == IF Job(t).op = "failed" \/ f \in HandleBound
                   THEN Then(Completed(t, f), <<>>)
                   ELSE Invalidated(Completed(t, f), <<f, 0>>, None)
       IN  /\ store' = next.store
           /\ Continue(t, next.jobs \o <<Step(t, "finish")>>)
    /\ UNCHANGED <<now, coordinator, open>>

Publishable(t, f) ==
    /\ Attempting(t, f) /\ StoreOf[f] \notin store.closed
    /\ ~KnownInvalid(f) /\ store.resident[f] = None

\* completeOpen of a file that was opened.
Complete(t) ==
    /\ Doing(t, "complete")
    /\ LET f == Job(t).file
       IN  /\ store' = Completed(t, f)
           /\ Continue(t, IF Publishable(t, f) THEN <<Step(t, "commit")>>
                          ELSE <<Step(t, "discard"), Step(t, "finish")>>)
    /\ UNCHANGED <<now, coordinator, open>>

CommitGrant(t) ==
    /\ Doing(t, "commit")
    /\ coordinator' = Commit(coordinator, StoreOf[Job(t).file], Job(t).revision)
    /\ Continue(t, <<Step(t, "publishLease")>>)
    /\ UNCHANGED <<now, store, open>>

\* The rest of commitOpenResult, under the mutex again.
PublishLease(t) ==
    /\ Doing(t, "publishLease")
    /\ LET f == Job(t).file
           i == Job(t).revision
           l == Job(t).lease
           published == [store EXCEPT !.revisions[i] = NewRevision(f), !.resident[f] = i,
                                      !.opening[f].revision = i, !.opening[f].lease = l]
       IN  IF Publishable(t, f)
           THEN /\ store' = Leased(published, l, i)
                /\ Continue(t, <<Step(t, "finish")>>)
           ELSE /\ store' = store
                /\ Continue(t, CloseSource(i) \o <<Step(t, "finish")>>)
    /\ UNCHANGED <<now, coordinator, open>>

\* The attempt is over; the lease of an owner who left is ended for them.
FinishOpen(t) ==
    /\ Doing(t, "finish")
    /\ LET f == Job(t).file
           attempt == store.opening[f]
           unclaimed == Attempting(t, f) /\ attempt.abandoned /\ attempt.lease # None
       IN  /\ store' = [store EXCEPT !.opening[f] = IF Attempting(t, f) THEN None ELSE @]
           /\ Continue(t, IF unclaimed
                          THEN <<[op |-> "reap", store |-> StoreOf[f]],
                                 [op |-> "end", lease |-> attempt.lease, kind |-> "undelivered"]>>
                          ELSE <<>>)
    /\ UNCHANGED <<now, coordinator, open>>

\* The reap that an EndLease of the store's own begins with.
ReapFirst(t) ==
    /\ Doing(t, "reap")
    /\ LET reaped == Reap(store, Job(t).store)
       IN  /\ store' = reaped.store
           /\ Continue(t, reaped.jobs)
    /\ UNCHANGED <<now, coordinator, open>>

\* awaitOpen of the owner, canceled before the lease is there. The attempt ends
\* with its last waiter unless it is already completing.
OwnerLeaves(f) ==
    /\ store.opening[f] # None
    /\ store.opening[f].lease = None /\ ~store.opening[f].abandoned
    /\ \/ store' = [store EXCEPT !.opening[f].abandoned = TRUE]
       \/ ~store.opening[f].completed /\ store' = [store EXCEPT !.opening[f] = None]
    /\ UNCHANGED <<now, coordinator, calls, open>>

-----------------------------------------------------------------------------
(* Retiring.                                                               *)

\* runRevisionTransition, before and after its call of PublishIdle.
PublishIdle(t) ==
    /\ Doing(t, "publish")
    /\ LET i == Job(t).revision
           x == Candidate(Home(store, i), Token(store, i, Job(t).gen), i, Job(t).until, Job(t).gen)
           ok == CanPublish(coordinator, x)
       IN  /\ coordinator' = IF ok THEN Publish(coordinator, x) ELSE coordinator
           /\ Continue(t, <<[op |-> "recheck", revision |-> i, gen |-> Job(t).gen, ok |-> ok]>>)
    /\ UNCHANGED <<now, store, open>>

Recheck(t) ==
    /\ Doing(t, "recheck")
    /\ LET i == Job(t).revision
           r == store.revisions[i]
           mine == r.idle = Job(t).gen /\ r.gen = Job(t).gen
           valid == /\ Home(store, i) \notin store.closed /\ r.lifecycle = "active" /\ mine
                    /\ r.readers = 0 /\ LeasesOf(store, i) = {} /\ r.admission = None
                    /\ now < r.until
           close == RetireIfIdle([store EXCEPT !.revisions[i].idle = 0,
                                               !.revisions[i].until = 0], i)
           fallback == IF (~Job(t).ok /\ valid) \/ (Job(t).ok /\ ~valid /\ mine /\ now >= r.until)
                       THEN close ELSE Then(store, <<>>)
           withdraw == IF Job(t).ok /\ ~valid
                       THEN SubSeq(WithdrawAndClose(store, i, Job(t).gen), 1, 1) ELSE <<>>
       IN  /\ store' = fallback.store
           /\ Continue(t, withdraw \o fallback.jobs)
    /\ UNCHANGED <<now, coordinator, open>>

Withdraw(t) ==
    /\ Doing(t, "withdraw")
    /\ coordinator' = WithdrawIdle(coordinator, Job(t).store, Job(t).token)
    /\ Continue(t, <<>>)
    /\ UNCHANGED <<now, store, open>>

WaitForReclaims(t) ==
    /\ Doing(t, "join")
    /\ Claims(coordinator, Job(t).store) = {}
    /\ Continue(t, <<>>)
    /\ UNCHANGED <<now, store, coordinator, open>>

\* revisionCleanup.run, once no claim can own the source.
Take(t) ==
    /\ Doing(t, "take")
    /\ LET i == Job(t).revision
           r == store.revisions[i]
           free == r.source /\ ~r.closing /\ ~r.closed
       IN  /\ store' = IF free THEN Taken(store, i) ELSE store
           /\ Continue(t, IF free THEN CloseSource(i)
                          ELSE <<[op |-> "closed", revision |-> i, closed |-> TRUE]>>)
    /\ UNCHANGED <<now, coordinator, open>>

\* The rest of it: Close of the file, its charge, and what the revision says of it,
\* when there is one.
CloseFile(t) ==
    /\ Doing(t, "close")
    /\ LET i == Job(t).revision
       IN  \E returned \in {TRUE} \cup (IF "panic" \in Events THEN {FALSE} ELSE {}) :
            /\ open' = IF returned THEN open \ {i} ELSE open
            /\ Continue(t, <<[op |-> "settle", revision |-> i, closed |-> returned]>>)
    /\ UNCHANGED <<now, store, coordinator>>

SettleCharge(t) ==
    /\ Doing(t, "settle")
    /\ LET i == Job(t).revision
       IN  /\ coordinator' = IF Job(t).closed THEN Release(coordinator, i)
                             ELSE Quarantine(coordinator, i)
           /\ Continue(t, IF store.revisions[i] = None THEN <<>> ELSE <<Step(t, "closed")>>)
    /\ UNCHANGED <<now, store, open>>

Closed(t) ==
    /\ Doing(t, "closed")
    /\ store' = [store EXCEPT !.revisions[Job(t).revision].closing = FALSE,
                              !.revisions[Job(t).revision].closed = Job(t).closed]
    /\ Continue(t, <<>>)
    /\ UNCHANGED <<now, coordinator, open>>

-----------------------------------------------------------------------------
(* Close of a store.                                                       *)

Residents(s) == {store.resident[f] : f \in {g \in Files : StoreOf[g] = s}} \ {None}

\* The first section of closeLocal; what the store offered is withdrawn after it.
Close(t, s) ==
    /\ "close" \in Events
    /\ calls[t] = <<>>
    /\ s \notin store.closed
    /\ LET residents == Residents(s)
           offered == {i \in residents : store.revisions[i].idle # 0}
           withdraw(i, jobs) == SubSeq(WithdrawAndClose(store, i, store.revisions[i].idle), 1, 1)
                                \o jobs
       IN  /\ store' =
                [store EXCEPT
                    !.closed = @ \cup {s},
                    !.leases = [l \in LeaseIds |->
                        IF @[l] # None /\ Home(store, @[l].revision) = s THEN None ELSE @[l]],
                    !.revisions = [i \in Ids |->
                        IF i \in residents
                        THEN [@[i] EXCEPT !.gen = @ + 1, !.idle = 0,
                                          !.lifecycle = "released", !.closePending = TRUE]
                        ELSE @[i]]]
           /\ calls' = [calls EXCEPT ![t] =
                            FoldSet(withdraw, <<[op |-> "quiesce", store |-> s]>>, offered)]
    /\ UNCHANGED <<now, coordinator, open>>

\* It joins opens, capacity work, reads and claims, and takes the sources left.
Quiesce(t) ==
    /\ Doing(t, "quiesce")
    /\ LET s == Job(t).store
           held == {i \in Residents(s) : LET r == store.revisions[i]
                                         IN  r.source /\ ~r.closing /\ ~r.closed}
           close(i, jobs) == CloseSource(i) \o jobs
       IN  /\ \A u \in Calls : \A n \in DOMAIN calls[u] : calls[u][n] # Leave(s)[1]
           /\ Claims(coordinator, s) = {}
           /\ store' = [FoldSet(LAMBDA i, st : Taken(st, i), store, held) EXCEPT
                           !.resident = [f \in Files |-> IF StoreOf[f] = s THEN None ELSE @[f]],
                           !.invalidated = {x \in @ : StoreOf[x[1]] # s}]
           /\ Continue(t, FoldSet(close, <<[op |-> "unregister", store |-> s]>>, held))
    /\ UNCHANGED <<now, coordinator, open>>

Unregister(t) ==
    /\ Doing(t, "unregister")
    /\ coordinator' = CloseRegistration(coordinator, Job(t).store)
    /\ Continue(t, <<>>)
    /\ UNCHANGED <<now, store, open>>

Tick ==
    /\ now < MaxTime
    /\ now' = now + 1
    /\ UNCHANGED <<store, coordinator, calls, open>>

Next ==
    \/ \E t \in Calls :
        \/ \E f \in Files : OpenRevision(t, f)
        \/ \E l \in LeaseIds : \/ ReadBlock(t, l)
                               \/ RenewLease(t, l)
                               \/ \E kind \in {"detached", "relinquished"} : EndLease(t, l, kind)
        \/ \E s \in Stores : Close(t, s)
        \/ End(t) \/ Renew(t) \/ Read(t) \/ FinishRead(t)
        \/ Open(t) \/ Admitted(t) \/ Identify(t) \/ Admit(t)
        \/ CancelBeforeReclaim(t) \/ Reclaim(t) \/ ReclaimClose(t) \/ FinishReclaim(t)
        \/ OpenStable(t) \/ Discard(t) \/ SettleGrant(t) \/ CompleteFailed(t)
        \/ Complete(t) \/ CommitGrant(t) \/ PublishLease(t) \/ FinishOpen(t) \/ ReapFirst(t)
        \/ PublishIdle(t) \/ Recheck(t) \/ Withdraw(t) \/ WaitForReclaims(t)
        \/ Take(t) \/ CloseFile(t) \/ SettleCharge(t) \/ Closed(t)
        \/ Quiesce(t) \/ Unregister(t)
    \/ \E f \in Files : OwnerLeaves(f)
    \/ Tick

Spec == Init /\ [][Next]_vars

-----------------------------------------------------------------------------
(* Properties.                                                             *)

\* A lease and a read in progress keep their file: the revision of a lease is
\* resident and active, the file of either is open and nobody has taken it to close.
SourceHeld ==
    /\ \A l \in LeaseIds : store.leases[l] # None =>
        LET i == store.leases[l].revision
            r == store.revisions[i]
        IN  /\ i \in open /\ r.source /\ r.lifecycle = "active"
            /\ store.resident[r.file] = i
    /\ \A t \in Calls : Doing(t, "reading") =>
        LET i == Job(t).revision
        IN  i \in open /\ store.revisions[i].source

\* What a call holds of the coordinator beyond charges: the reservation of an open
\* under way, and the advance charge on its share while it claims another's handle.
Reserving(s) ==
    {t \in Calls : calls[t] # <<>> /\ Job(t).op \in {"source", "complete", "commit",
                                                       "discard", "abort", "doubt"}
                   /\ StoreOf[Job(t).file] = s}

Crossing(s) ==
    {t \in Calls : \E x \in coordinator.candidates :
        x.claim = t /\ x.store # s /\ StoreOf[Job(t).file] = s}

ChargesOf(s) ==
    {i \in Ids : coordinator.charges[i] # None /\ coordinator.charges[i].store = s
                 /\ coordinator.charges[i].status \in {"active", "quarantined"}}

\* The counters are what is owed: every charge and every reservation once, through
\* every outcome of a claim and every end of the open that made it.
HandleUsageExact ==
    /\ \A s \in Stores : coordinator.used[s] =
            Cardinality(ChargesOf(s)) + Cardinality(Reserving(s)) + Cardinality(Crossing(s))
    /\ coordinator.used[Process] =
            Cardinality(UNION {ChargesOf(s) \cup Reserving(s) : s \in Stores})

\* The files that may be open in the system, those whose Close failed to return
\* included, stay within the limit of the process, with one to come for every open
\* under way: a reclaimed handle is closed before its unit opens another.
HandlesBounded ==
    Cardinality(open) + Cardinality({t \in Calls : Doing(t, "source")}) <= ProcessLimit

-----------------------------------------------------------------------------
(* Two formulas that the code does not satisfy (see the README).           *)

\* A charge that is active has someone who will release it: its revision holds the
\* file, or a call is about to publish it or to close it, or a claim decides it.
ChargeOwned ==
    \A i \in Ids : Charged(coordinator, i) =>
        \/ store.revisions[i] # None /\ store.revisions[i].source
        \/ \E x \in coordinator.candidates : x.charge = i /\ x.claim # None
        \/ \E t \in Calls : \E n \in DOMAIN calls[t] :
                /\ calls[t][n].op \in {"publishLease", "close", "settle"}
                /\ calls[t][n].revision = i

\* A revision whose receiver may still come back leaves its store before the
\* deadline only when an open in need of its handle reclaims it, when it is
\* invalidated, or when the store closes.
GraceKept ==
    [][\A f \in Files :
        LET i == store.resident[f]
            r == store.revisions[i]
        IN  i # None /\ now < r.until /\ store'.resident[f] # i =>
                \/ StoreOf[f] \in store.closed
                \/ Identity(f, i) \in store'.invalidated
                \/ \E x \in coordinator.candidates : x.charge = i /\ x.claim # None]_vars

=============================================================================
