--------------------------- MODULE ShareAuthority ---------------------------
(***************************************************************************)
(* Route authority of one share: the lifecycle state machine               *)
(* (relay-core/src/lifecycle), the ordered storage obligations that make   *)
(* its decisions durable (share/storage.rs, share/lifecycle.rs) and the    *)
(* authority row a host keeps (authority.rs).                              *)
(*                                                                         *)
(* The actor serializes its inputs and every input first runs the due      *)
(* timers, so each handler below is one step that waits for `Due` to be    *)
(* false.  The row is written by the host: a write may land with its       *)
(* receipt, land without one, or fail, and the actor may be lost and       *)
(* restored from the row at any point.  A connection performs at most one  *)
(* admission, hence a connection also names the OperationId of that        *)
(* admission.  Cryptographic checks, encodings and the wording of refusals *)
(* are left out: a refused connection is closed.                           *)
(***************************************************************************)
EXTENDS Integers, Sequences, SequencesExt

CONSTANTS
    Connections,    \* ConnectionRefs; a connection lifetime is never reused
    Registrations,  \* registrations (share instances) senders may hold
    StopIds,        \* STOP identities
    NoConnection,   \* Option::<ConnectionRef>::None
    Handshake,      \* time a registration handshake may take
    SenderGrace,    \* SENDER_GRACE
    MaxTime,        \* bound on the clock
    MaxRestarts     \* bound on the number of actor losses

VARIABLES
    now,        \* the host's clock
    state,      \* ShareLifecycle.state
    conn,       \* phase of every connection
    attempt,    \* the admission each connection holds
    tasks,      \* ShareRelay.tasks
    work,       \* dispatch of the front task, and the host's answer to it
    stored,     \* ShareRelay.stored: the last confirmed record
    barrier,    \* ShareRelay.stop_barrier is set
    queued,     \* owners whose sessions have frames received and not submitted
    row,        \* the durable record
    registered, \* connections this actor sent REGISTERED to
    stopped,    \* STOPPED acknowledgements sent
    restarts    \* actors lost so far

relay == <<state, conn, attempt, tasks, work, stored, barrier, queued>>
observed == <<registered, stopped>>
vars == <<now, relay, row, observed, restarts>>

ASSUME NoConnectionAssumption == NoConnection \notin Connections

ASSUME TimesAssumption ==
    /\ Handshake \in Nat \ {0}
    /\ SenderGrace \in Nat \ {0}
    /\ MaxTime \in Nat
    /\ MaxRestarts \in Nat

-----------------------------------------------------------------------------
(* Records.  The lifecycle states that storage keeps have the shape of     *)
(* their record; Stopping is stored without its step.                      *)

Option == Connections \cup {NoConnection}

\* OwnershipId: the epoch and the exact connection lifetime of an owner.
Ownerships == [owner : Option, epoch : Nat]

NoOwnership == [owner |-> NoConnection, epoch |-> 0]

Instants == Nat

Vacant == [phase |-> "Vacant"]

Reserved(c, reg, deadline) ==
    [phase |-> "Reserved", owner |-> c, reg |-> reg, deadline |-> deadline]

Activating(c, epoch, reg, deadline) ==
    [phase |-> "Activating", owner |-> c, epoch |-> epoch, reg |-> reg, deadline |-> deadline]

Published(c, epoch, reg) ==
    [phase |-> "Published", owner |-> c, epoch |-> epoch, reg |-> reg]

Grace(c, epoch, reg, deadline) ==
    [phase |-> "Grace", owner |-> c, epoch |-> epoch, reg |-> reg, deadline |-> deadline]

Stopping(step, pending) == [phase |-> "Stopping", step |-> step, pending |-> pending]

StoppingRecord(pending) == [phase |-> "Stopping", pending |-> pending]

Stopped(reg, stop) == [phase |-> "Stopped", reg |-> reg, stop |-> stop]

\* PendingStop; both kinds of cleanup name the connection they close.
PendingStops == [origin : {"Sender", "Administrator"}, by : Connections,
                 reg : Registrations, stop : StopIds, cleanup : Option]

PublishedRecords == [phase : {"Published"}, owner : Connections, epoch : Nat, reg : Registrations]

GraceRecords == [phase : {"Grace"}, owner : Connections, epoch : Nat, reg : Registrations,
                 deadline : Instants]

StoppingRecords == [phase : {"Stopping"}, pending : PendingStops]

StoppedRecords == [phase : {"Stopped"}, reg : Registrations, stop : StopIds]

Records == {Vacant} \cup PublishedRecords \cup GraceRecords \cup StoppingRecords \cup StoppedRecords

States ==
    {Vacant} \cup PublishedRecords \cup GraceRecords \cup StoppedRecords
    \cup [phase : {"Reserved"}, owner : Connections, reg : Registrations, deadline : Instants]
    \cup [phase : {"Activating"}, owner : Connections, epoch : Nat, reg : Registrations,
          deadline : Instants]
    \cup [phase : {"Stopping"}, step : {"Persist", "Retire", "Commit"}, pending : PendingStops]

NoAttempt == [mode |-> "None"]

\* Reservation and ResumeAttempt, held by the connection's handshake.
Attempts == {NoAttempt} \cup [mode : {"Fresh", "Resume"}, reg : Registrations,
                              observed : Ownerships, deadline : Instants]

\* TaskKind: a write, and what its confirmation triggers (AfterWrite).
Tasks == [kind : {"Register", "Write"}, next : Records, after : {"None", "Ownership", "Stop"},
          id : Option, replaced : Option]

Register(owned, id) ==
    [kind |-> "Register", next |-> owned, after |-> "Ownership", id |-> id,
     replaced |-> NoConnection]

WriteOwnership(owned, id, replaced) ==
    [kind |-> "Write", next |-> owned, after |-> "Ownership", id |-> id, replaced |-> replaced]

Write(record, after) ==
    [kind |-> "Write", next |-> record, after |-> after, id |-> NoConnection,
     replaced |-> NoConnection]

Owned(s) == s.phase \in {"Activating", "Published", "Grace"}

Ownership(s) == IF Owned(s) THEN [owner |-> s.owner, epoch |-> s.epoch] ELSE NoOwnership

HasDeadline(s) == s.phase \in {"Reserved", "Activating", "Grace"}

-----------------------------------------------------------------------------
(* Storage obligations.                                                    *)

\* The front task is dispatched as soon as the turn that queues it ends.
Started(queue) == IF queue = <<>> THEN "Idle" ELSE "Executing"

\* enqueue: an obligation that is already queued is not queued again.
Enqueued(task, queue) == IF Contains(queue, task) THEN queue ELSE Append(queue, task)

Enqueue(task) ==
    /\ tasks' = Enqueued(task, tasks)
    /\ work' = IF tasks = <<>> THEN "Executing" ELSE work

KeepStorage == UNCHANGED <<tasks, work, stored>>

\* Disconnecting a connection, seen by the connection table.
Closed(c) == [conn EXCEPT ![c] = "Closed"]

ClosedAll(C) == [c \in Connections |-> IF c \in C THEN "Closed" ELSE conn[c]]

\* A handler runs after every due timer.
HandshakeExpired(c) == /\ conn[c] = "Handshake"
                       /\ attempt[c].deadline =< now

LifecycleExpired == /\ HasDeadline(state)
                    /\ state.deadline =< now

Due == LifecycleExpired \/ \E c \in Connections : HandshakeExpired(c)

Init ==
    /\ now = 0
    /\ state = Vacant
    /\ conn = [c \in Connections |-> "New"]
    /\ attempt = [c \in Connections |-> NoAttempt]
    /\ tasks = <<>>
    /\ work = "Idle"
    /\ stored = Vacant
    /\ barrier = FALSE
    /\ queued = {}
    /\ row = Vacant
    /\ registered = {}
    /\ stopped = {}
    /\ restarts = 0

-----------------------------------------------------------------------------
(* Registration and resumption.                                            *)

\* A refused requester is answered and disconnected.
Refuse(c) ==
    /\ conn' = Closed(c)
    /\ KeepStorage
    /\ UNCHANGED <<state, attempt, barrier, queued, row, observed>>

Admit(c, mode, reg, seen) ==
    /\ conn' = [conn EXCEPT ![c] = "Handshake"]
    /\ attempt' = [attempt EXCEPT ![c] = [mode |-> mode, reg |-> reg, observed |-> seen,
                                          deadline |-> now + Handshake]]
    /\ KeepStorage
    /\ UNCHANGED <<barrier, queued, row, observed>>

Reserve(c, reg) ==
    /\ conn[c] = "New"
    /\ \/ /\ state = Vacant
          /\ state' = Reserved(c, reg, now + Handshake)
          /\ Admit(c, "Fresh", reg, NoOwnership)
       \/ /\ state # Vacant
          /\ Refuse(c)

\* The authenticated upload of c's descriptor.
Publish(c) ==
    /\ conn[c] = "Handshake"
    /\ attempt[c].mode = "Fresh"
    /\ \/ /\ state.phase = "Reserved"
          /\ state.owner = c
          /\ state' = Activating(c, 1, state.reg, state.deadline)
          /\ conn' = [conn EXCEPT ![c] = "Established"]
          /\ Enqueue(Register(Published(c, 1, state.reg), c))
          /\ UNCHANGED <<attempt, stored, barrier, queued, row, observed>>
       \/ /\ ~(state.phase = "Reserved" /\ state.owner = c)
          /\ Refuse(c)

\* A resume observes the incumbent before its challenge; it reserves nothing.
BeginResume(c, reg) ==
    /\ conn[c] = "New"
    /\ LET admitted == \/ state = Vacant
                       \/ state.phase \in {"Published", "Grace"} /\ state.reg = reg
       IN  \/ /\ admitted
              /\ Admit(c, "Resume", reg, Ownership(state))
              /\ UNCHANGED state
           \/ /\ ~admitted
              /\ Refuse(c)

\* Variant: a resume does not compare the ownership it observed.
MayResumeAnyOwner(c) ==
    /\ Owned(state)
    /\ state.reg = attempt[c].reg

MayResume(c) ==
    /\ Owned(state)
    /\ state.reg = attempt[c].reg
    /\ attempt[c].observed = Ownership(state)

\* The authenticated proof of c replaces the ownership c observed.
Resume(c) ==
    /\ conn[c] = "Handshake"
    /\ attempt[c].mode = "Resume"
    /\ \/ /\ MayResume(c)
          /\ state' = Activating(c, state.epoch + 1, state.reg, attempt[c].deadline)
          /\ conn' = [conn EXCEPT ![c] = "Established"]
          /\ Enqueue(WriteOwnership(Published(c, state.epoch + 1, state.reg), c,
                                    IF state.phase = "Grace" THEN NoConnection ELSE state.owner))
          /\ UNCHANGED <<attempt, stored, barrier, queued, row, observed>>
       \/ /\ ~MayResume(c)
          /\ Refuse(c)

\* Variant: a loss during activation queues no grace record.
DetachOnlyWhenIdle(c) ==
    LET grace == Grace(c, state.epoch, state.reg, now + SenderGrace) IN
    /\ state' = grace
    /\ IF tasks = <<>> THEN Enqueue(Write(grace, "None")) ELSE UNCHANGED <<tasks, work>>

\* Owner loss: a fixed grace, persisted behind the outstanding writes.
Detach(c) ==
    LET grace == Grace(c, state.epoch, state.reg, now + SenderGrace) IN
    /\ state' = grace
    /\ Enqueue(Write(grace, "None"))

\* disconnect: the socket is gone, failed or missed its handshake deadline.
Disconnect(c) ==
    /\ conn[c] \notin {"New", "Closed"}
    /\ conn' = Closed(c)
    /\ UNCHANGED <<attempt, stored, barrier, queued, row, observed>>
    /\ \/ /\ state.phase = "Reserved" /\ state.owner = c
          /\ state' = Vacant
          /\ UNCHANGED <<tasks, work>>
       \/ /\ state.phase \in {"Activating", "Published"} /\ state.owner = c
          /\ Detach(c)
       \/ /\ ~(state.phase \in {"Reserved", "Activating", "Published"} /\ state.owner = c)
          /\ UNCHANGED <<state, tasks, work>>

-----------------------------------------------------------------------------
(* Deadlines.                                                              *)

ExpireLifecycle ==
    /\ LifecycleExpired
    /\ UNCHANGED <<attempt, stored, barrier, queued, row, observed>>
    /\ \/ /\ state.phase = "Reserved"
          /\ state' = Vacant
          /\ conn' = Closed(state.owner)
          /\ UNCHANGED <<tasks, work>>
       \/ /\ state.phase = "Activating"
          /\ Detach(state.owner)
          /\ conn' = Closed(state.owner)
       \/ /\ state.phase = "Grace"
          /\ state' = Vacant
          /\ Enqueue(Write(Vacant, "None"))
          /\ UNCHANGED conn

ExpireHandshake(c) ==
    /\ HandshakeExpired(c)
    /\ Disconnect(c)

-----------------------------------------------------------------------------
(* STOP.                                                                   *)

BeginStop(origin, by, reg, stop, cleanup) ==
    LET pending == [origin |-> origin, by |-> by, reg |-> reg, stop |-> stop,
                    cleanup |-> cleanup]
    IN  /\ state' = Stopping("Persist", pending)
        /\ Enqueue(Write(StoppingRecord(pending), "Stop"))

StopCleanup == IF state.phase \in {"Reserved", "Activating", "Published"}
               THEN state.owner ELSE NoConnection

MayStop(reg) == \/ state.phase \in {"Vacant", "Reserved"}
                \/ Owned(state) /\ state.reg = reg

Acknowledge(c, reg, stop) ==
    stopped' = stopped \cup {[to |-> c, reg |-> reg, stop |-> stop]}

\* An authenticated STOP of the registration reg.
Stop(c, reg, stop) ==
    /\ conn[c] = "New"
    /\ \/ /\ MayStop(reg)
          /\ conn' = [conn EXCEPT ![c] = "Stopping"]
          /\ BeginStop("Sender", c, reg, stop, StopCleanup)
          /\ UNCHANGED <<attempt, stored, barrier, queued, row, observed>>
       \/ /\ state = Stopped(reg, stop)
          /\ conn' = Closed(c)
          /\ Acknowledge(c, reg, stop)
          /\ KeepStorage
          /\ UNCHANGED <<state, attempt, barrier, queued, row, registered>>
       \/ /\ ~MayStop(reg)
          /\ state # Stopped(reg, stop)
          /\ Refuse(c)

\* The service administrator terminates the credential's share.
Terminate(stop) ==
    /\ state.phase = "Reserved" \/ Owned(state)
    /\ BeginStop("Administrator", state.owner, state.reg, stop, StopCleanup)
    /\ UNCHANGED <<conn, attempt, stored, barrier, queued, row, observed>>

-----------------------------------------------------------------------------
(* Storage: the host's side, then the completions the actor handles.       *)

\* authority::apply accepts the front task's write of the current row.
Accepts(task) == row \in {IF task.kind = "Register" THEN Vacant ELSE stored, task.next}

\* The transaction lands; its receipt may be lost.
ExecuteLands ==
    /\ work = "Executing"
    /\ Accepts(Head(tasks))
    /\ row' = Head(tasks).next
    /\ work' \in {"Complete", "Uncertain"}
    /\ UNCHANGED <<now, state, conn, attempt, tasks, stored, barrier, queued, observed, restarts>>

\* The transaction fails, or the row conflicts with it.
ExecuteFails ==
    /\ work = "Executing"
    /\ work' = "Uncertain"
    /\ UNCHANGED <<now, state, conn, attempt, tasks, stored, barrier, queued, row, observed,
                   restarts>>

\* complete, with an uncertain result: retain the exact work for a retry.
CompleteUncertain ==
    /\ work = "Uncertain"
    /\ work' = "Retry"
    /\ UNCHANGED <<state, conn, attempt, tasks, stored, barrier, queued, row, observed>>

\* Variant: uncertain work is never dispatched again.
RetryNever ==
    /\ FALSE
    /\ UNCHANGED <<state, conn, attempt, tasks, work, stored, barrier, queued, row, observed>>

Retry ==
    /\ work = "Retry"
    /\ work' = "Executing"
    /\ UNCHANGED <<state, conn, attempt, tasks, stored, barrier, queued, row, observed>>

\* Variant: a confirmation does not advance the record the next write expects.
ConfirmKeepsStored(queue) ==
    /\ stored' = stored
    /\ tasks' = queue
    /\ work' = Started(queue)

\* The front task is confirmed; `queue` is what remains to be written.
Confirm(queue) ==
    /\ stored' = Head(tasks).next
    /\ tasks' = queue
    /\ work' = Started(queue)

CompleteWrite ==
    /\ work = "Complete"
    /\ Head(tasks).after = "None"
    /\ Confirm(Tail(tasks))
    /\ UNCHANGED <<state, conn, attempt, barrier, queued, row, observed>>

\* Variant: the replaced owner is left connected.
CompleteOwnershipKeepsReplaced ==
    LET task == Head(tasks)
        current == state.phase = "Activating" /\ state.owner = task.id
    IN  /\ work = "Complete"
        /\ task.after = "Ownership"
        /\ Confirm(Tail(tasks))
        /\ state' = IF current THEN Published(state.owner, state.epoch, state.reg) ELSE state
        /\ registered' = IF current /\ conn[task.id] # "Closed"
                         THEN registered \cup {task.id} ELSE registered
        /\ UNCHANGED <<conn, attempt, barrier, queued, row, stopped>>

\* Close the replaced owner, then serve and answer REGISTERED if this is still
\* the pending activation.
CompleteOwnership ==
    LET task == Head(tasks)
        current == state.phase = "Activating" /\ state.owner = task.id
    IN  /\ work = "Complete"
        /\ task.after = "Ownership"
        /\ Confirm(Tail(tasks))
        /\ conn' = ClosedAll({task.replaced})
        /\ state' = IF current THEN Published(state.owner, state.epoch, state.reg) ELSE state
        /\ registered' = IF current /\ conn[task.id] # "Closed"
                         THEN registered \cup {task.id} ELSE registered
        /\ UNCHANGED <<attempt, barrier, queued, row, stopped>>

\* Variant: STOP commits without waiting for the frames still held.
ProgressStopAtOnce(pending, held, queue) ==
    /\ state' = Stopping("Commit", pending)
    /\ tasks' = Enqueued(Write(Stopped(pending.reg, pending.stop), "Stop"), queue)
    /\ barrier' = FALSE

\* Variant: the end of the retirement step is never reported.
ProgressStopKeepsBarrier(pending, held, queue) ==
    /\ state' = Stopping("Retire", pending)
    /\ tasks' = queue
    /\ barrier' = TRUE

\* progress_stop: once every unsubmitted frame is discarded, the retirement
\* step is complete and the final record is queued; until then it is a barrier.
ProgressStop(pending, held, queue) ==
    IF held = {}
    THEN /\ state' = Stopping("Commit", pending)
         /\ tasks' = Enqueued(Write(Stopped(pending.reg, pending.stop), "Stop"), queue)
         /\ barrier' = FALSE
    ELSE /\ state' = Stopping("Retire", pending)
         /\ tasks' = queue
         /\ barrier' = TRUE

FinishPersist ==
    LET task == Head(tasks) IN
    /\ work = "Complete"
    /\ state.phase = "Stopping" /\ state.step = "Persist"
    /\ task.after = "Stop" /\ task.next = StoppingRecord(state.pending)
    /\ stored' = task.next
    /\ conn' = ClosedAll({state.pending.cleanup})
    /\ ProgressStop(state.pending, queued, Tail(tasks))
    /\ work' = Started(tasks')
    /\ UNCHANGED <<attempt, queued, row, observed>>

\* The owner whose sessions are not retired yet: a STOP retires them at its barrier.
Unretired ==
    IF state.phase = "Published" THEN state.owner
    ELSE IF state.phase = "Stopping" /\ ~barrier THEN state.pending.cleanup
    ELSE NoConnection

\* discarded: the host dropped the frames of the retired sessions owner c had.
Discarded(c) ==
    /\ c \in queued \ {Unretired}
    /\ queued' = queued \ {c}
    /\ IF barrier
       THEN /\ ProgressStop(state.pending, queued', tasks)
            /\ work' = IF tasks = <<>> THEN Started(tasks') ELSE work
       ELSE UNCHANGED <<state, tasks, work, barrier>>
    /\ UNCHANGED <<conn, attempt, stored, row, observed>>

FinishCommit ==
    LET task == Head(tasks)
        pending == state.pending
        answered == pending.origin = "Sender" /\ conn[pending.by] # "Closed"
    IN  /\ work = "Complete"
        /\ state.phase = "Stopping" /\ state.step = "Commit"
        /\ task.after = "Stop" /\ task.next = Stopped(pending.reg, pending.stop)
        /\ Confirm(Tail(tasks))
        /\ state' = task.next
        /\ IF answered
           THEN /\ Acknowledge(pending.by, pending.reg, pending.stop)
                /\ conn' = Closed(pending.by)
           ELSE UNCHANGED <<stopped, conn>>
        /\ UNCHANGED <<attempt, barrier, queued, row, registered>>

-----------------------------------------------------------------------------
(* Delivery, reduced to what STOP waits for: frames of the owner's         *)
(* sessions that are received and not yet submitted.                       *)

Receive ==
    /\ state.phase = "Published"
    /\ queued' = queued \cup {state.owner}
    /\ UNCHANGED <<state, conn, attempt, tasks, work, stored, barrier, row, observed>>

Submit ==
    /\ state.phase = "Published"
    /\ state.owner \in queued
    /\ queued' = queued \ {state.owner}
    /\ UNCHANGED <<state, conn, attempt, tasks, work, stored, barrier, row, observed>>

-----------------------------------------------------------------------------
(* Restoration from the row.                                               *)

\* A surviving handshake is replayed; a resume only over what it observed.
Replayed(c) ==
    /\ conn[c] = "Handshake"
    /\ \/ /\ attempt[c].mode = "Fresh"
          /\ row = Vacant
       \/ /\ attempt[c].mode = "Resume"
          /\ attempt[c].observed = Ownership(row)
          /\ \/ row = Vacant
             \/ row.phase \in {"Published", "Grace"} /\ row.reg = attempt[c].reg

\* Frames that the ledgers' checkpoints miss count as held until a step of delivery
\* drops them, which may come next.
Install(surviving) ==
    /\ queued' = queued
    /\ \/ /\ row = Vacant
          /\ LET fresh == {c \in surviving : conn[c] = "Handshake" /\ attempt[c].mode = "Fresh"} IN
             \/ /\ fresh = {}
                /\ state' = Vacant
             \/ \E c \in fresh : state' = Reserved(c, attempt[c].reg, attempt[c].deadline)
          /\ tasks' = <<>> /\ barrier' = FALSE
       \/ /\ row.phase = "Published"
          /\ row.owner \in surviving /\ conn[row.owner] = "Established"
          /\ state' = row
          /\ tasks' = <<>> /\ barrier' = FALSE
       \/ /\ row.phase = "Published"
          /\ ~(row.owner \in surviving /\ conn[row.owner] = "Established")
          /\ state' = Grace(row.owner, row.epoch, row.reg, now + SenderGrace)
          /\ tasks' = <<Write(state', "None")>>
          /\ barrier' = FALSE
       \/ /\ row.phase \in {"Grace", "Stopped"}
          /\ state' = row
          /\ tasks' = <<>> /\ barrier' = FALSE
       \/ /\ row.phase = "Stopping"
          /\ ProgressStop(row.pending, queued, <<>>)

\* The actor is lost and a new incarnation is restored from the row, with the
\* connections that outlived it.  A write still executing lands before the
\* restore reads the row, or never.
Restart(surviving) ==
    /\ restarts < MaxRestarts
    /\ restarts' = restarts + 1
    /\ stored' = row
    /\ Install(surviving)
    /\ work' = Started(tasks')
    /\ conn' = [c \in Connections |->
                  IF \/ conn[c] = "New"
                     \/ /\ c \in surviving
                        /\ conn[c] \in {"Established", "Stopping"} \/ Replayed(c)
                        /\ ~(row.phase = "Stopping" /\ row.pending.cleanup = c)
                  THEN conn[c] ELSE "Closed"]
    /\ registered' = {}
    /\ UNCHANGED <<now, attempt, row, stopped>>

-----------------------------------------------------------------------------

Tick ==
    /\ now < MaxTime
    /\ now' = now + 1
    /\ UNCHANGED <<relay, row, observed, restarts>>

\* Inputs of peers and of the administrator.
Request ==
    \/ \E c \in Connections :
          \/ \E reg \in Registrations : Reserve(c, reg) \/ BeginResume(c, reg)
          \/ Publish(c)
          \/ Resume(c)
          \/ Disconnect(c)
          \/ \E reg \in Registrations, stop \in StopIds : Stop(c, reg, stop)
    \/ \E stop \in StopIds : Terminate(stop)
    \/ Receive
    \/ Submit

\* Inputs of the storage and delivery host.
Completion ==
    \/ CompleteUncertain
    \/ Retry
    \/ CompleteWrite
    \/ CompleteOwnership
    \/ FinishPersist
    \/ FinishCommit
    \/ \E c \in Connections : Discarded(c)

Expire ==
    /\ ExpireLifecycle \/ \E c \in Connections : ExpireHandshake(c)
    /\ UNCHANGED <<now, restarts>>

HandleRequest == ~Due /\ Request /\ UNCHANGED <<now, restarts>>

HandleCompletion == ~Due /\ Completion /\ UNCHANGED <<now, restarts>>

Next ==
    \/ Tick
    \/ Expire
    \/ HandleRequest
    \/ HandleCompletion
    \/ ExecuteLands
    \/ ExecuteFails
    \/ \E surviving \in SUBSET {c \in Connections : conn[c] \notin {"New", "Closed"}} :
          Restart(surviving)

Spec == Init /\ [][Next]_vars

\* The actor's loop runs its timers and the host's answers; the host retries
\* until storage takes the write.
Fairness ==
    /\ WF_vars(Expire)
    /\ WF_vars(HandleCompletion)
    /\ SF_vars(ExecuteLands /\ work' = "Complete")

FairSpec == Spec /\ Fairness

-----------------------------------------------------------------------------
(* Correctness.                                                            *)

TypeOK ==
    /\ now \in Instants
    /\ state \in States
    /\ conn \in [Connections -> {"New", "Handshake", "Established", "Stopping", "Closed"}]
    /\ attempt \in [Connections -> Attempts]
    /\ tasks \in Seq(Tasks)
    /\ work \in {"Idle", "Executing", "Complete", "Uncertain", "Retry"}
    /\ stored \in Records
    /\ barrier \in BOOLEAN
    /\ queued \subseteq Connections
    /\ row \in Records
    /\ registered \subseteq Connections
    /\ stopped \subseteq [to : Connections, reg : Registrations, stop : StopIds]
    /\ restarts \in Nat

\* The row is the last record the actor saw confirmed, or the front write that
\* landed without its confirmation (storage.rs start_work, complete): the
\* actor never compares against a row it does not know.
StoredIsCurrent ==
    /\ TypeOK
    /\ row = stored \/ (tasks # <<>> /\ row = Head(tasks).next)

\* A sender that this actor answered REGISTERED and that is still connected
\* is the owner, or is about to be replaced by the write in progress
\* (storage.rs after_write closes the replaced owner first).
OneOwner ==
    \A c \in registered :
        conn[c] = "Established" =>
            \/ state.phase = "Published" /\ state.owner = c
            \/ \E i \in DOMAIN tasks : tasks[i].replaced = c
            \/ state.phase = "Stopping"

\* Once STOP is durable, every incarnation of the actor is stopping or stopped
\* with that STOP (restoration.rs install); once it is committed no frame of a
\* former owner is still waiting to be submitted (storage.rs progress_stop).
StopFences ==
    /\ row.phase = "Stopping" => state.phase = "Stopping" /\ state.pending = row.pending
    /\ row.phase = "Stopped" =>
          /\ queued = {}
          /\ \/ state = row
             \/ /\ state.phase = "Stopping" /\ state.step = "Commit"
                /\ row = Stopped(state.pending.reg, state.pending.stop)

\* The record of a lifecycle state that storage keeps.
DurableForm(s) ==
    CASE s.phase = "Activating" -> Published(s.owner, s.epoch, s.reg)
      [] s.phase = "Stopping" /\ s.step = "Commit" -> Stopped(s.pending.reg, s.pending.stop)
      [] s.phase = "Stopping" /\ s.step # "Commit" -> StoppingRecord(s.pending)
      [] OTHER -> s

\* Whatever was superseded on the way, the ordered writes end in the record of
\* the ownership, grace or STOP the actor holds (lifecycle/mod.rs: "ordered
\* grace/STOP work follows its exact confirmation").
QueueEndsInState ==
    state.phase \notin {"Vacant", "Reserved"} =>
        (IF tasks = <<>> THEN stored ELSE Last(tasks).next) = DurableForm(state)

\* lifecycle/effect.rs says of a lapsed route that its grace record is deleted
\* "instead of leaving it to block a new publication": a vacant share whose
\* writes are all confirmed has no row.
LapseLeavesNoRow ==
    state.phase = "Vacant" /\ tasks = <<>> => row = Vacant

\* What a record, and the state that may be served, are in ShareRegister.
RegisterRecord(r) ==
    CASE r.phase = "Vacant" -> [phase |-> "Vacant"]
      [] r.phase = "Published" ->
            [phase |-> "Held", owner |-> r.owner, epoch |-> r.epoch, reg |-> r.reg]
      [] r.phase = "Grace" ->
            [phase |-> "Lost", owner |-> r.owner, epoch |-> r.epoch, reg |-> r.reg,
             until |-> r.deadline]
      [] r.phase = "Stopping" ->
            [phase |-> "Ending", reg |-> r.pending.reg, stop |-> r.pending.stop]
      [] r.phase = "Stopped" -> [phase |-> "Ended", reg |-> r.reg, stop |-> r.stop]

Share == INSTANCE ShareRegister WITH
    Instants <- 0 .. MaxTime + SenderGrace,
    clock <- now,
    record <- RegisterRecord(row),
    serving <- IF state.phase = "Published" THEN state.owner ELSE NoConnection,
    seen <- [c \in Connections |->
               IF attempt[c] = NoAttempt THEN NoOwnership ELSE attempt[c].observed],
    acknowledged <- stopped

\* The actor, its ordered writes and the row together implement the abstract
\* share, across receipts lost and actors replaced: durable ownership passes only
\* to the resume that observed it, a grace deadline never moves, STOP is never
\* undone, no route is served on a record that is not durable or about to move,
\* and STOPPED names the final record (lifecycle/, share/storage.rs, authority.rs).
ImplementsRegister == Share!Spec

\* A STOP that an actor accepted is completed by it, unless the actor is lost
\* (storage.rs progress_stop and after_write; stopping.rs finish_stop).
StopCompletes ==
    \A n \in 0 .. MaxRestarts :
        state.phase = "Stopping" /\ restarts = n ~> state.phase = "Stopped" \/ restarts > n

\* A durable STOP is completed, whichever actor finishes it.
DurableStopCompletes == row.phase = "Stopping" ~> row.phase = "Stopped"

=============================================================================
