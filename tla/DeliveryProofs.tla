--------------------------- MODULE DeliveryProofs ---------------------------
(***************************************************************************)
(* What ReceiveWindowProofs shows of the window against an arbitrary relay *)
(* holds of the window joined to the relay's ledger by the socket: every   *)
(* step of the composition is a step of the window or leaves it alone.     *)
(***************************************************************************)
EXTENDS Delivery, ReceiveWindowProofs

Kinds == {"credit", "frame", "notice"}

Messages(C) == [kind : Kinds, session : Sessions, counts : C]

\* The messages on their way to the endpoint name sessions, whatever they count.
Addressed(q) == \E C : q \in Seq(Messages(C))

Links == [lifecycle : {"open", "retiring", "closed"}, natural : BOOLEAN,
          owner : {"holds", "joins", "returned"}]

\* The inductive invariant.
DeliveryInv == Inv /\ Addressed(down) /\ link \in Links

\* One more message leaves a queue addressed.
LEMMA AppendAddressed ==
    ASSUME NEW q, Addressed(q), NEW kind \in Kinds, NEW s \in Sessions, NEW c
    PROVE  Addressed(Append(q, Message(kind, s, c)))
<1>1. PICK C : q \in Seq(Messages(C))
  BY DEF Addressed
<1> DEFINE D == C \cup {c}
<1>2. Message(kind, s, c) \in Messages(D)
  BY DEF Message, Messages
<1>3. Messages(C) \subseteq Messages(D)
  BY DEF Messages
<1> HIDE DEF D
<1>4. q \in Seq(Messages(D))
  BY <1>1, <1>3
<1>5. Append(q, Message(kind, s, c)) \in Seq(Messages(D))
  BY <1>2, <1>4
<1> QED BY <1>5 DEF Addressed

\* The first message of a queue names a session, and so do the others.
LEMMA HeadAddressed ==
    ASSUME NEW q, Addressed(q), q # <<>>
    PROVE  Head(q).session \in Sessions /\ Addressed(Tail(q))
<1>1. PICK C : q \in Seq(Messages(C))
  BY DEF Addressed
<1>2. Head(q) \in Messages(C) /\ Tail(q) \in Seq(Messages(C))
  BY <1>1
<1> QED BY <1>2 DEF Addressed, Messages

\* Initially nothing is on its way.
LEMMA DeliveryInit == Init => DeliveryInv
<1> SUFFICES ASSUME Init
             PROVE  DeliveryInv
  OBVIOUS
<1>1. Inv
  BY InitInv DEF Init
<1>2. Addressed(<<>>)
  <2>1. <<>> \in Seq(Messages({}))
    OBVIOUS
  <2> QED BY <2>1 DEF Addressed
<1> QED BY <1>1, <1>2 DEF DeliveryInv, Init, Links

\* The relay's steps leave the window alone; three of them send a message.
LEMMA RelaySteps ==
    ASSUME DeliveryInv,
           \/ RelayAdmits \/ RelayReads \/ RelayConfirmsClosed
           \/ \E s \in Sessions :
                 \/ RelayOpens(s) \/ RelayAccepts(s) \/ RelaySubmits(s) \/ RelayRetires(s)
                 \/ RelayDiscards(s)
    PROVE  DeliveryInv'
<1>1. Inv'
  <2>1. UNCHANGED windowVars
    BY DEF RelayAdmits, RelayReads, RelayConfirmsClosed, RelayOpens, RelayAccepts, RelaySubmits,
           RelayRetires, RelayDiscards
  <2> QED BY <2>1 DEF DeliveryInv, Inv, windowVars
<1>2. link' = link
  BY DEF RelayAdmits, RelayReads, RelayConfirmsClosed, RelayOpens, RelayAccepts, RelaySubmits,
         RelayRetires, RelayDiscards, socketVars
<1>3. Addressed(down')
  <2>1. CASE down' = down
    BY <2>1 DEF DeliveryInv
  <2>2. ASSUME NEW s \in Sessions, RelayOpens(s) \/ RelaySubmits(s) \/ RelayDiscards(s)
        PROVE  Addressed(down')
    <3>1. PICK kind, c : kind \in Kinds /\ down' = Append(down, Message(kind, s, c))
      BY <2>2 DEF RelayOpens, RelaySubmits, RelayDiscards, Kinds
    <3> QED BY <3>1, AppendAddressed DEF DeliveryInv
  <2> QED
    BY <2>1, <2>2 DEF RelayAdmits, RelayReads, RelayConfirmsClosed, RelayAccepts, RelayRetires, socketVars
<1> QED BY <1>1, <1>2, <1>3 DEF DeliveryInv

\* The reader's steps are steps of the window.
LEMMA ReaderSteps ==
    ASSUME DeliveryInv, Reader
    PROVE  DeliveryInv'
<1> DEFINE s == Head(down).session
<1>1. down # <<>> /\ link' = link
  BY DEF Reader, ReaderOpens, ReaderReceives, ReaderRetires, ReaderNotices
<1>2. s \in Sessions /\ Addressed(down) /\ Addressed(Tail(down)) /\ Inv
  BY <1>1, HeadAddressed DEF DeliveryInv
<1>3. Addressed(down')
  BY <1>2 DEF Reader, ReaderOpens, ReaderReceives, ReaderRetires, ReaderNotices
<1> HIDE DEF s
<1>4. ASSUME ReaderOpens
      PROVE  Inv'
  BY <1>2, <1>4, OpenFlowStep DEF ReaderOpens, s
<1>5. ASSUME ReaderReceives
      PROVE  Inv'
  BY <1>2, <1>5, ReceiveFrameStep DEF ReaderReceives, s
<1>6. ASSUME ReaderRetires
      PROVE  Inv'
  BY <1>2, <1>6, RetireFlowStep DEF ReaderRetires, s
<1>7. ASSUME ReaderNotices
      PROVE  Inv'
  BY <1>2, <1>7, NoticeFlowStep DEF ReaderNotices, s
<1>8. Inv'
  BY <1>4, <1>5, <1>6, <1>7 DEF Reader
<1> QED BY <1>1, <1>3, <1>8 DEF DeliveryInv

\* So are those of the workers, the writer and the owners of channels, ...
LEMMA EndpointSteps ==
    ASSUME DeliveryInv, Writer \/ \E s \in Sessions : ChannelCloses(s) \/ WorkerSteps(s)
    PROVE  DeliveryInv'
<1>1. Inv /\ Addressed(down)
  BY DEF DeliveryInv
<1>2. down' = down /\ link' = link
  BY DEF Writer, WriterTurns, WriterAcknowledges, WriterReports, ChannelCloses, WorkerSteps, socketVars
<1>3. ASSUME WriterTurns
      PROVE  Inv'
  BY <1>1, <1>3 DEF WriterTurns, WriterRests, Inv
<1>4. ASSUME NEW s \in Sessions, WriterAcknowledges(s) \/ WriterReports(s)
      PROVE  Inv'
  BY <1>1, <1>4, TakeFinalStep, TakePrefixStep DEF WriterAcknowledges, WriterReports
<1>5. ASSUME NEW s \in Sessions, ChannelCloses(s)
      PROVE  Inv'
  BY <1>1, <1>5, RetireFlowStep DEF ChannelCloses
<1>6. ASSUME NEW s \in Sessions, WorkerSteps(s)
      PROVE  Inv'
  BY <1>1, <1>6, WorkerMoves, WorkerCompletesStep DEF WorkerSteps, Worker
<1>7. Inv'
  BY <1>3, <1>4, <1>5, <1>6 DEF Writer
<1> QED BY <1>1, <1>2, <1>7 DEF DeliveryInv

\* ... and the window's part in the end of the link.
LEMMA LinkSteps ==
    ASSUME DeliveryInv, LinkFails \/ OwnerCloses \/ OwnerReturns \/ OwnerReleases \/ Stop
    PROVE  DeliveryInv'
<1>1. Inv /\ Addressed(down) /\ link \in Links /\ link.natural \in BOOLEAN
  BY DEF DeliveryInv, Links
<1>2. Addressed(down')
  <2>1. Addressed(<<>>)
    <3>1. <<>> \in Seq(Messages({}))
      OBVIOUS
    <3> QED BY <3>1 DEF Addressed
  <2> QED BY <1>1, <2>1 DEF LinkFails, OwnerCloses, OwnerReturns, OwnerReleases, Stop, StopRetires,
                            StopCloses, StopEnds, socketVars
<1>3. link' \in Links
  <2>1. CASE LinkFails \/ OwnerReturns \/ OwnerReleases \/ StopEnds
    BY <1>1, <2>1 DEF LinkFails, OwnerReturns, OwnerReleases, StopEnds, Links
  <2>2. CASE OwnerCloses
    BY <2>2 DEF OwnerCloses, Links
  <2>3. CASE link' = link
    BY <1>1, <2>3
  <2> QED BY <2>1, <2>2, <2>3 DEF Stop, StopRetires, StopCloses, socketVars
<1>4. ASSUME UNCHANGED windowVars
      PROVE  Inv'
  BY <1>1, <1>4 DEF Inv, windowVars
<1>5. ASSUME CloseWindow(TRUE) \/ CloseWindow(link.natural)
      PROVE  Inv'
  BY <1>1, <1>5, CloseWindowStep
<1>6. ASSUME NEW s \in Sessions, RetireFlow(s, link.natural)
      PROVE  Inv'
  BY <1>1, <1>6, RetireFlowStep
<1>7. Inv'
  BY <1>4, <1>5, <1>6 DEF LinkFails, OwnerCloses, OwnerReturns, OwnerReleases, Stop, StopRetires,
                          StopCloses, StopEnds
<1> QED BY <1>2, <1>3, <1>7 DEF DeliveryInv

\* UsageExact of the composition, for every number of sessions and flows, every
\* capacity and every pattern of failures and closes: over an ordered socket, with
\* the relay's ledger at the other end, the endpoint's counters stay the sums over
\* the flows that receiveledger retains and within the declared capacity.
THEOREM DeliveryUsageExact == Spec => []UsageExact
<1>1. DeliveryInv /\ [Next]_vars => DeliveryInv'
  <2> SUFFICES ASSUME DeliveryInv, [Next]_vars
               PROVE  DeliveryInv'
    OBVIOUS
  <2>1. CASE UNCHANGED vars
    BY <2>1 DEF DeliveryInv, Inv, vars, windowVars, socketVars
  <2>2. CASE Next
    BY <2>2, RelaySteps, ReaderSteps, EndpointSteps, LinkSteps DEF Next
  <2> QED BY <2>1, <2>2
<1>2. DeliveryInv => UsageExact
  BY DEF DeliveryInv, Inv, LedgerInv, UsageExact
<1> QED BY <1>1, <1>2, DeliveryInit, PTL DEF Spec

=============================================================================
