------------------------- MODULE ReceiveWindowProofs -------------------------
(***************************************************************************)
(* The receive window keeps its ledger's counters exact, whatever the      *)
(* relay sends and in whatever order readers, workers and the writer run,  *)
(* for every number of sessions and every capacity.                        *)
(***************************************************************************)
EXTENDS ReceiveWindow, SumsTheorems, TLAPS

IntCounts == [Dim -> Int]

\* A retained flow: what was reported was consumed, what was consumed or dropped
\* was completed, and before the first drop everything completed was consumed.
\* A settled flow is forgotten in the same step.
FlowInv(f) ==
    /\ f \in Flows
    /\ f.phase # "settled"
    /\ \A d \in Dim : /\ f.reported[d] <= f.consumedPrefix[d]
                      /\ f.consumedPrefix[d] <= f.completed[d]
                      /\ f.discarded[d] <= f.completed[d]
    /\ f.discarded["frames"] = 0 => f.consumedPrefix = f.completed

\* The fields of a ledger; what order and cursor hold is of no concern here.
Fields ==
    {"sessions", "order", "cursor", "held", "outstanding", "pendingConsumed", "closed"}

IsLedger(l) == DOMAIN l = Fields /\ l = [x \in Fields |-> l[x]]

LedgerInv(l) ==
    /\ IsLedger(l)
    /\ l.sessions \in [Sessions -> Flows \cup {None}]
    /\ \A s \in Sessions : l.sessions[s] # None => FlowInv(l.sessions[s])
    /\ l.held \in IntCounts /\ l.outstanding \in IntCounts /\ l.pendingConsumed \in IntCounts
    /\ Exact(l)

\* The receipts of frames in the window never run backwards.
Sound == {r \in Receipts : \A d \in Dim : r.before[d] <= r.after[d]}

FlowRecords ==
    [queue : Seq(Sound), frame : Sound \cup {None}, drop : BOOLEAN,
     worker : {"idle", "handing", "completing", "disposed", "done"}, wake : BOOLEAN,
     discard : BOOLEAN, sealed : BOOLEAN, forgotten : BOOLEAN]

\* A worker that hands or completes has a frame.
ReceiveFlows ==
    {f \in FlowRecords : f.worker \in {"handing", "completing"} => f.frame \in Sound}

\* The inductive invariant.
Inv == LedgerInv(ledger) /\ flows \in [Sessions -> ReceiveFlows \cup {None}]

-----------------------------------------------------------------------------
(* One flow changes.                                                       *)

\* What a flow owes to a counter is an integer.
LEMMA TermTypes ==
    ASSUME NEW f \in Flows \cup {None}, NEW d \in Dim
    PROVE  Owed(f)[d] \in Int /\ Unreported(f)[d] \in Int /\ Buffered(f)[d] \in Int
<1>1. CASE f = None
  BY <1>1 DEF Owed, Unreported, Buffered, Zero
<1>2. CASE f \in Flows
  BY <1>2, ReceiveConfig DEF Owed, Unreported, Buffered, Zero, Subtract, Flows, Counts
<1> QED BY <1>1, <1>2

\* A sum over the flows follows the one flow that changed.
LEMMA SessionSum ==
    ASSUME NEW t \in [Sessions -> Int], NEW u \in [Sessions -> Int], NEW s \in Sessions,
           \A i \in Sessions : i # s => u[i] = t[i]
    PROVE  Sum(u, NSessions) = Sum(t, NSessions) - t[s] + u[s]
<1>1. NSessions \in Nat /\ s \in 1 .. NSessions
  BY ReceiveConfig DEF Sessions
<1>2. /\ \A i \in 1 .. NSessions : t[i] \in Int
      /\ \A i \in 1 .. NSessions : u[i] \in Int
      /\ \A i \in 1 .. NSessions : i # s => u[i] = t[i]
  BY DEF Sessions
<1> QED BY <1>1, <1>2, SumUpdate

\* Each counter moves with what the flow that changes from f to g owes to it.
Balanced(l, m, f, g) ==
    /\ m.held \in IntCounts /\ m.outstanding \in IntCounts /\ m.pendingConsumed \in IntCounts
    /\ \A d \in Dim :
          /\ m.outstanding[d] = l.outstanding[d] - Owed(f)[d] + Owed(g)[d]
          /\ m.pendingConsumed[d] = l.pendingConsumed[d] - Unreported(f)[d] + Unreported(g)[d]
          /\ m.held[d] = l.held[d] - Buffered(f)[d] + Buffered(g)[d]
          /\ m.outstanding[d] <= Capacity[d]

\* The sums stay exact when each counter moves with the one flow that changed.
LEMMA ExactUpdate ==
    ASSUME NEW l, NEW m, NEW s \in Sessions, NEW g \in Flows \cup {None},
           l.sessions \in [Sessions -> Flows \cup {None}], Exact(l),
           l.held \in IntCounts, l.outstanding \in IntCounts, l.pendingConsumed \in IntCounts,
           m.sessions = [l.sessions EXCEPT ![s] = g], Balanced(l, m, l.sessions[s], g)
    PROVE  Exact(m)
<1> SUFFICES ASSUME NEW d \in Dim
             PROVE  /\ m.outstanding[d] = Sum([i \in Sessions |-> Owed(m.sessions[i])[d]], NSessions)
                    /\ m.pendingConsumed[d] =
                          Sum([i \in Sessions |-> Unreported(m.sessions[i])[d]], NSessions)
                    /\ m.held[d] = Sum([i \in Sessions |-> Buffered(m.sessions[i])[d]], NSessions)
                    /\ m.outstanding[d] <= Capacity[d]
  BY DEF Exact
<1> DEFINE ol == [i \in Sessions |-> Owed(l.sessions[i])[d]]
           om == [i \in Sessions |-> Owed(m.sessions[i])[d]]
           ul == [i \in Sessions |-> Unreported(l.sessions[i])[d]]
           um == [i \in Sessions |-> Unreported(m.sessions[i])[d]]
           bl == [i \in Sessions |-> Buffered(l.sessions[i])[d]]
           bm == [i \in Sessions |-> Buffered(m.sessions[i])[d]]
<1>1. /\ \A i \in Sessions : /\ l.sessions[i] \in Flows \cup {None}
                             /\ m.sessions[i] \in Flows \cup {None}
      /\ m.sessions[s] = g
      /\ \A i \in Sessions : i # s => m.sessions[i] = l.sessions[i]
  OBVIOUS
<1>2. \A i \in Sessions :
        /\ Owed(l.sessions[i])[d] \in Int /\ Owed(m.sessions[i])[d] \in Int
        /\ Unreported(l.sessions[i])[d] \in Int /\ Unreported(m.sessions[i])[d] \in Int
        /\ Buffered(l.sessions[i])[d] \in Int /\ Buffered(m.sessions[i])[d] \in Int
  BY <1>1, TermTypes
<1>3. /\ ol \in [Sessions -> Int] /\ om \in [Sessions -> Int]
      /\ ul \in [Sessions -> Int] /\ um \in [Sessions -> Int]
      /\ bl \in [Sessions -> Int] /\ bm \in [Sessions -> Int]
  BY <1>2
<1>4. \A i \in Sessions : i # s => om[i] = ol[i] /\ um[i] = ul[i] /\ bm[i] = bl[i]
  BY <1>1
<1>5. /\ ol[s] = Owed(l.sessions[s])[d] /\ om[s] = Owed(g)[d]
      /\ ul[s] = Unreported(l.sessions[s])[d] /\ um[s] = Unreported(g)[d]
      /\ bl[s] = Buffered(l.sessions[s])[d] /\ bm[s] = Buffered(g)[d]
  BY <1>1
<1>6. /\ l.outstanding[d] = Sum(ol, NSessions)
      /\ l.pendingConsumed[d] = Sum(ul, NSessions)
      /\ l.held[d] = Sum(bl, NSessions)
  BY DEF Exact
<1> HIDE DEF ol, om, ul, um, bl, bm
<1>7. Sum(om, NSessions) = Sum(ol, NSessions) - ol[s] + om[s]
  BY <1>3, <1>4, SessionSum
<1>8. Sum(um, NSessions) = Sum(ul, NSessions) - ul[s] + um[s]
  BY <1>3, <1>4, SessionSum
<1>9. Sum(bm, NSessions) = Sum(bl, NSessions) - bl[s] + bm[s]
  BY <1>3, <1>4, SessionSum
<1>10. /\ m.outstanding[d] = Sum(om, NSessions)
       /\ m.pendingConsumed[d] = Sum(um, NSessions)
       /\ m.held[d] = Sum(bm, NSessions)
       /\ m.outstanding[d] <= Capacity[d]
  BY <1>5, <1>6, <1>7, <1>8, <1>9 DEF Balanced
<1> QED BY <1>10 DEF om, um, bm

-----------------------------------------------------------------------------
(* The operations of the ledger.                                           *)

\* The invariant of the ledger, when one flow is replaced or forgotten.
LEMMA LedgerUpdate ==
    ASSUME NEW l, NEW m, NEW s \in Sessions, NEW g, LedgerInv(l), IsLedger(m),
           g = None \/ FlowInv(g),
           m.sessions = [l.sessions EXCEPT ![s] = g], Balanced(l, m, l.sessions[s], g)
    PROVE  LedgerInv(m)
<1>1. g \in Flows \cup {None}
  BY DEF FlowInv
<1>2. Exact(m)
  <2>1. /\ l.sessions \in [Sessions -> Flows \cup {None}] /\ Exact(l)
        /\ l.held \in IntCounts /\ l.outstanding \in IntCounts /\ l.pendingConsumed \in IntCounts
    BY DEF LedgerInv
  <2> QED BY <1>1, <2>1, ExactUpdate, Zenon
<1>3. /\ m.sessions \in [Sessions -> Flows \cup {None}]
      /\ \A i \in Sessions : m.sessions[i] # None => FlowInv(m.sessions[i])
  BY <1>1 DEF LedgerInv
<1> QED BY <1>2, <1>3 DEF LedgerInv, Balanced

\* A flow starts with nothing received, consumed or reported.
LEMMA NewFlowInv == FlowInv(NewFlow)
BY ReceiveConfig DEF FlowInv, NewFlow, Flows, Phases, Zero, Counts, Dim

\* What a live flow adds to each counter.
LEMMA LiveTerms ==
    ASSUME NEW f, FlowInv(f), NEW d \in Dim
    PROVE  /\ Owed(f)[d] = f.received[d] - f.reported[d]
           /\ Unreported(f)[d] = f.consumedPrefix[d] - f.reported[d]
           /\ Buffered(f)[d] = f.received[d] - f.completed[d]
BY NoneIsNoFlow DEF FlowInv, Owed, Unreported, Buffered, Subtract

\* A flow that is not retained owes nothing.
LEMMA NoneTerms ==
    ASSUME NEW d \in Dim
    PROVE  Owed(None)[d] = 0 /\ Unreported(None)[d] = 0 /\ Buffered(None)[d] = 0
BY DEF Owed, Unreported, Buffered, Zero

\* A flow in numbers.
LEMMA FlowNumbers ==
    ASSUME NEW f \in Flows, NEW d \in Dim
    PROVE  /\ f.received[d] \in Nat /\ f.received[d] <= MaxCount
           /\ f.discarded[d] \in Nat /\ f.consumedPrefix[d] \in Nat
           /\ f.completed[d] \in Nat /\ f.reported[d] \in Nat
BY ReceiveConfig DEF Flows, Counts

\* New: an empty ledger is exact.
LEMMA NewLedgerInv == LedgerInv(NewLedger)
<1>1. IsLedger(NewLedger)
  BY Zenon DEF NewLedger, IsLedger, Fields
<1>2. /\ NewLedger.sessions = [s \in Sessions |-> None]
      /\ NewLedger.held = Zero /\ NewLedger.outstanding = Zero /\ NewLedger.pendingConsumed = Zero
  BY DEF NewLedger
<1>3. ASSUME NEW d \in Dim
      PROVE  /\ Sum([s \in Sessions |-> Owed(NewLedger.sessions[s])[d]], NSessions) = 0
             /\ Sum([s \in Sessions |-> Unreported(NewLedger.sessions[s])[d]], NSessions) = 0
             /\ Sum([s \in Sessions |-> Buffered(NewLedger.sessions[s])[d]], NSessions) = 0
  <2> DEFINE o == [s \in Sessions |-> Owed(NewLedger.sessions[s])[d]]
             u == [s \in Sessions |-> Unreported(NewLedger.sessions[s])[d]]
             b == [s \in Sessions |-> Buffered(NewLedger.sessions[s])[d]]
  <2>1. \A s \in Sessions : o[s] = 0 /\ u[s] = 0 /\ b[s] = 0
    BY <1>2, <1>3, NoneTerms
  <2> HIDE DEF o, u, b
  <2>2. NSessions \in Nat /\ \A i \in 1 .. NSessions : o[i] = 0 /\ u[i] = 0 /\ b[i] = 0
    BY <2>1, ReceiveConfig DEF Sessions
  <2>3. Sum(o, NSessions) = 0 /\ Sum(u, NSessions) = 0 /\ Sum(b, NSessions) = 0
    BY <2>2, SumZero
  <2> QED BY <2>3 DEF o, u, b
<1>4. \A d \in Dim : Zero[d] = 0 /\ 0 <= Capacity[d]
  BY ReceiveConfig DEF Zero, Counts
<1>5. Exact(NewLedger)
  BY <1>2, <1>3, <1>4 DEF Exact
<1> QED BY <1>1, <1>2, <1>5 DEF LedgerInv, IntCounts, Zero

\* Ledger.Open adds a flow that owes nothing.
LEMMA OpenInv ==
    ASSUME NEW l, NEW s \in Sessions, LedgerInv(l), CanOpen(l, s)
    PROVE  LedgerInv(Open(l, s))
<1> DEFINE m == Open(l, s)
<1>1. IsLedger(m)
  BY Zenon DEF LedgerInv, IsLedger, Fields, Open
<1>2. /\ m.sessions = [l.sessions EXCEPT ![s] = NewFlow]
      /\ m.held = l.held /\ m.outstanding = l.outstanding /\ m.pendingConsumed = l.pendingConsumed
  BY DEF LedgerInv, IsLedger, Fields, Open
<1>3. ASSUME NEW d \in Dim
      PROVE  /\ Owed(l.sessions[s])[d] = 0 /\ Owed(NewFlow)[d] = 0
             /\ Unreported(l.sessions[s])[d] = 0 /\ Unreported(NewFlow)[d] = 0
             /\ Buffered(l.sessions[s])[d] = 0 /\ Buffered(NewFlow)[d] = 0
             /\ l.outstanding[d] \in Int /\ l.pendingConsumed[d] \in Int /\ l.held[d] \in Int
             /\ l.outstanding[d] <= Capacity[d]
  <2>1. l.sessions[s] = None
    BY DEF CanOpen
  <2>2. Owed(NewFlow)[d] = 0 /\ Unreported(NewFlow)[d] = 0 /\ Buffered(NewFlow)[d] = 0
    BY <1>3, NewFlowInv, LiveTerms DEF NewFlow, Zero
  <2> QED BY <1>3, <2>1, <2>2, NoneTerms, Zenon DEF LedgerInv, Exact, IntCounts
<1> HIDE DEF m
<1>4. Balanced(l, m, l.sessions[s], NewFlow)
  BY <1>2, <1>3 DEF Balanced, LedgerInv
<1>5. LedgerInv(m)
  BY <1>1, <1>2, <1>4, NewFlowInv, LedgerUpdate
<1> QED BY <1>5 DEF m

\* The flow of an open session, with its counters as integers.
LEMMA LiveFlow ==
    ASSUME NEW l, NEW s \in Sessions, LedgerInv(l), l.sessions[s] # None
    PROVE  /\ FlowInv(l.sessions[s])
           /\ l.sessions[s] \in Flows
           /\ \A d \in Dim : /\ l.outstanding[d] \in Int /\ l.outstanding[d] <= Capacity[d]
                             /\ l.pendingConsumed[d] \in Int /\ l.held[d] \in Int
BY Zenon DEF LedgerInv, FlowInv, IntCounts, Exact

\* Each counter moves with the counters of the flow that changes from f to g.
Follows(l, m, f, g) ==
    /\ m.held \in IntCounts /\ m.outstanding \in IntCounts /\ m.pendingConsumed \in IntCounts
    /\ \A d \in Dim :
          /\ m.outstanding[d] =
                l.outstanding[d] - (f.received[d] - f.reported[d]) + (g.received[d] - g.reported[d])
          /\ m.pendingConsumed[d] =
                l.pendingConsumed[d] - (f.consumedPrefix[d] - f.reported[d])
                                     + (g.consumedPrefix[d] - g.reported[d])
          /\ m.held[d] =
                l.held[d] - (f.received[d] - f.completed[d]) + (g.received[d] - g.completed[d])
          /\ m.outstanding[d] <= Capacity[d]

\* What an operation on a live flow has to show.
LEMMA FlowUpdate ==
    ASSUME NEW l, NEW m, NEW s \in Sessions, NEW f, NEW g,
           LedgerInv(l), l.sessions[s] = f, f # None, IsLedger(m), FlowInv(g),
           m.sessions = [l.sessions EXCEPT ![s] = g],
           Follows(l, m, f, g)
    PROVE  LedgerInv(m)
<1>1. FlowInv(f)
  BY LiveFlow
<1>2. \A d \in Dim :
        /\ Owed(f)[d] = f.received[d] - f.reported[d]
        /\ Unreported(f)[d] = f.consumedPrefix[d] - f.reported[d]
        /\ Buffered(f)[d] = f.received[d] - f.completed[d]
  BY <1>1, LiveTerms
<1>3. \A d \in Dim :
        /\ Owed(g)[d] = g.received[d] - g.reported[d]
        /\ Unreported(g)[d] = g.consumedPrefix[d] - g.reported[d]
        /\ Buffered(g)[d] = g.received[d] - g.completed[d]
  BY LiveTerms
<1>4. Balanced(l, m, f, g)
  BY <1>2, <1>3 DEF Balanced, Follows
<1>5. Balanced(l, m, l.sessions[s], g) /\ (g = None \/ FlowInv(g))
  BY <1>4
<1> QED BY <1>5, LedgerUpdate

\* Ledger.Receive: an accepted frame is held and outstanding, within the capacity.
LEMMA ReceiveInv ==
    ASSUME NEW l, NEW s \in Sessions, NEW bytes, LedgerInv(l), CanReceive(l, s, bytes)
    PROVE  LedgerInv(Receive(l, s, bytes))
<1> DEFINE m == Receive(l, s, bytes)
           f == l.sessions[s]
           size == Size(bytes)
           g == [f EXCEPT !.received = Add(f.received, size)]
<1>1. /\ f # None /\ f.phase \in {"active", "retiring"}
      /\ bytes \in Nat \ {0}
      /\ f.received["frames"] < MaxCount /\ bytes <= MaxCount - f.received["encoded_bytes"]
      /\ l.outstanding["frames"] # Capacity["frames"]
      /\ bytes <= Capacity["encoded_bytes"] - l.outstanding["encoded_bytes"]
  BY ReceiveConfig DEF CanReceive, Known
<1>2. /\ FlowInv(f) /\ f \in Flows
      /\ \A d \in Dim : /\ l.outstanding[d] \in Int /\ l.outstanding[d] <= Capacity[d]
                        /\ l.pendingConsumed[d] \in Int /\ l.held[d] \in Int
  BY <1>1, LiveFlow
<1>3. IsLedger(m)
  BY Zenon DEF LedgerInv, IsLedger, Fields, Receive
<1>4. /\ m.sessions = [l.sessions EXCEPT ![s].received = Add(f.received, size)]
      /\ m.held = Add(l.held, size) /\ m.outstanding = Add(l.outstanding, size)
      /\ m.pendingConsumed = l.pendingConsumed
  BY DEF LedgerInv, IsLedger, Fields, Receive
<1>5. m.sessions = [l.sessions EXCEPT ![s] = g]
  BY <1>4 DEF LedgerInv
<1>6. /\ \A d \in Dim : size[d] \in Nat
      /\ size["frames"] = 1 /\ size["encoded_bytes"] = bytes
  BY <1>1 DEF Size, Dim
<1>7. Add(f.received, size) \in Counts
  <2>1. \A d \in Dim : f.received[d] \in Nat
    BY <1>2, FlowNumbers
  <2>2. \A d \in Dim : f.received[d] + size[d] \in 0 .. MaxCount
    BY <1>1, <1>6, <2>1, ReceiveConfig DEF Dim
  <2> QED BY <2>2 DEF Add, Counts
<1> HIDE DEF size, m
<1>8. FlowInv(g) /\ g.received = Add(f.received, size) /\ g.reported = f.reported
      /\ g.consumedPrefix = f.consumedPrefix /\ g.completed = f.completed
  BY <1>2, <1>7 DEF FlowInv, Flows
<1> HIDE DEF g
<1>9. \A d \in Dim :
        /\ m.outstanding[d] = l.outstanding[d] + size[d] /\ m.held[d] = l.held[d] + size[d]
        /\ m.pendingConsumed[d] = l.pendingConsumed[d]
        /\ g.received[d] = f.received[d] + size[d]
        /\ l.outstanding[d] + size[d] <= Capacity[d]
  <2>1. \A d \in Dim : l.outstanding[d] + size[d] <= Capacity[d]
    BY <1>1, <1>2, <1>6, ReceiveConfig DEF Dim, Counts
  <2> QED BY <1>4, <1>8, <2>1 DEF Add
<1>10. \A d \in Dim : /\ f.received[d] \in Nat /\ f.consumedPrefix[d] \in Nat
                      /\ f.completed[d] \in Nat /\ f.reported[d] \in Nat
  BY <1>2, FlowNumbers
<1>11. m.held \in IntCounts /\ m.outstanding \in IntCounts /\ m.pendingConsumed \in IntCounts
  <2>1. \A d \in Dim : l.held[d] + size[d] \in Int /\ l.outstanding[d] + size[d] \in Int
    BY <1>2, <1>6
  <2> QED BY <1>4, <2>1 DEF IntCounts, Add, LedgerInv
<1> HIDE DEF f
<1>12. Follows(l, m, f, g)
  BY <1>2, <1>6, <1>8, <1>9, <1>10, <1>11 DEF Follows
<1>13. f = l.sessions[s]
  BY DEF f
<1>14. LedgerInv(m)
  BY <1>1, <1>3, <1>5, <1>8, <1>12, <1>13, FlowUpdate, Zenon
<1> QED BY <1>14 DEF m

\* The receipt of an accepted frame does not run backwards.
LEMMA ReceiptSound ==
    ASSUME NEW l, NEW s \in Sessions, NEW bytes, LedgerInv(l), CanReceive(l, s, bytes)
    PROVE  Receipt(l, s, bytes) \in Sound
<1> DEFINE f == l.sessions[s]
           size == Size(bytes)
<1>1. /\ f # None /\ bytes \in Nat
      /\ f.received["frames"] < MaxCount /\ bytes <= MaxCount - f.received["encoded_bytes"]
  BY ReceiveConfig DEF CanReceive, Known
<1>2. f \in Flows
  BY <1>1, LiveFlow
<1>3. /\ \A d \in Dim : size[d] \in Nat
      /\ size["frames"] = 1 /\ size["encoded_bytes"] = bytes
  BY <1>1 DEF Size, Dim
<1>4. \A d \in Dim : f.received[d] \in Nat
  BY <1>2, FlowNumbers
<1> HIDE DEF size
<1>5. \A d \in Dim : /\ f.received[d] + size[d] \in 0 .. MaxCount
                     /\ f.received[d] <= f.received[d] + size[d]
  BY <1>1, <1>3, <1>4, ReceiveConfig DEF Dim
<1>6. f.received \in Counts
  BY <1>2 DEF Flows
<1>7. Add(f.received, size) \in Counts
  BY <1>5 DEF Add, Counts
<1>8. [before |-> f.received, after |-> Add(f.received, size)] \in Sound
  BY <1>5, <1>6, <1>7 DEF Sound, Receipts, Add
<1> QED BY <1>8 DEF Receipt, size

\* The flow that a completion leaves behind.
Completed(f, receipt, discard) ==
    LET g == [f EXCEPT !.completed = receipt.after]
    IN  IF discard
        THEN [g EXCEPT !.discarded = Add(g.discarded, Subtract(receipt.after, receipt.before))]
        ELSE IF g.discarded["frames"] = 0 THEN [g EXCEPT !.consumedPrefix = g.completed] ELSE g

\* The progress of a flow stays in order: what is reported was consumed, what is
\* consumed or dropped was completed.
LEMMA CompletedInv ==
    ASSUME NEW f, FlowInv(f), NEW r \in Sound, NEW discard \in BOOLEAN, r.before = f.completed,
           r.after["frames"] > r.before["frames"]
    PROVE  LET g == Completed(f, r, discard)
           IN  /\ FlowInv(g)
               /\ g.received = f.received /\ g.reported = f.reported /\ g.completed = r.after
               /\ g.consumedPrefix =
                     IF ~discard /\ f.discarded["frames"] = 0 THEN r.after ELSE f.consumedPrefix
<1> DEFINE g == Completed(f, r, discard)
           more == Add(f.discarded, Subtract(r.after, r.before))
<1>1. f \in Flows
  BY DEF FlowInv
<1>2. \A d \in Dim : /\ f.discarded[d] \in Nat /\ f.consumedPrefix[d] \in Nat
                     /\ f.completed[d] \in Nat /\ f.reported[d] \in Nat
                     /\ f.reported[d] <= f.consumedPrefix[d] /\ f.consumedPrefix[d] <= f.completed[d]
                     /\ f.discarded[d] <= f.completed[d]
  BY <1>1, FlowNumbers DEF FlowInv
<1>3. /\ r.after \in Counts /\ r.before \in Counts
      /\ \A d \in Dim : /\ r.after[d] \in Nat /\ r.after[d] <= MaxCount
                        /\ f.completed[d] <= r.after[d]
  BY ReceiveConfig DEF Sound, Receipts, Counts
<1>4. \A d \in Dim : more[d] = f.discarded[d] + (r.after[d] - f.completed[d])
  BY DEF Add, Subtract
<1>5. more \in Counts /\ more["frames"] # 0
  <2>1. \A d \in Dim : f.discarded[d] + (r.after[d] - f.completed[d]) \in 0 .. MaxCount
    BY <1>2, <1>3, ReceiveConfig
  <2>2. more["frames"] # 0
    BY <1>2, <1>3, <1>4 DEF Dim
  <2> QED BY <2>1, <2>2 DEF Add, Subtract, Counts
<1> HIDE DEF more
<1>6. CASE discard
  <2>1. g = [[f EXCEPT !.completed = r.after] EXCEPT !.discarded = more]
    BY <1>1, <1>6 DEF Completed, more, Flows
  <2>2. /\ g \in Flows /\ g.phase = f.phase /\ g.received = f.received /\ g.reported = f.reported
        /\ g.completed = r.after /\ g.discarded = more /\ g.consumedPrefix = f.consumedPrefix
    BY <1>1, <1>3, <1>5, <2>1, Zenon DEF Flows
  <2> HIDE DEF g
  <2>3. \A d \in Dim : /\ f.consumedPrefix[d] <= r.after[d] /\ more[d] <= r.after[d]
    BY <1>2, <1>3, <1>4
  <2> QED BY <1>2, <1>5, <1>6, <2>2, <2>3, Zenon DEF FlowInv, g
<1>7. CASE ~discard /\ f.discarded["frames"] = 0
  <2>1. g = [[f EXCEPT !.completed = r.after] EXCEPT !.consumedPrefix = r.after]
    BY <1>1, <1>7 DEF Completed, Flows
  <2>2. /\ g \in Flows /\ g.phase = f.phase /\ g.received = f.received /\ g.reported = f.reported
        /\ g.completed = r.after /\ g.discarded = f.discarded /\ g.consumedPrefix = r.after
    BY <1>1, <1>3, <2>1, Zenon DEF Flows
  <2> HIDE DEF g
  <2>3. \A d \in Dim : /\ f.reported[d] <= r.after[d] /\ f.discarded[d] <= r.after[d]
                       /\ r.after[d] <= r.after[d]
    BY <1>2, <1>3
  <2> QED BY <1>7, <2>2, <2>3 DEF FlowInv, g
<1>8. CASE ~discard /\ f.discarded["frames"] # 0
  <2>1. g = [f EXCEPT !.completed = r.after]
    BY <1>1, <1>8 DEF Completed, Flows
  <2>2. /\ g \in Flows /\ g.phase = f.phase /\ g.received = f.received /\ g.reported = f.reported
        /\ g.completed = r.after /\ g.discarded = f.discarded /\ g.consumedPrefix = f.consumedPrefix
    BY <1>1, <1>3, <2>1 DEF Flows
  <2> HIDE DEF g
  <2>3. \A d \in Dim : /\ f.consumedPrefix[d] <= r.after[d] /\ f.discarded[d] <= r.after[d]
    BY <1>2, <1>3
  <2> QED BY <1>2, <1>8, <2>2, <2>3 DEF FlowInv, g
<1> QED BY <1>6, <1>7, <1>8

\* Ledger.Complete releases the frame, and adds it to what can be reported unless a
\* frame before it was dropped.
LEMMA CompleteInv ==
    ASSUME NEW l, NEW s \in Sessions, NEW r \in Sound, NEW discard \in BOOLEAN,
           LedgerInv(l), CanComplete(l, s, r, discard)
    PROVE  LedgerInv(Complete(l, s, r, discard))
<1> DEFINE m == Complete(l, s, r, discard)
           f == l.sessions[s]
           g == Completed(f, r, discard)
           size == Subtract(r.after, r.before)
           prefix == ~discard /\ f.discarded["frames"] = 0
<1>1. /\ f # None /\ r.before = f.completed /\ r.after["frames"] > r.before["frames"]
  BY DEF CanComplete, Known
<1>2. /\ FlowInv(f) /\ f \in Flows
      /\ \A d \in Dim : /\ l.outstanding[d] \in Int /\ l.outstanding[d] <= Capacity[d]
                        /\ l.pendingConsumed[d] \in Int /\ l.held[d] \in Int
  BY <1>1, LiveFlow
<1>3. /\ FlowInv(g) /\ g.received = f.received /\ g.reported = f.reported /\ g.completed = r.after
      /\ g.consumedPrefix = IF prefix THEN r.after ELSE f.consumedPrefix
  BY <1>1, <1>2, CompletedInv
<1>4. f.discarded = [f EXCEPT !.completed = r.after].discarded
  BY <1>2 DEF Flows
<1>5. /\ IsLedger(m)
      /\ m.sessions = [l.sessions EXCEPT ![s] = g]
      /\ m.held = Subtract(l.held, size) /\ m.outstanding = l.outstanding
      /\ m.pendingConsumed = IF prefix THEN Add(l.pendingConsumed, size) ELSE l.pendingConsumed
  <2> DEFINE released == [l EXCEPT !.held = Subtract(l.held, size)]
  <2>1. /\ IsLedger(released) /\ released.sessions = l.sessions
        /\ released.held = Subtract(l.held, size) /\ released.outstanding = l.outstanding
        /\ released.pendingConsumed = l.pendingConsumed
    BY DEF LedgerInv, IsLedger, Fields
  <2>2. CASE discard
    <3>1. /\ m = [released EXCEPT !.sessions[s] = g]
      BY <2>2 DEF Complete, Completed
    <3> HIDE DEF released, m, g, size
    <3> QED BY <2>1, <2>2, <3>1 DEF IsLedger, Fields
  <2>3. CASE ~discard /\ f.discarded["frames"] = 0
    <3>1. /\ m = [released EXCEPT !.sessions[s] = g,
                                  !.pendingConsumed = Add(l.pendingConsumed, size)]
      BY <1>4, <2>3 DEF Complete, Completed
    <3> HIDE DEF released, m, g, size
    <3> QED BY <2>1, <2>3, <3>1, Zenon DEF IsLedger, Fields
  <2>4. CASE ~discard /\ f.discarded["frames"] # 0
    <3>1. /\ m = [released EXCEPT !.sessions[s] = g]
      BY <1>4, <2>4 DEF Complete, Completed
    <3> HIDE DEF released, m, g, size
    <3> QED BY <2>1, <2>4, <3>1 DEF IsLedger, Fields
  <2> QED BY <2>2, <2>3, <2>4
<1>6. \A d \in Dim : size[d] = r.after[d] - f.completed[d]
  BY <1>1 DEF Subtract
<1>7. \A d \in Dim : r.after[d] \in Nat
  BY ReceiveConfig DEF Sound, Receipts, Counts
<1>8. \A d \in Dim : /\ f.received[d] \in Nat /\ f.consumedPrefix[d] \in Nat
                     /\ f.completed[d] \in Nat /\ f.reported[d] \in Nat
  BY <1>2, FlowNumbers
<1>9. prefix => f.consumedPrefix = f.completed
  BY <1>2 DEF FlowInv
<1> HIDE DEF m, g, size, prefix
<1>10. m.held \in IntCounts /\ m.outstanding \in IntCounts /\ m.pendingConsumed \in IntCounts
  <2>1. \A d \in Dim : l.held[d] - size[d] \in Int /\ l.pendingConsumed[d] + size[d] \in Int
    BY <1>2, <1>6, <1>7, <1>8
  <2> QED BY <1>5, <2>1 DEF IntCounts, Add, Subtract, LedgerInv
<1>11. \A d \in Dim :
         /\ m.outstanding[d] = l.outstanding[d] /\ m.held[d] = l.held[d] - size[d]
         /\ m.pendingConsumed[d] =
               IF prefix THEN l.pendingConsumed[d] + size[d] ELSE l.pendingConsumed[d]
  BY <1>5 DEF Add, Subtract
<1> HIDE DEF f
<1>12. CASE prefix
  <2>1. Follows(l, m, f, g)
    BY <1>2, <1>3, <1>6, <1>7, <1>8, <1>9, <1>10, <1>11, <1>12 DEF Follows
  <2> QED BY <1>1, <1>3, <1>5, <2>1, FlowUpdate DEF m, f
<1>13. CASE ~prefix
  <2>1. Follows(l, m, f, g)
    BY <1>2, <1>3, <1>6, <1>7, <1>8, <1>10, <1>11, <1>13 DEF Follows
  <2> QED BY <1>1, <1>3, <1>5, <2>1, FlowUpdate DEF m, f
<1> QED BY <1>12, <1>13

\* An operation that moves none of the flow's counters moves none of the ledger's.
LEMMA Unmoved ==
    ASSUME NEW l, NEW m, NEW s \in Sessions, NEW g, LedgerInv(l), l.sessions[s] # None,
           g.received = l.sessions[s].received, g.reported = l.sessions[s].reported,
           g.completed = l.sessions[s].completed, g.consumedPrefix = l.sessions[s].consumedPrefix,
           m.held = l.held, m.outstanding = l.outstanding, m.pendingConsumed = l.pendingConsumed
    PROVE  Follows(l, m, l.sessions[s], g)
<1> DEFINE f == l.sessions[s]
<1>1. /\ f \in Flows
      /\ \A d \in Dim : /\ l.outstanding[d] \in Int /\ l.outstanding[d] <= Capacity[d]
                        /\ l.pendingConsumed[d] \in Int /\ l.held[d] \in Int
  BY LiveFlow
<1>2. \A d \in Dim : /\ f.received[d] \in Nat /\ f.consumedPrefix[d] \in Nat
                     /\ f.completed[d] \in Nat /\ f.reported[d] \in Nat
  BY <1>1, FlowNumbers
<1>3. m.held \in IntCounts /\ m.outstanding \in IntCounts /\ m.pendingConsumed \in IntCounts
  BY DEF LedgerInv
<1> QED BY <1>1, <1>2, <1>3 DEF Follows

\* Ledger.Retire moves no counter, ...
LEMMA RetireInv ==
    ASSUME NEW l, NEW s \in Sessions, LedgerInv(l)
    PROVE  LedgerInv(Retire(l, s))
<1>1. CASE Known(l, s) /\ l.sessions[s].phase = "active"
  <2> DEFINE m == Retire(l, s)
             f == l.sessions[s]
             g == [f EXCEPT !.phase = "retiring"]
  <2>1. f # None
    BY <1>1 DEF Known
  <2>2. FlowInv(f) /\ f \in Flows
    BY <2>1, LiveFlow
  <2>3. /\ IsLedger(m)
        /\ m.sessions = [l.sessions EXCEPT ![s].phase = "retiring"]
        /\ m.held = l.held /\ m.outstanding = l.outstanding /\ m.pendingConsumed = l.pendingConsumed
    BY <1>1 DEF LedgerInv, IsLedger, Fields, Retire
  <2>4. m.sessions = [l.sessions EXCEPT ![s] = g]
    BY <2>3 DEF LedgerInv
  <2>5. /\ FlowInv(g) /\ g.received = f.received /\ g.reported = f.reported
        /\ g.completed = f.completed /\ g.consumedPrefix = f.consumedPrefix
    BY <2>2 DEF FlowInv, Flows, Phases
  <2> HIDE DEF m, g
  <2>6. Follows(l, m, f, g)
    BY <2>1, <2>3, <2>5, Unmoved
  <2> HIDE DEF f
  <2> QED BY <2>1, <2>3, <2>4, <2>5, <2>6, FlowUpdate DEF m, f
<1>2. CASE ~(Known(l, s) /\ l.sessions[s].phase = "active")
  BY <1>2 DEF Retire
<1> QED BY <1>1, <1>2

\* ... nor does Ledger.Notice.
LEMMA NoticeInv ==
    ASSUME NEW l, NEW s \in Sessions, LedgerInv(l), Known(l, s)
    PROVE  LedgerInv(Notice(l, s))
<1> DEFINE m == Notice(l, s)
           f == l.sessions[s]
           g == [[f EXCEPT !.phase = "draining"] EXCEPT !.ackPending = TRUE]
<1>1. f # None
  BY DEF Known
<1>2. FlowInv(f) /\ f \in Flows /\ f.phase # "settled"
  BY <1>1, LiveFlow DEF FlowInv
<1>3. /\ IsLedger(m)
      /\ m.sessions = [l.sessions EXCEPT ![s].phase = IF @ = "settled" THEN @ ELSE "draining",
                                         ![s].ackPending = TRUE]
      /\ m.held = l.held /\ m.outstanding = l.outstanding /\ m.pendingConsumed = l.pendingConsumed
  BY Zenon DEF LedgerInv, IsLedger, Fields, Notice
<1>4. m.sessions = [l.sessions EXCEPT ![s] = g]
  BY <1>2, <1>3, Zenon DEF LedgerInv
<1>5. /\ FlowInv(g) /\ g.received = f.received /\ g.reported = f.reported
      /\ g.completed = f.completed /\ g.consumedPrefix = f.consumedPrefix
  BY <1>2, Zenon DEF FlowInv, Flows, Phases
<1> HIDE DEF m, g
<1>6. Follows(l, m, f, g)
  BY <1>1, <1>3, <1>5, Unmoved
<1> HIDE DEF f
<1> QED BY <1>1, <1>3, <1>4, <1>5, <1>6, FlowUpdate DEF m, f

\* Ledger.TakeConsumed returns the unreported prefix.
LEMMA TakeConsumedInv ==
    ASSUME NEW l, NEW s \in Sessions, LedgerInv(l), l.sessions[s] # None
    PROVE  LedgerInv(TakeConsumed(l, s))
<1> DEFINE m == TakeConsumed(l, s)
           f == l.sessions[s]
           g == [f EXCEPT !.reported = f.consumedPrefix]
           delta == Subtract(f.consumedPrefix, f.reported)
<1>1. /\ FlowInv(f) /\ f \in Flows
      /\ \A d \in Dim : /\ l.outstanding[d] \in Int /\ l.outstanding[d] <= Capacity[d]
                        /\ l.pendingConsumed[d] \in Int /\ l.held[d] \in Int
  BY LiveFlow
<1>2. /\ IsLedger(m)
      /\ m.sessions = [l.sessions EXCEPT ![s].reported = f.consumedPrefix]
      /\ m.held = l.held /\ m.outstanding = Subtract(l.outstanding, delta)
      /\ m.pendingConsumed = Subtract(l.pendingConsumed, delta)
  BY Zenon DEF LedgerInv, IsLedger, Fields, TakeConsumed
<1>3. m.sessions = [l.sessions EXCEPT ![s] = g]
  BY <1>2 DEF LedgerInv
<1>4. \A d \in Dim : /\ f.received[d] \in Nat /\ f.consumedPrefix[d] \in Nat
                     /\ f.completed[d] \in Nat /\ f.reported[d] \in Nat
                     /\ f.reported[d] <= f.consumedPrefix[d]
  BY <1>1, FlowNumbers DEF FlowInv
<1>5. /\ FlowInv(g) /\ g.received = f.received /\ g.reported = f.consumedPrefix
      /\ g.completed = f.completed /\ g.consumedPrefix = f.consumedPrefix
  <2>1. \A d \in Dim : f.consumedPrefix[d] <= f.consumedPrefix[d]
    BY <1>4
  <2> QED BY <1>1, <2>1 DEF FlowInv, Flows
<1>6. \A d \in Dim : delta[d] = f.consumedPrefix[d] - f.reported[d]
  BY DEF Subtract
<1> HIDE DEF m, g, delta
<1>7. m.held \in IntCounts /\ m.outstanding \in IntCounts /\ m.pendingConsumed \in IntCounts
  <2>1. \A d \in Dim : l.outstanding[d] - delta[d] \in Int /\ l.pendingConsumed[d] - delta[d] \in Int
    BY <1>1, <1>4, <1>6
  <2> QED BY <1>2, <2>1 DEF IntCounts, Subtract, LedgerInv
<1>8. \A d \in Dim : /\ m.outstanding[d] = l.outstanding[d] - delta[d]
                     /\ m.pendingConsumed[d] = l.pendingConsumed[d] - delta[d]
                     /\ m.held[d] = l.held[d]
  BY <1>2 DEF Subtract
<1> HIDE DEF f
<1>9. Follows(l, m, f, g)
  <2>1. \A d \in Dim : Capacity[d] \in Nat
    BY ReceiveConfig DEF Counts
  <2> QED BY <1>1, <1>4, <1>5, <1>6, <1>7, <1>8, <2>1 DEF Follows
<1> QED BY <1>2, <1>3, <1>5, <1>9, FlowUpdate DEF m, f

\* The settlement of a drained flow returns what no report has returned, and its
\* flow is forgotten.
LEMMA SettleInv ==
    ASSUME NEW l, NEW s \in Sessions, LedgerInv(l), CanTakeSettlement(l, s)
    PROVE  LedgerInv(Forget(TakeSettlement(l, s), s))
<1> DEFINE n == TakeSettlement(l, s)
           m == Forget(n, s)
           f == l.sessions[s]
           owed == Subtract(f.received, f.reported)
           unreported == Subtract(f.consumedPrefix, f.reported)
<1>1. f # None /\ f.completed = f.received
  BY DEF CanTakeSettlement, Known
<1>2. /\ FlowInv(f) /\ f \in Flows /\ f.phase # "settled"
      /\ \A d \in Dim : /\ l.outstanding[d] \in Int /\ l.outstanding[d] <= Capacity[d]
                        /\ l.pendingConsumed[d] \in Int /\ l.held[d] \in Int
  BY <1>1, LiveFlow DEF FlowInv
<1>3. /\ IsLedger(n)
      /\ n.sessions = [l.sessions EXCEPT ![s] = [f EXCEPT !.phase = "settled", !.ackPending = FALSE]]
      /\ n.held = l.held /\ n.outstanding = Subtract(l.outstanding, owed)
      /\ n.pendingConsumed = Subtract(l.pendingConsumed, unreported)
  <2> DEFINE settled == [l EXCEPT !.sessions[s] = [f EXCEPT !.phase = "settled", !.ackPending = FALSE]]
  <2>1. /\ IsLedger(settled) /\ settled.held = l.held
        /\ settled.sessions =
              [l.sessions EXCEPT ![s] = [f EXCEPT !.phase = "settled", !.ackPending = FALSE]]
    BY DEF LedgerInv, IsLedger, Fields
  <2>2. n = [settled EXCEPT !.outstanding = Subtract(l.outstanding, owed),
                            !.pendingConsumed = Subtract(l.pendingConsumed, unreported)]
    BY <1>2 DEF TakeSettlement
  <2> HIDE DEF settled, n, owed, unreported
  <2> QED BY <2>1, <2>2, Zenon DEF IsLedger, Fields
<1> HIDE DEF n, owed, unreported
<1>4. /\ IsLedger(m)
      /\ m.sessions = [n.sessions EXCEPT ![s] = None]
      /\ m.held = n.held /\ m.outstanding = n.outstanding /\ m.pendingConsumed = n.pendingConsumed
  BY <1>3, Zenon DEF Forget, IsLedger, Fields
<1>5. m.sessions = [l.sessions EXCEPT ![s] = None]
  BY <1>3, <1>4 DEF LedgerInv
<1>6. \A d \in Dim : /\ f.received[d] \in Nat /\ f.consumedPrefix[d] \in Nat
                     /\ f.completed[d] \in Nat /\ f.reported[d] \in Nat
                     /\ f.reported[d] <= f.consumedPrefix[d] /\ f.consumedPrefix[d] <= f.received[d]
  BY <1>1, <1>2, FlowNumbers DEF FlowInv
<1>7. \A d \in Dim : /\ owed[d] = f.received[d] - f.reported[d]
                     /\ unreported[d] = f.consumedPrefix[d] - f.reported[d]
  BY DEF Subtract, owed, unreported
<1>8. \A d \in Dim : /\ Owed(f)[d] = owed[d] /\ Unreported(f)[d] = unreported[d]
                     /\ Buffered(f)[d] = f.received[d] - f.received[d]
                     /\ Owed(None)[d] = 0 /\ Unreported(None)[d] = 0 /\ Buffered(None)[d] = 0
  <2> HIDE DEF f, m
  <2>1. \A d \in Dim : /\ Owed(f)[d] = f.received[d] - f.reported[d]
                       /\ Unreported(f)[d] = f.consumedPrefix[d] - f.reported[d]
                       /\ Buffered(f)[d] = f.received[d] - f.completed[d]
    BY <1>2, LiveTerms
  <2> QED BY <1>1, <1>7, <2>1, NoneTerms
<1> HIDE DEF m
<1>9. \A d \in Dim : /\ m.outstanding[d] = l.outstanding[d] - owed[d]
                     /\ m.pendingConsumed[d] = l.pendingConsumed[d] - unreported[d]
                     /\ m.held[d] = l.held[d]
  BY <1>3, <1>4 DEF Subtract
<1>10. m.held \in IntCounts /\ m.outstanding \in IntCounts /\ m.pendingConsumed \in IntCounts
  <2>1. \A d \in Dim : /\ l.outstanding[d] - owed[d] \in Int
                       /\ l.pendingConsumed[d] - unreported[d] \in Int
    BY <1>2, <1>6, <1>7
  <2> QED BY <1>3, <1>4, <2>1 DEF IntCounts, Subtract, LedgerInv
<1>11. Balanced(l, m, f, None)
  <2> HIDE DEF f
  <2>1. \A d \in Dim : Capacity[d] \in Nat
    BY ReceiveConfig DEF Counts
  <2> QED BY <1>2, <1>6, <1>7, <1>8, <1>9, <1>10, <2>1 DEF Balanced
<1>12. LedgerInv(m)
  <2>1. PICK g : g = None
    OBVIOUS
  <2>2. /\ g = None \/ FlowInv(g)
        /\ m.sessions = [l.sessions EXCEPT ![s] = g]
        /\ Balanced(l, m, l.sessions[s], g)
    BY <1>5, <1>11, <2>1
  <2> QED BY <1>4, <2>2, LedgerUpdate
<1> QED BY <1>12 DEF m, n

\* Ledger.Close leaves every counter.
LEMMA CloseInv ==
    ASSUME NEW l, LedgerInv(l)
    PROVE  LedgerInv(Close(l))
<1> DEFINE m == Close(l)
<1>1. /\ IsLedger(m) /\ m.sessions = l.sessions
      /\ m.held = l.held /\ m.outstanding = l.outstanding /\ m.pendingConsumed = l.pendingConsumed
  BY Zenon DEF LedgerInv, IsLedger, Fields, Close
<1> HIDE DEF m
<1>2. LedgerInv(m)
  BY <1>1 DEF LedgerInv, Exact
<1> QED BY <1>2 DEF m

-----------------------------------------------------------------------------
(* The steps of the window.                                                *)

\* The window starts with an empty ledger and no flow.
LEMMA InitInv == WindowInit => Inv
BY NewLedgerInv DEF WindowInit, Inv

\* receiveBuffer.open.
LEMMA OpenFlowStep ==
    ASSUME Inv, NEW s \in Sessions, OpenFlow(s)
    PROVE  Inv'
<1>1. LedgerInv(ledger')
  BY OpenInv DEF Inv, OpenFlow
<1>2. NewReceiveFlow \in ReceiveFlows
  BY DEF NewReceiveFlow, ReceiveFlows, FlowRecords
<1>3. flows' \in [Sessions -> ReceiveFlows \cup {None}]
  BY <1>2 DEF Inv, OpenFlow
<1> QED BY <1>1, <1>3 DEF Inv

\* receiveBuffer.receive, for a flow with a worker and for a disposed one.
LEMMA ReceiveFrameStep ==
    ASSUME Inv, NEW s \in Sessions, NEW bytes, ReceiveFrame(s, bytes)
    PROVE  Inv'
<1> DEFINE receipt == Receipt(ledger, s, bytes)
           received == Receive(ledger, s, bytes)
<1>1. LedgerInv(received) /\ receipt \in Sound /\ flows[s] # None /\ flows[s] \in ReceiveFlows
  BY ReceiveInv, ReceiptSound DEF Inv, ReceiveFrame, Opened
<1> HIDE DEF receipt, received
<1>2. CASE /\ CanComplete(received, s, receipt, TRUE)
           /\ ledger' = Complete(received, s, receipt, TRUE) /\ flows' = flows
  <2>1. LedgerInv(ledger')
    BY <1>1, <1>2, CompleteInv, Zenon
  <2> QED BY <1>2, <2>1, Zenon DEF Inv
<1>3. CASE /\ ledger' = received
           /\ flows' = [flows EXCEPT ![s].queue = Append(@, receipt), ![s].wake = TRUE]
  <2> DEFINE f == flows[s]
             g == [[f EXCEPT !.queue = Append(f.queue, receipt)] EXCEPT !.wake = TRUE]
  <2>1. g \in ReceiveFlows
    <3>1. Append(f.queue, receipt) \in Seq(Sound)
      BY <1>1 DEF ReceiveFlows, FlowRecords
    <3> QED BY <1>1, <3>1, Zenon DEF ReceiveFlows, FlowRecords
  <2>2. flows' = [flows EXCEPT ![s] = g]
    BY <1>3, Zenon DEF Inv
  <2> HIDE DEF g
  <2> QED BY <1>1, <1>3, <2>1, <2>2, Zenon DEF Inv
<1> QED BY <1>2, <1>3, Zenon DEF ReceiveFrame, receipt, received

\* Sealing a flow, with or without its frames.
LEMMA SealedFlow ==
    ASSUME NEW f \in ReceiveFlows, NEW discard \in BOOLEAN
    PROVE  /\ Wakened([f EXCEPT !.sealed = TRUE, !.discard = @ \/ discard]) \in ReceiveFlows
           /\ Wakened([f EXCEPT !.sealed = TRUE]) \in ReceiveFlows
<1> DEFINE g == [f EXCEPT !.sealed = TRUE, !.discard = @ \/ discard]
           h == [f EXCEPT !.sealed = TRUE]
<1>1. g \in ReceiveFlows /\ h \in ReceiveFlows
  BY Zenon DEF ReceiveFlows, FlowRecords
<1> HIDE DEF g, h
<1>2. \A k \in ReceiveFlows : Wakened(k) \in ReceiveFlows
  BY Zenon DEF Wakened, ReceiveFlows, FlowRecords
<1> QED BY <1>1, <1>2 DEF g, h

\* receiveBuffer.retire.
LEMMA RetireFlowStep ==
    ASSUME Inv, NEW s \in Sessions, NEW discard \in BOOLEAN, RetireFlow(s, discard)
    PROVE  Inv'
<1>1. LedgerInv(ledger')
  BY RetireInv DEF Inv, RetireFlow
<1>2. flows[s] \in ReceiveFlows
  BY DEF Inv, RetireFlow, Opened
<1>3. Wakened([flows[s] EXCEPT !.sealed = TRUE, !.discard = @ \/ discard]) \in ReceiveFlows
  BY <1>2, SealedFlow, Zenon
<1> DEFINE g == Wakened([flows[s] EXCEPT !.sealed = TRUE, !.discard = @ \/ discard])
<1>4. flows' = [flows EXCEPT ![s] = g]
  BY DEF RetireFlow
<1>5. g \in ReceiveFlows
  BY <1>3
<1> HIDE DEF g
<1> QED BY <1>1, <1>4, <1>5 DEF Inv

\* receiveBuffer.notice.
LEMMA NoticeFlowStep ==
    ASSUME Inv, NEW s \in Sessions, NEW total, NoticeFlow(s, total)
    PROVE  Inv'
<1>1. CASE Registered(s) /\ CanNotice(ledger, s, total)
           /\ ledger' = Notice(ledger, s)
           /\ flows' = [flows EXCEPT ![s] = Wakened([@ EXCEPT !.sealed = TRUE])]
  <2>1. LedgerInv(ledger')
    BY <1>1, NoticeInv DEF Inv, CanNotice
  <2>2. flows[s] \in ReceiveFlows
    BY <1>1 DEF Inv, Registered, Opened
  <2>3. Wakened([flows[s] EXCEPT !.sealed = TRUE]) \in ReceiveFlows
    BY <2>2, SealedFlow, Zenon
  <2>4. flows' \in [Sessions -> ReceiveFlows \cup {None}]
    BY <1>1, <2>3 DEF Inv
  <2> QED BY <2>1, <2>4 DEF Inv
<1>2. CASE UNCHANGED <<ledger, flows>>
  BY <1>2 DEF Inv
<1> QED BY <1>1, <1>2 DEF NoticeFlow

\* receiveBuffer.close.
LEMMA CloseWindowStep ==
    ASSUME Inv, NEW discard \in BOOLEAN, CloseWindow(discard)
    PROVE  Inv'
<1>1. LedgerInv(ledger')
  BY CloseInv, Zenon DEF Inv, CloseWindow
<1>2. ASSUME NEW s \in Sessions, Registered(s)
      PROVE  Wakened([flows[s] EXCEPT !.sealed = TRUE, !.discard = @ \/ discard]) \in ReceiveFlows
  BY <1>2, SealedFlow, Zenon DEF Inv, Registered, Opened
<1>3. flows' \in [Sessions -> ReceiveFlows \cup {None}]
  BY <1>2, Zenon DEF Inv, CloseWindow
<1> QED BY <1>1, <1>3 DEF Inv

\* The steps of a worker other than the completion of a frame leave the ledger.
LEMMA WorkerMoves ==
    ASSUME Inv, NEW s \in Sessions,
           \/ WorkerTakes(s) \/ WorkerRests(s) \/ WorkerHands(s) \/ WorkerAborts(s) \/ WorkerEnds(s)
    PROVE  Inv'
<1> DEFINE f == flows[s]
<1>1. f \in ReceiveFlows
  BY DEF Inv, Opened, WorkerTakes, WorkerRests, WorkerHands, WorkerAborts, WorkerEnds
<1>2. ledger' = ledger
  BY DEF WorkerTakes, WorkerRests, WorkerHands, WorkerAborts, WorkerEnds
<1>3. ASSUME NEW g \in ReceiveFlows, flows' = [flows EXCEPT ![s] = g]
      PROVE  Inv'
  BY <1>2, <1>3 DEF Inv
<1>4. CASE WorkerTakes(s)
  <2> DEFINE w == IF f.discard THEN "completing" ELSE "handing"
             g == [[[[f EXCEPT !.queue = Tail(f.queue)] EXCEPT !.frame = Head(f.queue)]
                      EXCEPT !.drop = f.discard] EXCEPT !.worker = w]
  <2>1. f.queue \in Seq(Sound) /\ f.queue # <<>>
    BY <1>1, <1>4 DEF ReceiveFlows, FlowRecords, WorkerTakes
  <2>2. Tail(f.queue) \in Seq(Sound) /\ Head(f.queue) \in Sound
    BY <2>1
  <2>3. g \in ReceiveFlows
    BY <1>1, <2>2, Zenon DEF ReceiveFlows, FlowRecords
  <2>4. flows' = [flows EXCEPT ![s] = g]
    BY <1>1, <1>4 DEF Inv, WorkerTakes, ReceiveFlows, FlowRecords
  <2> HIDE DEF g
  <2> QED BY <1>3, <2>3, <2>4, Zenon
<1>5. CASE WorkerRests(s)
  <2> DEFINE w == IF f.sealed THEN "disposed" ELSE "idle"
             g == [[f EXCEPT !.worker = w] EXCEPT !.wake = FALSE]
  <2>1. g \in ReceiveFlows
    BY <1>1, Zenon DEF ReceiveFlows, FlowRecords
  <2>2. flows' = [flows EXCEPT ![s] = g]
    BY <1>1, <1>5, Zenon DEF Inv, WorkerRests
  <2> HIDE DEF g
  <2> QED BY <1>3, <2>1, <2>2, Zenon
<1>6. CASE WorkerHands(s) \/ WorkerAborts(s)
  <2> DEFINE g(b) == [[f EXCEPT !.worker = "completing"] EXCEPT !.drop = b]
  <2>1. f.worker = "handing"
    BY <1>6 DEF WorkerHands, WorkerAborts
  <2>2. g(TRUE) \in ReceiveFlows /\ g(FALSE) \in ReceiveFlows
    BY <1>1, <2>1, Zenon DEF ReceiveFlows, FlowRecords
  <2>3. flows' = [flows EXCEPT ![s] = g(TRUE)] \/ flows' = [flows EXCEPT ![s] = g(FALSE)]
    BY <1>1, <1>6, Zenon DEF Inv, WorkerHands, WorkerAborts
  <2> HIDE DEF g
  <2> QED BY <1>3, <2>2, <2>3, Zenon
<1>7. CASE WorkerEnds(s)
  <2> DEFINE g == [f EXCEPT !.worker = "done"]
  <2>1. g \in ReceiveFlows
    BY <1>1 DEF ReceiveFlows, FlowRecords
  <2>2. flows' = [flows EXCEPT ![s] = g]
    BY <1>1, <1>7 DEF Inv, WorkerEnds
  <2> HIDE DEF g
  <2> QED BY <1>3, <2>1, <2>2, Zenon
<1> QED BY <1>4, <1>5, <1>6, <1>7

\* The worker's frame is completed in the ledger, unless the window is closed.
LEMMA WorkerCompletesStep ==
    ASSUME Inv, NEW s \in Sessions, WorkerCompletes(s)
    PROVE  Inv'
<1> DEFINE f == flows[s]
           g == [[[[f EXCEPT !.worker = "idle"] EXCEPT !.wake = TRUE] EXCEPT !.frame = None]
                   EXCEPT !.drop = FALSE]
<1>1. f \in ReceiveFlows /\ f.frame \in Sound /\ f.drop \in BOOLEAN
  <2>1. f \in ReceiveFlows /\ f.worker = "completing"
    BY DEF Inv, WorkerCompletes, Opened
  <2> QED BY <2>1 DEF ReceiveFlows, FlowRecords
<1>2. LedgerInv(ledger')
  <2>1. CASE ledger' = ledger
    BY <2>1 DEF Inv
  <2>2. CASE /\ CanComplete(ledger, s, f.frame, f.drop)
             /\ ledger' = Complete(ledger, s, f.frame, f.drop)
    BY <1>1, <2>2, CompleteInv DEF Inv
  <2> QED BY <2>1, <2>2 DEF WorkerCompletes
<1>3. g \in ReceiveFlows
  BY <1>1, Zenon DEF ReceiveFlows, FlowRecords
<1>4. flows' = [flows EXCEPT ![s] = g]
  BY Zenon DEF Inv, WorkerCompletes
<1> HIDE DEF g
<1> QED BY <1>2, <1>3, <1>4 DEF Inv

\* take: the writer acknowledges a settlement, ...
LEMMA TakeFinalStep ==
    ASSUME Inv, NEW s \in Sessions, TakeFinal(s)
    PROVE  Inv'
<1> DEFINE g == [flows[s] EXCEPT !.forgotten = TRUE]
<1>1. LedgerInv(ledger')
  BY SettleInv DEF Inv, TakeFinal, Settleable
<1>2. flows[s] \in ReceiveFlows
  BY DEF Inv, TakeFinal, Settleable, Registered, Opened
<1>3. g \in ReceiveFlows
  BY <1>2, Zenon DEF ReceiveFlows, FlowRecords
<1>4. flows' = [flows EXCEPT ![s] = g]
  BY DEF Inv, TakeFinal
<1> HIDE DEF g
<1> QED BY <1>1, <1>3, <1>4 DEF Inv

\* ... or reports a consumed prefix.
LEMMA TakePrefixStep ==
    ASSUME Inv, NEW s \in Sessions, TakePrefix(s)
    PROVE  Inv'
<1>1. LedgerInv(ledger')
  BY TakeConsumedInv DEF Inv, TakePrefix, Retained
<1> QED BY <1>1 DEF Inv, TakePrefix

\* Every step of the window preserves the invariant.
LEMMA NextInv == Inv /\ [WindowNext]_windowVars => Inv'
<1> SUFFICES ASSUME Inv, [WindowNext]_windowVars
             PROVE  Inv'
  OBVIOUS
<1>1. ASSUME NEW s \in Sessions, OpenFlow(s)
      PROVE  Inv'
  BY <1>1, OpenFlowStep
<1>2. ASSUME NEW s \in Sessions, NEW bytes \in MinEnvelope .. MaxEnvelope, ReceiveFrame(s, bytes)
      PROVE  Inv'
  BY <1>2, ReceiveFrameStep
<1>3. ASSUME NEW s \in Sessions, NEW discard \in BOOLEAN, RetireFlow(s, discard)
      PROVE  Inv'
  BY <1>3, RetireFlowStep
<1>4. ASSUME NEW s \in Sessions, NEW total \in Counts, NoticeFlow(s, total)
      PROVE  Inv'
  BY <1>4, NoticeFlowStep
<1>5. ASSUME NEW s \in Sessions, Worker(s)
      PROVE  Inv'
  BY <1>5, WorkerMoves, WorkerCompletesStep DEF Worker
<1>6. ASSUME NEW s \in Sessions, TakeFinal(s) \/ TakePrefix(s)
      PROVE  Inv'
  BY <1>6, TakeFinalStep, TakePrefixStep
<1>7. CASE WriterRests
  BY <1>7 DEF Inv, WriterRests
<1>8. ASSUME NEW discard \in BOOLEAN, CloseWindow(discard)
      PROVE  Inv'
  BY <1>8, CloseWindowStep
<1>9. CASE UNCHANGED windowVars
  BY <1>9 DEF Inv, windowVars
<1> QED BY <1>1, <1>2, <1>3, <1>4, <1>5, <1>6, <1>7, <1>8, <1>9 DEF WindowNext

\* UsageExact for every number of sessions, every capacity and every envelope
\* size: whatever the relay sends and however the reader, the workers and the
\* ordered writer interleave, the counters kept by receiveledger (held,
\* outstanding, pendingConsumed) are the sums over its retained flows, and the
\* outstanding ones never exceed the declared capacity.
THEOREM WindowUsageExact == WindowSpec => []UsageExact
<1>1. Inv => UsageExact
  BY DEF Inv, LedgerInv, UsageExact
<1> QED BY <1>1, InitInv, NextInv, PTL DEF WindowSpec

=============================================================================
