----------------------- MODULE ConnectionLedgerProofs -----------------------
(***************************************************************************)
(* The ledger's accounting is safe for every number of sessions, slots,    *)
(* every limit, capacity, credit and clock.                                *)
(***************************************************************************)
EXTENDS ConnectionLedgerSteps

-----------------------------------------------------------------------------
(* Operations that take capacity.                                        *)

\* `grant` keeps the invariant: the startup share of a flow is already inside its
\* first grant, so all of the new credit is charged to the ordinary pool.
LEMMA GrantKeepsInv ==
    ASSUME Inv, NEW s \in Sessions, NEW credit \in Credits, NEW now \in Times,
           Grant(s, credit, now)
    PROVE  Inv'
<1> DEFINE e == EntryOf(s)
           granted == Add(e.granted, credit)
           next == [e EXCEPT !.granted = granted]
<1>1. Expire(now) /\ UNCHANGED <<receiveCapacity, issued, receipts, retired>> /\ Holds(s)
      /\ e.phase = "open" /\ Replace(issued[s], next, now)
      /\ Covers(ReceiveAvailable, credit) /\ Covers(RegularFree, credit)
      /\ \A d \in Dim : e.granted[d] + credit[d] <= MaxCount
  BY DEF Grant, Live
<1>2. e \in Deliveries /\ e # None /\ Ordered(e) /\ Charged(s) /\ e.deadline = None
      /\ issued[s] \in Slots /\ entries[issued[s]] = e
  BY <1>1, HeldEntry
<1>3. receipts' \in [Sessions -> [Ordinals -> 0 .. MaxEnvelope]] /\ retired' \subseteq Sessions
  BY <1>1 DEF Inv, TypeOK
<1>4. credit \in Counts
  BY InputsValid
<1>5. \A d \in Dim : granted[d] = e.granted[d] + credit[d] /\ credit[d] \in Nat
                     /\ e.granted[d] \in Nat /\ e.startup[d] \in Nat /\ e.startup[d] <= e.granted[d]
  BY <1>2, <1>4, LimitsValid DEF Add, Deliveries, Counts, Ordered, Covers
<1>6. granted \in Counts
  BY <1>1, <1>5, LimitsValid DEF Add, Counts
<1> HIDE DEF granted
<1>7. next \in Deliveries /\ next.received = e.received /\ next.submitted = e.submitted
      /\ next.phase = "open" /\ next.deadline = None /\ next.key = e.key
      /\ next.startup = e.startup /\ next.granted = granted /\ next.consumed = e.consumed
  BY <1>1, <1>2, <1>6 DEF Deliveries
<1> HIDE DEF next
<1>8. next # None
  BY <1>7, NoneIsNoRecord
<1>9. Ordered(next)
  BY <1>2, <1>5, <1>7, LimitsValid DEF Ordered, Covers, Deliveries, Counts
<1>10. PoolsRespected'
  <2>1. receiveCapacity # None /\ receiveCapacity \in Counts
    BY <1>2, InputsValid DEF Inv, TypeOK, PoolsRespected, Occupied
  <2>2. usage \in Usages /\ startupUsed \in IntCounts
    BY DEF Inv, TypeOK, Usages, IntCounts
  <2>3. UsageOf(e) \in Usages /\ UsageOf(next) \in Usages
        /\ StartupUsedOf(e) \in IntCounts /\ StartupUsedOf(next) \in IntCounts
    BY <1>2, <1>7, UsageOfType
  <2>4. StartupPool' = StartupPool /\ RegularPool' = RegularPool
    BY <1>1 DEF StartupPool, RegularPool, EffectiveTotal
  <2>5. StartupPool \in IntCounts /\ RegularPool \in IntCounts
    BY PoolTypes DEF Inv
  <2>6. ASSUME NEW d \in Dim
        PROVE  /\ TotalOf(usage')[d] = TotalOf(usage)[d] - TotalOf(UsageOf(e))[d]
                                          + TotalOf(UsageOf(next))[d]
               /\ startupUsed'[d] = startupUsed[d] - StartupUsedOf(e)[d] + StartupUsedOf(next)[d]
               /\ TotalOf(usage)[d] \in Int /\ startupUsed[d] \in Int
               /\ StartupUsedOf(e)[d] \in Int /\ StartupUsedOf(next)[d] \in Int
               /\ TotalOf(UsageOf(e))[d] \in Int /\ TotalOf(UsageOf(next))[d] \in Int
    BY <1>1, <1>2, <2>2, <2>3 DEF Replace, ReplaceUsage, TotalOf, Add, Sub, Usages, IntCounts
  <2>7. ASSUME NEW d \in Dim
        PROVE  /\ TotalOf(UsageOf(next))[d] = TotalOf(UsageOf(e))[d] + credit[d]
               /\ StartupUsedOf(next)[d] = StartupUsedOf(e)[d]
    <3>1. /\ TotalOf(UsageOf(e))[d] = e.granted[d] - e.consumed[d]
          /\ StartupUsedOf(e)[d] =
                  (IF e.granted[d] < e.startup[d] THEN e.granted[d] ELSE e.startup[d])
                  - (IF e.consumed[d] < e.startup[d] THEN e.consumed[d] ELSE e.startup[d])
          /\ e.consumed[d] \in Nat
      BY <1>1, <1>2, DeliveryTotals DEF UsageOf, StartupUsedOf, Retained
    <3>2. /\ TotalOf(UsageOf(next))[d] = granted[d] - e.consumed[d]
          /\ StartupUsedOf(next)[d] =
                  (IF granted[d] < e.startup[d] THEN granted[d] ELSE e.startup[d])
                  - (IF e.consumed[d] < e.startup[d] THEN e.consumed[d] ELSE e.startup[d])
      BY <1>7, <1>8, <1>9, DeliveryTotals DEF UsageOf, StartupUsedOf, Retained
    <3> HIDE DEF e
    <3> QED BY <1>5, <3>1, <3>2
  <2>8. Covers(StartupPool, startupUsed)
    BY DEF Inv, PoolsRespected
  <2>9. ASSUME NEW d \in Dim
        PROVE  /\ RegularPool[d] - (TotalOf(usage)[d] - startupUsed[d]) >= credit[d]
               /\ receiveCapacity[d] - TotalOf(usage)[d] >= credit[d]
    BY <1>1, <2>1, <1>5, <2>6, LimitsValid
       DEF RegularFree, RegularUsed, ReceiveAvailable, Covers, Sub, Least, Counts
  <2> HIDE DEF e
  <2>10. Covers(StartupPool', startupUsed')
    BY <2>4, <2>6, <2>7, <2>8 DEF Covers
  <2>11. Covers(RegularPool', RegularUsed')
    BY <1>5, <2>4, <2>5, <2>6, <2>7, <2>9 DEF Covers, RegularUsed, Sub, IntCounts
  <2>12. Covers(receiveCapacity', TotalOf(usage'))
    BY <1>1, <1>5, <2>1, <2>6, <2>7, <2>9, LimitsValid DEF Covers, Counts
  <2> QED BY <1>1, <2>1, <2>10, <2>11, <2>12 DEF PoolsRespected
<1>11. (TypeOK /\ HandlesExact /\ PrefixOrder /\ UsageIsSum /\ PoolsRespected
              /\ NextExpirationExact)'
  BY <1>1, <1>3, <1>7, <1>9, <1>10, FlowStep
<1>12. Charged(s)'
  <2>1. Holds(s)' /\ EntryOf(s)' = next
    BY <1>1, <1>7, <1>8, OtherHandles
  <2> QED BY <1>1, <1>2, <1>7, <2>1 DEF Charged
<1>13. QueueCharged'
  BY <1>1, <1>7, <1>12, QueueStep
<1> QED BY <1>11, <1>13 DEF Inv

-----------------------------------------------------------------------------
(* Opening a flow.                                                         *)

\* The vacant slot exists and is empty.
LEMMA FirstVacantIsVacant ==
    ASSUME Vacant # {}
    PROVE  FirstVacant \in Slots /\ entries[FirstVacant] = None
<1>1. Vacant \subseteq Nat
  BY DEF Vacant, Slots
<1>2. \E i \in Vacant : \A j \in Vacant : i <= j
  BY <1>1, LeastNatural, Zenon
<1>3. FirstVacant \in Vacant
  BY <1>2 DEF FirstVacant
<1> QED BY <1>3 DEF Vacant

\* `open` keeps the invariant: the startup share fits what is left of the startup
\* pool and the guard makes the rest fit the ordinary pool.
LEMMA OpenKeepsInv ==
    ASSUME Inv, NEW s \in Sessions, NEW now \in Times, Open(s, now)
    PROVE  Inv'
<1> DEFINE i == FirstVacant
           startup == Least(StartupGrant, Sub(StartupPool, startupUsed))
           key == [slot |-> i, permit |-> s]
           next == NewDelivery(key, StartupGrant, startup)
<1>1. Expire(now) /\ UNCHANGED <<receiveCapacity, receipts, retired>> /\ receiveCapacity # None
      /\ Covers(ReceiveAvailable, StartupGrant) /\ Vacant # {}
      /\ Covers(RegularFree, Sub(StartupGrant, startup)) /\ Replace(i, next, now)
      /\ issued' = [issued EXCEPT ![s] = i]
      /\ \A slot \in Occupied(entries) : entries[slot].key.permit # s
  BY DEF Open
<1>2. i \in Slots /\ entries[i] = None
  BY <1>1, FirstVacantIsVacant
<1>3. usage \in Usages /\ startupUsed \in IntCounts /\ receiveCapacity \in Counts
      /\ entries \in [Slots -> Deliveries \cup {None}]
      /\ issued \in [Sessions -> Slots \cup {None}]
  BY <1>1, InputsValid DEF Inv, TypeOK, Usages, IntCounts
<1>4. StartupPool \in IntCounts /\ RegularPool \in IntCounts
  BY PoolTypes DEF Inv
<1>5. Covers(StartupPool, startupUsed)
  BY DEF Inv, PoolsRespected
<1>6. \A d \in Dim : /\ startup[d] \in Nat /\ startup[d] <= StartupGrant[d]
                     /\ startup[d] + startupUsed[d] <= StartupPool[d]
                     /\ StartupGrant[d] \in 0 .. MaxCount
  BY <1>3, <1>4, <1>5, LimitsValid DEF Least, Sub, Covers, IntCounts, Counts
<1>7. startup \in Counts
  BY <1>6, LimitsValid DEF Least, Counts
<1> HIDE DEF startup, i
<1>8. key \in Keys
  BY <1>2 DEF Keys
<1>9. next \in Deliveries /\ next.key = key /\ next.startup = startup
      /\ next.granted = StartupGrant /\ next.received = Zero /\ next.submitted = Zero
      /\ next.consumed = Zero /\ next.phase = "open" /\ next.deadline = None
  <2>1. Zero \in Counts /\ StartupGrant \in Counts
    BY LimitsValid DEF Zero, Counts
  <2> QED BY <1>7, <1>8, <2>1 DEF NewDelivery, Deliveries
<1>10. next # None /\ Ordered(next)
  BY <1>6, <1>9, NoneIsNoRecord, LimitsValid DEF Ordered, Covers, Zero
<1> HIDE DEF next
<1>11. UsageIsSum' /\ usage' \in Usages /\ startupUsed' \in IntCounts
       /\ entries' \in [Slots -> Deliveries \cup {None}]
  BY <1>1, <1>2, <1>9, ReplaceKeepsSums DEF Inv
<1>12. NextExpirationExact' /\ nextExpiration' \in Requests \cup {None}
  BY <1>1, <1>2, <1>9, ReplaceKeepsAlarm DEF Inv
<1>13. entries' = [entries EXCEPT ![i] = next] /\ checkpointChanged' \in BOOLEAN
  BY <1>1 DEF Replace
<1>14. TypeOK'
  <2>1. issued' \in [Sessions -> Slots \cup {None}]
    BY <1>1, <1>2, <1>3
  <2> QED BY <1>1, <1>11, <1>12, <1>13, <2>1, ExpireType DEF Inv, TypeOK, Usages, IntCounts
<1>15. HandlesExact'
  <2>1. ASSUME NEW j \in Occupied(entries)'
        PROVE  /\ entries'[j].key.slot = j
               /\ issued'[entries'[j].key.permit] = j
               /\ entries'[j].phase = "open" <=> entries'[j].deadline = None
    <3>1. CASE j = i
      BY <1>1, <1>2, <1>3, <1>9, <1>13, <3>1
    <3>2. CASE j # i
      <4>1. j \in Occupied(entries) /\ entries'[j] = entries[j]
        BY <1>3, <1>13, <2>1, <3>2 DEF Occupied
      <4>2. entries[j].key.permit # s
        BY <1>1, <4>1
      <4>3. entries[j].key.permit \in Sessions
        BY <1>3, <4>1 DEF Occupied, Deliveries, Keys
      <4> QED BY <1>1, <1>3, <4>1, <4>2, <4>3 DEF Inv, HandlesExact
    <3> QED BY <3>1, <3>2
  <2> QED BY <2>1 DEF HandlesExact
<1>16. PrefixOrder'
  BY <1>2, <1>3, <1>10, <1>13 DEF Inv, PrefixOrder, Occupied
<1>17. PoolsRespected'
  <2>1. StartupPool' = StartupPool /\ RegularPool' = RegularPool
    BY <1>1, SMTT(20) DEF StartupPool, RegularPool, EffectiveTotal
  <2>2. UsageOf(next) \in Usages /\ StartupUsedOf(next) \in IntCounts
    BY <1>9, UsageOfType, SMTT(20)
  <2>3. ASSUME NEW d \in Dim
        PROVE  /\ TotalOf(usage')[d] = TotalOf(usage)[d] + TotalOf(UsageOf(next))[d]
               /\ startupUsed'[d] = startupUsed[d] + StartupUsedOf(next)[d]
               /\ TotalOf(usage)[d] \in Int /\ startupUsed[d] \in Int
    <3>1. UsageOf(entries[i]) = NoUsage /\ StartupUsedOf(entries[i]) = Zero
      BY <1>2 DEF UsageOf, StartupUsedOf
    <3>2. /\ usage' = ReplaceUsage(usage, NoUsage, UsageOf(next))
          /\ startupUsed' = Add(Sub(startupUsed, Zero), StartupUsedOf(next))
      BY <1>1, <3>1 DEF Replace
    <3> QED BY <1>3, <2>2, <3>2
            DEF ReplaceUsage, TotalOf, Add, Sub, Usages, IntCounts, NoUsage, Zero
  <2>4. ASSUME NEW d \in Dim
        PROVE  TotalOf(UsageOf(next))[d] = StartupGrant[d] /\ StartupUsedOf(next)[d] = startup[d]
    <3>1. /\ TotalOf(UsageOf(next))[d] = StartupGrant[d] - 0
          /\ StartupUsedOf(next)[d] =
                  (IF StartupGrant[d] < startup[d] THEN StartupGrant[d] ELSE startup[d])
                  - (IF 0 < startup[d] THEN 0 ELSE startup[d])
      BY <1>9, <1>10, DeliveryTotals DEF UsageOf, StartupUsedOf, Retained, Zero
    <3>2. startup[d] \in Nat /\ StartupGrant[d] \in Nat /\ startup[d] <= StartupGrant[d]
      BY <1>6, LimitsValid DEF Counts
    <3> QED BY <3>1, <3>2
  <2>5. ASSUME NEW d \in Dim
        PROVE  /\ RegularPool[d] - (TotalOf(usage)[d] - startupUsed[d])
                       >= StartupGrant[d] - startup[d]
               /\ receiveCapacity[d] - TotalOf(usage)[d] >= StartupGrant[d]
    BY <1>1, <1>3, <1>6, <2>3, LimitsValid
       DEF RegularFree, RegularUsed, ReceiveAvailable, Covers, Sub, Least, Counts
  <2>6. Covers(StartupPool', startupUsed')
    BY <1>4, <1>6, <2>1, <2>3, <2>4 DEF Covers, IntCounts
  <2>7. Covers(RegularPool', RegularUsed')
    BY <1>4, <1>6, <2>1, <2>3, <2>4, <2>5 DEF Covers, RegularUsed, Sub, IntCounts
  <2>8. Covers(receiveCapacity', TotalOf(usage'))
    BY <1>1, <1>3, <1>6, <2>3, <2>4, <2>5, LimitsValid DEF Covers, Counts
  <2> QED BY <1>1, <2>6, <2>7, <2>8 DEF PoolsRespected
<1>18. QueueCharged'
  <2>1. ASSUME NEW t \in Sessions PROVE Charged(t)'
    <3>1. CASE t = s
      <4>1. ~Holds(s)
        BY <1>1, <1>3 DEF Holds, Occupied
      <4>2. receipts'[s] = NoReceipts
        BY <1>1, <4>1 DEF Inv, QueueCharged, Charged
      <4>3. EntryOf(s)' = next
        BY <1>1, <1>2, <1>3, <1>13 DEF EntryOf
      <4>4. \A o \in Ordinals : ~(0 < o /\ o <= 0) /\ NoReceipts[o] = 0
        BY LimitsValid DEF Ordinals, NoReceipts
      <4>5. Sum(NoReceipts, MaxCount) = 0
        BY <4>4, SumZero, LimitsValid DEF Ordinals
      <4> QED BY <1>9, <3>1, <4>2, <4>3, <4>4, <4>5 DEF Charged, Sub, Zero, Dim
    <3>2. CASE t # s
      <4>1. issued'[t] = issued[t]
        BY <1>1, <1>3, <3>2
      <4>2. (Holds(t)' <=> Holds(t)) /\ (Holds(t) => EntryOf(t)' = EntryOf(t))
        <5>1. CASE issued[t] = i
          <6>1. ~Holds(t)
            BY <1>2, <5>1 DEF Holds
          <6>2. ~Holds(t)'
            BY <1>2, <1>3, <1>9, <1>13, <3>2, <4>1, <5>1 DEF Holds
          <6> QED BY <6>1, <6>2
        <5>2. CASE issued[t] # i
          BY <1>3, <1>13, <4>1, <5>2 DEF Holds, EntryOf
        <5> QED BY <5>1, <5>2
      <4>3. Charged(t) /\ receipts' = receipts
        BY <1>1 DEF Inv, QueueCharged
      <4> QED BY <4>2, <4>3 DEF Charged
    <3> QED BY <3>1, <3>2
  <2> QED BY <2>1 DEF QueueCharged
<1> QED BY <1>11, <1>12, <1>14, <1>15, <1>16, <1>17, <1>18 DEF Inv

-----------------------------------------------------------------------------
(* The connection as a whole.                                              *)

\* An empty ledger has no usage.
LEMMA EmptySums ==
    ASSUME NEW es, \A i \in Slots : es[i] = None
    PROVE  SumUsage(es) = NoUsage /\ SumStartup(es) = Zero
<1>1. MaxFlows \in Nat /\ Slots = 1 .. MaxFlows
  BY LimitsValid DEF Slots
<1>2. ASSUME NEW d \in Dim
      PROVE  /\ Sum([i \in Slots |-> UsageOf(es[i]).granted[d]], MaxFlows) = 0
             /\ Sum([i \in Slots |-> UsageOf(es[i]).received[d]], MaxFlows) = 0
             /\ Sum([i \in Slots |-> UsageOf(es[i]).submitted[d]], MaxFlows) = 0
             /\ Sum([i \in Slots |-> StartupUsedOf(es[i])[d]], MaxFlows) = 0
  <2> DEFINE f1 == [i \in Slots |-> UsageOf(es[i]).granted[d]]
             f2 == [i \in Slots |-> UsageOf(es[i]).received[d]]
             f3 == [i \in Slots |-> UsageOf(es[i]).submitted[d]]
             f4 == [i \in Slots |-> StartupUsedOf(es[i])[d]]
  <2>1. \A i \in 1 .. MaxFlows : f1[i] = 0
    BY <1>1 DEF UsageOf, NoUsage, Zero
  <2>2. \A i \in 1 .. MaxFlows : f2[i] = 0
    BY <1>1 DEF UsageOf, NoUsage, Zero
  <2>3. \A i \in 1 .. MaxFlows : f3[i] = 0
    BY <1>1 DEF UsageOf, NoUsage, Zero
  <2>4. \A i \in 1 .. MaxFlows : f4[i] = 0
    BY <1>1 DEF StartupUsedOf, Zero
  <2> HIDE DEF f1, f2, f3, f4
  <2>5. Sum(f1, MaxFlows) = 0 /\ Sum(f2, MaxFlows) = 0 /\ Sum(f3, MaxFlows) = 0
        /\ Sum(f4, MaxFlows) = 0
    BY <1>1, <2>1, <2>2, <2>3, <2>4, SumZero
  <2> QED BY <2>5 DEF f1, f2, f3, f4
<1>3. SumUsage(es).granted = Zero /\ SumUsage(es).received = Zero /\ SumUsage(es).submitted = Zero
  BY <1>2, Zenon DEF SumUsage, Zero
<1>4. SumUsage(es) = NoUsage
  BY <1>3, Zenon DEF SumUsage, NoUsage
<1>5. SumStartup(es) = Zero
  BY <1>2, Zenon DEF SumStartup, Zero
<1> QED BY <1>4, <1>5

Empty ==
    /\ TypeOK
    /\ \A i \in Slots : entries[i] = None
    /\ usage = NoUsage /\ startupUsed = Zero /\ nextExpiration = None
    /\ receipts = [s \in Sessions |-> NoReceipts]

\* An empty ledger satisfies the accounting invariants, whatever its capacity.
LEMMA EmptyLedger == Empty => Inv
<1> SUFFICES ASSUME Empty PROVE Inv
  OBVIOUS
<1> USE DEF Empty
<1>1. UsageIsSum
  BY EmptySums DEF UsageIsSum
<1>2. HandlesExact /\ PrefixOrder
  BY DEF HandlesExact, PrefixOrder, Occupied
<1>3. NextExpirationExact
  BY DEF NextExpirationExact, EarliestExpiration, DeadlineOf
<1>4. QueueCharged
  BY DEF QueueCharged, Charged, Holds, TypeOK
<1>5. PoolsRespected
  <2>1. \A d \in Dim : TotalOf(usage)[d] = 0 /\ RegularUsed[d] = 0 /\ startupUsed[d] = 0
    BY DEF TotalOf, NoUsage, Zero, Add, RegularUsed, Sub
  <2>2. \A d \in Dim : StartupPool[d] >= 0 /\ RegularPool[d] >= 0
    <3>1. \A d \in Dim : /\ Total[d] \in Nat /\ StartupReserve[d] \in Nat /\ StartupGrant[d] \in Nat
                         /\ receiveCapacity # None => receiveCapacity[d] \in Nat
      BY LimitsValid, InputsValid DEF TypeOK, Counts
    <3>2. \A d \in Dim : EffectiveTotal[d] \in Nat
      BY <3>1 DEF EffectiveTotal, Least
    <3> QED BY <3>1, <3>2 DEF StartupPool, RegularPool, Least, SaturatingSub, Sub
  <2>3. receiveCapacity # None => \A d \in Dim : receiveCapacity[d] >= 0
    BY LimitsValid, InputsValid DEF TypeOK, Counts
  <2> QED BY <2>1, <2>2, <2>3 DEF PoolsRespected, Covers, Occupied
<1> QED BY <1>1, <1>2, <1>3, <1>4, <1>5 DEF Inv

\* Initially the ledger is empty.
LEMMA InitInv == Init => Inv
<1> SUFFICES ASSUME Init PROVE Inv
  OBVIOUS
<1>1. usage \in Usages /\ startupUsed \in IntCounts
  BY DEF Init, NoUsage, Zero, Usages, IntCounts
<1>2. receipts \in [Sessions -> [Ordinals -> 0 .. MaxEnvelope]]
  BY LimitsValid DEF Init, NoReceipts
<1>3. /\ entries \in [Slots -> Deliveries \cup {None}] /\ receiveCapacity \in Capacities \cup {None}
      /\ state \in {"open", "closing", "closed"} /\ issued \in [Sessions -> Slots \cup {None}]
      /\ closeRequest \in Requests \cup {None} /\ nextExpiration \in Requests \cup {None}
      /\ checkpointChanged \in BOOLEAN /\ retired \subseteq Sessions
  BY Zenon DEF Init
<1>4. TypeOK
  BY <1>1, <1>2, <1>3 DEF TypeOK, Usages, IntCounts
<1>5. \A i \in Slots : entries[i] = None
  BY DEF Init
<1> QED BY <1>4, <1>5, EmptyLedger DEF Init, Empty

\* The declaration finds an empty ledger: without it no flow was ever opened.
LEMMA DeclareCapacityKeepsInv ==
    ASSUME Inv, NEW capacity \in Capacities, NEW now \in Times, DeclareCapacity(capacity, now)
    PROVE  Inv'
<1>1. UNCHANGED <<entries, usage, startupUsed, nextExpiration, issued, receipts, retired>>
      /\ Expire(now) /\ receiveCapacity = None /\ receiveCapacity' = capacity
      /\ checkpointChanged' = TRUE
  BY DEF DeclareCapacity
<1>2. \A i \in Slots : entries[i] = None
  BY <1>1 DEF Inv, PoolsRespected, Occupied
<1>3. usage = NoUsage /\ startupUsed = Zero
  BY <1>2, EmptySums DEF Inv, UsageIsSum
<1>4. nextExpiration = None
  BY <1>2 DEF Inv, NextExpirationExact, EarliestExpiration, DeadlineOf
<1>5. receipts = [s \in Sessions |-> NoReceipts]
  <2>1. \A s \in Sessions : ~Holds(s)
    BY <1>2 DEF Holds, Inv, TypeOK
  <2> QED BY <2>1 DEF Inv, QueueCharged, Charged, TypeOK
<1>6. TypeOK'
  BY <1>1, ExpireType DEF Inv, TypeOK
<1>7. Empty'
  BY <1>1, <1>2, <1>3, <1>4, <1>5, <1>6 DEF Empty
<1> QED BY <1>7, EmptyLedger, PTL

\* The confirmed close empties the ledger and the host's queues together.
LEMMA ConfirmClosedKeepsInv ==
    ASSUME Inv, ConfirmClosed
    PROVE  Inv'
<1>1. /\ entries' = [s \in Slots |-> None] /\ usage' = NoUsage /\ startupUsed' = Zero
      /\ nextExpiration' = None /\ receipts' = [s \in Sessions |-> NoReceipts]
      /\ state' = "closed" /\ closeRequest' = None /\ checkpointChanged' = TRUE
      /\ UNCHANGED <<receiveCapacity, issued, retired>>
  BY DEF ConfirmClosed
<1>2. usage' \in Usages /\ startupUsed' \in IntCounts
  BY <1>1 DEF NoUsage, Zero, Usages, IntCounts
<1>3. receipts' \in [Sessions -> [Ordinals -> 0 .. MaxEnvelope]]
  BY <1>1, LimitsValid DEF NoReceipts
<1>4. TypeOK'
  BY <1>1, <1>2, <1>3 DEF Inv, TypeOK, Usages, IntCounts
<1>5. \A i \in Slots : entries'[i] = None
  BY <1>1
<1>6. Empty'
  BY <1>1, <1>4, <1>5 DEF Empty
<1> QED BY <1>6, EmptyLedger, PTL

\* The invariant does not read the dirty flag, nor how far the close has come.
LEMMA UnchangedKeepsInv ==
    ASSUME Inv, UNCHANGED <<receiveCapacity, entries, usage, startupUsed, state, closeRequest,
                            nextExpiration, issued, receipts, retired>>,
           checkpointChanged' \in BOOLEAN
    PROVE  Inv'
<1>1. TypeOK'
  BY DEF Inv, TypeOK
<1>2. HandlesExact' /\ PrefixOrder' /\ UsageIsSum' /\ NextExpirationExact'
  BY SMTT(20) DEF Inv, HandlesExact, PrefixOrder, UsageIsSum, NextExpirationExact
<1>3. PoolsRespected'
  BY DEF Inv, PoolsRespected, StartupPool, RegularPool, EffectiveTotal, RegularUsed
<1>4. QueueCharged'
  BY DEF Inv, QueueCharged, Charged, Holds, EntryOf
<1> QED BY <1>1, <1>2, <1>3, <1>4 DEF Inv

\* A restored ledger is the ledger that was stored: the aggregates `restore`
\* recomputes are the cached ones.
LEMMA RestoreKeepsInv ==
    ASSUME Inv, Restore
    PROVE  Inv'
<1>1. UNCHANGED <<receiveCapacity, entries, state, closeRequest, checkpointChanged, issued,
                  receipts, retired>>
      /\ usage' = SumUsage(entries) /\ startupUsed' = SumStartup(entries)
      /\ nextExpiration' = EarliestExpiration(entries)
  BY DEF Restore
<1>2. UNCHANGED <<usage, startupUsed, nextExpiration>>
  BY <1>1 DEF Inv, UsageIsSum, NextExpirationExact
<1>3. checkpointChanged' \in BOOLEAN
  BY <1>1 DEF Inv, TypeOK
<1> QED BY <1>1, <1>2, <1>3, UnchangedKeepsInv

\* Every step keeps the invariant.
LEMMA NextKeepsInv ==
    ASSUME Inv, [Next]_vars
    PROVE  Inv'
<1>1. ASSUME NEW now \in Times, NEW capacity \in Capacities, DeclareCapacity(capacity, now)
      PROVE  Inv'
  BY <1>1, DeclareCapacityKeepsInv
<1>2. ASSUME NEW now \in Times, NEW s \in Sessions, Open(s, now)
      PROVE  Inv'
  BY <1>2, OpenKeepsInv
<1>3. ASSUME NEW now \in Times, NEW s \in Sessions, NEW credit \in Credits, Grant(s, credit, now)
      PROVE  Inv'
  BY <1>3, GrantKeepsInv
<1>4. ASSUME NEW now \in Times, NEW s \in Sessions, NEW bytes \in MinEnvelope .. MaxEnvelope,
             Receive(s, bytes, now)
      PROVE  Inv'
  BY <1>4, ReceiveKeepsInv
<1>5. ASSUME NEW now \in Times, NEW s \in Sessions, Retire(s, now)
      PROVE  Inv'
  BY <1>5, RetireKeepsInv
<1>6. ASSUME NEW now \in Times, NEW s \in Sessions, Discarded(s, now)
      PROVE  Inv'
  BY <1>6, DiscardedKeepsInv
<1>7. ASSUME NEW now \in Times, NEW s \in Sessions, NEW total \in Counts, Consume(s, total, now)
      PROVE  Inv'
  BY <1>7, ConsumeKeepsInv
<1>8. ASSUME NEW now \in Times, NEW s \in Sessions, NEW total \in Counts, Settle(s, total, now)
      PROVE  Inv'
  BY <1>8, SettleKeepsInv
<1>9. ASSUME NEW now \in Times, NEW s \in Sessions, NEW ordinal \in Ordinals,
             Submit(s, ordinal, now)
      PROVE  Inv'
  BY <1>9, SubmitKeepsInv
<1>10. ASSUME NEW now \in Times, Tick(now)
       PROVE  Inv'
  <2>1. Expire(now) /\ Keep(now) /\ UNCHANGED <<receiveCapacity, issued, receipts>>
        /\ retired' \subseteq Sessions
    BY <1>10 DEF Tick, Inv, TypeOK
  <2> QED BY <2>1, KeepKeepsInv
<1>11. CASE ConfirmClosed
  BY <1>11, ConfirmClosedKeepsInv
<1>12. CASE Flush
  BY <1>12, UnchangedKeepsInv, Zenon DEF Flush
<1>13. CASE Restore
  BY <1>13, RestoreKeepsInv
<1>14. CASE UNCHANGED vars
  <2>1. checkpointChanged' \in BOOLEAN
    BY <1>14 DEF vars, ledger, Inv, TypeOK
  <2> QED BY <1>14, <2>1, UnchangedKeepsInv DEF vars, ledger
<1> QED
  BY <1>1, <1>2, <1>3, <1>4, <1>5, <1>6, <1>7, <1>8, <1>9, <1>10, <1>11, <1>12, <1>13, <1>14
     DEF Next

\* The inductive invariant of the ledger holds in every reachable state.
THEOREM LedgerInvariant == Spec => []Inv
<1>1. Inv /\ [Next]_vars => Inv'
  BY NextKeepsInv
<1> QED BY <1>1, InitInv, PTL DEF Spec

\* Every variable always has its type.
THEOREM LedgerTypeCorrect == Spec => []TypeOK
<1>1. Inv => TypeOK
  BY DEF Inv
<1> QED BY <1>1, LedgerInvariant, PTL

\* The pools and the declared receive capacity are never over-committed, for any
\* number of flows, any limits and any declared capacity.
THEOREM LedgerPoolsRespected == Spec => []PoolsRespected
<1>1. Inv => PoolsRespected
  BY DEF Inv
<1> QED BY <1>1, LedgerInvariant, PTL

\* The cached usage is always the sum over the retained flows.
THEOREM LedgerUsageIsSum == Spec => []UsageIsSum
<1>1. Inv => UsageIsSum
  BY DEF Inv
<1> QED BY <1>1, LedgerInvariant, PTL

\* The host's queues are always exactly what the ledger charges for.
THEOREM LedgerQueueCharged == Spec => []QueueCharged
<1>1. Inv => QueueCharged
  BY DEF Inv
<1> QED BY <1>1, LedgerInvariant, PTL

\* The four prefixes of every flow stay ordered.
THEOREM LedgerPrefixOrder == Spec => []PrefixOrder
<1>1. Inv => PrefixOrder
  BY DEF Inv
<1> QED BY <1>1, LedgerInvariant, PTL

\* The cached alarm is always the earliest deadline.
THEOREM LedgerNextExpirationExact == Spec => []NextExpirationExact
<1>1. Inv => NextExpirationExact
  BY DEF Inv
<1> QED BY <1>1, LedgerInvariant, PTL

-----------------------------------------------------------------------------
(* Action properties.                                                      *)

FinalAt(slot) ==
    (entries[slot].phase # "open" /\ entries'[slot] # None) =>
        /\ entries'[slot].key = entries[slot].key
        /\ entries'[slot].deadline = entries[slot].deadline
        /\ entries'[slot].submitted = entries[slot].submitted
        /\ entries'[slot].received = entries[slot].received
        /\ entries'[slot].phase \in {entries[slot].phase, "settling"}

Dirty ==
    (<<receiveCapacity, entries, state, closeRequest>>' #
         <<receiveCapacity, entries, state, closeRequest>>) => checkpointChanged'

\* A step that replaces one entry touches no other, and raises the dirty flag if
\* it changes anything a checkpoint contains.
LEMMA ReplaceIsDirty ==
    ASSUME TypeOK, NEW slot \in Slots, NEW next, NEW now, Expire(now), Replace(slot, next, now),
           receiveCapacity' = receiveCapacity
    PROVE  /\ Dirty
           /\ \A i \in Slots \ {slot} : entries'[i] = entries[i]
           /\ entries'[slot] = next
<1>1. entries' = [entries EXCEPT ![slot] = next] /\ entries \in [Slots -> Deliveries \cup {None}]
      /\ checkpointChanged' = (checkpointChanged \/ Expiring(now) \/ entries[slot] # next)
  BY DEF Replace, TypeOK
<1>2. entries[slot] = next => entries' = entries
  BY <1>1
<1>3. ~Expiring(now) => state' = state /\ closeRequest' = closeRequest
  BY DEF Expire, StateAt
<1> QED BY <1>1, <1>2, <1>3, Zenon DEF Dirty

\* An operation that only expires raises the flag exactly when it does.
LEMMA KeepIsDirty ==
    ASSUME NEW now, Expire(now), Keep(now), receiveCapacity' = receiveCapacity
    PROVE  Dirty /\ entries' = entries
BY DEF Dirty, Keep, Expire, StateAt

\* What a step may do to a retired flow, and to the dirty flag.
LEMMA NextIsFinalAndDirty ==
    ASSUME Inv, Next
    PROVE  Dirty /\ \A slot \in Occupied(entries) : FinalAt(slot)
<1>0. TypeOK
  BY DEF Inv
<1>a. ASSUME entries' = entries
      PROVE  \A slot \in Occupied(entries) : FinalAt(slot)
  BY <1>a, SMTT(20) DEF FinalAt
<1>b. ASSUME NEW s \in Sessions, Holds(s), NEW next, NEW now, Expire(now),
             Replace(issued[s], next, now), receiveCapacity' = receiveCapacity,
             \/ next = None
             \/ EntryOf(s).phase = "open"
             \/ /\ next.key = EntryOf(s).key /\ next.deadline = EntryOf(s).deadline
                /\ next.submitted = EntryOf(s).submitted /\ next.received = EntryOf(s).received
                /\ next.phase \in {EntryOf(s).phase, "settling"}
      PROVE  Dirty /\ \A slot \in Occupied(entries) : FinalAt(slot)
  <2>1. issued[s] \in Slots /\ entries[issued[s]] = EntryOf(s)
    BY <1>b, HeldEntry
  <2>2. Dirty /\ (\A i \in Slots \ {issued[s]} : entries'[i] = entries[i])
        /\ entries'[issued[s]] = next
    BY <1>0, <1>b, <2>1, ReplaceIsDirty
  <2>3. FinalAt(issued[s])
    <3>1. CASE next = None
      BY <2>2, <3>1 DEF FinalAt
    <3>2. CASE EntryOf(s).phase = "open"
      BY <2>1, <3>2 DEF FinalAt
    <3>3. CASE /\ next.key = EntryOf(s).key /\ next.deadline = EntryOf(s).deadline
               /\ next.submitted = EntryOf(s).submitted /\ next.received = EntryOf(s).received
               /\ next.phase \in {EntryOf(s).phase, "settling"}
      BY <2>1, <2>2, <3>3, Zenon DEF FinalAt
    <3> QED BY <1>b, <3>1, <3>2, <3>3, Zenon
  <2>4. ASSUME NEW slot \in Slots \ {issued[s]}
        PROVE  FinalAt(slot)
    <3>1. entries'[slot] = entries[slot]
      BY <2>2
    <3> QED BY <3>1, Zenon DEF FinalAt
  <2> QED BY <2>2, <2>3, <2>4, Zenon DEF Occupied
<1>1. ASSUME NEW now \in Times, NEW capacity \in Capacities, DeclareCapacity(capacity, now)
      PROVE  Dirty /\ \A slot \in Occupied(entries) : FinalAt(slot)
  BY <1>1, <1>a DEF DeclareCapacity, Dirty
<1>2. ASSUME NEW now \in Times, NEW s \in Sessions, Open(s, now)
      PROVE  Dirty /\ \A slot \in Occupied(entries) : FinalAt(slot)
  <2>1. PICK next : Replace(FirstVacant, next, now)
    BY <1>2 DEF Open
  <2>2. FirstVacant \in Slots /\ entries[FirstVacant] = None
    BY <1>2, FirstVacantIsVacant, SMTT(20) DEF Open
  <2>3. Dirty /\ \A i \in Slots \ {FirstVacant} : entries'[i] = entries[i]
    BY <1>0, <1>2, <2>1, <2>2, ReplaceIsDirty DEF Open
  <2> QED BY <2>2, <2>3 DEF FinalAt, Occupied
<1>3. ASSUME NEW now \in Times, NEW s \in Sessions, NEW credit \in Credits, Grant(s, credit, now)
      PROVE  Dirty /\ \A slot \in Occupied(entries) : FinalAt(slot)
  BY <1>3, <1>b DEF Grant, Live
<1>4. ASSUME NEW now \in Times, NEW s \in Sessions, NEW bytes \in MinEnvelope .. MaxEnvelope,
             Receive(s, bytes, now)
      PROVE  Dirty /\ \A slot \in Occupied(entries) : FinalAt(slot)
  BY <1>4, <1>b DEF Receive, Live
<1>5. ASSUME NEW now \in Times, NEW s \in Sessions, Retire(s, now)
      PROVE  Dirty /\ \A slot \in Occupied(entries) : FinalAt(slot)
  <2>1. CASE Holds(s) /\ EntryOf(s).phase = "open"
    BY <1>5, <1>b, <2>1 DEF Retire
  <2>2. CASE ~(Holds(s) /\ EntryOf(s).phase = "open")
    BY <1>5, <1>a, <2>2, KeepIsDirty DEF Retire
  <2> QED BY <2>1, <2>2
<1>6. ASSUME NEW now \in Times, NEW s \in Sessions, Discarded(s, now)
      PROVE  Dirty /\ \A slot \in Occupied(entries) : FinalAt(slot)
  <2>0. Expire(now) /\ receiveCapacity' = receiveCapacity
    BY <1>6 DEF Discarded
  <2>1. CASE ~Holds(s)
    BY <1>6, <1>a, <2>0, <2>1, KeepIsDirty DEF Discarded
  <2>2. CASE Holds(s) /\ EntryOf(s).submitted = EntryOf(s).consumed
    BY <1>6, <1>b, <2>0, <2>2 DEF Discarded
  <2>3. CASE Holds(s) /\ EntryOf(s).submitted # EntryOf(s).consumed
    <3>1. Replace(issued[s], [EntryOf(s) EXCEPT !.phase = "settling"], now)
      BY <1>6, <2>3 DEF Discarded
    <3>2. EntryOf(s) \in Deliveries
      BY <2>3, HeldEntry
    <3> DEFINE next == [EntryOf(s) EXCEPT !.phase = "settling"]
    <3>3. /\ next.key = EntryOf(s).key /\ next.deadline = EntryOf(s).deadline
          /\ next.submitted = EntryOf(s).submitted /\ next.received = EntryOf(s).received
          /\ next.phase = "settling"
      BY <3>2 DEF Deliveries
    <3> HIDE DEF next
    <3> QED BY <1>b, <2>0, <2>3, <3>1, <3>3, Zenon DEF next
  <2> QED BY <2>1, <2>2, <2>3
<1>7. ASSUME NEW now \in Times, NEW s \in Sessions, NEW total \in Counts, Consume(s, total, now)
      PROVE  Dirty /\ \A slot \in Occupied(entries) : FinalAt(slot)
  <2>0. Expire(now) /\ receiveCapacity' = receiveCapacity /\ Holds(s)
    BY <1>7 DEF Consume
  <2>1. CASE EntryOf(s).phase = "settling" /\ total = EntryOf(s).submitted
    BY <1>7, <1>b, <2>0, <2>1 DEF Consume
  <2>2. CASE ~(EntryOf(s).phase = "settling" /\ total = EntryOf(s).submitted)
    <3> DEFINE next == [EntryOf(s) EXCEPT !.consumed = total]
    <3>1. Replace(issued[s], next, now)
      BY <1>7, <2>2 DEF Consume
    <3>2. EntryOf(s) \in Deliveries
      BY <2>0, HeldEntry
    <3>3. /\ next.key = EntryOf(s).key /\ next.deadline = EntryOf(s).deadline
          /\ next.submitted = EntryOf(s).submitted /\ next.received = EntryOf(s).received
          /\ next.phase = EntryOf(s).phase
      BY <3>2 DEF Deliveries
    <3> HIDE DEF next
    <3> QED BY <1>b, <2>0, <3>1, <3>3
  <2> QED BY <2>1, <2>2
<1>8. ASSUME NEW now \in Times, NEW s \in Sessions, NEW total \in Counts, Settle(s, total, now)
      PROVE  Dirty /\ \A slot \in Occupied(entries) : FinalAt(slot)
  BY <1>8, <1>b DEF Settle
<1>9. ASSUME NEW now \in Times, NEW s \in Sessions, NEW ordinal \in Ordinals,
             Submit(s, ordinal, now)
      PROVE  Dirty /\ \A slot \in Occupied(entries) : FinalAt(slot)
  BY <1>9, <1>b DEF Submit, Live
<1>10. ASSUME NEW now \in Times, Tick(now)
       PROVE  Dirty /\ \A slot \in Occupied(entries) : FinalAt(slot)
  BY <1>10, <1>a, KeepIsDirty DEF Tick
<1>11. CASE ConfirmClosed
  BY <1>11 DEF ConfirmClosed, Dirty, FinalAt, Occupied
<1>12. CASE Flush
  BY <1>12, <1>a DEF Flush, Dirty
<1>13. CASE Restore
  BY <1>13, <1>a DEF Restore, Dirty
<1> QED
  BY <1>1, <1>2, <1>3, <1>4, <1>5, <1>6, <1>7, <1>8, <1>9, <1>10, <1>11, <1>12, <1>13 DEF Next

\* No step reopens a retired flow, moves its deadline or changes its totals.
THEOREM LedgerRetirementIsFinal == Spec => RetirementIsFinal
<1>1. Inv /\ [Next]_vars =>
          [\A slot \in Occupied(entries) :
              (entries[slot].phase # "open" /\ entries'[slot] # None) =>
                  /\ entries'[slot].key = entries[slot].key
                  /\ entries'[slot].deadline = entries[slot].deadline
                  /\ entries'[slot].submitted = entries[slot].submitted
                  /\ entries'[slot].received = entries[slot].received
                  /\ entries'[slot].phase \in {entries[slot].phase, "settling"}]_vars
  BY NextIsFinalAndDirty DEF FinalAt
<1> QED BY <1>1, LedgerInvariant, PTL DEF Spec, RetirementIsFinal

\* Every step that changes what a checkpoint contains raises the dirty flag.
THEOREM LedgerDirtyFlagComplete == Spec => DirtyFlagComplete
<1>1. Inv /\ [Next]_vars =>
          [(<<receiveCapacity, entries, state, closeRequest>>' #
                <<receiveCapacity, entries, state, closeRequest>>) => checkpointChanged']_vars
  BY NextIsFinalAndDirty DEF Dirty
<1> QED BY <1>1, LedgerInvariant, PTL DEF Spec, DirtyFlagComplete

=============================================================================
