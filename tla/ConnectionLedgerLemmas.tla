------------------------ MODULE ConnectionLedgerLemmas ------------------------
(***************************************************************************)
(* The inductive invariant of the ledger and the lemmas it rests on: how   *)
(* `replace` maintains the aggregates and what a step on one flow leaves   *)
(* alone.                                                                  *)
(***************************************************************************)
EXTENDS ConnectionLedger, SumsTheorems

\* The inductive invariant: the checked invariants support one another.
Inv ==
    /\ TypeOK
    /\ HandlesExact
    /\ PrefixOrder
    /\ QueueCharged
    /\ UsageIsSum
    /\ PoolsRespected
    /\ NextExpirationExact

-----------------------------------------------------------------------------
(* The two-dimensional counts and the occupancy of one delivery.           *)

IntCounts == [Dim -> Int]

Usages == [granted : IntCounts, received : IntCounts, submitted : IntCounts]

\* The occupancy of a delivery has integer counts.
LEMMA UsageOfType ==
    ASSUME NEW e \in Deliveries \cup {None}
    PROVE  UsageOf(e) \in Usages /\ StartupUsedOf(e) \in IntCounts
BY NoneIsNoRecord, LimitsValid
   DEF UsageOf, StartupUsedOf, Usages, IntCounts, NoUsage, Zero, DeliveryUsage,
       DeliveryStartupUsed, Deliveries, Sub, Least, Retained, Counts

\* The three stages of a delivery telescope to its retained prefix minus what
\* was consumed; its startup share is never negative.
LEMMA DeliveryTotals ==
    ASSUME NEW e \in Deliveries, Ordered(e), NEW d \in Dim
    PROVE  /\ TotalOf(DeliveryUsage(e))[d] = Retained(e)[d] - e.consumed[d]
           /\ Retained(e)[d] \in Nat /\ e.consumed[d] \in Nat /\ e.startup[d] \in Nat
           /\ Retained(e)[d] >= e.consumed[d]
           /\ DeliveryStartupUsed(e)[d] =
                  (IF Retained(e)[d] < e.startup[d] THEN Retained(e)[d] ELSE e.startup[d])
                  - (IF e.consumed[d] < e.startup[d] THEN e.consumed[d] ELSE e.startup[d])
BY LimitsValid
   DEF Ordered, Covers, TotalOf, DeliveryUsage, DeliveryStartupUsed, Retained, Add, Sub,
       Least, Deliveries, Counts, Zero

\* Replacing one slot keeps the aggregates equal to the sums over all slots.
LEMMA ReplaceKeepsSums ==
    ASSUME TypeOK, UsageIsSum, NEW i \in Slots, NEW next \in Deliveries \cup {None},
           NEW now, Replace(i, next, now)
    PROVE  /\ UsageIsSum'
           /\ usage' \in Usages /\ startupUsed' \in IntCounts
           /\ entries' \in [Slots -> Deliveries \cup {None}]
<1>1. entries' \in [Slots -> Deliveries \cup {None}] /\ entries \in [Slots -> Deliveries \cup {None}]
  BY DEF TypeOK, Replace
<1>2. \A j \in Slots : /\ UsageOf(entries[j]) \in Usages /\ StartupUsedOf(entries[j]) \in IntCounts
                       /\ UsageOf(entries'[j]) \in Usages /\ StartupUsedOf(entries'[j]) \in IntCounts
  BY <1>1, UsageOfType
<1>3. entries'[i] = next /\ \A j \in Slots : j # i => entries'[j] = entries[j]
  BY <1>1 DEF Replace
<1>4. MaxFlows \in Nat /\ Slots = 1 .. MaxFlows
  BY LimitsValid DEF Slots
<1>5. ASSUME NEW d \in Dim
      PROVE  SumStartup(entries')[d] = SumStartup(entries)[d] - StartupUsedOf(entries[i])[d]
                                         + StartupUsedOf(next)[d]
  <2> DEFINE f == [j \in Slots |-> StartupUsedOf(entries[j])[d]]
             g == [j \in Slots |-> StartupUsedOf(entries'[j])[d]]
  <2>1. \A j \in 1 .. MaxFlows : f[j] \in Int /\ g[j] \in Int /\ (j # i => g[j] = f[j])
    BY <1>2, <1>3, <1>4 DEF IntCounts
  <2>2. Sum(g, MaxFlows) = Sum(f, MaxFlows) - f[i] + g[i]
    <3> HIDE DEF f, g
    <3> QED BY <2>1, <1>4, SumUpdate
  <2> QED BY <2>2, <1>3 DEF SumStartup
<1>6. ASSUME NEW d \in Dim
      PROVE  SumUsage(entries').granted[d] = SumUsage(entries).granted[d]
                 - UsageOf(entries[i]).granted[d] + UsageOf(next).granted[d]
  <2> DEFINE f == [j \in Slots |-> UsageOf(entries[j]).granted[d]]
             g == [j \in Slots |-> UsageOf(entries'[j]).granted[d]]
  <2>1. \A j \in 1 .. MaxFlows : f[j] \in Int /\ g[j] \in Int /\ (j # i => g[j] = f[j])
    BY <1>2, <1>3, <1>4, SMTT(20) DEF IntCounts, Usages
  <2>2. Sum(g, MaxFlows) = Sum(f, MaxFlows) - f[i] + g[i]
    <3> HIDE DEF f, g
    <3> QED BY <2>1, <1>4, SumUpdate
  <2> QED BY <2>2, <1>3 DEF SumUsage
<1>7. ASSUME NEW d \in Dim
      PROVE  SumUsage(entries').received[d] = SumUsage(entries).received[d]
                 - UsageOf(entries[i]).received[d] + UsageOf(next).received[d]
  <2> DEFINE f == [j \in Slots |-> UsageOf(entries[j]).received[d]]
             g == [j \in Slots |-> UsageOf(entries'[j]).received[d]]
  <2>1. \A j \in 1 .. MaxFlows : f[j] \in Int /\ g[j] \in Int /\ (j # i => g[j] = f[j])
    BY <1>2, <1>3, <1>4, SMTT(20) DEF IntCounts, Usages
  <2>2. Sum(g, MaxFlows) = Sum(f, MaxFlows) - f[i] + g[i]
    <3> HIDE DEF f, g
    <3> QED BY <2>1, <1>4, SumUpdate
  <2> QED BY <2>2, <1>3 DEF SumUsage
<1>8. ASSUME NEW d \in Dim
      PROVE  SumUsage(entries').submitted[d] = SumUsage(entries).submitted[d]
                 - UsageOf(entries[i]).submitted[d] + UsageOf(next).submitted[d]
  <2> DEFINE f == [j \in Slots |-> UsageOf(entries[j]).submitted[d]]
             g == [j \in Slots |-> UsageOf(entries'[j]).submitted[d]]
  <2>1. \A j \in 1 .. MaxFlows : f[j] \in Int /\ g[j] \in Int /\ (j # i => g[j] = f[j])
    BY <1>2, <1>3, <1>4, SMTT(20) DEF IntCounts, Usages
  <2>2. Sum(g, MaxFlows) = Sum(f, MaxFlows) - f[i] + g[i]
    <3> HIDE DEF f, g
    <3> QED BY <2>1, <1>4, SumUpdate
  <2> QED BY <2>2, <1>3 DEF SumUsage
<1>9. usage \in Usages /\ startupUsed \in IntCounts
  BY DEF TypeOK, Usages, IntCounts
<1>10. usage' \in Usages /\ startupUsed' \in IntCounts
  BY <1>2, <1>3, <1>9 DEF Replace, ReplaceUsage, Usages, IntCounts, Add, Sub
<1>11. startupUsed' = SumStartup(entries')
  BY <1>5, <1>9, <1>2, <1>3, Zenon DEF UsageIsSum, Replace, Add, Sub, SumStartup, IntCounts
<1>12. usage' = SumUsage(entries')
  <2>1. usage'.granted = SumUsage(entries').granted
    BY <1>6 DEF UsageIsSum, Replace, ReplaceUsage, Add, Sub, SumUsage
  <2>2. usage'.received = SumUsage(entries').received
    BY <1>7 DEF UsageIsSum, Replace, ReplaceUsage, Add, Sub, SumUsage
  <2>3. usage'.submitted = SumUsage(entries').submitted
    BY <1>8 DEF UsageIsSum, Replace, ReplaceUsage, Add, Sub, SumUsage
  <2> QED BY <2>1, <2>2, <2>3, Zenon DEF SumUsage, Replace, ReplaceUsage
<1> QED BY <1>1, <1>10, <1>11, <1>12 DEF UsageIsSum

-----------------------------------------------------------------------------
(* The cached alarm.                                                       *)

\* The first due slot exists whenever some slot has a deadline.
LEMMA FirstDueExists ==
    ASSUME NEW ds \in [Slots -> Times \cup {None}], NEW k \in Slots, ds[k] # None
    PROVE  /\ FirstDue(ds) \in Slots
           /\ ds[FirstDue(ds)] # None
<1> DEFINE D == {ds[j] : j \in {j \in Slots : ds[j] # None}}
<1>1. D \subseteq Nat /\ D # {}
  BY LimitsValid DEF Times
<1>2. PICK x \in D : \A y \in D : x <= y
  BY <1>1, LeastNatural, Zenon
<1> DEFINE E == {j \in Slots : ds[j] = x}
<1>3. E \subseteq Nat /\ E # {}
  BY <1>2 DEF Slots
<1>4. PICK i \in E : \A j \in E : i <= j
  BY <1>3, LeastNatural, Zenon
<1>5. i \in Slots /\ ds[i] = x /\ x # None /\ x \in Nat
  BY <1>1, <1>2, <1>4
<1>6. ASSUME NEW j \in Slots, ds[j] # None
      PROVE  ds[i] < ds[j] \/ (ds[i] = ds[j] /\ i <= j)
  <2>1. ds[j] \in D /\ ds[j] \in Nat
    BY <1>1, <1>6
  <2>2. x <= ds[j]
    BY <1>2, <2>1
  <2>3. CASE ds[j] = x
    BY <1>4, <1>5, <2>3
  <2>4. CASE ds[j] # x
    BY <1>5, <2>1, <2>2, <2>4
  <2> QED BY <2>3, <2>4
<1>7. \E m \in Slots :
          /\ ds[m] # None
          /\ \A j \in Slots : ds[j] # None => ds[m] < ds[j] \/ (ds[m] = ds[j] /\ m <= j)
  BY <1>5, <1>6
<1> QED BY <1>7 DEF FirstDue

\* The earliest expiration of well-typed slots is a request or none.
LEMMA EarliestType ==
    ASSUME NEW es \in [Slots -> Deliveries \cup {None}]
    PROVE  EarliestExpiration(es) \in Requests \cup {None}
<1>1. Deadlines(es) \in [Slots -> Times \cup {None}]
  BY NoneIsNoRecord DEF Deadlines, DeadlineOf, Deliveries
<1>2. CASE \A i \in Slots : DeadlineOf(es[i]) = None
  BY <1>2 DEF EarliestExpiration
<1>3. CASE ~ \A i \in Slots : DeadlineOf(es[i]) = None
  <2>1. PICK k \in Slots : DeadlineOf(es[k]) # None
    BY <1>3
  <2> DEFINE first == FirstDue(Deadlines(es))
  <2>2. first \in Slots /\ Deadlines(es)[first] # None
    BY <1>1, <2>1, FirstDueExists DEF Deadlines
  <2>3. es[first] \in Deliveries /\ es[first].deadline \in Times
    BY <2>2 DEF Deadlines, DeadlineOf, Deliveries
  <2>4. [flow |-> es[first].key, deadline |-> es[first].deadline] \in Requests
    BY <2>3 DEF Requests, Deliveries
  <2> QED BY <1>3, <2>4 DEF EarliestExpiration
<1> QED BY <1>2, <1>3

\* Slots with the same deadlines, and the same keys where they are due, have the
\* same earliest expiration.
LEMMA EarliestDepends ==
    ASSUME NEW es \in [Slots -> Deliveries \cup {None}],
           NEW fs \in [Slots -> Deliveries \cup {None}],
           \A i \in Slots : DeadlineOf(fs[i]) = DeadlineOf(es[i]),
           \A i \in Slots : DeadlineOf(es[i]) # None => fs[i].key = es[i].key
    PROVE  EarliestExpiration(fs) = EarliestExpiration(es)
<1>1. Deadlines(fs) = Deadlines(es)
  BY DEF Deadlines
<1>2. CASE \A i \in Slots : DeadlineOf(es[i]) = None
  BY <1>2 DEF EarliestExpiration
<1>3. CASE ~ \A i \in Slots : DeadlineOf(es[i]) = None
  <2>1. PICK k \in Slots : DeadlineOf(es[k]) # None
    BY <1>3
  <2> DEFINE first == FirstDue(Deadlines(es))
  <2>2. Deadlines(es) \in [Slots -> Times \cup {None}]
    BY NoneIsNoRecord DEF Deadlines, DeadlineOf, Deliveries
  <2>3. first \in Slots /\ Deadlines(es)[first] # None
    BY <2>1, <2>2, FirstDueExists DEF Deadlines
  <2>4. DeadlineOf(es[first]) # None
    BY <2>3 DEF Deadlines
  <2> HIDE DEF first
  <2>5. fs[first].key = es[first].key
    BY <2>3, <2>4
  <2>6. fs[first].deadline = es[first].deadline
    BY <2>3, <2>4 DEF DeadlineOf
  <2>7. ~ \A i \in Slots : DeadlineOf(fs[i]) = None
    BY <2>1
  <2> QED BY <1>1, <1>3, <2>5, <2>6, <2>7 DEF EarliestExpiration, first
<1> QED BY <1>2, <1>3

\* Replacing a delivery by one with the same key, or filling an empty slot with
\* an open flow, or freeing the slot, keeps the cached alarm exact.
LEMMA ReplaceKeepsAlarm ==
    ASSUME TypeOK, NextExpirationExact, NEW i \in Slots, NEW next \in Deliveries \cup {None},
           NEW now, Replace(i, next, now),
           entries[i] # None /\ next # None => next.key = entries[i].key
    PROVE  /\ NextExpirationExact'
           /\ nextExpiration' \in Requests \cup {None}
<1>1. entries' \in [Slots -> Deliveries \cup {None}] /\ entries \in [Slots -> Deliveries \cup {None}]
  BY DEF TypeOK, Replace
<1>2. entries'[i] = next /\ \A j \in Slots : j # i => entries'[j] = entries[j]
  BY <1>1 DEF Replace
<1>3. nextExpiration' = EarliestExpiration(entries')
  <2>1. CASE DeadlineOf(entries[i]) # DeadlineOf(next)
    BY <2>1 DEF Replace
  <2>2. CASE DeadlineOf(entries[i]) = DeadlineOf(next)
    <3>1. \A j \in Slots : DeadlineOf(entries'[j]) = DeadlineOf(entries[j])
      BY <1>2, <2>2
    <3>2. \A j \in Slots : DeadlineOf(entries[j]) # None => entries'[j].key = entries[j].key
      BY <1>2, <2>2 DEF DeadlineOf
    <3>3. EarliestExpiration(entries') = EarliestExpiration(entries)
      BY <1>1, <3>1, <3>2, EarliestDepends
    <3> QED BY <2>2, <3>3 DEF Replace, NextExpirationExact
  <2> QED BY <2>1, <2>2
<1> QED BY <1>1, <1>3, EarliestType DEF NextExpirationExact

-----------------------------------------------------------------------------
(* The capacity pools.                                                     *)

\* Pools and the peer's bound are well-typed numbers.
LEMMA PoolTypes ==
    ASSUME TypeOK
    PROVE  StartupPool \in IntCounts /\ RegularPool \in IntCounts /\ EffectiveTotal \in IntCounts
BY LimitsValid, InputsValid
   DEF TypeOK, StartupPool, RegularPool, EffectiveTotal, Least, SaturatingSub, Sub, Counts, IntCounts

\* A flow that gives up part of its retained prefix, or whose consumption
\* advances, never needs more of either pool.
LEMMA ShrinkKeepsPools ==
    ASSUME TypeOK, PoolsRespected, NEW i \in Slots, entries[i] # None, Ordered(entries[i]),
           NEW next \in Deliveries \cup {None}, NEW now, Replace(i, next, now),
           receiveCapacity' = receiveCapacity,
           next # None => /\ Ordered(next)
                          /\ next.startup = entries[i].startup
                          /\ Covers(Retained(entries[i]), Retained(next))
                          /\ Covers(next.consumed, entries[i].consumed)
    PROVE  PoolsRespected'
<1> DEFINE e == entries[i]
<1>1. e \in Deliveries /\ receiveCapacity # None
  BY DEF TypeOK, PoolsRespected, Occupied
<1>2. usage \in Usages /\ startupUsed \in IntCounts
  BY DEF TypeOK, Usages, IntCounts
<1>3. UsageOf(e) \in Usages /\ UsageOf(next) \in Usages
      /\ StartupUsedOf(e) \in IntCounts /\ StartupUsedOf(next) \in IntCounts
  BY <1>1, UsageOfType
<1>4. StartupPool' = StartupPool /\ RegularPool' = RegularPool
  BY DEF StartupPool, RegularPool, EffectiveTotal
<1>5. StartupPool \in IntCounts /\ RegularPool \in IntCounts
  BY PoolTypes
<1>6. ASSUME NEW d \in Dim
      PROVE  /\ TotalOf(usage')[d] = TotalOf(usage)[d] - TotalOf(UsageOf(e))[d]
                                        + TotalOf(UsageOf(next))[d]
             /\ startupUsed'[d] = startupUsed[d] - StartupUsedOf(e)[d] + StartupUsedOf(next)[d]
             /\ TotalOf(usage)[d] \in Int /\ startupUsed[d] \in Int
             /\ StartupUsedOf(e)[d] \in Int /\ StartupUsedOf(next)[d] \in Int
             /\ TotalOf(UsageOf(e))[d] \in Int /\ TotalOf(UsageOf(next))[d] \in Int
  BY <1>2, <1>3, SMTT(30) DEF Replace, ReplaceUsage, TotalOf, Add, Sub, Usages, IntCounts
<1>7. ASSUME NEW d \in Dim
      PROVE  /\ TotalOf(UsageOf(next))[d] <= TotalOf(UsageOf(e))[d]
             /\ StartupUsedOf(next)[d] <= StartupUsedOf(e)[d]
             /\ TotalOf(UsageOf(next))[d] - StartupUsedOf(next)[d]
                    <= TotalOf(UsageOf(e))[d] - StartupUsedOf(e)[d]
  <2>1. /\ TotalOf(UsageOf(e))[d] = Retained(e)[d] - e.consumed[d]
        /\ Retained(e)[d] \in Nat /\ e.consumed[d] \in Nat /\ e.startup[d] \in Nat
        /\ Retained(e)[d] >= e.consumed[d]
        /\ StartupUsedOf(e)[d] =
                  (IF Retained(e)[d] < e.startup[d] THEN Retained(e)[d] ELSE e.startup[d])
                  - (IF e.consumed[d] < e.startup[d] THEN e.consumed[d] ELSE e.startup[d])
    BY <1>1, DeliveryTotals DEF UsageOf, StartupUsedOf
  <2>2. CASE next = None
    <3>1. TotalOf(UsageOf(next))[d] = 0 /\ StartupUsedOf(next)[d] = 0
      BY <2>2 DEF UsageOf, StartupUsedOf, NoUsage, Zero, TotalOf, Add
    <3> QED BY <2>1, <3>1
  <2>3. CASE next # None
    <3>1. /\ TotalOf(UsageOf(next))[d] = Retained(next)[d] - next.consumed[d]
          /\ Retained(next)[d] \in Nat /\ next.consumed[d] \in Nat /\ next.startup[d] \in Nat
          /\ Retained(next)[d] >= next.consumed[d]
          /\ StartupUsedOf(next)[d] =
                  (IF Retained(next)[d] < next.startup[d] THEN Retained(next)[d] ELSE next.startup[d])
                  - (IF next.consumed[d] < next.startup[d] THEN next.consumed[d] ELSE next.startup[d])
      BY <2>3, DeliveryTotals DEF UsageOf, StartupUsedOf
    <3>2. next.startup[d] = e.startup[d] /\ Retained(next)[d] <= Retained(e)[d]
          /\ e.consumed[d] <= next.consumed[d]
      BY <2>3, <2>1, <3>1 DEF Covers
    <3> HIDE DEF e
    <3> QED BY <2>1, <3>1, <3>2
  <2> QED BY <2>2, <2>3
<1> HIDE DEF e
<1>8. Covers(StartupPool, startupUsed) /\ Covers(RegularPool, RegularUsed)
      /\ Covers(receiveCapacity, TotalOf(usage))
  BY <1>1 DEF PoolsRespected
<1>9. Covers(StartupPool', startupUsed')
  BY <1>4, <1>5, <1>6, <1>7, <1>8 DEF Covers, IntCounts
<1>10. Covers(RegularPool', RegularUsed')
  BY <1>4, <1>5, <1>6, <1>7, <1>8 DEF Covers, IntCounts, RegularUsed, Sub
<1>11. receiveCapacity \in Counts
  BY <1>1, InputsValid DEF TypeOK
<1>12. Covers(receiveCapacity', TotalOf(usage'))
  BY <1>6, <1>7, <1>8, <1>11, LimitsValid DEF Covers, Counts
<1> QED BY <1>1, <1>9, <1>10, <1>12 DEF PoolsRespected

-----------------------------------------------------------------------------
(* Steps on a flow the ledger retains.                                     *)

\* What `run` does before every operation is well typed.
LEMMA ExpireType ==
    ASSUME TypeOK, NEW now, Expire(now)
    PROVE  state' \in {"open", "closing", "closed"} /\ closeRequest' \in Requests \cup {None}
BY DEF TypeOK, Expire, StateAt, Expiring

\* The ledger's half of the invariant is kept by every operation that replaces a
\* retained flow by the same flow, or frees its slot, within the pools.
LEMMA FlowStep ==
    ASSUME Inv, NEW s \in Sessions, Holds(s), NEW now, Expire(now),
           NEW next \in Deliveries \cup {None}, Replace(issued[s], next, now),
           UNCHANGED <<receiveCapacity, issued>>, PoolsRespected',
           receipts' \in [Sessions -> [Ordinals -> 0 .. MaxEnvelope]], retired' \subseteq Sessions,
           next # None => /\ Ordered(next)
                          /\ next.key = EntryOf(s).key
                          /\ next.phase = "open" <=> next.deadline = None
    PROVE  (TypeOK /\ HandlesExact /\ PrefixOrder /\ UsageIsSum /\ PoolsRespected
              /\ NextExpirationExact)'
<1> DEFINE i == issued[s]
<1>1. i \in Slots /\ entries[i] # None /\ EntryOf(s) = entries[i]
      /\ entries[i].key = [slot |-> i, permit |-> s] /\ i \in Occupied(entries)
  BY DEF Inv, TypeOK, Holds, EntryOf, Occupied
<1>2. entries \in [Slots -> Deliveries \cup {None}]
      /\ entries' = [entries EXCEPT ![i] = next]
  BY DEF Inv, TypeOK, Replace
<1> HIDE DEF i
<1>3. UsageIsSum' /\ usage' \in Usages /\ startupUsed' \in IntCounts
      /\ entries' \in [Slots -> Deliveries \cup {None}]
  BY <1>1, ReplaceKeepsSums, Zenon DEF Inv, i
<1>4. NextExpirationExact' /\ nextExpiration' \in Requests \cup {None}
  BY <1>1, ReplaceKeepsAlarm, Zenon DEF Inv, i
<1>5. HandlesExact'
  BY <1>1, <1>2 DEF Inv, HandlesExact, Occupied
<1>6. PrefixOrder'
  BY <1>1, <1>2, SMTT(20) DEF Inv, PrefixOrder, Occupied
<1>7. checkpointChanged' \in BOOLEAN
  BY DEF Replace
<1>8. TypeOK'
  BY <1>3, <1>4, <1>7, ExpireType DEF Inv, TypeOK, Usages, IntCounts
<1> QED BY <1>3, <1>4, <1>5, <1>6, <1>8, SMTT(20)

\* In particular by every operation that leaves the flow with less to retain.
LEMMA ShrinkStep ==
    ASSUME Inv, NEW s \in Sessions, Holds(s), NEW now, Expire(now),
           NEW next \in Deliveries \cup {None}, Replace(issued[s], next, now),
           UNCHANGED <<receiveCapacity, issued>>,
           receipts' \in [Sessions -> [Ordinals -> 0 .. MaxEnvelope]], retired' \subseteq Sessions,
           next # None => /\ Ordered(next)
                          /\ next.key = EntryOf(s).key
                          /\ next.phase = "open" <=> next.deadline = None
                          /\ next.startup = EntryOf(s).startup
                          /\ Covers(Retained(EntryOf(s)), Retained(next))
                          /\ Covers(next.consumed, EntryOf(s).consumed)
    PROVE  (TypeOK /\ HandlesExact /\ PrefixOrder /\ UsageIsSum /\ PoolsRespected
              /\ NextExpirationExact)'
<1>1. issued[s] \in Slots /\ entries[issued[s]] # None /\ EntryOf(s) = entries[issued[s]]
      /\ Ordered(entries[issued[s]])
  BY DEF Inv, TypeOK, Holds, EntryOf, Occupied, PrefixOrder
<1>2. PoolsRespected'
  BY <1>1, ShrinkKeepsPools, Zenon DEF Inv
<1> QED BY <1>2, FlowStep

\* Replacing the flow of one session leaves the lookups of the others alone.
LEMMA OtherHandles ==
    ASSUME Inv, NEW s \in Sessions, Holds(s), NEW now,
           NEW next \in Deliveries \cup {None}, Replace(issued[s], next, now),
           issued' = issued, next # None => next.key = EntryOf(s).key
    PROVE  /\ \A t \in Sessions \ {s} :
                  /\ Holds(t)' <=> Holds(t)
                  /\ Holds(t) => EntryOf(t)' = EntryOf(t)
           /\ Holds(s)' <=> next # None
           /\ next # None => EntryOf(s)' = next
<1>1. /\ issued[s] \in Slots /\ entries \in [Slots -> Deliveries \cup {None}]
      /\ entries' = [entries EXCEPT ![issued[s]] = next]
      /\ entries[issued[s]].key = [slot |-> issued[s], permit |-> s]
      /\ issued \in [Sessions -> Slots \cup {None}] /\ issued[s] # None
  BY DEF Inv, TypeOK, Holds, Replace
<1>2. entries'[issued[s]] = next
  BY <1>1
<1>3. (Holds(s)' <=> next # None) /\ (next # None => EntryOf(s)' = next)
  BY <1>1, <1>2 DEF Holds, EntryOf
<1>4. ASSUME NEW t \in Sessions \ {s}, issued[t] = issued[s]
      PROVE  ~Holds(t) /\ ~Holds(t)'
  <2>1. [slot |-> issued[s], permit |-> s] # [slot |-> issued[t], permit |-> t]
    OBVIOUS
  <2> QED BY <1>1, <1>2, <1>4, <2>1 DEF Holds, EntryOf
<1>5. ASSUME NEW t \in Sessions \ {s}, issued[t] # issued[s], issued[t] # None
      PROVE  entries'[issued[t]] = entries[issued[t]]
  BY <1>1, <1>5
<1> QED BY <1>3, <1>4, <1>5 DEF Holds, EntryOf

\* The host's half: the queues of the other sessions stay charged.
LEMMA QueueStep ==
    ASSUME Inv, NEW s \in Sessions, Holds(s), NEW now,
           NEW next \in Deliveries \cup {None}, Replace(issued[s], next, now),
           issued' = issued, next # None => next.key = EntryOf(s).key,
           \A t \in Sessions \ {s} : receipts'[t] = receipts[t], Charged(s)'
    PROVE  QueueCharged'
<1>1. ASSUME NEW t \in Sessions \ {s} PROVE Charged(t)'
  <2>1. (Holds(t)' <=> Holds(t)) /\ (Holds(t) => EntryOf(t)' = EntryOf(t))
    BY OtherHandles, Zenon
  <2>2. receipts'[t] = receipts[t] /\ Charged(t)
    BY DEF Inv, QueueCharged
  <2> QED BY <2>1, <2>2 DEF Charged
<1> QED BY <1>1 DEF QueueCharged

\* A retained flow is a delivery of its own session, with ordered prefixes.
LEMMA HeldEntry ==
    ASSUME Inv, NEW s \in Sessions, Holds(s)
    PROVE  /\ issued[s] \in Slots /\ entries[issued[s]] = EntryOf(s)
           /\ EntryOf(s) \in Deliveries /\ EntryOf(s) # None
           /\ Ordered(EntryOf(s)) /\ Charged(s)
           /\ EntryOf(s).phase = "open" <=> EntryOf(s).deadline = None
BY DEF Inv, TypeOK, Holds, EntryOf, Occupied, PrefixOrder, QueueCharged, HandlesExact

=============================================================================
