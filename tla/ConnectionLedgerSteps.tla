------------------------ MODULE ConnectionLedgerSteps ------------------------
(***************************************************************************)
(* The operations of one flow that move a frame along or give its capacity *)
(* back keep the invariant.                                                *)
(***************************************************************************)
EXTENDS ConnectionLedgerLemmas

\* `receive` keeps the invariant: the queue gains the ordinal after the received
\* prefix and the bytes just charged.
LEMMA ReceiveKeepsInv ==
    ASSUME Inv, NEW s \in Sessions, NEW bytes \in MinEnvelope .. MaxEnvelope, NEW now \in Times,
           Receive(s, bytes, now)
    PROVE  Inv'
<1> DEFINE e == EntryOf(s)
           received == Add(e.received, Frame(bytes))
           next == [e EXCEPT !.received = received]
<1>1. Holds(s) /\ e.phase = "open"
  BY DEF Receive, Live
<1>2. e \in Deliveries /\ e # None /\ Ordered(e) /\ Charged(s) /\ e.deadline = None
  BY <1>1, HeldEntry
<1>3. Covers(Sub(e.granted, e.received), Frame(bytes))
  BY DEF Receive
<1>4. bytes \in Nat /\ bytes > 0 /\ bytes <= MaxEnvelope
  BY LimitsValid
<1>5. \A d \in Dim : /\ received[d] = e.received[d] + Frame(bytes)[d]
                     /\ e.received[d] \in 0 .. MaxCount /\ e.granted[d] \in 0 .. MaxCount
                     /\ e.submitted[d] \in 0 .. MaxCount
                     /\ Frame(bytes)[d] \in Nat /\ received[d] <= e.granted[d]
  BY <1>2, <1>3, <1>4, LimitsValid DEF Add, Sub, Covers, Deliveries, Counts, Frame
<1>6. received \in Counts
  BY <1>5, LimitsValid DEF Counts, Add
<1>7. next \in Deliveries
  BY <1>2, <1>6 DEF Deliveries
<1> HIDE DEF received
<1>8. Ordered(next)
  BY <1>2, <1>5, LimitsValid DEF Ordered, Covers, Deliveries, Counts
<1>9. received["frames"] \in Ordinals /\ received["frames"] = e.received["frames"] + 1
      /\ received["encoded_bytes"] = e.received["encoded_bytes"] + bytes
  BY <1>5, LimitsValid DEF Ordinals, Frame, Dim
<1>10. Replace(issued[s], next, now)
       /\ receipts' = [receipts EXCEPT ![s][received["frames"]] = bytes]
  BY DEF Receive, received
<1>11. receipts' \in [Sessions -> [Ordinals -> 0 .. MaxEnvelope]]
       /\ receipts \in [Sessions -> [Ordinals -> 0 .. MaxEnvelope]]
  BY <1>4, <1>9, <1>10, LimitsValid DEF Inv, TypeOK
<1>12. UNCHANGED <<receiveCapacity, issued, retired>> /\ Expire(now)
  BY DEF Receive
<1>13. Covers(Retained(e), Retained(next)) /\ Covers(next.consumed, e.consumed)
  BY <1>1, <1>2, LimitsValid DEF Retained, Covers, Deliveries, Counts
<1>14. (TypeOK /\ HandlesExact /\ PrefixOrder /\ UsageIsSum /\ PoolsRespected
              /\ NextExpirationExact)'
  <2>1. next.key = e.key /\ next.phase = "open" /\ next.deadline = None /\ next.startup = e.startup
    BY <1>1, <1>2 DEF Deliveries
  <2>2. retired' \subseteq Sessions
    BY <1>12 DEF Inv, TypeOK
  <2> HIDE DEF next
  <2> QED BY <1>1, <1>7, <1>8, <1>10, <1>11, <1>12, <1>13, <2>1, <2>2, ShrinkStep
<1>15. Charged(s)'
  <2>1. Holds(s)' /\ EntryOf(s)' = next
    <3> HIDE DEF next
    <3>1. next # None /\ next.key = e.key
      BY <1>2, <1>7, NoneIsNoRecord DEF next, Deliveries
    <3> QED BY <1>1, <1>7, <1>10, <1>12, <3>1, OtherHandles, SMTT(20)
  <2>2. \A o \in Ordinals : receipts[s][o] # 0 <=>
            (e.submitted["frames"] < o /\ o <= e.received["frames"])
    BY <1>1, <1>2 DEF Charged
  <2>3. Sum(receipts[s], MaxCount) = e.received["encoded_bytes"] - e.submitted["encoded_bytes"]
    BY <1>1, <1>2 DEF Charged, Sub, Dim
  <2> DEFINE f == receipts[s]
             g == receipts'[s]
             k == received["frames"]
  <2>4. f \in [Ordinals -> 0 .. MaxEnvelope] /\ g = [f EXCEPT ![k] = bytes]
    BY <1>10, <1>11
  <2>5. f[k] = 0
    BY <1>5, <1>9, <2>2, <2>4 DEF Dim
  <2>6. k \in 1 .. MaxCount /\ MaxCount \in Nat
    BY <1>9, LimitsValid DEF Ordinals
  <2>7. Sum(g, MaxCount) = Sum(f, MaxCount) - f[k] + g[k]
    <3>1. \A o \in 1 .. MaxCount : f[o] \in Int /\ g[o] \in Int /\ (o # k => g[o] = f[o])
      BY <1>4, <2>4, <2>6, LimitsValid DEF Ordinals
    <3> HIDE DEF f, g, k
    <3> QED BY <2>6, <3>1, SumUpdate
  <2>8. Sum(g, MaxCount) = received["encoded_bytes"] - e.submitted["encoded_bytes"]
    <3>1. g[k] = bytes
      BY <1>9, <2>4
    <3>2. e.received["encoded_bytes"] \in Int /\ e.submitted["encoded_bytes"] \in Int
      BY <1>5 DEF Dim
    <3> HIDE DEF e, f, g, k
    <3> QED BY <1>4, <1>9, <2>3, <2>5, <2>7, <3>1, <3>2 DEF f
  <2>9. ASSUME NEW o \in Ordinals
        PROVE  g[o] # 0 <=> (e.submitted["frames"] < o /\ o <= received["frames"])
    <3>1. e.submitted["frames"] \in Nat /\ e.received["frames"] \in Nat
          /\ e.submitted["frames"] <= e.received["frames"] /\ o \in Nat
      BY <1>2, <1>5, LimitsValid DEF Dim, Ordered, Covers, Ordinals
    <3>2. CASE o = k
      <4>1. g[o] = bytes
        BY <1>9, <2>4, <3>2
      <4> QED BY <1>4, <1>9, <3>1, <3>2, <4>1
    <3>3. CASE o # k
      <4>1. g[o] = f[o]
        BY <1>9, <2>4, <3>3
      <4> QED BY <1>9, <2>2, <3>1, <3>3, <4>1
    <3> QED BY <3>2, <3>3
  <2>10. next.received = received /\ next.submitted = e.submitted /\ next.phase = "open"
    BY <1>1, <1>2 DEF Deliveries
  <2> HIDE DEF next
  <2> QED BY <2>1, <2>8, <2>9, <2>10 DEF Charged, Sub, Dim
<1>16. QueueCharged'
  <2>1. \A t \in Sessions \ {s} : receipts'[t] = receipts[t]
    BY <1>10, <1>11
  <2>2. next.key = e.key
    BY <1>2 DEF Deliveries
  <2> HIDE DEF next
  <2> QED BY <1>1, <1>7, <1>10, <1>12, <1>15, <2>1, <2>2, QueueStep
<1> QED BY <1>14, <1>16 DEF Inv

\* `submit` keeps the invariant: it takes the head of the flow's queue, which
\* QueueCharged bounds by what was received and not yet submitted.
LEMMA SubmitKeepsInv ==
    ASSUME Inv, NEW s \in Sessions, NEW ordinal \in Ordinals, NEW now \in Times,
           Submit(s, ordinal, now)
    PROVE  Inv'
<1> DEFINE e == EntryOf(s)
           bytes == receipts[s][ordinal]
           submitted == Add(e.submitted, Frame(bytes))
           next == [e EXCEPT !.submitted = submitted]
<1>1. Holds(s) /\ e.phase = "open" /\ bytes # 0 /\ e.submitted["frames"] + 1 = ordinal
  BY DEF Submit, Live
<1>2. e \in Deliveries /\ e # None /\ Ordered(e) /\ Charged(s) /\ e.deadline = None
  BY <1>1, HeldEntry
<1>3. receipts \in [Sessions -> [Ordinals -> 0 .. MaxEnvelope]]
  BY DEF Inv, TypeOK
<1>4. bytes \in Nat /\ bytes > 0 /\ bytes <= MaxEnvelope
  BY <1>1, <1>3, LimitsValid
<1>5. \A o \in Ordinals : receipts[s][o] # 0 <=>
          (e.submitted["frames"] < o /\ o <= e.received["frames"])
  BY <1>1, <1>2 DEF Charged
<1>6. Sum(receipts[s], MaxCount) = e.received["encoded_bytes"] - e.submitted["encoded_bytes"]
  BY <1>1, <1>2 DEF Charged, Sub, Dim
<1>7. bytes <= Sum(receipts[s], MaxCount)
  <2>1. \A o \in 1 .. MaxCount : receipts[s][o] \in Nat
    BY <1>3, LimitsValid DEF Ordinals
  <2>2. ordinal \in 1 .. MaxCount /\ MaxCount \in Nat
    BY LimitsValid DEF Ordinals
  <2> QED BY <2>1, <2>2, SumBoundsTerms
<1>8. ordinal <= e.received["frames"]
  BY <1>1, <1>5
<1>9. \A d \in Dim : /\ e.received[d] \in 0 .. MaxCount /\ e.granted[d] \in 0 .. MaxCount
                     /\ e.submitted[d] \in 0 .. MaxCount /\ e.consumed[d] \in 0 .. MaxCount
                     /\ submitted[d] = e.submitted[d] + Frame(bytes)[d]
  BY <1>2 DEF Deliveries, Counts, Add
<1>10. submitted["frames"] = e.submitted["frames"] + 1
       /\ submitted["encoded_bytes"] = e.submitted["encoded_bytes"] + bytes
  BY <1>9 DEF Dim, Frame
<1> HIDE DEF bytes
<1>11. \A d \in Dim : submitted[d] \in Nat /\ submitted[d] <= e.received[d]
                      /\ e.submitted[d] <= submitted[d]
  <2>1. submitted["frames"] <= e.received["frames"] /\ submitted["frames"] \in Nat
        /\ e.submitted["frames"] <= submitted["frames"]
    BY <1>1, <1>8, <1>9, <1>10, LimitsValid DEF Dim
  <2>2. submitted["encoded_bytes"] <= e.received["encoded_bytes"]
        /\ submitted["encoded_bytes"] \in Nat
        /\ e.submitted["encoded_bytes"] <= submitted["encoded_bytes"]
    BY <1>4, <1>6, <1>7, <1>9, <1>10, LimitsValid DEF Dim
  <2> QED BY <2>1, <2>2 DEF Dim
<1>12. submitted \in Counts
  BY <1>9, <1>11, LimitsValid DEF Counts, Add
<1> HIDE DEF submitted
<1>13. next \in Deliveries /\ next.received = e.received /\ next.submitted = submitted
       /\ next.phase = "open" /\ next.deadline = None /\ next.key = e.key
       /\ next.startup = e.startup /\ next.granted = e.granted /\ next.consumed = e.consumed
  BY <1>1, <1>2, <1>12 DEF Deliveries
<1>14. Replace(issued[s], next, now) /\ receipts' = [receipts EXCEPT ![s][ordinal] = 0]
       /\ UNCHANGED <<receiveCapacity, issued, retired>> /\ Expire(now)
  BY DEF Submit, submitted, bytes
<1> HIDE DEF next
<1>15. Ordered(next)
  BY <1>2, <1>9, <1>11, <1>13, LimitsValid DEF Ordered, Covers
<1>16. Covers(Retained(e), Retained(next)) /\ Covers(next.consumed, e.consumed)
  BY <1>1, <1>9, <1>13, LimitsValid DEF Retained, Covers
<1>17. receipts' \in [Sessions -> [Ordinals -> 0 .. MaxEnvelope]] /\ retired' \subseteq Sessions
  BY <1>3, <1>14, LimitsValid DEF Inv, TypeOK
<1>18. (TypeOK /\ HandlesExact /\ PrefixOrder /\ UsageIsSum /\ PoolsRespected
              /\ NextExpirationExact)'
  BY <1>1, <1>13, <1>14, <1>15, <1>16, <1>17, ShrinkStep
<1>19. Charged(s)'
  <2>1. next # None
    BY <1>13, NoneIsNoRecord
  <2>2. Holds(s)' /\ EntryOf(s)' = next
    BY <1>1, <1>13, <1>14, <2>1, OtherHandles
  <2> DEFINE f == receipts[s]
             g == receipts'[s]
  <2>3. f \in [Ordinals -> 0 .. MaxEnvelope] /\ g = [f EXCEPT ![ordinal] = 0]
    BY <1>3, <1>14
  <2>4. f[ordinal] = bytes /\ g[ordinal] = 0
    BY <2>3 DEF bytes
  <2>5. Sum(g, MaxCount) = Sum(f, MaxCount) - f[ordinal] + g[ordinal]
    <3>1. /\ \A o \in 1 .. MaxCount : f[o] \in Int
          /\ \A o \in 1 .. MaxCount : g[o] \in Int
          /\ \A o \in 1 .. MaxCount : o # ordinal => g[o] = f[o]
      BY <2>3, LimitsValid DEF Ordinals
    <3>2. ordinal \in 1 .. MaxCount /\ MaxCount \in Nat
      BY LimitsValid DEF Ordinals
    <3> HIDE DEF f, g
    <3> QED BY ONLY <3>1, <3>2, SumUpdate
  <2>6. Sum(g, MaxCount) = e.received["encoded_bytes"] - submitted["encoded_bytes"]
    <3>1. e.received["encoded_bytes"] \in Int /\ e.submitted["encoded_bytes"] \in Int
      BY <1>9 DEF Dim
    <3> HIDE DEF e, g
    <3> QED BY <1>4, <1>6, <1>10, <2>4, <2>5, <3>1
  <2>7. ASSUME NEW o \in Ordinals
        PROVE  g[o] # 0 <=> (submitted["frames"] < o /\ o <= e.received["frames"])
    <3>1. e.submitted["frames"] \in Nat /\ e.received["frames"] \in Nat /\ o \in Nat
      BY <1>9, LimitsValid DEF Dim, Ordinals
    <3>2. CASE o = ordinal
      BY <1>1, <1>10, <2>4, <3>1, <3>2
    <3>3. CASE o # ordinal
      <4>1. g[o] = f[o]
        BY <2>3, <3>3
      <4> QED BY <1>1, <1>5, <1>10, <3>1, <3>3, <4>1
    <3> QED BY <3>2, <3>3
  <2> QED BY <1>13, <2>2, <2>6, <2>7 DEF Charged, Sub, Dim
<1>20. \A t \in Sessions \ {s} : receipts'[t] = receipts[t]
  BY <1>3, <1>14
<1>21. QueueCharged'
  BY <1>1, <1>13, <1>14, <1>19, <1>20, QueueStep
<1> QED BY <1>18, <1>21 DEF Inv

\* An operation that only expires keeps the invariant.
LEMMA KeepKeepsInv ==
    ASSUME Inv, NEW now, Expire(now), Keep(now), retired' \subseteq Sessions,
           UNCHANGED <<receiveCapacity, issued, receipts>>
    PROVE  Inv'
<1>1. TypeOK'
  <2>1. checkpointChanged' \in BOOLEAN
    BY DEF Keep
  <2> QED BY <2>1, ExpireType DEF Inv, TypeOK, Keep
<1>2. HandlesExact' /\ PrefixOrder' /\ UsageIsSum' /\ NextExpirationExact'
  BY DEF Inv, Keep, HandlesExact, PrefixOrder, UsageIsSum, NextExpirationExact, Occupied
<1>3. PoolsRespected'
  BY DEF Inv, Keep, PoolsRespected, Occupied, StartupPool, RegularPool, EffectiveTotal, RegularUsed
<1>4. QueueCharged'
  BY DEF Inv, Keep, QueueCharged, Charged, Holds, EntryOf
<1> QED BY <1>1, <1>2, <1>3, <1>4 DEF Inv

\* `retire` keeps the invariant: revoking unused credit only shrinks the flow.
LEMMA RetireKeepsInv ==
    ASSUME Inv, NEW s \in Sessions, NEW now \in Times, Retire(s, now)
    PROVE  Inv'
<1>1. Expire(now) /\ retired' \subseteq Sessions /\ UNCHANGED <<receiveCapacity, issued, receipts>>
  BY DEF Retire, Inv, TypeOK
<1>2. CASE Holds(s) /\ EntryOf(s).phase = "open"
  <2> DEFINE e == EntryOf(s)
             due == SaturatingAdd(now, SettlementTimeout)
             next == [e EXCEPT !.phase = "discarding", !.deadline = due]
  <2>1. Replace(issued[s], next, now)
    BY <1>2 DEF Retire
  <2>2. e \in Deliveries /\ Ordered(e) /\ Charged(s)
    BY <1>2, HeldEntry
  <2>3. due \in Times /\ due # None
    BY LimitsValid, InputsValid DEF SaturatingAdd, Times
  <2> HIDE DEF due
  <2>4. next \in Deliveries /\ next.received = e.received /\ next.submitted = e.submitted
        /\ next.phase = "discarding" /\ next.deadline # None /\ next.key = e.key
        /\ next.startup = e.startup /\ next.granted = e.granted /\ next.consumed = e.consumed
    BY <2>2, <2>3, Zenon DEF Deliveries
  <2> HIDE DEF next
  <2>5. Ordered(next)
    BY <2>2, <2>4 DEF Ordered
  <2>6. Covers(Retained(e), Retained(next)) /\ Covers(next.consumed, e.consumed)
    BY <1>2, <2>2, <2>4, LimitsValid DEF Retained, Covers, Ordered, Deliveries, Counts
  <2>7. receipts' \in [Sessions -> [Ordinals -> 0 .. MaxEnvelope]]
    BY <1>1 DEF Inv, TypeOK
  <2>8. (TypeOK /\ HandlesExact /\ PrefixOrder /\ UsageIsSum /\ PoolsRespected
              /\ NextExpirationExact)'
    BY <1>1, <1>2, <2>1, <2>4, <2>5, <2>6, <2>7, ShrinkStep
  <2>9. Charged(s)'
    <3>1. next # None
      BY <2>4, NoneIsNoRecord
    <3>2. Holds(s)' /\ EntryOf(s)' = next
      BY <1>1, <1>2, <2>1, <2>4, <3>1, OtherHandles
    <3> QED BY <1>1, <1>2, <2>2, <2>4, <3>2 DEF Charged
  <2>10. QueueCharged'
    BY <1>1, <1>2, <2>1, <2>4, <2>9, QueueStep
  <2> QED BY <2>8, <2>10 DEF Inv
<1>3. CASE ~(Holds(s) /\ EntryOf(s).phase = "open")
  <2>1. Keep(now)
    BY <1>3 DEF Retire
  <2> QED BY <1>1, <2>1, KeepKeepsInv
<1> QED BY <1>2, <1>3

\* Freeing the slot of a flow whose queue is gone keeps the invariant.
LEMMA FreeKeepsInv ==
    ASSUME Inv, NEW s \in Sessions, Holds(s), NEW now, Expire(now),
           Replace(issued[s], None, now), UNCHANGED <<receiveCapacity, issued, retired>>,
           receipts' \in [Sessions -> [Ordinals -> 0 .. MaxEnvelope]],
           receipts'[s] = NoReceipts, \A t \in Sessions \ {s} : receipts'[t] = receipts[t]
    PROVE  Inv'
<1>1. retired' \subseteq Sessions
  BY DEF Inv, TypeOK
<1>2. (TypeOK /\ HandlesExact /\ PrefixOrder /\ UsageIsSum /\ PoolsRespected
              /\ NextExpirationExact)'
  BY <1>1, ShrinkStep
<1>3. ~Holds(s)'
  BY OtherHandles, Zenon
<1>4. Charged(s)'
  BY <1>3 DEF Charged
<1>5. QueueCharged'
  BY <1>4, QueueStep, Zenon
<1> QED BY <1>2, <1>5 DEF Inv

\* `discarded` keeps the invariant: the host dropped the queue, so the charge for
\* it goes and the flow settles, or its slot is free.
LEMMA DiscardedKeepsInv ==
    ASSUME Inv, NEW s \in Sessions, NEW now \in Times, Discarded(s, now)
    PROVE  Inv'
<1>1. Expire(now) /\ UNCHANGED <<receiveCapacity, issued, retired>>
      /\ receipts' = [receipts EXCEPT ![s] = NoReceipts]
  BY DEF Discarded
<1>2. receipts \in [Sessions -> [Ordinals -> 0 .. MaxEnvelope]] /\ retired' \subseteq Sessions
  BY <1>1 DEF Inv, TypeOK
<1>3. receipts' \in [Sessions -> [Ordinals -> 0 .. MaxEnvelope]] /\ receipts'[s] = NoReceipts
      /\ \A t \in Sessions \ {s} : receipts'[t] = receipts[t]
  BY <1>1, <1>2, LimitsValid DEF NoReceipts
<1>4. CASE ~Holds(s)
  <2>1. receipts[s] = NoReceipts
    BY <1>4 DEF Inv, QueueCharged, Charged
  <2>2. receipts' = receipts
    BY <1>1, <1>2, <2>1
  <2>3. Keep(now)
    BY <1>4 DEF Discarded
  <2> QED BY <1>1, <1>2, <2>2, <2>3, KeepKeepsInv
<1>5. CASE Holds(s) /\ EntryOf(s).submitted = EntryOf(s).consumed
  <2>1. Replace(issued[s], None, now)
    BY <1>5 DEF Discarded
  <2> QED BY <1>1, <1>3, <1>5, <2>1, FreeKeepsInv
<1>6. CASE Holds(s) /\ EntryOf(s).submitted # EntryOf(s).consumed
  <2> DEFINE e == EntryOf(s)
             next == [e EXCEPT !.phase = "settling"]
  <2>1. Replace(issued[s], next, now) /\ e.phase # "open"
    BY <1>6 DEF Discarded
  <2>2. e \in Deliveries /\ Ordered(e) /\ e.deadline # None
    BY <1>6, <2>1, HeldEntry
  <2>3. next \in Deliveries /\ next.received = e.received /\ next.submitted = e.submitted
        /\ next.phase = "settling" /\ next.deadline = e.deadline /\ next.key = e.key
        /\ next.startup = e.startup /\ next.granted = e.granted /\ next.consumed = e.consumed
    BY <2>2 DEF Deliveries
  <2> HIDE DEF next
  <2>4. Ordered(next)
    BY <2>2, <2>3 DEF Ordered
  <2>5. Covers(Retained(e), Retained(next)) /\ Covers(next.consumed, e.consumed)
    BY <2>1, <2>2, <2>3, LimitsValid, SMTT(20) DEF Retained, Covers, Ordered, Deliveries, Counts
  <2>6. (TypeOK /\ HandlesExact /\ PrefixOrder /\ UsageIsSum /\ PoolsRespected
              /\ NextExpirationExact)'
    BY <1>1, <1>2, <1>3, <1>6, <2>1, <2>2, <2>3, <2>4, <2>5, ShrinkStep
  <2>7. Charged(s)'
    <3>1. next # None
      BY <2>3, NoneIsNoRecord
    <3>2. EntryOf(s)' = next
      BY <1>1, <1>6, <2>1, <2>3, <3>1, OtherHandles
    <3> QED BY <1>3, <2>3, <3>2 DEF Charged
  <2>8. QueueCharged'
    BY <1>1, <1>3, <1>6, <2>1, <2>3, <2>7, QueueStep
  <2> QED BY <2>6, <2>8 DEF Inv
<1> QED BY <1>4, <1>5, <1>6

\* `consume` keeps the invariant: a larger consumed prefix only releases.
LEMMA ConsumeKeepsInv ==
    ASSUME Inv, NEW s \in Sessions, NEW total \in Counts, NEW now \in Times,
           Consume(s, total, now)
    PROVE  Inv'
<1> DEFINE e == EntryOf(s)
           next == [e EXCEPT !.consumed = total]
<1>1. Expire(now) /\ UNCHANGED <<receiveCapacity, issued, receipts, retired>> /\ Holds(s)
      /\ Covers(total, e.consumed) /\ Covers(e.submitted, total)
  BY DEF Consume
<1>2. e \in Deliveries /\ Ordered(e) /\ Charged(s)
      /\ (e.phase = "open" <=> e.deadline = None)
  BY <1>1, HeldEntry
<1>3. receipts' \in [Sessions -> [Ordinals -> 0 .. MaxEnvelope]] /\ retired' \subseteq Sessions
  BY <1>1 DEF Inv, TypeOK
<1>4. CASE e.phase = "settling" /\ total = e.submitted
  <2>1. Replace(issued[s], None, now)
    BY <1>4 DEF Consume
  <2>2. receipts'[s] = NoReceipts
    BY <1>1, <1>2, <1>4 DEF Charged
  <2> QED BY <1>1, <1>3, <2>1, <2>2, FreeKeepsInv
<1>5. CASE ~(e.phase = "settling" /\ total = e.submitted)
  <2>1. Replace(issued[s], next, now)
    BY <1>5 DEF Consume
  <2>2. next \in Deliveries /\ next.received = e.received /\ next.submitted = e.submitted
        /\ next.phase = e.phase /\ next.deadline = e.deadline /\ next.key = e.key
        /\ next.startup = e.startup /\ next.granted = e.granted /\ next.consumed = total
    BY <1>2 DEF Deliveries
  <2> HIDE DEF next
  <2>3. Ordered(next)
    BY <1>1, <1>2, <2>2, SMTT(20) DEF Ordered
  <2>4. Covers(Retained(e), Retained(next)) /\ Covers(next.consumed, e.consumed)
    BY <1>1, <1>2, <2>2, LimitsValid, SMTT(30) DEF Retained, Covers, Deliveries, Counts
  <2>5. (TypeOK /\ HandlesExact /\ PrefixOrder /\ UsageIsSum /\ PoolsRespected
              /\ NextExpirationExact)'
    BY <1>1, <1>2, <1>3, <2>1, <2>2, <2>3, <2>4, ShrinkStep
  <2>6. Charged(s)'
    <3>1. next # None
      BY <2>2, NoneIsNoRecord
    <3>2. Holds(s)' /\ EntryOf(s)' = next
      BY <1>1, <2>1, <2>2, <3>1, OtherHandles
    <3> QED BY <1>1, <1>2, <2>2, <3>2 DEF Charged
  <2>7. QueueCharged'
    BY <1>1, <2>1, <2>2, <2>6, QueueStep
  <2> QED BY <2>5, <2>7 DEF Inv
<1> QED BY <1>4, <1>5

\* `settle` keeps the invariant.
LEMMA SettleKeepsInv ==
    ASSUME Inv, NEW s \in Sessions, NEW total, NEW now \in Times, Settle(s, total, now)
    PROVE  Inv'
<1>1. Expire(now) /\ UNCHANGED <<receiveCapacity, issued, receipts, retired>> /\ Holds(s)
      /\ EntryOf(s).phase = "settling" /\ Replace(issued[s], None, now)
  BY DEF Settle
<1>2. receipts'[s] = NoReceipts
  BY <1>1 DEF Inv, QueueCharged, Charged
<1>3. receipts' \in [Sessions -> [Ordinals -> 0 .. MaxEnvelope]]
  BY <1>1 DEF Inv, TypeOK
<1> QED BY <1>1, <1>2, <1>3, FreeKeepsInv

=============================================================================
