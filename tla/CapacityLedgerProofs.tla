------------------------- MODULE CapacityLedgerProofs -------------------------
(***************************************************************************)
(* Proofs about CapacityLedger, for any tree of ledgers, any limits and    *)
(* any number of holds.                                                    *)
(***************************************************************************)
EXTENDS CapacityLedger, SumsTheorems, TLAPS

\* Only created ledgers are walked and charged.
Created == {l \in Ledgers : account[l].walk # {}}

WalksCreated ==
    /\ \A l \in Ledgers : account[l].walk \subseteq Created
    /\ \A h \in Holds : hold[h].walk \subseteq Created

\* A hold that was never issued charges nothing and has no copies, and no copy
\* is ahead of its hold.
CopiesTrail ==
    /\ \A h \in Holds : hold[h].walk = {} => hold[h].units = 0 /\ hold[h].generation = 0
    /\ \A c \in copies : /\ hold[c.hold].walk # {}
                         /\ c.generation =< hold[c.hold].generation

\* The inductive invariant.
IInv == TypeOK /\ ChargedExactly /\ WithinLimits /\ LiveIsOwned /\ WalksCreated /\ CopiesTrail

-----------------------------------------------------------------------------


\* The terms of the sums are naturals.
LEMMA TermTypes ==
    ASSUME NEW s \in HoldStates, NEW l
    PROVE  UnitsOf(s, l) \in Nat /\ CountOf(s, l) \in Nat
BY DEF UnitsOf, CountOf, HoldStates

\* SumUpdate, for sums over the holds.
LEMMA HoldSum ==
    ASSUME NEW f, NEW g, NEW h \in Holds,
           \A i \in Holds : f[i] \in Int, \A i \in Holds : g[i] \in Int,
           \A i \in Holds : i # h => g[i] = f[i]
    PROVE  Sum(g, MaxHolds) = Sum(f, MaxHolds) - f[h] + g[h]
<1>1. MaxHolds \in Nat
  BY SizesAssumption
<1> QED
  BY <1>1, SumUpdate DEF Holds

\* Replacing one hold changes the sums by the difference of its terms.
LEMMA OneTerm ==
    ASSUME NEW s \in [Holds -> HoldStates], NEW t \in [Holds -> HoldStates],
           NEW l, NEW h \in Holds, \A i \in Holds : i # h => t[i] = s[i]
    PROVE  /\ UnitsOn(t, l) = UnitsOn(s, l) - UnitsOf(s[h], l) + UnitsOf(t[h], l)
           /\ HoldsOn(t, l) = HoldsOn(s, l) - CountOf(s[h], l) + CountOf(t[h], l)
<1>1. UnitsOn(t, l) = UnitsOn(s, l) - UnitsOf(s[h], l) + UnitsOf(t[h], l)
  <2> DEFINE f == [i \in Holds |-> UnitsOf(s[i], l)]
             g == [i \in Holds |-> UnitsOf(t[i], l)]
  <2>1. \A i \in Holds : f[i] \in Int /\ g[i] \in Int /\ (i # h => g[i] = f[i])
    BY TermTypes
  <2>2. Sum(g, MaxHolds) = Sum(f, MaxHolds) - f[h] + g[h]
    <3> HIDE DEF f, g
    <3> QED BY <2>1, HoldSum, Zenon
  <2> QED BY <2>2 DEF UnitsOn
<1>2. HoldsOn(t, l) = HoldsOn(s, l) - CountOf(s[h], l) + CountOf(t[h], l)
  <2> DEFINE f == [i \in Holds |-> CountOf(s[i], l)]
             g == [i \in Holds |-> CountOf(t[i], l)]
  <2>1. \A i \in Holds : f[i] \in Int /\ g[i] \in Int /\ (i # h => g[i] = f[i])
    BY TermTypes
  <2>2. Sum(g, MaxHolds) = Sum(f, MaxHolds) - f[h] + g[h]
    <3> HIDE DEF f, g
    <3> QED BY <2>1, HoldSum, Zenon
  <2> QED BY <2>2 DEF HoldsOn
<1> QED BY <1>1, <1>2

\* A sum is a natural.
LEMMA SumsNat ==
    ASSUME NEW s \in [Holds -> HoldStates], NEW l
    PROVE  UnitsOn(s, l) \in Nat /\ HoldsOn(s, l) \in Nat
<1>0. MaxHolds \in Nat
  BY SizesAssumption
<1> DEFINE f == [i \in Holds |-> UnitsOf(s[i], l)]
           g == [i \in Holds |-> CountOf(s[i], l)]
<1>1. \A i \in 1 .. MaxHolds : f[i] \in Nat /\ g[i] \in Nat
  BY TermTypes DEF Holds
<1>2. Sum(f, MaxHolds) \in Nat /\ Sum(g, MaxHolds) \in Nat
  <2> HIDE DEF f, g
  <2> QED BY <1>0, <1>1, SumBoundsTerms
<1> QED BY <1>2 DEF UnitsOn, HoldsOn

\* Nothing is charged to a ledger that no hold walks.
LEMMA SumsEmpty ==
    ASSUME NEW s \in [Holds -> HoldStates], NEW l, \A h \in Holds : l \notin s[h].walk
    PROVE  UnitsOn(s, l) = 0 /\ HoldsOn(s, l) = 0
<1>0. MaxHolds \in Nat
  BY SizesAssumption
<1> DEFINE f == [i \in Holds |-> UnitsOf(s[i], l)]
           g == [i \in Holds |-> CountOf(s[i], l)]
<1>1. \A i \in 1 .. MaxHolds : f[i] = 0 /\ g[i] = 0
  BY DEF UnitsOf, CountOf, Holds
<1>2. Sum(f, MaxHolds) = 0 /\ Sum(g, MaxHolds) = 0
  <2> HIDE DEF f, g
  <2> QED BY <1>0, <1>1, SumZero
<1> QED BY <1>2 DEF UnitsOn, HoldsOn

\* An account is the sum it is charged with after any change of the holds that
\* moves every walked account by the same difference.
LEMMA ChargedStays ==
    ASSUME TypeOK, ChargedExactly, NEW t \in [Holds -> HoldStates], NEW walk,
           NEW units \in Int, NEW count \in Int,
           hold' = t, account' = Charged(walk, units, count),
           \A l \in Ledgers :
              /\ UnitsOn(t, l) = UnitsOn(hold, l) + (IF l \in walk THEN units ELSE 0)
              /\ HoldsOn(t, l) = HoldsOn(hold, l) + (IF l \in walk THEN count ELSE 0)
    PROVE  /\ ChargedExactly'
           /\ account' \in [Ledgers -> Accounts]
<1>1. ASSUME NEW l \in Ledgers
      PROVE  /\ account'[l].used = UnitsOn(t, l)
             /\ account'[l].holds = HoldsOn(t, l)
             /\ account'[l] = [account[l] EXCEPT !.used = account'[l].used,
                                                 !.holds = account'[l].holds]
  <2>1. account[l] \in Accounts
    BY DEF TypeOK
  <2>2. /\ account[l].used = UnitsOn(hold, l)
        /\ account[l].holds = HoldsOn(hold, l)
    BY DEF ChargedExactly
  <2>3. CASE l \in walk
    <3>1. account'[l] = [account[l] EXCEPT !.used = @ + units, !.holds = @ + count]
      BY <2>3, Zenon DEF Charged
    <3>2. /\ account'[l].used = account[l].used + units
          /\ account'[l].holds = account[l].holds + count
      BY <2>1, <3>1 DEF Accounts
    <3>3. account'[l] = [account[l] EXCEPT !.used = account'[l].used,
                                           !.holds = account'[l].holds]
      BY <2>1, <3>1, <3>2 DEF Accounts
    <3> QED
      BY <2>2, <2>3, <3>2, <3>3
  <2>4. CASE l \notin walk
    <3>1. account'[l] = account[l]
      BY <2>4, Zenon DEF Charged
    <3>2. /\ UnitsOn(t, l) = UnitsOn(hold, l)
          /\ HoldsOn(t, l) = HoldsOn(hold, l)
      BY <2>1, <2>2, <2>4 DEF Accounts
    <3>3. account[l] = [account[l] EXCEPT !.used = account[l].used, !.holds = account[l].holds]
      BY <2>1, Zenon DEF Accounts
    <3> QED
      BY <2>2, <3>1, <3>2, <3>3, Zenon
  <2> QED
    BY <2>3, <2>4
<1>2. ASSUME NEW l \in Ledgers
      PROVE  UnitsOn(t, l) \in Nat /\ HoldsOn(t, l) \in Nat
  BY SumsNat
<1>3. account' \in [Ledgers -> Accounts]
  <2>1. account' = [l \in Ledgers |-> account'[l]]
    BY Zenon DEF Charged
  <2>2. ASSUME NEW l \in Ledgers PROVE account'[l] \in Accounts
    BY <1>1, <1>2, Zenon DEF TypeOK, Accounts
  <2> QED
    BY <2>1, <2>2
<1> QED
  BY <1>1, <1>3, Zenon DEF ChargedExactly

\* Hold h becomes n, and every account of the walk is charged the difference.
Exchange(h, n, walk, units, count) ==
    /\ hold' = [hold EXCEPT ![h] = n]
    /\ account' = Charged(walk, units, count)
    /\ \A l \in Ledgers :
          /\ UnitsOf(n, l) = UnitsOf(hold[h], l) + (IF l \in walk THEN units ELSE 0)
          /\ CountOf(n, l) = CountOf(hold[h], l) + (IF l \in walk THEN count ELSE 0)

\* The same, when only hold h changes.
LEMMA OneCharged ==
    ASSUME TypeOK, ChargedExactly, NEW h \in Holds, NEW n \in HoldStates, NEW walk,
           NEW units \in Int, NEW count \in Int,
           Exchange(h, n, walk, units, count)
    PROVE  /\ ChargedExactly'
           /\ account' \in [Ledgers -> Accounts]
           /\ hold' \in [Holds -> HoldStates]
<1>0. /\ hold' = [hold EXCEPT ![h] = n]
      /\ account' = Charged(walk, units, count)
      /\ \A l \in Ledgers :
            /\ UnitsOf(n, l) = UnitsOf(hold[h], l) + (IF l \in walk THEN units ELSE 0)
            /\ CountOf(n, l) = CountOf(hold[h], l) + (IF l \in walk THEN count ELSE 0)
  BY DEF Exchange
<1> DEFINE t == [hold EXCEPT ![h] = n]
<1>1. /\ hold \in [Holds -> HoldStates]
      /\ t \in [Holds -> HoldStates]
      /\ t[h] = n
      /\ \A i \in Holds : i # h => t[i] = hold[i]
  BY DEF TypeOK
<1>2. ASSUME NEW l \in Ledgers
      PROVE  /\ UnitsOn(t, l) = UnitsOn(hold, l) + (IF l \in walk THEN units ELSE 0)
             /\ HoldsOn(t, l) = HoldsOn(hold, l) + (IF l \in walk THEN count ELSE 0)
  <2> HIDE DEF t
  <2>1. /\ UnitsOn(t, l) = UnitsOn(hold, l) - UnitsOf(hold[h], l) + UnitsOf(t[h], l)
        /\ HoldsOn(t, l) = HoldsOn(hold, l) - CountOf(hold[h], l) + CountOf(t[h], l)
    BY <1>1, OneTerm, Zenon
  <2>2. /\ UnitsOn(hold, l) \in Nat /\ HoldsOn(hold, l) \in Nat
        /\ UnitsOf(hold[h], l) \in Nat /\ CountOf(hold[h], l) \in Nat
    BY <1>1, SumsNat, TermTypes
  <2> QED
    BY <1>0, <1>1, <2>1, <2>2
<1>3. hold' = t
  BY <1>0
<1> HIDE DEF t
<1>4. /\ ChargedExactly'
      /\ account' \in [Ledgers -> Accounts]
  BY <1>0, <1>1, <1>2, <1>3, ChargedStays
<1> QED
  BY <1>1, <1>3, <1>4

\* Charging changes neither the tree, nor the limits, nor what is closed.
LEMMA ChargedKeeps ==
    ASSUME TypeOK, NEW walk, NEW units, NEW count, account' = Charged(walk, units, count),
           NEW l \in Ledgers
    PROVE  /\ account'[l].walk = account[l].walk
           /\ account'[l].limit = account[l].limit
           /\ account'[l].closed = account[l].closed
           /\ account'[l].used = IF l \in walk THEN account[l].used + units ELSE account[l].used
BY ZenonT(30) DEF TypeOK, Charged, Accounts

\* Charges that are available, and refunds, stay within the limits.
LEMMA WithinStays ==
    ASSUME TypeOK, WithinLimits, NEW walk, NEW units \in Int, NEW count,
           account' = Charged(walk, units, count),
           units =< 0 \/ Available(walk, units)
    PROVE  WithinLimits'
<1> SUFFICES ASSUME NEW l \in Ledgers
             PROVE  /\ account'[l].used =< account'[l].limit
                    /\ \A p \in account'[l].walk : account'[l].limit =< account'[p].limit
  BY DEF WithinLimits
<1>1. account[l] \in Accounts
  BY DEF TypeOK
<1>2. account[l].used =< account[l].limit
  BY DEF WithinLimits
<1>3. account'[l].used =< account'[l].limit
  <2>1. CASE l \in walk
    BY <1>1, <1>2, <2>1, ChargedKeeps DEF Available, Free, Accounts
  <2>2. CASE l \notin walk
    BY <1>1, <1>2, <2>2, ChargedKeeps
  <2> QED
    BY <2>1, <2>2
<1>4. ASSUME NEW p \in account'[l].walk
      PROVE  account'[l].limit =< account'[p].limit
  <2>1. p \in account[l].walk /\ p \in Ledgers
    BY <1>1, ChargedKeeps DEF Accounts
  <2> QED
    BY <2>1, ChargedKeeps DEF WithinLimits
<1> QED
  BY <1>3, <1>4

\* Charging keeps the walks within the created ledgers.
LEMMA WalksStay ==
    ASSUME TypeOK, WalksCreated, NEW walk, NEW units, NEW count,
           account' = Charged(walk, units, count),
           \A h \in Holds : hold'[h].walk \subseteq Created
    PROVE  WalksCreated'
<1>1. \A l \in Ledgers : account'[l].walk = account[l].walk
  BY ChargedKeeps
<1>2. Created' = Created
  BY <1>1 DEF Created
<1> QED
  BY <1>1, <1>2 DEF WalksCreated

\* The changed hold n has a current copy and never falls back a generation.
Reissue(h, n) ==
    /\ n.walk # {} /\ n.walk \subseteq Created
    /\ hold[h].generation =< n.generation
    /\ copies' = copies \/ copies' = copies \cup {Copy(h, n.generation)}
    /\ n.units # 0 => Copy(h, n.generation) \in copies'

\* A step that changes one hold, charges the difference and hands out a copy.
LEMMA OneHoldStep ==
    ASSUME IInv, NEW h \in Holds, NEW n \in HoldStates, NEW walk,
           NEW units \in Int, NEW count \in Int,
           Exchange(h, n, walk, units, count),
           units =< 0 \/ Available(walk, units), Reissue(h, n)
    PROVE  IInv'
<1>0. /\ TypeOK /\ ChargedExactly /\ WithinLimits /\ LiveIsOwned
      /\ WalksCreated /\ CopiesTrail
  BY DEF IInv
<1>1. /\ ChargedExactly'
      /\ account' \in [Ledgers -> Accounts]
      /\ hold' \in [Holds -> HoldStates]
  BY <1>0, OneCharged
<1>a. /\ hold' = [hold EXCEPT ![h] = n]
      /\ account' = Charged(walk, units, count)
  BY DEF Exchange
<1>b. /\ n.walk # {} /\ n.walk \subseteq Created /\ hold[h].generation =< n.generation
      /\ copies' = copies \/ copies' = copies \cup {Copy(h, n.generation)}
      /\ n.units # 0 => Copy(h, n.generation) \in copies'
  BY DEF Reissue
<1>2. /\ hold'[h] = n
      /\ \A i \in Holds : i # h => hold'[i] = hold[i]
  BY <1>0, <1>a DEF TypeOK
<1>3. copies' \subseteq Copies
  BY <1>0, <1>b DEF TypeOK, Copies, Copy, HoldStates
<1>4. TypeOK'
  BY <1>1, <1>3 DEF TypeOK
<1>5. WithinLimits'
  BY <1>0, <1>a, WithinStays
<1>6. LiveIsOwned'
  <2> SUFFICES ASSUME NEW i \in Holds, hold'[i].units # 0
               PROVE  Copy(i, hold'[i].generation) \in copies'
    BY DEF LiveIsOwned
  <2>1. CASE i = h
    BY <1>2, <1>b, <2>1
  <2>2. CASE i # h
    BY <1>0, <1>b, <1>2, <2>2 DEF LiveIsOwned
  <2> QED
    BY <2>1, <2>2
<1>7. WalksCreated'
  <2>1. \A i \in Holds : hold'[i].walk \subseteq Created
    BY <1>0, <1>b, <1>2 DEF WalksCreated
  <2> QED
    BY <1>0, <1>a, <2>1, WalksStay
<1>8. CopiesTrail'
  <2>1. \A i \in Holds : hold'[i].walk = {} => hold'[i].units = 0 /\ hold'[i].generation = 0
    BY <1>0, <1>b, <1>2 DEF CopiesTrail
  <2>2. ASSUME NEW c \in copies'
        PROVE  hold'[c.hold].walk # {} /\ c.generation =< hold'[c.hold].generation
    <3>1. c \in Copies
      BY <1>3
    <3>2. CASE c.hold = h
      <4>1. CASE c \in copies
        <5>1. c.generation =< hold[h].generation
          BY <1>0, <3>2, <4>1 DEF CopiesTrail
        <5>2. /\ c.generation \in Int /\ hold[h].generation \in Int
              /\ n.generation \in Int
          BY <1>0, <3>1 DEF Copies, Generations, HoldStates, TypeOK
        <5> QED
          BY <1>2, <1>b, <3>2, <5>1, <5>2
      <4>2. CASE c = Copy(h, n.generation)
        BY <1>2, <1>b, <4>2 DEF Copy, HoldStates, Generations
      <4> QED
        BY <1>b, <4>1, <4>2
    <3>3. CASE c.hold # h
      <4>1. c \in copies
        BY <1>b, <3>3 DEF Copy
      <4>2. c.hold \in Holds
        BY <3>1 DEF Copies
      <4> QED
        BY <1>0, <1>2, <3>3, <4>1, <4>2 DEF CopiesTrail
    <3> QED
      BY <3>2, <3>3
  <2> QED
    BY <2>1, <2>2 DEF CopiesTrail
<1> QED
  BY <1>1, <1>4, <1>5, <1>6, <1>7, <1>8 DEF IInv

LEMMA ReserveStep ==
    ASSUME IInv, NEW l \in Ledgers, NEW units \in Units, NEW h \in Holds, Reserve(l, units, h)
    PROVE  IInv'
<1> DEFINE w == account[l].walk
           n == [walk |-> w, units |-> units, generation |-> 0]
<1>0. units \in Int /\ units \in Nat /\ units # 0 /\ 0 \in Generations
  BY SizesAssumption DEF Generations, Reserve
<1>1. w \subseteq Created /\ w \subseteq Ledgers /\ w # {}
  BY DEF IInv, WalksCreated, Created, Reserve
<1>2. n \in HoldStates
  BY <1>0, <1>1 DEF HoldStates
<1>3. hold[h].walk = {} /\ hold[h].units = 0 /\ hold[h].generation = 0
  BY DEF Reserve, IInv, CopiesTrail
<1>4. \A k \in Ledgers :
         /\ UnitsOf(n, k) = UnitsOf(hold[h], k) + (IF k \in w THEN units ELSE 0)
         /\ CountOf(n, k) = CountOf(hold[h], k) + (IF k \in w THEN 1 ELSE 0)
  BY <1>0, <1>3 DEF UnitsOf, CountOf
<1>5. /\ hold' = [hold EXCEPT ![h] = n]
      /\ account' = Charged(w, units, 1)
      /\ units =< 0 \/ Available(w, units)
      /\ copies' = copies \cup {Copy(h, n.generation)}
      /\ n.units # 0 => Copy(h, n.generation) \in copies'
  BY DEF Reserve
<1>6. n.walk # {} /\ n.walk \subseteq Created /\ hold[h].generation =< n.generation
  BY <1>1, <1>3
<1>7. Exchange(h, n, w, units, 1) /\ Reissue(h, n)
  BY <1>4, <1>5, <1>6 DEF Exchange, Reissue
<1> HIDE DEF n, w
<1> QED
  BY <1>0, <1>2, <1>5, <1>7, OneHoldStep

\* What is known of a live copy.
LEMMA ActiveCopy ==
    ASSUME IInv, NEW c \in copies, Active(c)
    PROVE  /\ c.hold \in Holds
           /\ c.generation = hold[c.hold].generation
           /\ hold[c.hold] \in HoldStates
           /\ hold[c.hold].units \in Nat \ {0}
           /\ hold[c.hold].walk # {}
           /\ hold[c.hold].walk \subseteq Created
           /\ hold[c.hold].generation \in Generations
           /\ Copy(c.hold, hold[c.hold].generation) \in copies
<1>1. c \in Copies
  BY DEF IInv, TypeOK
<1>2. c.hold \in Holds
  BY <1>1 DEF Copies
<1>3. hold[c.hold] \in HoldStates
  BY <1>2 DEF IInv, TypeOK
<1>4. c.generation = hold[c.hold].generation /\ hold[c.hold].units # 0
  BY DEF Active
<1>5. hold[c.hold].walk # {} /\ hold[c.hold].walk \subseteq Created
  BY <1>2 DEF IInv, CopiesTrail, WalksCreated
<1>6. Copy(c.hold, hold[c.hold].generation) \in copies
  BY <1>2, <1>4 DEF IInv, LiveIsOwned
<1> QED
  BY <1>2, <1>3, <1>4, <1>5, <1>6 DEF HoldStates

LEMMA ReleaseStep ==
    ASSUME IInv, NEW c \in copies, Release(c)
    PROVE  IInv'
<1> DEFINE s == hold[c.hold]
           n == [s EXCEPT !.units = 0]
<1>1. Active(c)
  BY DEF Release
<1>2. /\ c.hold \in Holds /\ s \in HoldStates /\ s.units \in Nat \ {0}
      /\ s.walk # {} /\ s.walk \subseteq Created /\ s.generation \in Generations
  BY <1>1, ActiveCopy
<1>3. n \in HoldStates /\ n.walk = s.walk /\ n.units = 0 /\ n.generation = s.generation
  BY <1>2 DEF HoldStates
<1>4. /\ hold' = [hold EXCEPT ![c.hold] = n]
      /\ account' = Charged(s.walk, -s.units, -1)
      /\ copies' = copies
  BY <1>2 DEF Release, IInv, TypeOK
<1>5. \A k \in Ledgers :
         /\ UnitsOf(n, k) = UnitsOf(s, k) + (IF k \in s.walk THEN -s.units ELSE 0)
         /\ CountOf(n, k) = CountOf(s, k) + (IF k \in s.walk THEN -1 ELSE 0)
  <2> HIDE DEF n, s
  <2> QED BY <1>2, <1>3 DEF UnitsOf, CountOf
<1>6. /\ -s.units \in Int /\ -1 \in Int /\ -s.units =< 0
      /\ s.generation =< n.generation
  BY <1>2, <1>3 DEF Generations
<1>7. n.walk # {} /\ n.walk \subseteq Created /\ (n.units # 0 => Copy(c.hold, n.generation) \in copies')
  BY <1>2, <1>3
<1>8. Exchange(c.hold, n, s.walk, -s.units, -1) /\ Reissue(c.hold, n)
  BY <1>4, <1>5, <1>6, <1>7 DEF Exchange, Reissue
<1> HIDE DEF n
<1> QED
  BY <1>2, <1>3, <1>6, <1>8, OneHoldStep

LEMMA TransferStep ==
    ASSUME IInv, NEW c \in copies, Transfer(c)
    PROVE  IInv'
<1> DEFINE s == hold[c.hold]
           n == [s EXCEPT !.generation = s.generation + 1]
<1>1. Active(c) /\ c.generation # MaxGeneration
  BY DEF Transfer
<1>2. /\ c.hold \in Holds /\ s \in HoldStates /\ s.units \in Nat \ {0}
      /\ s.walk # {} /\ s.walk \subseteq Created /\ s.generation \in Generations
      /\ c.generation = s.generation
  BY <1>1, ActiveCopy
<1>3. s.generation + 1 \in Generations
  BY <1>1, <1>2, SizesAssumption DEF Generations
<1>4. /\ n \in HoldStates /\ n.walk = s.walk /\ n.units = s.units
      /\ n.generation = s.generation + 1
  BY <1>2, <1>3 DEF HoldStates
<1>5. account' = Charged({}, 0, 0)
  BY DEF Transfer, Charged, IInv, TypeOK
<1>6. /\ hold' = [hold EXCEPT ![c.hold] = n]
      /\ copies' = copies \cup {Copy(c.hold, n.generation)}
  BY <1>2, <1>4 DEF Transfer, IInv, TypeOK
<1>7. \A k \in Ledgers :
         /\ UnitsOf(n, k) = UnitsOf(s, k) + (IF k \in {} THEN 0 ELSE 0)
         /\ CountOf(n, k) = CountOf(s, k) + (IF k \in {} THEN 0 ELSE 0)
  <2> HIDE DEF n, s
  <2> QED BY <1>2, <1>4 DEF UnitsOf, CountOf
<1>8. /\ s.generation =< n.generation
      /\ Copy(c.hold, n.generation) \in copies'
      /\ n.walk # {} /\ n.walk \subseteq Created
  BY <1>2, <1>4, <1>6 DEF Generations
<1>9. Exchange(c.hold, n, {}, 0, 0) /\ Reissue(c.hold, n)
  BY <1>5, <1>6, <1>7, <1>8 DEF Exchange, Reissue
<1> HIDE DEF n
<1> QED
  BY <1>2, <1>4, <1>9, OneHoldStep

LEMMA GrowStep ==
    ASSUME IInv, NEW c \in copies, NEW units \in Units, Grow(c, units)
    PROVE  IInv'
<1> DEFINE s == hold[c.hold]
           n == [s EXCEPT !.units = s.units + units]
<1>0. units \in Nat /\ units \in Int
  BY SizesAssumption
<1>1. Active(c)
  BY DEF Grow
<1>2. /\ c.hold \in Holds /\ s \in HoldStates /\ s.units \in Nat \ {0}
      /\ s.walk # {} /\ s.walk \subseteq Created /\ s.generation \in Generations
      /\ Copy(c.hold, s.generation) \in copies
  BY <1>1, ActiveCopy
<1>3. /\ n \in HoldStates /\ n.walk = s.walk /\ n.units = s.units + units
      /\ n.generation = s.generation
  BY <1>0, <1>2 DEF HoldStates
<1>4. /\ hold' = [hold EXCEPT ![c.hold] = n]
      /\ account' = Charged(s.walk, units, 0)
      /\ units =< 0 \/ Available(s.walk, units)
      /\ copies' = copies
  BY <1>2 DEF Grow, IInv, TypeOK
<1>5. \A k \in Ledgers :
         /\ UnitsOf(n, k) = UnitsOf(s, k) + (IF k \in s.walk THEN units ELSE 0)
         /\ CountOf(n, k) = CountOf(s, k) + (IF k \in s.walk THEN 0 ELSE 0)
  <2> HIDE DEF n, s
  <2> QED BY <1>0, <1>2, <1>3 DEF UnitsOf, CountOf
<1>6. /\ s.generation =< n.generation /\ n.walk # {} /\ n.walk \subseteq Created
      /\ Copy(c.hold, n.generation) \in copies'
  BY <1>2, <1>3, <1>4 DEF Generations
<1>7. Exchange(c.hold, n, s.walk, units, 0) /\ Reissue(c.hold, n)
  BY <1>4, <1>5, <1>6 DEF Exchange, Reissue
<1> HIDE DEF n
<1> QED
  BY <1>0, <1>2, <1>3, <1>4, <1>7, OneHoldStep

LEMMA ShrinkStep ==
    ASSUME IInv, NEW c \in copies, NEW units \in Units, Shrink(c, units)
    PROVE  IInv'
<1> DEFINE s == hold[c.hold]
           n == [s EXCEPT !.units = s.units - units]
<1>0. units \in Nat /\ -units \in Int /\ -units =< 0
  BY SizesAssumption
<1>1. Active(c)
  BY DEF Shrink
<1>2. /\ c.hold \in Holds /\ s \in HoldStates /\ s.units \in Nat \ {0}
      /\ s.walk # {} /\ s.walk \subseteq Created /\ s.generation \in Generations
      /\ Copy(c.hold, s.generation) \in copies
  BY <1>1, ActiveCopy
<1>3. CASE Release(c)
  BY <1>3, ReleaseStep
<1>4. CASE ~Release(c)
  <2>1. /\ units < s.units
        /\ account' = Charged(s.walk, -units, 0)
        /\ hold' = [hold EXCEPT ![c.hold] = n]
        /\ copies' = copies
    BY <1>2, <1>4 DEF Shrink, IInv, TypeOK
  <2>2. /\ n \in HoldStates /\ n.walk = s.walk /\ n.units = s.units - units /\ n.units # 0
        /\ n.generation = s.generation
    BY <1>0, <1>2, <2>1 DEF HoldStates
  <2>3. \A k \in Ledgers :
           /\ UnitsOf(n, k) = UnitsOf(s, k) + (IF k \in s.walk THEN -units ELSE 0)
           /\ CountOf(n, k) = CountOf(s, k) + (IF k \in s.walk THEN 0 ELSE 0)
    <3> HIDE DEF n, s
    <3> QED BY <1>0, <1>2, <2>2 DEF UnitsOf, CountOf
  <2>4. /\ s.generation =< n.generation /\ n.walk # {} /\ n.walk \subseteq Created
        /\ Copy(c.hold, n.generation) \in copies'
    BY <1>2, <2>1, <2>2 DEF Generations
  <2>5. Exchange(c.hold, n, s.walk, -units, 0) /\ Reissue(c.hold, n)
    BY <2>1, <2>3, <2>4 DEF Exchange, Reissue
  <2> HIDE DEF n
  <2> QED
    BY <1>0, <1>2, <2>2, <2>5, OneHoldStep
<1> QED
  BY <1>3, <1>4

LEMMA SplitStep ==
    ASSUME IInv, NEW c \in copies, NEW units \in Units, NEW h \in Holds, Split(c, units, h)
    PROVE  IInv'
<1> DEFINE s == hold[c.hold]
           a == [s EXCEPT !.units = s.units - units]
           b == [walk |-> s.walk, units |-> units, generation |-> 0]
           m == [hold EXCEPT ![c.hold] = a]
           t == [m EXCEPT ![h] = b]
<1>0. units \in Nat \ {0} /\ 0 \in Generations
  BY SizesAssumption DEF Split, Generations
<1>1. Active(c)
  BY DEF Split
<1>2. /\ c.hold \in Holds /\ s \in HoldStates /\ s.units \in Nat \ {0}
      /\ s.walk # {} /\ s.walk \subseteq Created /\ s.generation \in Generations
      /\ Copy(c.hold, s.generation) \in copies
  BY <1>1, ActiveCopy
<1>3. CASE Transfer(c)
  BY <1>3, TransferStep
<1>4. CASE ~Transfer(c)
  <2>0. /\ TypeOK /\ ChargedExactly /\ WithinLimits /\ LiveIsOwned
        /\ WalksCreated /\ CopiesTrail
    BY DEF IInv
  <2>1. /\ units < s.units
        /\ account' = Charged(s.walk, 0, 1)
        /\ hold[h].walk = {}
        /\ copies' = copies \cup {Copy(h, 0)}
    BY <1>4 DEF Split
  <2>2. h # c.hold
    BY <1>2, <2>1
  <2>3. hold' = t
    BY <1>2, <1>4, <2>0, <2>2 DEF Split, TypeOK
  <2>4. /\ a \in HoldStates /\ a.walk = s.walk /\ a.units = s.units - units /\ a.units # 0
        /\ a.generation = s.generation
        /\ b \in HoldStates /\ b.walk = s.walk /\ b.units = units /\ b.generation = 0
    BY <1>0, <1>2, <2>1 DEF HoldStates
  <2> HIDE DEF a, b
  <2>5. /\ hold \in [Holds -> HoldStates]
        /\ m \in [Holds -> HoldStates] /\ m[c.hold] = a
        /\ \A i \in Holds : i # c.hold => m[i] = hold[i]
    BY <1>2, <2>0, <2>4 DEF TypeOK
  <2>6. /\ t \in [Holds -> HoldStates] /\ t[h] = b /\ t[c.hold] = a
        /\ \A i \in Holds : i # h => t[i] = m[i]
        /\ \A i \in Holds : i \notin {h, c.hold} => t[i] = hold[i]
    BY <1>2, <2>2, <2>4, <2>5
  <2> HIDE DEF m, t
  <2>7. hold[h].units = 0 /\ hold[h].generation = 0
    BY <2>0, <2>1 DEF CopiesTrail
  <2>8. ASSUME NEW l \in Ledgers
        PROVE  /\ UnitsOn(t, l) = UnitsOn(hold, l) + (IF l \in s.walk THEN 0 ELSE 0)
               /\ HoldsOn(t, l) = HoldsOn(hold, l) + (IF l \in s.walk THEN 1 ELSE 0)
    <3>1. /\ UnitsOn(m, l) = UnitsOn(hold, l) - UnitsOf(s, l) + UnitsOf(a, l)
          /\ HoldsOn(m, l) = HoldsOn(hold, l) - CountOf(s, l) + CountOf(a, l)
      BY <1>2, <2>5, OneTerm
    <3>2. /\ UnitsOn(t, l) = UnitsOn(m, l) - UnitsOf(m[h], l) + UnitsOf(b, l)
          /\ HoldsOn(t, l) = HoldsOn(m, l) - CountOf(m[h], l) + CountOf(b, l)
      BY <2>5, <2>6, OneTerm
    <3>3. UnitsOf(m[h], l) = 0 /\ CountOf(m[h], l) = 0
      BY <2>1, <2>2, <2>5 DEF UnitsOf, CountOf
    <3>4. /\ UnitsOf(s, l) = UnitsOf(a, l) + UnitsOf(b, l)
          /\ CountOf(s, l) = CountOf(a, l)
          /\ CountOf(b, l) = IF l \in s.walk THEN 1 ELSE 0
      <4> HIDE DEF s
      <4> QED BY <1>0, <1>2, <2>4 DEF UnitsOf, CountOf
    <3>5. /\ UnitsOn(hold, l) \in Nat /\ HoldsOn(hold, l) \in Nat
          /\ UnitsOf(a, l) \in Nat /\ UnitsOf(b, l) \in Nat
          /\ CountOf(a, l) \in Nat /\ CountOf(b, l) \in Nat
      BY <2>4, <2>5, SumsNat, TermTypes
    <3> QED
      BY <3>1, <3>2, <3>3, <3>4, <3>5
  <2>9. /\ ChargedExactly'
        /\ account' \in [Ledgers -> Accounts]
    BY <2>0, <2>1, <2>3, <2>6, <2>8, ChargedStays
  <2>10. copies' \subseteq Copies
    BY <1>0, <2>0, <2>1 DEF TypeOK, Copies, Copy
  <2>11. TypeOK'
    BY <2>3, <2>6, <2>9, <2>10 DEF TypeOK
  <2>12. WithinLimits'
    BY <2>0, <2>1, WithinStays
  <2>13. LiveIsOwned'
    <3> SUFFICES ASSUME NEW i \in Holds, hold'[i].units # 0
                 PROVE  Copy(i, hold'[i].generation) \in copies'
      BY DEF LiveIsOwned
    <3>1. CASE i = h
      BY <2>1, <2>3, <2>4, <2>6, <3>1
    <3>2. CASE i = c.hold
      BY <1>2, <2>1, <2>3, <2>4, <2>6, <3>2
    <3>3. CASE i \notin {h, c.hold}
      BY <2>0, <2>1, <2>3, <2>6, <3>3 DEF LiveIsOwned
    <3> QED
      BY <3>1, <3>2, <3>3
  <2>14. WalksCreated'
    <3>1. ASSUME NEW i \in Holds PROVE hold'[i].walk \subseteq Created
      <4>1. CASE i \in {h, c.hold}
        BY <1>2, <2>3, <2>4, <2>6, <4>1
      <4>2. CASE i \notin {h, c.hold}
        BY <2>0, <2>3, <2>6, <4>2 DEF WalksCreated
      <4> QED
        BY <4>1, <4>2
    <3> QED
      BY <2>0, <2>1, <3>1, WalksStay
  <2>15. CopiesTrail'
    <3>1. ASSUME NEW i \in Holds, hold'[i].walk = {}
          PROVE  hold'[i].units = 0 /\ hold'[i].generation = 0
      BY <1>2, <2>0, <2>3, <2>4, <2>6, <3>1 DEF CopiesTrail
    <3>2. ASSUME NEW d \in copies'
          PROVE  hold'[d.hold].walk # {} /\ d.generation =< hold'[d.hold].generation
      <4>1. d.hold \in Holds
        BY <2>10 DEF Copies
      <4>2. CASE d = Copy(h, 0)
        BY <1>2, <2>3, <2>4, <2>6, <4>2 DEF Copy
      <4>3. CASE d \in copies
        <5>1. hold[d.hold].walk # {} /\ d.generation =< hold[d.hold].generation
          BY <2>0, <4>3 DEF CopiesTrail
        <5>2. d.hold # h
          BY <2>1, <5>1
        <5>3. hold'[d.hold].walk = hold[d.hold].walk
              /\ hold'[d.hold].generation = hold[d.hold].generation
          BY <2>3, <2>4, <2>6, <4>1, <5>2
        <5> QED
          BY <5>1, <5>3
      <4> QED
        BY <2>1, <4>2, <4>3
    <3> QED
      BY <3>1, <3>2 DEF CopiesTrail
  <2> QED
    BY <2>9, <2>11, <2>12, <2>13, <2>14, <2>15 DEF IInv
<1> QED
  BY <1>3, <1>4

\* A new ledger l, which nothing walks yet.
Creates(l, r) ==
    /\ account[l].walk = {}
    /\ account' = [account EXCEPT ![l] = r]
    /\ UNCHANGED <<hold, copies>>
    /\ r.used = 0 /\ r.holds = 0
    /\ l \in r.walk /\ r.walk \subseteq Created \cup {l}
    /\ \A p \in r.walk \ {l} : r.limit =< account[p].limit

LEMMA CreateStep ==
    ASSUME IInv, NEW l \in Ledgers, NEW r \in Accounts, Creates(l, r)
    PROVE  IInv'
<1> USE DEF Creates
<1>0. /\ TypeOK /\ ChargedExactly /\ WithinLimits /\ LiveIsOwned
      /\ WalksCreated /\ CopiesTrail
  BY DEF IInv
<1>1. /\ account'[l] = r
      /\ \A k \in Ledgers : k # l => account'[k] = account[k]
      /\ account' \in [Ledgers -> Accounts]
      /\ hold \in [Holds -> HoldStates]
  BY <1>0 DEF TypeOK
<1>2. \A h \in Holds : l \notin hold[h].walk
  BY <1>0 DEF WalksCreated, Created
<1>3. \A k \in Ledgers : l \notin account[k].walk
  BY <1>0 DEF WalksCreated, Created
<1>4. TypeOK' /\ LiveIsOwned' /\ CopiesTrail'
  BY <1>0, <1>1 DEF TypeOK, LiveIsOwned, CopiesTrail
<1>5. ChargedExactly'
  <2> SUFFICES ASSUME NEW k \in Ledgers
               PROVE  account'[k].used = UnitsOn(hold, k) /\ account'[k].holds = HoldsOn(hold, k)
    BY DEF ChargedExactly
  <2>1. CASE k = l
    <3>1. UnitsOn(hold, l) = 0 /\ HoldsOn(hold, l) = 0
      BY <1>1, <1>2, SumsEmpty
    <3> QED
      BY <1>1, <2>1, <3>1
  <2>2. CASE k # l
    BY <1>0, <1>1, <2>2 DEF ChargedExactly
  <2> QED
    BY <2>1, <2>2
<1>6. WithinLimits'
  <2> SUFFICES ASSUME NEW k \in Ledgers
               PROVE  /\ account'[k].used =< account'[k].limit
                      /\ \A p \in account'[k].walk : account'[k].limit =< account'[p].limit
    BY DEF WithinLimits
  <2>0. r.limit \in Nat /\ r.walk \subseteq Ledgers
    BY DEF Accounts
  <2>1. CASE k = l
    BY <1>1, <2>0, <2>1
  <2>2. CASE k # l
    <3>1. account[k].walk \subseteq Ledgers
      BY <1>0 DEF TypeOK, Accounts
    <3> QED
      BY <1>0, <1>1, <1>3, <2>2, <3>1 DEF WithinLimits
  <2> QED
    BY <2>1, <2>2
<1>7. WalksCreated'
  <2>1. Created' = Created \cup {l}
    BY <1>1 DEF Created
  <2> QED
    BY <1>0, <1>1, <2>1 DEF WalksCreated
<1> QED
  BY <1>4, <1>5, <1>6, <1>7 DEF IInv

LEMMA NewStep ==
    ASSUME IInv, NEW l \in Ledgers, NEW limit \in Limits, New(l, limit)
    PROVE  IInv'
<1> DEFINE r == [NoAccount EXCEPT !.walk = {l}, !.limit = limit]
<1>1. r \in Accounts
  BY SizesAssumption, Zenon DEF Accounts, NoAccount
<1>2. account' = [account EXCEPT ![l] = r] /\ account[l].walk = {} /\ UNCHANGED <<hold, copies>>
  BY DEF New
<1>3. r.used = 0 /\ r.holds = 0 /\ l \in r.walk /\ r.walk = {l}
  BY DEF NoAccount
<1>4. Creates(l, r)
  BY <1>2, <1>3 DEF Creates
<1> HIDE DEF r
<1> QED
  BY <1>1, <1>4, CreateStep

LEMMA ChildStep ==
    ASSUME IInv, NEW parent \in Ledgers, NEW l \in Ledgers, NEW limit \in Limits,
           Child(parent, l, limit)
    PROVE  IInv'
<1> DEFINE q == account[parent]
           r == [NoAccount EXCEPT !.walk = q.walk \cup {l},
                                  !.limit = IF limit < q.limit THEN limit ELSE q.limit]
<1>0. q \in Accounts /\ limit \in Nat
  BY SizesAssumption DEF IInv, TypeOK
<1>1. r \in Accounts
  BY <1>0, Zenon DEF Accounts, NoAccount
<1>2. account' = [account EXCEPT ![l] = r] /\ account[l].walk = {} /\ UNCHANGED <<hold, copies>>
  BY DEF Child
<1>3. r.used = 0 /\ r.holds = 0 /\ l \in r.walk /\ r.walk = q.walk \cup {l}
  BY DEF NoAccount
<1>4. r.walk \subseteq Created \cup {l}
  BY <1>3 DEF IInv, WalksCreated
<1>5. \A p \in r.walk \ {l} : r.limit =< account[p].limit
  <2> SUFFICES ASSUME NEW p \in q.walk PROVE r.limit =< account[p].limit
    OBVIOUS
  <2>1. p \in Ledgers /\ account[p].limit \in Nat
    BY <1>0 DEF IInv, TypeOK, Accounts
  <2>2. q.limit =< account[p].limit
    BY DEF IInv, WithinLimits
  <2>3. r.limit =< q.limit /\ r.limit \in Nat /\ q.limit \in Nat
    BY <1>0 DEF Accounts, NoAccount
  <2> QED
    BY <2>1, <2>2, <2>3
<1>6. Creates(l, r)
  BY <1>2, <1>3, <1>4, <1>5 DEF Creates
<1> HIDE DEF r
<1> QED
  BY <1>1, <1>6, CreateStep

LEMMA CloseStep ==
    ASSUME IInv, NEW l \in Ledgers, Close(l)
    PROVE  IInv'
<1>0. /\ TypeOK /\ ChargedExactly /\ WithinLimits /\ LiveIsOwned
      /\ WalksCreated /\ CopiesTrail
  BY DEF IInv
<1>1. \A k \in Ledgers :
         /\ account'[k] \in Accounts
         /\ account'[k].walk = account[k].walk /\ account'[k].limit = account[k].limit
         /\ account'[k].used = account[k].used /\ account'[k].holds = account[k].holds
  <2> SUFFICES ASSUME NEW k \in Ledgers
               PROVE  /\ account'[k] \in Accounts
                      /\ account'[k].walk = account[k].walk /\ account'[k].limit = account[k].limit
                      /\ account'[k].used = account[k].used /\ account'[k].holds = account[k].holds
    OBVIOUS
  <2>1. account[k] \in Accounts
    BY <1>0 DEF TypeOK
  <2>2. account'[k] = IF k = l THEN [account[k] EXCEPT !.closed = TRUE] ELSE account[k]
    BY <1>0, Zenon DEF Close, TypeOK
  <2> QED
    BY <2>1, <2>2, Zenon DEF Accounts
<1>2. account' \in [Ledgers -> Accounts] /\ hold' = hold /\ copies' = copies
  BY <1>0, <1>1, Zenon DEF Close, TypeOK
<1>3. TypeOK' /\ LiveIsOwned' /\ CopiesTrail'
  BY <1>0, <1>2 DEF TypeOK, LiveIsOwned, CopiesTrail
<1>4. ChargedExactly'
  BY <1>0, <1>1, <1>2 DEF ChargedExactly
<1>5. Created' = Created
  BY <1>1 DEF Created
<1>6. WalksCreated'
  BY <1>0, <1>1, <1>2, <1>5 DEF WalksCreated
<1>7. WithinLimits'
  <2>1. \A k \in Ledgers : account[k].walk \subseteq Ledgers
    BY <1>0 DEF TypeOK, Accounts
  <2> QED
    BY <1>0, <1>1, <2>1 DEF WithinLimits
<1> QED
  BY <1>3, <1>4, <1>6, <1>7 DEF IInv

-----------------------------------------------------------------------------

LEMMA InitInv == Init => IInv
<1> SUFFICES ASSUME Init PROVE IInv
  OBVIOUS
<1>1. /\ account = [l \in Ledgers |-> NoAccount]
      /\ hold = [h \in Holds |-> NoHold]
      /\ copies = {}
  BY DEF Init
<1>2. NoAccount \in Accounts /\ NoHold \in HoldStates
  BY SizesAssumption DEF NoAccount, Accounts, NoHold, HoldStates, Generations
<1>3. TypeOK
  BY <1>1, <1>2 DEF TypeOK
<1>4. ChargedExactly
  <2> SUFFICES ASSUME NEW l \in Ledgers
               PROVE  account[l].used = UnitsOn(hold, l) /\ account[l].holds = HoldsOn(hold, l)
    BY DEF ChargedExactly
  <2>1. \A h \in Holds : l \notin hold[h].walk
    BY <1>1 DEF NoHold
  <2>2. UnitsOn(hold, l) = 0 /\ HoldsOn(hold, l) = 0
    BY <1>3, <2>1, SumsEmpty DEF TypeOK
  <2> QED
    BY <1>1, <2>2 DEF NoAccount
<1>5. WithinLimits /\ LiveIsOwned /\ WalksCreated /\ CopiesTrail
  BY <1>1 DEF WithinLimits, LiveIsOwned, WalksCreated, CopiesTrail, NoAccount, NoHold
<1> QED
  BY <1>3, <1>4, <1>5 DEF IInv

LEMMA NextInv == IInv /\ [Next]_vars => IInv'
<1> SUFFICES ASSUME IInv, [Next]_vars PROVE IInv'
  OBVIOUS
<1>1. ASSUME NEW l \in Ledgers, NEW limit \in Limits, New(l, limit) PROVE IInv'
  BY <1>1, NewStep
<1>2. ASSUME NEW l \in Ledgers, NEW limit \in Limits, NEW p \in Ledgers, Child(p, l, limit)
      PROVE  IInv'
  BY <1>2, ChildStep
<1>3. ASSUME NEW l \in Ledgers, NEW units \in Units, NEW h \in Holds, Reserve(l, units, h)
      PROVE  IInv'
  BY <1>3, ReserveStep
<1>4. ASSUME NEW l \in Ledgers, Close(l) PROVE IInv'
  BY <1>4, CloseStep
<1>5. ASSUME NEW c \in copies, Release(c) PROVE IInv'
  BY <1>5, ReleaseStep
<1>6. ASSUME NEW c \in copies, Transfer(c) PROVE IInv'
  BY <1>6, TransferStep
<1>7. ASSUME NEW c \in copies, NEW units \in Units, Grow(c, units) PROVE IInv'
  BY <1>7, GrowStep
<1>8. ASSUME NEW c \in copies, NEW units \in Units, Shrink(c, units) PROVE IInv'
  BY <1>8, ShrinkStep
<1>9. ASSUME NEW c \in copies, NEW units \in Units, NEW h \in Holds, Split(c, units, h)
      PROVE  IInv'
  BY <1>9, SplitStep
<1>10. CASE UNCHANGED vars
  BY <1>10 DEF vars, IInv, TypeOK, ChargedExactly, WithinLimits, LiveIsOwned, WalksCreated,
               CopiesTrail, Created
<1> QED
  BY <1>1, <1>2, <1>3, <1>4, <1>5, <1>6, <1>7, <1>8, <1>9, <1>10 DEF Next

\* The invariants of the ledger hold for any tree, limits and use of the holds.
THEOREM CapacityInvariant == Spec => []IInv
<1>1. Init => IInv
  BY InitInv
<1>2. IInv /\ [Next]_vars => IInv'
  BY NextInv
<1> QED
  BY <1>1, <1>2, PTL DEF Spec

\* Type correctness of ledgers, holds and copies (ledger.go, hold.go).
THEOREM CapacityTypeCorrect == Spec => []TypeOK
<1>1. IInv => TypeOK
  BY DEF IInv
<1> QED
  BY <1>1, CapacityInvariant, PTL

\* Every ledger is charged exactly with the live holds at and below it
\* (ledger.go Reserve; hold.go Release, Split, Grow, Shrink).
THEOREM CapacityChargedExactly == Spec => []ChargedExactly
<1>1. IInv => ChargedExactly
  BY DEF IInv
<1> QED
  BY <1>1, CapacityInvariant, PTL

\* No ledger and no ancestor of it is ever over-committed (ledger.go Available).
THEOREM CapacityWithinLimits == Spec => []WithinLimits
<1>1. IInv => WithinLimits
  BY DEF IInv
<1> QED
  BY <1>1, CapacityInvariant, PTL

\* Live capacity can always be returned by somebody (hold.go Transfer, Split).
THEOREM CapacityLiveIsOwned == Spec => []LiveIsOwned
<1>1. IInv => LiveIsOwned
  BY DEF IInv
<1> QED
  BY <1>1, CapacityInvariant, PTL

-----------------------------------------------------------------------------
(* Action properties.                                                      *)

\* A hold that exists only grows older; within a generation, spent stays spent.
Ages ==
    \A h \in Holds : hold[h].walk # {} =>
        \/ hold'[h].generation > hold[h].generation
        \/ /\ hold'[h].generation = hold[h].generation
           /\ hold[h].units = 0 => hold'[h].units = 0

LEMMA AgesStep == IInv /\ [Next]_vars => Ages
<1> SUFFICES ASSUME IInv, [Next]_vars PROVE Ages
  OBVIOUS
<1>0. /\ hold \in [Holds -> HoldStates]
      /\ \A h \in Holds : hold[h].generation \in Int /\ hold[h].units \in Nat
      /\ \A c \in copies : c.hold \in Holds
  BY SizesAssumption DEF IInv, TypeOK, HoldStates, Generations, Copies
<1>1. ASSUME hold' = hold PROVE Ages
  BY <1>1 DEF Ages
<1>2. ASSUME NEW l \in Ledgers, NEW units \in Units, NEW h \in Holds, Reserve(l, units, h)
      PROVE  Ages
  BY <1>0, <1>2 DEF Reserve, Ages
<1>3. ASSUME NEW c \in copies, Release(c) PROVE Ages
  BY <1>0, <1>3 DEF Release, Active, Ages, HoldStates
<1>4. ASSUME NEW c \in copies, Transfer(c) PROVE Ages
  BY <1>0, <1>4 DEF Transfer, Active, Ages, HoldStates
<1>5. ASSUME NEW c \in copies, NEW units \in Units, Grow(c, units) PROVE Ages
  BY <1>0, <1>5 DEF Grow, Active, Ages, HoldStates
<1>6. ASSUME NEW c \in copies, NEW units \in Units, Shrink(c, units) PROVE Ages
  <2>1. CASE Release(c)
    BY <1>3, <2>1
  <2>2. CASE hold' = [hold EXCEPT ![c.hold].units = @ - units]
    BY <1>0, <1>6, <2>2 DEF Shrink, Active, Ages, HoldStates
  <2> QED
    BY <1>6, <2>1, <2>2 DEF Shrink
<1>7. ASSUME NEW c \in copies, NEW units \in Units, NEW h \in Holds, Split(c, units, h)
      PROVE  Ages
  <2>1. CASE Transfer(c)
    BY <1>4, <2>1
  <2>2. CASE /\ hold[h].walk = {}
             /\ hold' = [hold EXCEPT ![c.hold].units = @ - units,
                                     ![h] = [walk |-> hold[c.hold].walk, units |-> units,
                                             generation |-> 0]]
    BY <1>0, <1>7, <2>2 DEF Split, Active, Ages, HoldStates
  <2> QED
    BY <1>7, <2>1, <2>2 DEF Split
<1> QED
  BY <1>1, <1>2, <1>3, <1>4, <1>5, <1>6, <1>7, Zenon DEF Next, vars, New, Child, Close

\* A copy that lost its claim never regains it (hold.go Transfer: "invalidates
\* every old copy").
THEOREM CapacityVoidCopiesStayVoid == Spec => VoidCopiesStayVoid
<1>1. IInv /\ [Next]_vars => [\A c \in copies : ~Active(c) => ~Active(c)']_vars
  <2> SUFFICES ASSUME IInv, [Next]_vars, NEW c \in copies, ~Active(c)
               PROVE  ~Active(c)'
    OBVIOUS
  <2>1. Ages
    BY AgesStep
  <2>2. /\ c.hold \in Holds /\ c.generation \in Int
        /\ hold[c.hold].generation \in Int
        /\ hold[c.hold].walk # {} /\ c.generation =< hold[c.hold].generation
    BY SizesAssumption DEF IInv, TypeOK, Copies, HoldStates, Generations, CopiesTrail
  <2>3. hold'[c.hold].generation \in Int
    BY <2>2, NextInv, SizesAssumption DEF IInv, TypeOK, HoldStates, Generations
  <2> QED
    BY <2>1, <2>2, <2>3 DEF Ages, Active
<1> QED
  BY <1>1, CapacityInvariant, PTL DEF Spec, VoidCopiesStayVoid

\* Only a ledger that was created can be closed.
ClosedIsCreated == \A l \in Ledgers : account[l].closed => account[l].walk # {}

Drains ==
    \A l \in Ledgers : account[l].closed =>
        account'[l].closed /\ account'[l].used =< account[l].used

LEMMA ChargeDrains ==
    ASSUME IInv, ClosedIsCreated, NEW walk \in SUBSET Ledgers, NEW units \in Int, NEW n \in Int,
           account' = Charged(walk, units, n),
           units =< 0 \/ Available(walk, units)
    PROVE  Drains /\ ClosedIsCreated'
<1>1. \A l \in Ledgers : account[l] \in Accounts
  BY DEF IInv, TypeOK
<1> SUFFICES ASSUME NEW l \in Ledgers
             PROVE  /\ account'[l].closed = account[l].closed
                    /\ account'[l].walk = account[l].walk
                    /\ account[l].closed => account'[l].used =< account[l].used
  BY DEF Drains, ClosedIsCreated
<1>2. CASE l \in walk
  <2>1. account'[l] = [account[l] EXCEPT !.used = @ + units, !.holds = @ + n]
    BY <1>2, Zenon DEF Charged
  <2>2. /\ account'[l].closed = account[l].closed /\ account'[l].walk = account[l].walk
        /\ account'[l].used = account[l].used + units
        /\ account[l].used \in Int
    BY <1>1, <2>1 DEF Accounts
  <2>3. account[l].closed => units =< 0
    BY <1>2 DEF Available
  <2> QED
    BY <2>2, <2>3
<1>3. CASE l \notin walk
  <2>1. account'[l] = account[l]
    BY <1>3, Zenon DEF Charged
  <2> QED
    BY <1>1, <2>1 DEF Accounts
<1> QED
  BY <1>2, <1>3

LEMMA DrainsStep ==
    IInv /\ ClosedIsCreated /\ [Next]_vars => Drains /\ ClosedIsCreated'
<1> SUFFICES ASSUME IInv, ClosedIsCreated, [Next]_vars PROVE Drains /\ ClosedIsCreated'
  OBVIOUS
<1>0. /\ account \in [Ledgers -> Accounts]
      /\ \A l \in Ledgers : account[l].walk \in SUBSET Ledgers /\ account[l].used \in Nat
      /\ \A c \in copies : hold[c.hold].walk \in SUBSET Ledgers /\ hold[c.hold].units \in Nat
      /\ Units \subseteq Nat
  BY SizesAssumption DEF IInv, TypeOK, HoldStates, Copies, Accounts
<1>1. ASSUME NEW l \in Ledgers, NEW limit \in Limits, New(l, limit)
      PROVE  Drains /\ ClosedIsCreated'
  <2>1. ~account[l].closed
    BY <1>1 DEF New, ClosedIsCreated
  <2> QED
    BY <1>0, <1>1, <2>1 DEF New, Drains, ClosedIsCreated, NoAccount
<1>2. ASSUME NEW l \in Ledgers, NEW limit \in Limits, NEW p \in Ledgers, Child(p, l, limit)
      PROVE  Drains /\ ClosedIsCreated'
  <2>1. ~account[l].closed
    BY <1>2 DEF Child, ClosedIsCreated
  <2> QED
    BY <1>0, <1>2, <2>1 DEF Child, Drains, ClosedIsCreated, NoAccount
<1>3. ASSUME NEW l \in Ledgers, Close(l) PROVE Drains /\ ClosedIsCreated'
  <2> SUFFICES ASSUME NEW k \in Ledgers
               PROVE  /\ account[k].closed => account'[k].closed
                      /\ account'[k].used = account[k].used
                      /\ account'[k].closed => account'[k].walk # {}
    BY <1>0 DEF Drains, ClosedIsCreated
  <2>1. account'[k] = IF k = l THEN [account[k] EXCEPT !.closed = TRUE] ELSE account[k]
    BY <1>0, <1>3, Zenon DEF Close
  <2>2. account[k] \in Accounts /\ (account[k].closed => account[k].walk # {})
    BY <1>0 DEF ClosedIsCreated
  <2>3. CASE k = l
    BY <1>3, <2>1, <2>2, <2>3 DEF Close, Accounts
  <2>4. CASE k # l
    BY <2>1, <2>2, <2>4 DEF Accounts
  <2> QED
    BY <2>3, <2>4
<1>4. ASSUME NEW l \in Ledgers, NEW units \in Units, NEW h \in Holds, Reserve(l, units, h)
      PROVE  Drains /\ ClosedIsCreated'
  BY <1>0, <1>4, ChargeDrains DEF Reserve
<1>5. ASSUME NEW c \in copies, Release(c) PROVE Drains /\ ClosedIsCreated'
  BY <1>0, <1>5, ChargeDrains DEF Release
<1>6. ASSUME account' = account PROVE Drains /\ ClosedIsCreated'
  BY <1>0, <1>6 DEF Drains, ClosedIsCreated
<1>7. ASSUME NEW c \in copies, NEW units \in Units, Grow(c, units)
      PROVE  Drains /\ ClosedIsCreated'
  BY <1>0, <1>7, ChargeDrains DEF Grow
<1>8. ASSUME NEW c \in copies, NEW units \in Units, Shrink(c, units)
      PROVE  Drains /\ ClosedIsCreated'
  <2>1. CASE account' = Charged(hold[c.hold].walk, -units, 0)
    BY <1>0, <2>1, ChargeDrains
  <2> QED
    BY <1>5, <1>8, <2>1 DEF Shrink
<1>9. ASSUME NEW c \in copies, NEW units \in Units, NEW h \in Holds, Split(c, units, h)
      PROVE  Drains /\ ClosedIsCreated'
  <2>1. CASE account' = Charged(hold[c.hold].walk, 0, 1)
    BY <1>0, <2>1, ChargeDrains
  <2> QED
    BY <1>6, <1>9, <2>1 DEF Split, Transfer
<1> QED
  BY <1>1, <1>2, <1>3, <1>4, <1>5, <1>6, <1>7, <1>8, <1>9, Zenon DEF Next, vars, Transfer

\* From its Close on, a ledger only drains (ledger.go Available, Close).
THEOREM CapacityClosedOnlyDrains == Spec => ClosedOnlyDrains
<1>1. Init => ClosedIsCreated
  BY DEF Init, ClosedIsCreated, NoAccount
<1>2. IInv /\ ClosedIsCreated /\ [Next]_vars => ClosedIsCreated'
  BY DrainsStep
<1>3. IInv /\ ClosedIsCreated /\ [Next]_vars =>
        [\A l \in Ledgers : account[l].closed =>
            account'[l].closed /\ account'[l].used =< account[l].used]_vars
  BY DrainsStep DEF Drains
<1>4. Spec => []ClosedIsCreated
  BY <1>1, <1>2, CapacityInvariant, PTL DEF Spec
<1> QED
  BY <1>3, <1>4, CapacityInvariant, PTL DEF Spec, ClosedOnlyDrains

=============================================================================
