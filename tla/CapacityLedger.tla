---------------------------- MODULE CapacityLedger ----------------------------
(***************************************************************************)
(* Retained capacity of the receiver and the sender: a tree of ledgers and *)
(* the holds charged to them (core/capacityledger).  A Hold value may be   *)
(* copied freely, so any copy handed out may be used at any later time;    *)
(* `copies` are those values.  The owner's lock serializes the methods,    *)
(* each of which is one step; a method that returns false changes nothing  *)
(* and is a stuttering step.                                               *)
(*                                                                         *)
(* Go's uint64 is unbounded here: `WithinLimits` shows that no subtraction *)
(* goes below zero and no sum above the limit it is checked against.       *)
(***************************************************************************)
EXTENDS Integers, Sums

CONSTANTS
    Ledgers,        \* ledgers a program may create
    MaxHolds,       \* bound on the holdStates a program creates
    Limits,         \* limits given to New and Child
    Units,          \* amounts given to Reserve, Split, Grow and Shrink
    MaxGeneration   \* math.MaxUint64

VARIABLES
    account,    \* the ledgers
    hold,       \* the holdStates
    copies      \* the Hold values handed out

vars == <<account, hold, copies>>

ASSUME SizesAssumption ==
    /\ MaxHolds \in Nat
    /\ MaxGeneration \in Nat
    /\ Limits \subseteq Nat
    /\ Units \subseteq Nat

Holds == 1 .. MaxHolds

Generations == 0 .. MaxGeneration

\* `walk` is what the loops `account = account.parent` visit, the ledger itself
\* included; it is empty before the ledger is created.
Accounts == [walk : SUBSET Ledgers, limit : Nat, used : Nat, holds : Nat, closed : BOOLEAN]

NoAccount == [walk |-> {}, limit |-> 0, used |-> 0, holds |-> 0, closed |-> FALSE]

\* `walk` is the walk of the hold's ledger.
HoldStates == [walk : SUBSET Ledgers, units : Nat, generation : Generations]

NoHold == [walk |-> {}, units |-> 0, generation |-> 0]

Copies == [hold : Holds, generation : Generations]

Copy(h, g) == [hold |-> h, generation |-> g]

Active(c) == /\ hold[c.hold].units # 0
             /\ c.generation = hold[c.hold].generation

\* Adds to the use and to the hold count of every account of a walk.
Charged(walk, units, holds) ==
    [l \in Ledgers |-> IF l \in walk
                       THEN [account[l] EXCEPT !.used = @ + units, !.holds = @ + holds]
                       ELSE account[l]]

Free(l) == account[l].limit - account[l].used

\* Variant: only the ledger itself is asked, not its ancestors.
AvailableLocally(walk, units) ==
    \E l \in walk : ~account[l].closed /\ units =< Free(l)

\* Variant: a closed ancestor does not end admission.
AvailableBelowClosed(walk, units) ==
    \A l \in walk : units =< Free(l)

\* units =< Available(): no account of the walk is closed and every one has
\* room; nothing but zero units is available below a closed account.
Available(walk, units) ==
    \/ units = 0
    \/ \A l \in walk : ~account[l].closed /\ units =< Free(l)

Init ==
    /\ account = [l \in Ledgers |-> NoAccount]
    /\ hold = [h \in Holds |-> NoHold]
    /\ copies = {}

New(l, limit) ==
    /\ account[l].walk = {}
    /\ account' = [account EXCEPT ![l] = [NoAccount EXCEPT !.walk = {l}, !.limit = limit]]
    /\ UNCHANGED <<hold, copies>>

Child(parent, l, limit) ==
    /\ account[parent].walk # {}
    /\ account[l].walk = {}
    /\ account' = [account EXCEPT ![l] =
                     [NoAccount EXCEPT !.walk = account[parent].walk \cup {l},
                                       !.limit = IF limit < account[parent].limit
                                                 THEN limit ELSE account[parent].limit]]
    /\ UNCHANGED <<hold, copies>>

Reserve(l, units, h) ==
    /\ account[l].walk # {}
    /\ units # 0
    /\ Available(account[l].walk, units)
    /\ account' = Charged(account[l].walk, units, 1)
    /\ hold[h].walk = {}
    /\ hold' = [hold EXCEPT ![h] = [walk |-> account[l].walk, units |-> units, generation |-> 0]]
    /\ copies' = copies \cup {Copy(h, 0)}

Release(c) ==
    /\ Active(c)
    /\ account' = Charged(hold[c.hold].walk, -hold[c.hold].units, -1)
    /\ hold' = [hold EXCEPT ![c.hold].units = 0]
    /\ UNCHANGED copies

\* Variant: the generation wraps at its largest value.
TransferWraps(c) ==
    /\ Active(c)
    /\ hold' = [hold EXCEPT ![c.hold].generation = (@ + 1) % (MaxGeneration + 1)]
    /\ copies' = copies \cup {Copy(c.hold, hold'[c.hold].generation)}
    /\ UNCHANGED account

\* The next generation of the hold; every older copy is void.
Transfer(c) ==
    /\ Active(c)
    /\ c.generation # MaxGeneration
    /\ hold' = [hold EXCEPT ![c.hold].generation = @ + 1]
    /\ copies' = copies \cup {Copy(c.hold, c.generation + 1)}
    /\ UNCHANGED account

\* Variant: the part that is split off is not counted as a hold.
SplitUncounted(c, units, h) ==
    /\ Active(c)
    /\ units # 0
    /\ units < hold[c.hold].units
    /\ hold[h].walk = {}
    /\ hold' = [hold EXCEPT ![c.hold].units = @ - units,
                            ![h] = [walk |-> hold[c.hold].walk, units |-> units,
                                    generation |-> 0]]
    /\ copies' = copies \cup {Copy(h, 0)}
    /\ UNCHANGED account

\* Variant: splitting off everything hands out the consumed source.
SplitReturnsSource(c, units, h) ==
    /\ Active(c)
    /\ units = hold[c.hold].units
    /\ c.generation # MaxGeneration
    /\ hold' = [hold EXCEPT ![c.hold].generation = @ + 1]
    /\ UNCHANGED <<account, copies>>

\* Splitting off everything is a transfer.
Split(c, units, h) ==
    /\ Active(c)
    /\ units # 0
    /\ \/ /\ units = hold[c.hold].units
          /\ Transfer(c)
       \/ /\ units < hold[c.hold].units
          /\ account' = Charged(hold[c.hold].walk, 0, 1)
          /\ hold[h].walk = {}
          /\ hold' = [hold EXCEPT ![c.hold].units = @ - units,
                                  ![h] = [walk |-> hold[c.hold].walk, units |-> units,
                                          generation |-> 0]]
          /\ copies' = copies \cup {Copy(h, 0)}

Grow(c, units) ==
    /\ Active(c)
    /\ Available(hold[c.hold].walk, units)
    /\ account' = Charged(hold[c.hold].walk, units, 0)
    /\ hold' = [hold EXCEPT ![c.hold].units = @ + units]
    /\ UNCHANGED copies

\* Shrinking by everything is a release.
Shrink(c, units) ==
    /\ Active(c)
    /\ \/ /\ units = hold[c.hold].units
          /\ Release(c)
       \/ /\ units < hold[c.hold].units
          /\ account' = Charged(hold[c.hold].walk, -units, 0)
          /\ hold' = [hold EXCEPT ![c.hold].units = @ - units]
          /\ UNCHANGED copies

\* Admission ends; live holds stay and may still be released.
Close(l) ==
    /\ account[l].walk # {}
    /\ account' = [account EXCEPT ![l].closed = TRUE]
    /\ UNCHANGED <<hold, copies>>

Next ==
    \/ \E l \in Ledgers :
          \/ \E limit \in Limits : New(l, limit) \/ \E p \in Ledgers : Child(p, l, limit)
          \/ \E units \in Units, h \in Holds : Reserve(l, units, h)
          \/ Close(l)
    \/ \E c \in copies :
          \/ Release(c)
          \/ Transfer(c)
          \/ \E units \in Units : Grow(c, units) \/ Shrink(c, units)
          \/ \E units \in Units, h \in Holds : Split(c, units, h)

Spec == Init /\ [][Next]_vars

-----------------------------------------------------------------------------
(* Correctness.                                                            *)

TypeOK ==
    /\ account \in [Ledgers -> Accounts]
    /\ hold \in [Holds -> HoldStates]
    /\ copies \subseteq Copies

\* What a holdState charges to ledger l, in units and in holds.
UnitsOf(state, l) == IF l \in state.walk THEN state.units ELSE 0

CountOf(state, l) == IF l \in state.walk /\ state.units # 0 THEN 1 ELSE 0

UnitsOn(states, l) == Sum([h \in Holds |-> UnitsOf(states[h], l)], MaxHolds)

HoldsOn(states, l) == Sum([h \in Holds |-> CountOf(states[h], l)], MaxHolds)

\* Every ledger is charged exactly with the live holds at and below it, however
\* they were split, transferred, grown and shrunk (hold.go).
ChargedExactly ==
    \A l \in Ledgers : /\ account[l].used = UnitsOn(hold, l)
                       /\ account[l].holds = HoldsOn(hold, l)

\* No ledger is over-committed, and a child never promises more than an
\* ancestor could (ledger.go Child, Available).
WithinLimits ==
    \A l \in Ledgers : /\ account[l].used =< account[l].limit
                       /\ \A p \in account[l].walk : account[l].limit =< account[p].limit

\* Live capacity can always be returned: the current generation of every live
\* hold was handed to somebody (hold.go Transfer, Split).
LiveIsOwned ==
    \A h \in Holds : hold[h].units # 0 => Copy(h, hold[h].generation) \in copies

\* A copy that lost its claim, to a release or to a transfer, never regains it
\* (hold.go: "invalidates every old copy").
VoidCopiesStayVoid ==
    [][\A c \in copies : ~Active(c) => ~Active(c)']_vars

\* From its Close on, a ledger only drains: no operation on any descendant
\* charges it again (ledger.go Available).
ClosedOnlyDrains ==
    [][\A l \in Ledgers : account[l].closed =>
          account'[l].closed /\ account'[l].used =< account[l].used]_vars

=============================================================================
