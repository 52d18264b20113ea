---------------------------- MODULE MCBlockBroker ----------------------------
(***************************************************************************)
(* Instances of BlockBroker.                                               *)
(***************************************************************************)
EXTENDS BlockBroker, TLC

CONSTANTS ra, rb, rg, mine, theirs

\* A range longer than its window, and one that only wants its second block.
MCFirst == [q \in Readers |-> IF q = ra THEN 1 ELSE 2]

MCLast == [q \in Readers |-> IF q = ra THEN 3 ELSE 2]

\* The same within the window.
MCShortLast == [q \in Readers |-> 2]

\* Two readers of a whole file, and one of its last block.
MCWholeFirst == [q \in Readers |-> IF q = rg THEN 3 ELSE 1]

MCWholeLast == [q \in Readers |-> 3]

MCLength == [i \in Blocks |-> 1]

MCLimits == [x \in Accounts |-> IF x = mine THEN ProcessLimit ELSE 2]

Symmetry == Permutations(Calls)

-----------------------------------------------------------------------------
Joined(t) == task[t].pc \notin {"none", "begin", "get"}

Claimed(i) == \E x \in Calls : call[x].key = i /\ call[x].tried > 0

\* The interleavings the contention instance looks at: everyone has asked
\* before the first load is claimed, block 3 is fetched first and for `rg`, and
\* `rb` is the first to take block 1.
Schedule ==
    /\ reader[ra].pc # "idle" => Joined(<<rg, 3>>)
    /\ reader[rb].pc # "idle" => \A i \in Blocks : Joined(<<ra, i>>)
    /\ (\E i \in Blocks : Claimed(i)) => \A i \in Blocks : Joined(<<rb, i>>)
    /\ Claimed(1) => reader[rg].pc = "done"
    /\ Claimed(2) \/ task[<<ra, 1>>].pc = "deliver" => reader[rb].write > 1


-----------------------------------------------------------------------------
\* The liveness instance: the caller of `ra` gives up, or the broker stops, at
\* any point, but not both.
LiveNext ==
    /\ Next
    /\ ~Cancel(rb)
    /\ stopped' /\ ~stopped => \A q \in Readers : reader[q].ctx = "live"

LiveSpec == Init /\ [][LiveNext]_vars /\ Fairness

=============================================================================
