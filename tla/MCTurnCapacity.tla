---------------------------- MODULE MCTurnCapacity ----------------------------
(* TurnCapacity for TLC.  One session of one service with two local endpoints, *)
(* as when sender and receiver share a process, and a path of another service. *)
EXTENDS TurnCapacity, TLC

CONSTANTS sender, receiver, c1, c2, c3, c4, c5

Request(owner, path, replaces, service, sockets) ==
    [owner |-> owner, session |-> "session", path |-> path, replaces |-> replaces,
     service |-> service, sockets |-> sockets]

\* First paths and their renewals on both endpoints, one of them growing; another
\* renewal of the receiver's path, a renewal that names another service, and a
\* renewal of a renewal.
MCRequests ==
    {Request(sender, "a", None, "turn", 1), Request(sender, "b", "a", "turn", 2),
     Request(sender, "b", "a", "other", 1), Request(sender, "c", "b", "turn", 1),
     Request(receiver, "a", None, "turn", 1), Request(receiver, "b", "a", "turn", 1),
     Request(receiver, "d", "a", "turn", 1)}

Symmetry == Permutations(Calls)

=============================================================================
