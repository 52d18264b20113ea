--------------------------- MODULE MCRevisionStore ---------------------------
(* Two shares of one file each over one coordinator.                        *)
EXTENDS RevisionStore, TLC

CONSTANTS f1, f2, a, b, t1, t2

MCFiles == {f1, f2}
MCStores == {a, b}
MCStoreOf == (f1 :> a) @@ (f2 :> b)
MCBound == {f2}
MCCalls == {t1, t2}
MCIds == 1 .. MaxAdmissions
Symmetry == Permutations(Calls)

=============================================================================
