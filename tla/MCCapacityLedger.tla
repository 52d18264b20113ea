--------------------------- MODULE MCCapacityLedger ---------------------------
(* CapacityLedger for TLC: ledgers are only compared for equality.          *)
EXTENDS CapacityLedger, TLC

Symmetry == Permutations(Ledgers)

=============================================================================
