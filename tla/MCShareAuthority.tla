---------------------------- MODULE MCShareAuthority ----------------------------
(* ShareAuthority for TLC.  Connections, registrations and STOP identities are *)
(* only compared for equality.                                                 *)
EXTENDS ShareAuthority, TLC

Symmetry ==
    Permutations(Connections) \cup Permutations(Registrations) \cup Permutations(StopIds)

=============================================================================
