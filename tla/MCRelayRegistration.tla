------------------------- MODULE MCRelayRegistration -------------------------
(* Small instances of RelayRegistration for TLC. *)
EXTENDS RelayRegistration, TLC

CONSTANTS k1, k2, f1, f2

\* SHA-256 is taken to have no collisions.
FingerprintOf == [k \in Key |-> IF k = k1 THEN f1 ELSE f2]

Callers == Permutations(Caller)

=============================================================================
