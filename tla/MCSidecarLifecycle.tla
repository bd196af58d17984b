-------------------------- MODULE MCSidecarLifecycle --------------------------
(***************************************************************************)
(* Instances of SidecarLifecycle for TLC: one key and its fingerprint.     *)
(***************************************************************************)
EXTENDS SidecarLifecycle

CONSTANTS k1, f1

FingerprintOf == [k \in Key |-> f1]

=============================================================================
