---------------------------- MODULE MCUpstream ------------------------------
(* Small instances of Upstream: two names of broker connections. *)
EXTENDS Upstream

CONSTANTS p1, p2

=============================================================================
