-------------------------- MODULE MCOnDemandNames --------------------------
(* Small instances of OnDemandNames for TLC. *)
EXTENDS OnDemandNames
CONSTANTS a, b
=============================================================================
