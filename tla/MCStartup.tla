----------------------------- MODULE MCStartup -----------------------------
(* Startup for TLC: three replicas that are rolled out together.           *)
EXTENDS Startup

CONSTANTS c1, c2, c3

Replicas == {c1, c2, c3}
=============================================================================
