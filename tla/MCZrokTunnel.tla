--------------------------- MODULE MCZrokTunnel ---------------------------
(* Small instances of ZrokTunnel for TLC. *)
EXTENDS ZrokTunnel

CONSTANTS i1, i2
=============================================================================
