----------------------------- MODULE MCListener -----------------------------
(* Instances of Listener for TLC.                                          *)
EXTENDS Listener, TLC

\* Every combination of timeouts.
MCTimeouts == [client : BOOLEAN, server : BOOLEAN]
=============================================================================
