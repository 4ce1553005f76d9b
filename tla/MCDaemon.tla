------------------------------ MODULE MCDaemon ------------------------------
(* Three starts of llad. *)
EXTENDS Daemon, TLC

CONSTANTS i1, i2, i3

Starts    == {i1, i2, i3}
Exchanges == Permutations(Starts)
=============================================================================
