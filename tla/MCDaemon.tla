------------------------------ MODULE MCDaemon ------------------------------
(* Finite instances of DaemonLock for TLC. *)
EXTENDS DaemonLock, TLC

CliSymmetry == Permutations(Cli)

============================================================================
