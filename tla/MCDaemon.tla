------------------------------ MODULE MCDaemon ------------------------------
(* Instances of Daemon for TLC.                                            *)
EXTENDS DaemonInv, TLC

\* A pid of its own for every process, for as long as the run lasts.
OwnPid == [p \in Procs |-> p]

\* The same, but that the strangers get the pid of a dead server or daemon.
RecycledPid(owner) ==
  [p \in Procs |-> IF p \in Strangers THEN owner ELSE p]
RecycledServerPid == RecycledPid(CHOOSE s \in Servers : TRUE)

ServerSymmetry == Permutations(Servers)

=============================================================================
