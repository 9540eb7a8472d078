-------------------------- MODULE SessionLifecycle --------------------------
(***************************************************************************)
(* What sparglim.config.builder.ConfigBuilder promises of the Spark        *)
(* session of a process: its master is chosen once, the session is opened  *)
(* on the chosen master, and both last until clear(), after which another  *)
(* master may be chosen.                                                   *)
(***************************************************************************)
CONSTANTS Masters, NoMaster  \* NoMaster is not one of the Masters

VARIABLES
  chosen,  \* the master in the configuration, NoMaster if there is none
  open     \* the master the session runs on, NoMaster if there is no session

vars == <<chosen, open>>

Init == chosen = NoMaster /\ open = NoMaster

Choose(m) ==
  /\ chosen = NoMaster
  /\ chosen' = m
  /\ UNCHANGED open

\* Opening a session chooses the default master if none has been chosen.
Open(m) ==
  /\ open = NoMaster /\ chosen \in {NoMaster, m}
  /\ chosen' = m /\ open' = m

Clear == chosen' = NoMaster /\ open' = NoMaster

Next == Clear \/ \E m \in Masters : Choose(m) \/ Open(m)

Spec == Init /\ [][Next]_vars

=============================================================================
