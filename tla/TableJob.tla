------------------------------ MODULE TableJob ------------------------------
(***************************************************************************)
(* What a batch job that replaces a table promises: a run of it replaces   *)
(* the table only after it was triggered, with data no older than what     *)
(* there was when it was triggered, and it succeeds only if it did so.     *)
(***************************************************************************)
EXTENDS Naturals

CONSTANT Runs

VARIABLES
  state,   \* of each run: "none", "active", "success", "failed"
  since,   \* the version of the source data when the run was triggered
  source,  \* the version of the source data now
  table,   \* the version the table was made from, 0 while there is none
  wrote    \* the run has replaced the table

vars == <<state, since, source, table, wrote>>

Init ==
  /\ state = [r \in Runs |-> "none"] /\ since = [r \in Runs |-> 0]
  /\ source = 1 /\ table = 0 /\ wrote = [r \in Runs |-> FALSE]

Arrive == source' = source + 1 /\ UNCHANGED <<state, since, table, wrote>>

Trigger(r) ==
  /\ state[r] = "none" /\ state' = [state EXCEPT ![r] = "active"]
  /\ since' = [since EXCEPT ![r] = source]
  /\ UNCHANGED <<source, table, wrote>>

\* Also after the run has ended: a run may leave a job behind.
Replace(r) ==
  /\ state[r] # "none"
  /\ \E v \in since[r]..source : table' = v
  /\ wrote' = [wrote EXCEPT ![r] = TRUE]
  /\ UNCHANGED <<state, since, source>>

Finish(r) ==
  /\ state[r] = "active"
  /\ \/ wrote[r] /\ state' = [state EXCEPT ![r] = "success"]
     \/ state' = [state EXCEPT ![r] = "failed"]
  /\ UNCHANGED <<since, source, table, wrote>>

Next == Arrive \/ \E r \in Runs : Trigger(r) \/ Replace(r) \/ Finish(r)

Spec == Init /\ [][Next]_vars

=============================================================================
