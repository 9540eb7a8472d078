----------------------------- MODULE ServerSlot -----------------------------
(***************************************************************************)
(* What daemon.py promises of the connect server ("This will not start     *)
(* duplicate connect server"): there is a slot for one server.  A server   *)
(* is put into it when it is empty, by a start or by a restart, and leaves *)
(* it when it dies.  No server that has left comes back.                   *)
(***************************************************************************)
CONSTANTS Servers, NoProc

VARIABLES
  current,  \* the server in the slot, NoProc if it is empty
  fresh     \* the servers that have not been started yet

vars == <<current, fresh>>

Init == current = NoProc /\ fresh = Servers

Start(s) ==
  /\ current = NoProc /\ s \in fresh
  /\ current' = s
  /\ fresh' = fresh \ {s}

Die ==
  /\ current # NoProc
  /\ current' = NoProc
  /\ UNCHANGED fresh

Next == Die \/ \E s \in Servers : Start(s)

Spec == Init /\ [][Next]_vars

=============================================================================
