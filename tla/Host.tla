-------------------------------- MODULE Host --------------------------------
(***************************************************************************)
(* The machine the daemon of sparglim/server runs on: its process table,   *)
(* the port of the connect server, and the questions psutil answers about  *)
(* them.  None of this is code of the repository; it is modelled from how  *)
(* daemon.py, cli.py and utils.py use it.                                  *)
(*                                                                         *)
(* A process is an incarnation: it is born once and dies once.  What the   *)
(* code holds is a pid, a number the kernel may give to another process    *)
(* once its owner is dead; PidOf says which incarnations share one.        *)
(***************************************************************************)
EXTENDS Naturals, Sequences

CONSTANTS
  Daemons,    \* runs of `sparglim-server start`
  Servers,    \* runs of the connect server; their number bounds the restarts
  Strangers,  \* unrelated processes of the same machine
  PidOf,      \* the pid each of them gets
  NoPid,      \* no pid file, or a pid property that returns None
  NoProc,     \* no process
  Linger,     \* the port has no owner, but connections in TIME_WAIT
  Events      \* the environment's events a run of the model allows

Procs == Daemons \cup Servers \cup Strangers

EventKinds == {"crash", "flap", "linger", "kill", "killBoot", "reboot",
               "overlap", "term", "int", "cli"}

ASSUME ProcAssumption ==
  /\ NoProc \notin Procs /\ Linger \notin Procs /\ NoProc # Linger
  /\ Daemons \cap (Servers \cup Strangers) = {} /\ Servers \cap Strangers = {}

\* A daemon and a server never share a pid: the pid file names servers, the
\* daemon's own file names daemons.
ASSUME PidAssumption ==
  /\ \A p \in Procs : PidOf[p] # NoPid
  /\ \A d \in Daemons, s \in Servers : PidOf[d] # PidOf[s]

ASSUME EventAssumption == Events \subseteq EventKinds

VARIABLES
  proc,  \* the life of each process
  port   \* who holds the server's port: a server, Linger or NoProc

hostVars == <<proc, port>>

\* "terminated" has been sent SIGTERM and may ignore it, "killed" has been sent
\* SIGKILL and is still in the process table.
Lives == {"unborn", "live", "terminated", "killed", "dead"}

HostTypeOK ==
  /\ proc \in [Procs -> Lives]
  /\ port \in Servers \cup {NoProc, Linger}

HostInit ==
  /\ proc = [p \in Procs |-> "unborn"]
  /\ port = NoProc

-----------------------------------------------------------------------------
(* What psutil and the kernel answer.                                      *)

Live(p) == proc[p] \in {"live", "terminated", "killed"}

\* psutil.pid_exists(pid)
PidExists(pid) == \E p \in Procs : Live(p) /\ PidOf[p] = pid

\* psutil.Process(pid), NoProc where it raises NoSuchProcess
ProcAt(pid) ==
  IF PidExists(pid) THEN CHOOSE p \in Procs : Live(p) /\ PidOf[p] = pid
                    ELSE NoProc

\* A process can only be born with a pid nobody has.
CanStart(p) == proc[p] = "unborn" /\ ~PidExists(PidOf[p])

\* The port after process p is gone.  Connections it served may stay in
\* TIME_WAIT for a while.
PortAfter(p) ==
  IF port # p THEN {port}
  ELSE {NoProc} \cup (IF "linger" \in Events THEN {Linger} ELSE {})

-----------------------------------------------------------------------------
(* What processes do by themselves.                                        *)

Dies(p) ==
  /\ proc' = [proc EXCEPT ![p] = "dead"]
  /\ port' \in PortAfter(p)

\* A booting server takes the port.  Java sets SO_REUSEADDR, so TIME_WAIT
\* does not stop it, unlike the probe of utils.port_is_used.
Bind(s) ==
  /\ proc[s] = "live" /\ port \in {NoProc, Linger}
  /\ port' = s
  /\ UNCHANGED proc

\* A booting server finds the port taken by another server, and exits.
BindFails(s) ==
  /\ proc[s] = "live" /\ port \in Servers \ {s}
  /\ Dies(s)

\* The kernel carries out SIGKILL.
Reaped(p) == proc[p] = "killed" /\ Dies(p)

\* A process that was sent SIGTERM shuts down.  No fairness: it may hang.
ShutsDown(p) == proc[p] = "terminated" /\ Dies(p)

\* TIME_WAIT is over.
PortFreed == port = Linger /\ port' = NoProc /\ UNCHANGED proc

\* Another program of the machine starts, and may get a recycled pid.
StrangerArrives(p) ==
  /\ CanStart(p)
  /\ proc' = [proc EXCEPT ![p] = "live"]
  /\ UNCHANGED port

=============================================================================
