----------------------------- MODULE DaemonInv ------------------------------
(***************************************************************************)
(* Why a single daemon never has two servers: the inductive invariant      *)
(* behind Daemon's NoDuplicateServer.  A server is spawned by the start    *)
(* script only, so the question is what is known of the servers alive at   *)
(* each statement on the way to it, and what the stop handler, which runs  *)
(* between any two of them, can take away: it unlinks the pid file, but    *)
(* never starts a server.                                                  *)
(***************************************************************************)
EXTENDS Daemon

\* The pid of a live process is its own.
PidsDistinct ==
  \A p, q \in Procs : Live(p) /\ Live(q) /\ PidOf[p] = PidOf[q] => p = q

\* What a thread may know of the live servers, from most to least.
NoneLive == \A s \in Servers : ~Live(s)
OnlyLive(p) == \A s \in Servers : Live(s) => s = p
LiveIsRecorded == \A s \in Servers : Live(s) => pidFile \in {NoPid, PidOf[s]}

Started == {"installInt", "installTerm", "prePause", "paused", "woken", "done", "raised"}

\* Which thread can be where: the monitor runs once the main thread is past its
\* own _start, and a script runs only for a thread that waits for it, or for
\* a daemon that was interrupted or killed while it waited.
Control(d) ==
  /\ proc[d] \in {"unborn", "dead"} => at[d]["main"] = "off" /\ at[d]["monitor"] = "off"
  /\ proc[d] = "unborn" => script[d] = "idle"
  /\ at[d]["monitor"] # "off" => at[d]["main"] \in Started
  /\ script[d] # "idle" =>
       \/ proc[d] = "dead"
       \/ at[d]["main"] = "wait" \/ at[d]["monitor"] = "wait"
       \/ at[d]["main"] = "raised" /\ at[d]["monitor"] = "off"

\* The main thread, up to the launch of the monitor.
MainKnows(d) ==
  /\ proc[d] = "unborn" => NoneLive
  /\ at[d]["main"] \in {"check1", "check2", "rotate", "move", "port", "popen"}
       => NoneLive
  /\ at[d]["main"] \in {"assertPid", "assertLog", "dcheck", "dread", "dwrite", "launch"}
       => LiveIsRecorded

\* The start script.
ScriptKnows(d) ==
  /\ script[d] = "running" => NoneLive
  /\ script[d] \in Servers => OnlyLive(script[d])
  /\ script[d] = "done" => LiveIsRecorded

\* The monitor: a live server is the watched one, unless a stop has unlinked the
\* pid file, and then the monitor does not get past its comparison of pids.
MonitorKnows(d) ==
  /\ at[d]["monitor"] \in {"retail", "sleep", "compare", "probe"} => watch[d] \in Procs
  /\ at[d]["monitor"] \in {"retail", "sleep", "compare"}
       => pidFile = NoPid \/ OnlyLive(watch[d])
  /\ at[d]["monitor"] = "probe" => OnlyLive(watch[d])
  /\ at[d]["monitor"] \in {"rotate", "move", "port", "popen"} => NoneLive
  /\ at[d]["monitor"] \in {"assertPid", "assertLog", "rewatch"} => LiveIsRecorded

SlotInv ==
  /\ PidsDistinct
  /\ NoDuplicateServer
  /\ \A d \in Daemons : Control(d) /\ MainKnows(d) /\ ScriptKnows(d) /\ MonitorKnows(d)

\* What a monitor follows: the handler alone can take the pid file from under it, and
\* has raised is_stopping before it does.
Follows(d) ==
  /\ frames[d] # <<>> => stopping[d]
  /\ at[d]["monitor"] \in {"sleep", "compare", "probe"} => tail[d] = watch[d]
  /\ ~stopping[d] =>
       /\ at[d]["monitor"] \in {"assertLog", "rewatch"} => pidFile # NoPid
       /\ at[d]["monitor"] \in {"retail", "sleep", "compare", "probe"}
            => pidFile = PidOf[watch[d]]

FollowInv == \A d \in Daemons : Follows(d)

\* What a stop leaves behind.  While no server has died, the monitor restarts none, the
\* pid file leads every call of stop to the server that is alive, and no call gets past
\* that server before it has sent it SIGKILL.
NoneDied == \A s \in Servers : proc[s] # "dead"
Condemned == \A s \in Servers : proc[s] \notin {"live", "terminated"}
Born(p) == p \in Servers /\ proc[p] # "unborn"

RecordedIsBorn ==
  /\ pidFile # NoPid => \E s \in Servers : pidFile = PidOf[s] /\ Born(s)
  /\ \A d \in Daemons : script[d] \in Servers => Born(script[d])

Past == {"assertLog", "dcheck", "dread", "dwrite", "launch", "installInt",
         "installTerm", "prePause", "paused", "woken", "done"}

FrameKnows(frame) ==
  /\ frame.at \in {"terminate", "await", "kill"} => Born(frame.target)
  /\ frame.at \in {"seeFile", "unlink", "rotate", "move", "join"} => Condemned

Condemns(d) ==
  /\ at[d]["monitor"] \in MonitorOver \cup {"sleep", "compare", "probe", "quit"}
  /\ at[d]["monitor"] \in {"sleep", "compare", "probe"} => Born(watch[d])
  /\ pidFile = NoPid => Condemned
  /\ \A i \in DOMAIN frames[d] : FrameKnows(frames[d][i])
  /\ at[d]["main"] = "woken" /\ ~pending[d] /\ frames[d] = <<>> => Condemned
  /\ at[d]["main"] = "done" => Condemned

\* Between the spawn and the record of its pid alone a live server is not in the pid file.
SpawnedIsRecorded == (\A d \in Daemons : script[d] \notin Servers) => LiveIsRecorded

StopInv ==
  /\ RecordedIsBorn /\ SpawnedIsRecorded
  /\ \A d \in Daemons : at[d]["main"] \in Past /\ NoneDied => Condemns(d)

\* What becomes of a server once a call of stop has begun that finds it, or one that no
\* restart can overtake: this stays so, through nested calls, until stop has returned.
Hunts(frame, s) ==
  \/ frame.at \in {"seePid", "readPid"}
  \/ frame.at \in {"terminate", "await", "kill"} /\ frame.target = s

Hunted(d, s) ==
  /\ Live(s) /\ pidFile = PidOf[s]
  /\ frames[d] # <<>> /\ Hunts(frames[d][1], s)

NeverStarted(d, s) == proc[s] = "unborn" /\ stopping[d] /\ Rests(d)

Settled(d, s) ==
  \/ proc[s] \in {"killed", "dead"} \/ Hunted(d, s) \/ NeverStarted(d, s)
  \/ proc[d] = "dead" \/ at[d]["main"] = "raised"

-----------------------------------------------------------------------------
(* Daemons that follow each other.  A daemon that nobody signals leaves    *)
(* the pid file in order whenever it dies, or the whole machine does: it   *)
(* names the server that is alive, if one is, once the start script has    *)
(* ended that the daemon may have left at work.  The next daemon starts    *)
(* from there.                                                             *)

Unattended ==
  Events \subseteq {"crash", "flap", "linger", "kill", "killBoot", "reboot"}

LiveIsNamed == \A s \in Servers : Live(s) => pidFile = PidOf[s]

Unsignalled ==
  /\ \A p \in Procs : proc[p] \notin {"terminated", "killed"}
  /\ \A d \in Daemons : frames[d] = <<>> /\ ~pending[d] /\ ~stopping[d]

AtWork(d) == Live(d) \/ Booting(d)
OneDaemon == \A d, e \in Daemons : AtWork(d) /\ AtWork(e) => d = e

Retired(d) ==
  /\ ~Live(d) => at[d]["main"] = "off" /\ at[d]["monitor"] = "off"
  /\ proc[d] = "unborn" => script[d] = "idle"

\* The threads and the script of a daemon, and what they know of the live servers.
Works(d) ==
  /\ at[d]["monitor"] # "off" => at[d]["main"] \in Started
  /\ Live(d) /\ script[d] # "idle" => at[d]["main"] = "wait" \/ at[d]["monitor"] = "wait"
  /\ at[d]["main"] \in {"rotate", "move", "port", "popen"} => NoneLive
  /\ at[d]["monitor"] \in {"rotate", "move", "port", "popen"} => NoneLive
  /\ script[d] = "running" => NoneLive
  /\ script[d] \in Servers => OnlyLive(script[d])
  /\ at[d]["monitor"] \in {"retail", "sleep", "compare", "probe"} =>
       watch[d] \in Procs /\ pidFile = PidOf[watch[d]] /\ OnlyLive(watch[d])
  /\ at[d]["monitor"] \in {"sleep", "compare", "probe"} => tail[d] = watch[d]
  /\ at[d]["monitor"] \in {"assertLog", "rewatch"} => pidFile # NoPid

TakeoverInv ==
  /\ PidsDistinct /\ NoDuplicateServer /\ OneDaemon /\ Unsignalled
  /\ (\A d \in Daemons : script[d] \notin Servers) => LiveIsNamed
  /\ \A d \in Daemons : Retired(d) /\ Works(d)

\* The hypotheses under which no start fails: no server dies but one that is watched,
\* the port is freed with its owner, no pid is used twice.
Undisturbed ==
  /\ Events \subseteq {"crash", "kill", "killBoot", "reboot"}
  /\ Servers # {} /\ \A p, q \in Procs : PidOf[p] = PidOf[q] => p = q

\* What a start relies on: a port that is free, a log that may be moved and a server that
\* can be started while none is alive; and a daemon.pid that is of a daemon before it,
\* which is dead, until the daemon has written its own.
HostReady ==
  /\ port # Linger /\ (port \in Servers => Live(port))
  /\ NoneLive => Spare
  /\ NoneLive \/ log
  /\ pidFile # NoPid => \E s \in Servers : pidFile = PidOf[s]

Written == {"off", "launch"} \cup Started

DaemonPidIsOld ==
  daemonPid # NoPid =>
    \E e \in Daemons : /\ daemonPid = PidOf[e] /\ proc[e] # "unborn"
                       /\ at[e]["main"] \in Written

\* What a start has found or done so far; once its script or its check has told it of
\* a server, that server stays.
Finds(d) ==
  /\ \A t \in Threads : peek[d][t] => pidFile # NoPid
  /\ at[d]["main"] \notin {"raised", "declined", "woken"}
  /\ at[d]["main"] = "check2" => pidFile # NoPid
  /\ at[d]["main"] = "move" => log
  /\ script[d] \in Servers => Live(script[d])
  /\ at[d]["main"] \in {"assertPid", "assertLog", "dcheck", "dread", "dwrite", "launch"}
       => ServerRecorded
  /\ at[d]["main"] = "wait" => script[d] # "idle"
  /\ at[d]["main"] = "wait" /\ script[d] = "done" => ServerRecorded
  /\ at[d]["main"] = "dread" => daemonPid # NoPid

BootInv == HostReady /\ DaemonPidIsOld /\ \A d \in Daemons : Finds(d)

=============================================================================
