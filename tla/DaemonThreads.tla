---------------------------- MODULE DaemonThreads ----------------------------
(***************************************************************************)
(* sparglim/server/daemon.py with sparglim/server/cli.py and tailer.py:    *)
(* `sparglim-server start` boots a Spark connect server, watches it from a *)
(* monitor thread, restarts it when it dies, and stops it when the daemon  *)
(* is signalled.  A daemon is two threads and a signal handler that Python *)
(* runs on the main thread between two of its instructions:                *)
(*                                                                         *)
(*   "main"     start_and_daemon, _launch_daemon, _wait_exit               *)
(*   "monitor"  the thread _daemon_and_tail starts                         *)
(*   frames     the running calls of stop, the innermost first             *)
(*                                                                         *)
(* Both threads call _start.  They share the pid file, the log and the     *)
(* daemon's pid file with each other and with every other daemon of the    *)
(* same root_dir.  A label names the statement a thread runs next.         *)
(***************************************************************************)
EXTENDS Host

CONSTANT MaxSignals  \* bound: signals sent in a run

ASSUME MaxSignalsAssumption == MaxSignals \in Nat

ScriptStates == {"idle", "running", "done"}

ASSUME ScriptAssumption == Servers \cap ScriptStates = {}

VARIABLES
  pidFile,    \* pid in root_dir/pids/spark-*.pid, NoPid if there is none
  daemonPid,  \* pid in root_dir/pids/daemon.pid, NoPid if there is none
  log,        \* whether root_dir/logs holds a spark-*.out
  script,     \* start-connect-server.sh a daemon waits for: what it is doing,
              \* or the server it has spawned and not yet recorded
  at,         \* the statement each thread of each daemon is at
  peek,       \* the thread has seen a pid file and is about to read it
  watch,      \* the daemon_process of the monitor
  tail,       \* the process self._tailer follows
  stopping,   \* self.is_stopping
  armed,      \* the signals whose handler is installed
  pending,    \* a signal has arrived whose handler has not run yet
  frames,     \* the calls of stop under way
  sent        \* signals sent so far

fileVars   == <<pidFile, daemonPid, log>>
threadVars == <<at, peek>>
workVars   == <<script, watch, tail>>
stopVars   == <<stopping, armed, pending, frames, sent>>
vars == <<hostVars, fileVars, threadVars, workVars, stopVars>>

Threads == {"main", "monitor"}
Signals == {"int", "term"}

StartLabels == {"rotate", "move", "port", "popen", "wait", "assertPid",
                "assertLog"}
MainLabels == StartLabels \cup
  {"off", "check1", "check2", "dcheck", "dread", "dwrite", "launch",
   "installInt", "installTerm", "prePause", "paused", "woken", "declined", "done",
   "raised"}
MonitorLabels == StartLabels \cup
  {"off", "sleep", "compare", "probe", "rewatch", "retail", "quit", "ended",
   "raised"}
HandlerLabels == {"seePid", "readPid", "terminate", "await", "kill",
                  "seeFile", "unlink", "rotate", "move", "join"}

\* The statements of the threads that evaluate self.pid.
PidLabels == {"check1", "check2", "assertPid", "launch", "sleep", "compare",
              "rewatch"}

\* start_and_daemon has returned or raised: the interpreter waits for the
\* monitor before the process exits.
Leaving == {"declined", "done", "raised"}
MonitorOver == {"off", "ended", "raised"}

Pids == {PidOf[p] : p \in Procs}
Frame == [at : HandlerLabels, target : Procs \cup {NoProc}]

FileTypeOK ==
  /\ pidFile \in Pids \cup {NoPid}
  /\ daemonPid \in Pids \cup {NoPid}
  /\ log \in BOOLEAN

AtTypeOK ==
  /\ at \in [Daemons -> [Threads -> MainLabels \cup MonitorLabels]]
  /\ \A d \in Daemons : /\ at[d]["main"] \in MainLabels
                        /\ at[d]["monitor"] \in MonitorLabels

PeekTypeOK == peek \in [Daemons -> [Threads -> BOOLEAN]]

WorkTypeOK ==
  /\ script \in [Daemons -> ScriptStates \cup Servers]
  /\ watch \in [Daemons -> Procs \cup {NoProc}]
  /\ tail \in [Daemons -> Procs \cup {NoProc}]

StopTypeOK ==
  /\ stopping \in [Daemons -> BOOLEAN]
  /\ armed \in [Daemons -> SUBSET Signals]
  /\ pending \in [Daemons -> BOOLEAN]
  /\ frames \in [Daemons -> Seq(Frame)]
  /\ sent \in 0..MaxSignals

TypeOK ==
  HostTypeOK /\ FileTypeOK /\ AtTypeOK /\ PeekTypeOK /\ WorkTypeOK /\ StopTypeOK

Off == [t \in Threads |-> "off"]
NoPeek == [t \in Threads |-> FALSE]

Init ==
  /\ HostInit
  /\ pidFile = NoPid /\ daemonPid = NoPid /\ log = FALSE
  /\ script = [d \in Daemons |-> "idle"]
  /\ at = [d \in Daemons |-> Off]
  /\ peek = [d \in Daemons |-> NoPeek]
  /\ watch = [d \in Daemons |-> NoProc]
  /\ tail = [d \in Daemons |-> NoProc]
  /\ stopping = [d \in Daemons |-> FALSE]
  /\ armed = [d \in Daemons |-> {}]
  /\ pending = [d \in Daemons |-> FALSE]
  /\ frames = [d \in Daemons |-> <<>>]
  /\ sent = 0

-----------------------------------------------------------------------------
(* Steps of a thread.                                                      *)

\* A thread is at a label and may run: the main thread not while a handler has it.
At(d, t, label) ==
  /\ proc[d] = "live" /\ at[d][t] = label
  /\ t = "main" => frames[d] = <<>>

Step(d, t, from, to) ==
  /\ At(d, t, from)
  /\ at' = [at EXCEPT ![d][t] = to]

\* The pid property asks twice for the pid file: once whether it is there,
\* once to read it.  A step that evaluates self.pid is taken with an absent
\* file, or with a file seen (Peek) that is still there; its value is pidFile.
ReadsPid(d, t) ==
  /\ peek[d][t] = (pidFile # NoPid)
  /\ peek' = [peek EXCEPT ![d][t] = FALSE]

PidStep(d, t, from, to) == Step(d, t, from, to) /\ ReadsPid(d, t)

Peek(d, t) ==
  /\ at[d][t] \in PidLabels /\ At(d, t, at[d][t])
  /\ pidFile # NoPid /\ ~peek[d][t]
  /\ peek' = [peek EXCEPT ![d][t] = TRUE]
  /\ UNCHANGED <<hostVars, fileVars, at, workVars, stopVars>>

\* The file vanished in between: read_text raises.
ReadFails(d, t) ==
  /\ at[d][t] \in PidLabels /\ Step(d, t, at[d][t], "raised")
  /\ pidFile = NoPid /\ peek[d][t]
  /\ peek' = [peek EXCEPT ![d][t] = FALSE]
  /\ UNCHANGED <<hostVars, fileVars, workVars, stopVars>>

-----------------------------------------------------------------------------
(* _start, on either thread.                                               *)

RotateLog(d, t) ==
  /\ Step(d, t, "rotate", IF log THEN "move" ELSE "port")
  /\ UNCHANGED <<hostVars, fileVars, peek, workVars, stopVars>>

\* rename raises when the other thread has renamed the log meanwhile.
MoveLog(d, t) ==
  /\ Step(d, t, "move", IF log THEN "port" ELSE "raised")
  /\ log' = FALSE
  /\ UNCHANGED <<hostVars, pidFile, daemonPid, peek, workVars, stopVars>>

\* utils.port_is_used: a bind without SO_REUSEADDR.
PortIsUsed == port # NoProc

CheckPort(d, t) ==
  /\ Step(d, t, "port", IF PortIsUsed THEN "raised" ELSE "popen")
  /\ UNCHANGED <<hostVars, fileVars, peek, workVars, stopVars>>

Popen(d, t) ==
  /\ Step(d, t, "popen", "wait")
  /\ script' = [script EXCEPT ![d] = "running"]
  /\ UNCHANGED <<hostVars, fileVars, peek, watch, tail, stopVars>>

\* A bug to catch: no p.wait().
WaitNot(d, t) ==
  /\ Step(d, t, "wait", "assertPid")
  /\ UNCHANGED <<hostVars, fileVars, peek, workVars, stopVars>>

Wait(d, t) ==
  /\ Step(d, t, "wait", "assertPid")
  /\ script[d] = "done"
  /\ script' = [script EXCEPT ![d] = "idle"]
  /\ UNCHANGED <<hostVars, fileVars, peek, watch, tail, stopVars>>

AssertPid(d, t) ==
  /\ PidStep(d, t, "assertPid",
             IF pidFile = NoPid THEN "raised" ELSE "assertLog")
  /\ UNCHANGED <<hostVars, fileVars, workVars, stopVars>>

AfterStart(t) == IF t = "main" THEN "dcheck" ELSE "rewatch"

AssertLog(d, t) ==
  /\ Step(d, t, "assertLog", IF log THEN AfterStart(t) ELSE "raised")
  /\ UNCHANGED <<hostVars, fileVars, peek, workVars, stopVars>>

Start(d, t) ==
  \/ RotateLog(d, t) \/ MoveLog(d, t) \/ CheckPort(d, t) \/ Popen(d, t)
  \/ Wait(d, t) \/ AssertPid(d, t) \/ AssertLog(d, t)

\* start-connect-server.sh, a process of its own that a dead daemon leaves
\* running: it refuses if the pid file names a running server; otherwise it
\* spawns one, which opens a log, and then records its pid.
ServerRecorded == \E s \in Servers : Live(s) /\ PidOf[s] = pidFile

ScriptRefuses(d) ==
  /\ script[d] = "running"
  /\ ServerRecorded \/ \A s \in Servers : ~CanStart(s)
  /\ script' = [script EXCEPT ![d] = "done"]
  /\ UNCHANGED <<hostVars, fileVars, threadVars, watch, tail, stopVars>>

ScriptSpawns(d, s) ==
  /\ script[d] = "running" /\ ~ServerRecorded /\ CanStart(s)
  /\ proc' = [proc EXCEPT ![s] = "live"]
  /\ log' = TRUE
  /\ script' = [script EXCEPT ![d] = s]
  /\ UNCHANGED <<port, pidFile, daemonPid, threadVars, watch, tail, stopVars>>

ScriptRecords(d) ==
  /\ script[d] \in Servers
  /\ pidFile' = PidOf[script[d]]
  /\ script' = [script EXCEPT ![d] = "done"]
  /\ UNCHANGED <<hostVars, daemonPid, log, threadVars, watch, tail, stopVars>>

Script(d) ==
  ScriptRefuses(d) \/ ScriptRecords(d) \/ \E s \in Servers : ScriptSpawns(d, s)

-----------------------------------------------------------------------------
(* The main thread.                                                        *)

\* A bug to catch: a start removes the pid file it finds, as that of a server long gone.
Check1Cleans(d) ==
  /\ Step(d, "main", "check1", "rotate")
  /\ pidFile' = NoPid
  /\ UNCHANGED <<hostVars, daemonPid, log, peek, workVars, stopVars>>

Check1(d) ==
  /\ PidStep(d, "main", "check1", IF pidFile = NoPid THEN "rotate" ELSE "check2")
  /\ UNCHANGED <<hostVars, fileVars, workVars, stopVars>>

\* A bug to catch: a pid file is taken for a running server.
Check2Not(d) ==
  /\ PidStep(d, "main", "check2", "dcheck")
  /\ UNCHANGED <<hostVars, fileVars, workVars, stopVars>>

\* psutil.pid_exists(None) raises.
Check2(d) ==
  /\ PidStep(d, "main", "check2",
             IF pidFile = NoPid THEN "raised"
             ELSE IF PidExists(pidFile) THEN "dcheck" ELSE "rotate")
  /\ UNCHANGED <<hostVars, fileVars, workVars, stopVars>>

CheckDaemon(d) ==
  /\ Step(d, "main", "dcheck", IF daemonPid = NoPid THEN "dwrite" ELSE "dread")
  /\ UNCHANGED <<hostVars, fileVars, peek, workVars, stopVars>>

ReadDaemon(d) ==
  /\ Step(d, "main", "dread",
          IF daemonPid = NoPid THEN "raised"
          ELSE IF PidExists(daemonPid) THEN "declined" ELSE "launch")
  /\ UNCHANGED <<hostVars, fileVars, peek, workVars, stopVars>>

WriteDaemon(d) ==
  /\ Step(d, "main", "dwrite", "launch")
  /\ daemonPid' = PidOf[d]
  /\ UNCHANGED <<hostVars, pidFile, log, peek, workVars, stopVars>>

\* _launch_daemon and _daemon_and_tail: a missing pid, log or process raises.
\* On success the tailer and the monitor start.
Watchable == IF pidFile = NoPid \/ ~log THEN NoProc ELSE ProcAt(pidFile)

\* A bug to catch: the monitor thread is made and not started.
LaunchAlone(d) ==
  /\ PidStep(d, "main", "launch", IF Watchable = NoProc THEN "raised" ELSE "installInt")
  /\ watch' = [watch EXCEPT ![d] = Watchable]
  /\ tail' = [tail EXCEPT ![d] = Watchable]
  /\ UNCHANGED <<hostVars, fileVars, script, stopVars>>

Launch(d) ==
  /\ At(d, "main", "launch") /\ ReadsPid(d, "main")
  /\ at' = IF Watchable = NoProc
           THEN [at EXCEPT ![d]["main"] = "raised"]
           ELSE [at EXCEPT ![d]["main"] = "installInt", ![d]["monitor"] = "sleep"]
  /\ watch' = [watch EXCEPT ![d] = Watchable]
  /\ tail' = [tail EXCEPT ![d] = Watchable]
  /\ UNCHANGED <<hostVars, fileVars, script, stopVars>>

Install(d, from, to, signal) ==
  /\ Step(d, "main", from, to)
  /\ armed' = [armed EXCEPT ![d] = @ \cup {signal}]
  /\ UNCHANGED <<hostVars, fileVars, peek, workVars, stopping, pending, frames, sent>>

InstallHandlers(d) ==
  \/ Install(d, "installInt", "installTerm", "int")
  \/ Install(d, "installTerm", "prePause", "term")

\* signal.pause() blocks until a signal arrives; one that arrived before it, and
\* whose handler has run or has not, does not end it.
Pause(d) ==
  /\ Step(d, "main", "prePause", "paused")
  /\ UNCHANGED <<hostVars, fileVars, peek, workVars, stopVars>>

\* Its return: after the handlers, the daemon's pid file goes.
Unlink(d) ==
  /\ ~pending[d]
  /\ Step(d, "main", "woken", IF daemonPid = NoPid THEN "raised" ELSE "done")
  /\ daemonPid' = NoPid
  /\ UNCHANGED <<hostVars, pidFile, log, peek, workVars, stopVars>>

MainStep(d) ==
  \/ Check1(d) \/ Check2(d) \/ CheckDaemon(d) \/ ReadDaemon(d)
  \/ WriteDaemon(d) \/ Launch(d) \/ InstallHandlers(d) \/ Pause(d) \/ Unlink(d)
  \/ Start(d, "main") \/ Peek(d, "main") \/ ReadFails(d, "main")

-----------------------------------------------------------------------------
(* The monitor thread, from the end of its sleep.                          *)

Wake(d) ==
  /\ PidStep(d, "monitor", "sleep",
             IF pidFile = NoPid \/ stopping[d] THEN "quit" ELSE "compare")
  /\ UNCHANGED <<hostVars, fileVars, workVars, stopVars>>

PidChanged(d) == pidFile # PidOf[watch[d]]

Compare(d) ==
  /\ PidStep(d, "monitor", "compare", IF PidChanged(d) THEN "quit" ELSE "probe")
  /\ UNCHANGED <<hostVars, fileVars, workVars, stopVars>>

\* A bug to catch: a server that does not serve yet is taken for a dead one.
IsServing(d) == port = watch[d]

\* daemon_process.is_running() recognises a recycled pid: it asks for the process.
IsRunning(d) == Live(watch[d])

Probe(d) ==
  /\ Step(d, "monitor", "probe", IF IsRunning(d) THEN "sleep" ELSE "rotate")
  /\ UNCHANGED <<hostVars, fileVars, peek, workVars, stopVars>>

\* Two bugs to catch: the monitor keeps the old process; it keeps a bare pid.
NotRestarted(d) == watch[d]
RestartedPid(d) == pidFile

\* psutil.Process(self.pid) of the restarted server; psutil.Process(None) is the
\* calling process.
Restarted(d) == IF pidFile = NoPid THEN d ELSE ProcAt(pidFile)

Rewatch(d) ==
  /\ PidStep(d, "monitor", "rewatch",
             IF Restarted(d) = NoProc THEN "raised" ELSE "retail")
  /\ watch' = [watch EXCEPT ![d] = IF Restarted(d) = NoProc THEN @ ELSE Restarted(d)]
  /\ UNCHANGED <<hostVars, fileVars, script, tail, stopVars>>

\* A bug to catch: the old tailer is stopped and no new one started.
RetailNot(d) ==
  /\ Step(d, "monitor", "retail", IF log THEN "sleep" ELSE "raised")
  /\ tail' = [tail EXCEPT ![d] = NoProc]
  /\ UNCHANGED <<hostVars, fileVars, peek, script, watch, stopVars>>

\* Tailer.stop, then a Tailer of the new process on the log, which must be there.
Retail(d) ==
  /\ Step(d, "monitor", "retail", IF log THEN "sleep" ELSE "raised")
  /\ tail' = [tail EXCEPT ![d] = IF log THEN watch[d] ELSE NoProc]
  /\ UNCHANGED <<hostVars, fileVars, peek, script, watch, stopVars>>

Quit(d) ==
  /\ Step(d, "monitor", "quit", "ended")
  /\ tail' = [tail EXCEPT ![d] = NoProc]
  /\ UNCHANGED <<hostVars, fileVars, peek, script, watch, stopVars>>

MonitorStep(d) ==
  \/ Wake(d) \/ Compare(d) \/ Probe(d) \/ Rewatch(d) \/ Retail(d) \/ Quit(d)
  \/ Start(d, "monitor") \/ Peek(d, "monitor") \/ ReadFails(d, "monitor")

=============================================================================
