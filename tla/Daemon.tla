------------------------------- MODULE Daemon -------------------------------
(***************************************************************************)
(* The daemon as a whole: DaemonThreads, the handler Daemon.stop and the   *)
(* signals that run it, `sparglim-server stop` (server/cli.py), and what   *)
(* can happen to a daemon and its servers from outside.  The properties at *)
(* the end are about one daemon, or several in one root_dir.               *)
(***************************************************************************)
EXTENDS DaemonThreads, FiniteSets

(* Daemon.stop, on top of the main thread.                                 *)

InHandler(d, label) ==
  /\ proc[d] = "live" /\ frames[d] # <<>> /\ frames[d][1].at = label

Target(d) == frames[d][1].target

HandlerStep(d, from, to) ==
  /\ InHandler(d, from)
  /\ frames' = [frames EXCEPT ![d][1] = [at |-> to, target |-> Target(d)]]
  /\ UNCHANGED <<stopping, armed, pending, sent>>

\* What is left of a daemon that has exited; its script and its tail live on.
Gone(d) ==
  /\ Dies(d)
  /\ at' = [at EXCEPT ![d] = Off]
  /\ peek' = [peek EXCEPT ![d] = NoPeek]
  /\ watch' = [watch EXCEPT ![d] = NoProc]
  /\ stopping' = [stopping EXCEPT ![d] = FALSE]
  /\ armed' = [armed EXCEPT ![d] = {}]
  /\ pending' = [pending EXCEPT ![d] = FALSE]
  /\ frames' = [frames EXCEPT ![d] = <<>>]
  /\ UNCHANGED <<fileVars, script, tail>>

\* An exception in the main thread ends every call of stop and the wait of
\* the main thread; while the interpreter already waits for the monitor, it
\* ends the process.
MainRaises(d) ==
  IF at[d]["main"] \in Leaving THEN Gone(d)
  ELSE /\ at' = [at EXCEPT ![d]["main"] = "raised"]
       /\ peek' = [peek EXCEPT ![d]["main"] = FALSE]
       /\ frames' = [frames EXCEPT ![d] = <<>>]
       /\ UNCHANGED <<hostVars, fileVars, workVars, stopping, armed, pending>>

HandlerRaises(d) == MainRaises(d) /\ UNCHANGED sent

\* A bug to catch: stop does not raise is_stopping.
DeliverSilent(d) ==
  /\ proc[d] = "live" /\ pending[d] /\ at[d]["main"] # "paused"
  /\ pending' = [pending EXCEPT ![d] = FALSE]
  /\ frames' = [frames EXCEPT ![d] = <<[at |-> "seePid", target |-> NoProc]>> \o @]
  /\ UNCHANGED <<hostVars, fileVars, threadVars, workVars, stopping, armed, sent>>

\* Python runs the handler of a signal between two instructions of the main
\* thread, be it in another call of stop; never inside signal.pause().
Deliver(d) ==
  /\ proc[d] = "live" /\ pending[d] /\ at[d]["main"] # "paused"
  /\ pending' = [pending EXCEPT ![d] = FALSE]
  /\ stopping' = [stopping EXCEPT ![d] = TRUE]
  /\ frames' = [frames EXCEPT ![d] = <<[at |-> "seePid", target |-> NoProc]>> \o @]
  /\ UNCHANGED <<hostVars, fileVars, threadVars, workVars, armed, sent>>

SeePid(d) ==
  /\ HandlerStep(d, "seePid", IF pidFile = NoPid THEN "seeFile" ELSE "readPid")
  /\ UNCHANGED <<hostVars, fileVars, threadVars, workVars>>

\* The second half of self.pid, then psutil.Process(pid).
ReadPid(d) ==
  \/ /\ InHandler(d, "readPid") /\ pidFile # NoPid
     /\ frames' = [frames EXCEPT ![d][1] =
          [at |-> IF ProcAt(pidFile) = NoProc THEN "seeFile" ELSE "terminate",
           target |-> ProcAt(pidFile)]]
     /\ UNCHANGED <<hostVars, fileVars, threadVars, workVars, stopping, armed,
                    pending, sent>>
  \/ InHandler(d, "readPid") /\ pidFile = NoPid /\ HandlerRaises(d)

SigTerm(p) ==
  /\ proc' = [proc EXCEPT ![p] = IF @ = "killed" THEN @ ELSE "terminated"]
  /\ UNCHANGED port

\* p.terminate() raises NoSuchProcess once the process is gone.
Terminate(d) ==
  \/ /\ HandlerStep(d, "terminate", "await") /\ Live(Target(d))
     /\ SigTerm(Target(d))
     /\ UNCHANGED <<fileVars, threadVars, workVars>>
  \/ InHandler(d, "terminate") /\ ~Live(Target(d)) /\ HandlerRaises(d)

\* A bug to catch: a server that ignores SIGTERM is left alone.
AwaitOnly(d) ==
  /\ HandlerStep(d, "await", "seeFile")
  /\ UNCHANGED <<hostVars, fileVars, threadVars, workVars>>

\* p.wait(30) returns when the process is gone, or times out.
Await(d) ==
  /\ HandlerStep(d, "await", IF Live(Target(d)) THEN "kill" ELSE "seeFile")
  /\ UNCHANGED <<hostVars, fileVars, threadVars, workVars>>

\* p.kill() is not waited for.
KillTarget(d) ==
  \/ /\ HandlerStep(d, "kill", "seeFile") /\ Live(Target(d))
     /\ proc' = [proc EXCEPT ![Target(d)] = "killed"]
     /\ UNCHANGED <<port, fileVars, threadVars, workVars>>
  \/ InHandler(d, "kill") /\ ~Live(Target(d)) /\ HandlerRaises(d)

SeeFile(d) ==
  /\ HandlerStep(d, "seeFile", IF pidFile = NoPid THEN "rotate" ELSE "unlink")
  /\ UNCHANGED <<hostVars, fileVars, threadVars, workVars>>

UnlinkPidFile(d) ==
  \/ /\ pidFile # NoPid /\ HandlerStep(d, "unlink", "rotate")
     /\ pidFile' = NoPid
     /\ UNCHANGED <<hostVars, daemonPid, log, threadVars, workVars>>
  \/ InHandler(d, "unlink") /\ pidFile = NoPid /\ HandlerRaises(d)

StopRotatesLog(d) ==
  /\ HandlerStep(d, "rotate", IF log THEN "move" ELSE "join")
  /\ UNCHANGED <<hostVars, fileVars, threadVars, workVars>>

StopMovesLog(d) ==
  \/ /\ log /\ HandlerStep(d, "move", "join")
     /\ log' = FALSE
     /\ UNCHANGED <<hostVars, pidFile, daemonPid, threadVars, workVars>>
  \/ InHandler(d, "move") /\ ~log /\ HandlerRaises(d)

\* stop returns once the monitor is over.
Join(d) ==
  /\ InHandler(d, "join") /\ at[d]["monitor"] \in MonitorOver
  /\ frames' = [frames EXCEPT ![d] = Tail(@)]
  /\ UNCHANGED <<hostVars, fileVars, threadVars, workVars, stopping, armed,
                 pending, sent>>

Handler(d) ==
  \/ SeePid(d) \/ ReadPid(d) \/ Terminate(d) \/ Await(d) \/ KillTarget(d)
  \/ SeeFile(d) \/ UnlinkPidFile(d) \/ StopRotatesLog(d) \/ StopMovesLog(d)
  \/ Join(d)

-----------------------------------------------------------------------------
(* The life of a daemon.                                                   *)

\* The start script is at work; of a daemon that was killed, it still may be.
Booting(d) == script[d] \notin {"idle", "done"}

\* `sparglim-server start`; "overlap" lets it happen while another daemon lives or
\* the script of a dead one is at work.
Begin(d) ==
  /\ CanStart(d)
  /\ "overlap" \in Events \/ \A e \in Daemons : ~Live(e) /\ ~Booting(e)
  /\ proc' = [proc EXCEPT ![d] = "live"]
  /\ at' = [at EXCEPT ![d]["main"] = "check1"]
  /\ UNCHANGED <<port, fileVars, peek, workVars, stopVars>>

\* The interpreter exits when the main thread has left and the monitor is over.
Exit(d) ==
  /\ proc[d] = "live" /\ frames[d] = <<>>
  /\ at[d]["main"] \in Leaving /\ at[d]["monitor"] \in MonitorOver
  /\ Gone(d) /\ UNCHANGED sent

\* A signal that has a handler waits for it to run, and ends signal.pause().
Flag(d) ==
  /\ pending' = [pending EXCEPT ![d] = TRUE]
  /\ at' = [at EXCEPT ![d]["main"] = IF @ = "paused" THEN "woken" ELSE @]
  /\ UNCHANGED <<hostVars, fileVars, peek, workVars, stopping, armed, frames>>

\* Before its handler is installed SIGTERM ends the process and SIGINT raises
\* KeyboardInterrupt in the main thread.
SendTerm(d) == IF "term" \in armed[d] THEN Flag(d) ELSE Gone(d)
SendInt(d) == IF "int" \in armed[d] THEN Flag(d) ELSE MainRaises(d)

\* `sparglim-server stop` signals the process daemon.pid names, if any.
CliStop ==
  LET p == ProcAt(daemonPid)
  IN  /\ daemonPid # NoPid /\ p # NoProc
      /\ \/ p \in Daemons /\ SendTerm(p)
         \/ /\ p \notin Daemons /\ SigTerm(p)
            /\ UNCHANGED <<fileVars, threadVars, workVars, stopping, armed,
                           pending, frames>>

Send ==
  /\ sent < MaxSignals /\ sent' = sent + 1
  /\ \/ "cli" \in Events /\ CliStop
     \/ \E d \in Daemons : /\ proc[d] = "live"
                           /\ \/ "term" \in Events /\ SendTerm(d)
                              \/ "int" \in Events /\ SendInt(d)

-----------------------------------------------------------------------------
(* What the environment does.                                              *)

Watching(d, p) == watch[d] = p /\ at[d]["monitor"] \in {"sleep", "compare", "probe"}

\* bound: a server dies by itself, and the machine restarts, only while another
\* server can be started.
Spare == \E s \in Servers : proc[s] = "unborn"

\* "crash" is the death of a server a monitor watches, "flap" that of any.
Crash(p) ==
  /\ proc[p] = "live"
  /\ \/ p \in Strangers
     \/ /\ p \in Servers /\ Spare
        /\ \/ "flap" \in Events
           \/ "crash" \in Events /\ \E d \in Daemons : Watching(d, p)
  /\ Dies(p)

daemonVars == <<fileVars, threadVars, workVars, stopVars>>

HostStep ==
  /\ \/ \E s \in Servers : Bind(s) \/ BindFails(s)
     \/ \E p \in Servers \cup Strangers : Reaped(p) \/ ShutsDown(p) \/ Crash(p)
     \/ \E p \in Strangers : StrangerArrives(p)
     \/ PortFreed
  /\ UNCHANGED daemonVars

\* SIGKILL, or the OOM killer, takes a daemon; as "killBoot" also one whose start
\* script is still running.
Kill(d) ==
  /\ proc[d] = "live"
  /\ "killBoot" \in Events \/ ("kill" \in Events /\ script[d] = "idle")
  /\ Gone(d) /\ UNCHANGED sent

\* The machine restarts: every process is gone, the files of root_dir remain.
Reboot ==
  /\ "reboot" \in Events /\ Spare /\ \E p \in Procs : Live(p)
  /\ proc' = [p \in Procs |-> IF proc[p] = "unborn" THEN "unborn" ELSE "dead"]
  /\ port' = NoProc
  /\ at' = [d \in Daemons |-> Off]
  /\ peek' = [d \in Daemons |-> NoPeek]
  /\ script' = [d \in Daemons |-> "idle"]
  /\ watch' = [d \in Daemons |-> NoProc]
  /\ tail' = [d \in Daemons |-> NoProc]
  /\ stopping' = [d \in Daemons |-> FALSE]
  /\ armed' = [d \in Daemons |-> {}]
  /\ pending' = [d \in Daemons |-> FALSE]
  /\ frames' = [d \in Daemons |-> <<>>]
  /\ UNCHANGED <<fileVars, sent>>

DaemonStep(d) ==
  \/ MainStep(d) \/ MonitorStep(d) \/ Script(d) \/ Deliver(d) \/ Handler(d)
  \/ Begin(d) \/ Exit(d) \/ Kill(d)

Next == (\E d \in Daemons : DaemonStep(d)) \/ Send \/ HostStep \/ Reboot

Spec == Init /\ [][Next]_vars

\* Threads, handlers and the script run whenever they can, the kernel reaps what
\* was killed and frees the port, a booting server binds or fails.  Nothing is
\* promised about signals, crashes, launches, or a server obeying SIGTERM.
Fairness ==
  /\ \A d \in Daemons :
       /\ WF_vars(MainStep(d)) /\ WF_vars(MonitorStep(d)) /\ WF_vars(Script(d))
       /\ WF_vars(Deliver(d)) /\ WF_vars(Handler(d)) /\ WF_vars(Exit(d))
  /\ \A s \in Servers : 
       WF_vars((Bind(s) \/ BindFails(s)) /\ UNCHANGED daemonVars)
  /\ \A p \in Servers \cup Strangers :
       WF_vars(Reaped(p) /\ UNCHANGED daemonVars)
  /\ WF_vars(PortFreed /\ UNCHANGED daemonVars)

FairSpec == Spec /\ Fairness

-----------------------------------------------------------------------------

(* Properties.                                                             *)

\* "This will not start duplicate connect server": no two servers of a root_dir
\* are alive together, whichever thread started them and whatever the other
\* thread, a signal or a crash does meanwhile.
NoDuplicateServer ==
  \A r, s \in Servers : Live(r) /\ Live(s) => r = s

\* The servers of a root_dir live one after the other, as ServerSlot says: a
\* server is spawned only once its predecessor is gone, dead and not just killed.
LiveServer ==
  IF \E s \in Servers : Live(s) THEN CHOOSE s \in Servers : Live(s) ELSE NoProc
Unborn == {s \in Servers : proc[s] = "unborn"}

Slot == INSTANCE ServerSlot WITH current <- LiveServer, fresh <- Unborn
ImplementsSlot == Slot!Spec

\* As long as nobody stops the daemon, the pid file names the process its monitor
\* watches, so a clean stop finds the server the monitor restarts.
PidFileNamesWatched ==
  \A d \in Daemons :
    ~stopping[d] /\ at[d]["monitor"] \in {"sleep", "compare", "probe"}
      => pidFile = PidOf[watch[d]]

\* The process the monitor watches is the one whose log is shown, through restarts.
WatchedIsTailed ==
  \A d \in Daemons, p \in Procs : Watching(d, p) => tail[d] = p

\* A server still runs once stop has returned only if the monitor was past its check of
\* is_stopping when stop was called, on the way to a restart or in one: before that check
\* there is no server but that of the pid file, which stop ends, and there will be none.
\* This holds after any number of restarts, in nested calls, and if the server ignores
\* SIGTERM.
StopBegins(d) == InHandler(d, "seePid") /\ pidFile # NoPid
StopReturned(d) == proc[d] = "live" /\ frames[d] = <<>> /\ at[d]["main"] # "raised"
Rests(d) == at[d]["monitor"] \in {"sleep", "quit", "ended", "raised"}
Runs(s) == proc[s] \in {"live", "terminated"}

OnlyARestartSurvivesStop ==
  \A d \in Daemons :
    [](StopBegins(d) /\ Rests(d) => [](StopReturned(d) => \A s \in Servers : ~Runs(s)))

\* A signal that ends signal.pause() ends the process, whatever the monitor and
\* further signals do meanwhile, and also if the server ignores SIGTERM.
StopEnds ==
  \A d \in Daemons : at[d]["main"] = "woken" ~> proc[d] = "dead"

\* A start ends in a monitor watching a live server, which it starts or adopts,
\* also after the death of an earlier daemon or of the whole machine.
StartSupervises ==
  \A d \in Daemons :
    at[d]["main"] = "check1"
      ~> proc[d] = "dead" \/ \E s \in Servers : Watching(d, s) /\ Live(s)

\* ... and never fails or declines, though it meets whatever its predecessors left:
\* a running server or the pid of a dead one, a log, a stale daemon.pid.
StartSucceeds ==
  \A d \in Daemons : at[d]["main"] \notin {"raised", "declined"}

\* A watched server that dies is replaced by one that is watched and serves.
Recovers ==
  \A d \in Daemons, s \in Servers :
    Watching(d, s) /\ proc[s] = "dead"
      ~> proc[d] = "dead" \/ \E r \in Servers : Watching(d, r) /\ port = r

-----------------------------------------------------------------------------
(* What comments of the code say, and the code does not always do.         *)

\* "Stop the daemon when the KeyboardInterrupt is raised": a signal whose handler
\* is installed stops the daemon.
SignalStops ==
  \A d \in Daemons : pending[d] ~> proc[d] = "dead"

\* "if it is down, restart it": a monitor that finds its server dead ends up
\* watching a live one.
RestartsWhenDown ==
  \A d \in Daemons :
    at[d]["monitor"] = "rotate"
      ~> proc[d] = "dead" \/ \E s \in Servers : Watching(d, s) /\ Live(s)

\* "assume server stopped by self.stop()": when the daemon has stopped, so has
\* the server.
StoppedServerIsDown ==
  \A d \in Daemons, s \in Servers :
    at[d]["main"] = "done" => proc[s] \notin {"live", "terminated"}

\* "Stop the daemon by pid": `sparglim-server stop` finds the daemon that waits
\* for a signal through daemon.pid.
StopReachesDaemon ==
  \A d \in Daemons : at[d]["main"] = "paused" => daemonPid = PidOf[d]

=============================================================================
