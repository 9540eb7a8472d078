----------------------------- MODULE SlotProofs ------------------------------
(***************************************************************************)
(* A single daemon implements ServerSlot: but for the start script, which  *)
(* spawns a server when none is alive, every step leaves the servers as    *)
(* they are or ends some of them.  And it leaves none alive when it has    *)
(* been stopped, unless its monitor was in a restart when stop was called. *)
(***************************************************************************)
EXTENDS FollowProofs

\* A step that starts no server, and leaves those condemned that were sent SIGKILL.
OnlyDeaths ==
  \A s \in Servers : /\ Live(s)' => Live(s)
                     /\ proc'[s] = "unborn" <=> proc[s] = "unborn"
                     /\ proc'[s] \in {"live", "terminated"} => proc[s] \in {"live", "terminated"}

LEMMA SameIsNoStart == UNCHANGED proc => OnlyDeaths
BY DEF OnlyDeaths, Live

\* Who dies was alive, and who is signalled is.
LEMMA DeathIsNoStart ==
  ASSUME TypeOK, NEW p \in Procs, Live(p) \/ p \notin Servers,
         NEW l \in Lives \ {"unborn"}, l # "live" \/ p \notin Servers,
         l = "terminated" => proc[p] # "killed",
         proc' = [proc EXCEPT ![p] = l]
  PROVE  OnlyDeaths
BY DEF TypeOK, HostTypeOK, Lives, OnlyDeaths, Live, Procs

LEMMA DaemonIsNoServer == Daemons \subseteq Procs \ Servers /\ Strangers \subseteq Procs \ Servers
BY ProcAssumption DEF Procs

LEMMA GoneIsNoStart ==
  ASSUME TypeOK, NEW d \in Daemons, Gone(d)
  PROVE  OnlyDeaths
BY DaemonIsNoServer, DeathIsNoStart DEF Gone, Dies, Lives

LEMMA RaiseIsNoStart ==
  ASSUME TypeOK, NEW d \in Daemons, MainRaises(d)
  PROVE  OnlyDeaths
BY GoneIsNoStart, SameIsNoStart DEF MainRaises, hostVars

LEMMA SignalIsNoStart ==
  ASSUME TypeOK, NEW p \in Procs, Live(p),
         SigTerm(p) \/ proc' = [proc EXCEPT ![p] = "killed"]
  PROVE  OnlyDeaths
<1>1. \E l \in {"terminated", "killed"} :
        proc' = [proc EXCEPT ![p] = l] /\ (l = "terminated" => proc[p] # "killed")
  BY DEF SigTerm, TypeOK, HostTypeOK
<1> QED  BY <1>1, DeathIsNoStart DEF Lives

LEMMA ThreadsStartNoServer ==
  ASSUME NEW d \in Daemons, MainStep(d) \/ MonitorStep(d)
  PROVE  OnlyDeaths
<1> USE DEF hostVars
<1>1. ASSUME NEW t, Start(d, t) \/ Peek(d, t) \/ ReadFails(d, t)
      PROVE  UNCHANGED proc
  BY <1>1 DEF Start, RotateLog, MoveLog, CheckPort, Popen, Wait, AssertPid, AssertLog,
       Peek, ReadFails
<1>2. CASE MainStep(d)
  BY <1>1, <1>2, SameIsNoStart DEF MainStep, Check1, Check2, CheckDaemon, ReadDaemon,
       WriteDaemon, Launch, InstallHandlers, Install, Pause, Unlink
<1>3. CASE MonitorStep(d)
  BY <1>1, <1>3, SameIsNoStart DEF MonitorStep, Wake, Compare, Probe, Rewatch, Retail, Quit
<1> QED  BY <1>2, <1>3

LEMMA HandlerStartsNoServer ==
  ASSUME TypeOK, NEW d \in Daemons, Deliver(d) \/ Handler(d)
  PROVE  OnlyDeaths
<1>1. CASE UNCHANGED proc \/ HandlerRaises(d)
  BY <1>1, SameIsNoStart, RaiseIsNoStart DEF HandlerRaises
<1>2. CASE Terminate(d) \/ KillTarget(d)
  <2>1. CASE Live(Target(d)) /\ Target(d) \in Procs
    BY <1>1, <1>2, <2>1, SignalIsNoStart DEF Terminate, KillTarget
  <2>2. CASE Target(d) \notin Procs
    BY <1>1, <1>2, <2>2 DEF Terminate, KillTarget, SigTerm, TypeOK, HostTypeOK
  <2> QED  BY <1>1, <1>2, <2>1, <2>2 DEF Terminate, KillTarget
<1>3. CASE ~(Terminate(d) \/ KillTarget(d))
  <2>1. UNCHANGED proc \/ HandlerRaises(d)
    BY <1>3 DEF hostVars, Deliver, Handler, SeePid, ReadPid, Await, SeeFile, UnlinkPidFile,
         StopRotatesLog, StopMovesLog, Join
  <2> QED  BY <1>1, <2>1
<1> QED  BY <1>2, <1>3

LEMMA LifeStartsNoServer ==
  ASSUME TypeOK, NEW d \in Daemons, Begin(d) \/ Exit(d) \/ Kill(d)
  PROVE  OnlyDeaths
<1>1. CASE Begin(d)
  BY <1>1, DaemonIsNoServer, DeathIsNoStart DEF Begin, Lives
<1>2. CASE Exit(d) \/ Kill(d)
  BY <1>2, GoneIsNoStart DEF Exit, Kill
<1> QED  BY <1>1, <1>2

LEMMA SendStartsNoServer ==
  ASSUME TypeOK, Send
  PROVE  OnlyDeaths
<1>1. ASSUME NEW d \in Daemons, SendTerm(d) \/ SendInt(d)
      PROVE  OnlyDeaths
  BY <1>1, GoneIsNoStart, RaiseIsNoStart, SameIsNoStart DEF SendTerm, SendInt, Flag, hostVars
<1>2. CASE CliStop
  <2>1. CASE ProcAt(daemonPid) \in Daemons
    BY <1>1, <1>2, <2>1 DEF CliStop
  <2>2. CASE ProcAt(daemonPid) \notin Daemons
    <3>1. SigTerm(ProcAt(daemonPid)) /\ Live(ProcAt(daemonPid)) /\ ProcAt(daemonPid) \in Procs
      BY <1>2, <2>2, ProcAtType DEF CliStop
    <3> QED  BY <3>1, SignalIsNoStart
  <2> QED  BY <2>1, <2>2
<1> QED  BY <1>1, <1>2 DEF Send

LEMMA HostStartsNoServer ==
  ASSUME TypeOK, HostStep \/ Reboot
  PROVE  OnlyDeaths
<1>1. CASE Reboot
  BY <1>1 DEF Reboot, OnlyDeaths, Live, Procs
<1>2. CASE UNCHANGED proc
  BY <1>2, SameIsNoStart
<1>3. ASSUME NEW p \in Servers \cup Strangers, Live(p), Dies(p)
      PROVE  OnlyDeaths
  BY <1>3, DeathIsNoStart DEF Dies, Lives, Procs
<1>4. ASSUME NEW p \in Strangers, StrangerArrives(p)
      PROVE  OnlyDeaths
  BY <1>4, DaemonIsNoServer, DeathIsNoStart DEF StrangerArrives, Lives
<1> QED  BY <1>1, <1>2, <1>3, <1>4
         DEF HostStep, Bind, BindFails, Reaped, ShutsDown, Crash, PortFreed, Live

\* Servers are started by the start script only.
LEMMA OnlyTheScriptStarts ==
  ASSUME TypeOK, [Next]_vars
  PROVE  OnlyDeaths \/ \E d \in Daemons, s \in Servers : ScriptSpawns(d, s)
<1>1. ASSUME NEW d \in Daemons, Script(d), ~\E s \in Servers : ScriptSpawns(d, s)
      PROVE  OnlyDeaths
  BY <1>1, SameIsNoStart DEF Script, ScriptRefuses, ScriptRecords, hostVars
<1>2. CASE UNCHANGED vars
  BY <1>2, SameIsNoStart DEF vars, hostVars
<1> QED  BY <1>1, <1>2, ThreadsStartNoServer, HandlerStartsNoServer, LifeStartsNoServer,
            SendStartsNoServer, HostStartsNoServer DEF Next, DaemonStep

\* The slot holds the server that is alive.
LEMMA SlotHolds ==
  ASSUME NEW s \in Servers
  PROVE  /\ NoDuplicateServer /\ Live(s) => LiveServer = s
         /\ NoDuplicateServer' /\ Live(s)' => LiveServer' = s
         /\ NoneLive => LiveServer = NoProc
         /\ NoneLive' => LiveServer' = NoProc
BY DEF NoDuplicateServer, LiveServer, NoneLive

LEMMA DeathsAreSlotSteps ==
  ASSUME NoDuplicateServer, NoDuplicateServer', OnlyDeaths
  PROVE  [Slot!Next]_Slot!vars
<1> USE DEF Slot!vars
<1>1. UNCHANGED Unborn
  BY DEF OnlyDeaths, Unborn
<1>2. CASE NoneLive'
  <2>1. LiveServer' = NoProc
    BY <1>2 DEF NoneLive, LiveServer
  <2>2. CASE LiveServer = NoProc
    BY <1>1, <2>1, <2>2
  <2>3. CASE LiveServer # NoProc
    BY <1>1, <2>1, <2>3 DEF Slot!Next, Slot!Die
  <2> QED  BY <2>2, <2>3
<1>3. CASE ~NoneLive'
  <2>1. PICK s \in Servers : Live(s)'
    BY <1>3 DEF NoneLive
  <2>2. LiveServer = s /\ LiveServer' = s
    BY <2>1, SlotHolds DEF OnlyDeaths
  <2> QED  BY <1>1, <2>2
<1> QED  BY <1>2, <1>3

LEMMA SpawnFillsSlot ==
  ASSUME TypeOK, NoDuplicateServer, NoDuplicateServer', NEW d \in Daemons, NEW s \in Servers,
         ScriptSpawns(d, s), script[d] = "running" => NoneLive
  PROVE  Slot!Start(s)
<1>1. NoneLive /\ proc[s] = "unborn"
  BY DEF ScriptSpawns, CanStart
<1>2. proc'[s] = "live" /\ \A p \in Servers \ {s} : proc'[p] = proc[p]
  BY DEF TypeOK, HostTypeOK, ScriptSpawns, Procs
<1>3. LiveServer = NoProc /\ LiveServer' = s
  BY <1>1, <1>2, SlotHolds DEF Live
<1>4. Unborn' = Unborn \ {s} /\ s \in Unborn
  BY <1>1, <1>2 DEF Unborn
<1> QED  BY <1>3, <1>4 DEF Slot!Start

\* The servers of a single daemon come one after the other, each started once and
\* only when the one before it is dead: start_and_daemon and the monitor implement
\* ServerSlot.
THEOREM OneDaemonImplementsSlot ==
  ASSUME NEW d, Daemons = {d}
  PROVE  Spec => ImplementsSlot
<1>1. Init => Slot!Init
  BY DEF Init, HostInit, Slot!Init, LiveServer, Unborn, Live, Procs
<1>2. TypeOK /\ SlotInv /\ SlotInv' /\ [Next]_vars => [Slot!Next]_Slot!vars
  <2> SUFFICES ASSUME TypeOK, SlotInv, SlotInv', [Next]_vars
               PROVE  [Slot!Next]_Slot!vars
    OBVIOUS
  <2>1. CASE OnlyDeaths
    BY <2>1, DeathsAreSlotSteps DEF SlotInv
  <2>2. CASE \E e \in Daemons, s \in Servers : ScriptSpawns(e, s)
    BY <2>2, SpawnFillsSlot DEF SlotInv, ScriptKnows, Slot!Next
  <2> QED  BY <2>1, <2>2, OnlyTheScriptStarts
<1>3. Spec => []SlotInv
  BY OneServer, PTL
<1> QED  BY <1>1, <1>2, <1>3, TypeCorrect, PTL DEF Spec, ImplementsSlot, Slot!Spec

-----------------------------------------------------------------------------
(* What a stop leaves running.                                             *)

LEMMA StopPremises ==
  ASSUME TypeOK, SlotInv, StopInv, NEW d, Daemons = {d}
  PROVE  /\ AtTypeOK /\ d \in Daemons /\ "main" \in Threads /\ "monitor" \in Threads
         /\ watch \in [Daemons -> Procs \cup {NoProc}]
         /\ script \in [Daemons -> ScriptStates \cup Servers]
         /\ pending \in [Daemons -> BOOLEAN] /\ frames \in [Daemons -> Seq(Frame)]
         /\ PidsDistinct /\ Control(d) /\ RecordedIsBorn /\ SpawnedIsRecorded
         /\ at[d]["main"] \in Past /\ NoneDied => Condemns(d)
BY DEF TypeOK, WorkTypeOK, StopTypeOK, SlotInv, StopInv, Threads

\* No server comes back or is pardoned.
LEMMA DeathsKeep ==
  ASSUME TypeOK, TypeOK', OnlyDeaths
  PROVE  /\ NoneDied' => NoneDied
         /\ Condemned => Condemned'
         /\ \A p : Born(p) => Born(p)'
<1>1. proc \in [Procs -> Lives] /\ proc' \in [Procs -> Lives] /\ Servers \subseteq Procs
  BY DEF TypeOK, HostTypeOK, Procs
<1> QED  BY <1>1 DEF OnlyDeaths, NoneDied, Condemned, Born, Lives, Live

LEMMA BornIsLive ==
  ASSUME TypeOK, NoneDied, NEW p, Born(p)
  PROVE  Live(p) /\ p \in Procs
BY DEF TypeOK, HostTypeOK, NoneDied, Born, Lives, Live, Procs

\* As long as no server has died, the pid file leads to a server.
LEMMA RecordFound ==
  ASSUME TypeOK, PidsDistinct, RecordedIsBorn, NoneDied, pidFile # NoPid
  PROVE  Born(ProcAt(pidFile))
<1>1. PICK s \in Servers : pidFile = PidOf[s] /\ Born(s)
  BY DEF RecordedIsBorn
<1> QED  BY <1>1, BornIsLive, ProcAtFinds

\* A script runs for a thread that waits for it, and then no stop is under way in which
\* no server has died.
LEMMA NoScriptPast ==
  ASSUME TypeOK, SlotInv, StopInv, NEW d, Daemons = {d}, at[d]["main"] \in Past, NoneDied
  PROVE  script[d] = "idle"
BY StopPremises DEF Control, Condemns, Past, MonitorOver

\* Only the script writes the pid file.
LEMMA RecordStays ==
  ASSUME TypeOK, TypeOK', RecordedIsBorn, OnlyDeaths,
         pidFile' \in {NoPid, pidFile},
         \A e \in Daemons : script'[e] \in Servers => script'[e] = script[e]
  PROVE  RecordedIsBorn'
BY DeathsKeep DEF RecordedIsBorn

\* A step in which the threads stay, and in which stop at most takes the pid file away.
LEMMA CondemnsStays ==
  ASSUME TypeOK, TypeOK', OnlyDeaths, NEW d, Condemns(d),
         UNCHANGED <<at, watch, frames>>, pidFile' = pidFile \/ Condemned,
         pending'[d] = pending[d]
  PROVE  Condemns(d)'
<1>1. \A i \in DOMAIN frames[d] : FrameKnows(frames[d][i])'
  BY DeathsKeep DEF Condemns, FrameKnows
<1> QED  BY <1>1, DeathsKeep DEF Condemns

\* The main thread moves: there is no call of stop under way.
LEMMA MainCondemns ==
  ASSUME TypeOK, SlotInv, StopInv, NEW d, Daemons = {d}, NEW from, NEW to,
         Step(d, "main", from, to), UNCHANGED <<proc, pidFile, watch, pending, frames>>,
         \/ from \in Past
         \/ at[d]["monitor"] = "off" /\ (to \in Past => pidFile # NoPid),
         to \notin {"woken", "done"} \/ (from = "woken" /\ ~pending[d])
  PROVE  at'[d]["main"] \in Past /\ NoneDied' => Condemns(d)'
<1>1. /\ at[d]["main"] = from /\ at'[d]["main"] = to
      /\ at'[d]["monitor"] = at[d]["monitor"] /\ frames[d] = <<>>
  <2>1. frames[d] = <<>>
    BY DEF Step, At
  <2> QED  BY <2>1, StopPremises, StepMoves
<1>2. (NoneDied' <=> NoneDied) /\ (Condemned' <=> Condemned) /\ \A p : Born(p)' <=> Born(p)
  BY DEF NoneDied, Condemned, Born
<1>3. DOMAIN frames'[d] = {}
  BY <1>1
<1>4. CASE from \in Past
  BY <1>1, <1>2, <1>3, <1>4, StopPremises DEF Condemns
<1>5. CASE from \notin Past
  BY <1>1, <1>2, <1>3, <1>5 DEF Condemns, MonitorOver, Past
<1> QED  BY <1>4, <1>5

LEMMA StartCondemns ==
  ASSUME TypeOK, SlotInv, StopInv, NEW d, Daemons = {d},
         Start(d, "main") \/ Peek(d, "main") \/ ReadFails(d, "main")
  PROVE  at'[d]["main"] \in Past /\ NoneDied' => Condemns(d)'
<1> USE DEF hostVars, fileVars, workVars, stopVars, PidStep, Past
<1>a. at[d]["main"] \notin Past \cup {"raised"} => at[d]["monitor"] = "off"
  BY StopPremises DEF Control, Started
<1>1. CASE RotateLog(d, "main")
  BY <1>1, <1>a, StopPremises, StepMoves DEF RotateLog
<1>2. CASE MoveLog(d, "main")
  BY <1>2, <1>a, StopPremises, StepMoves DEF MoveLog
<1>3. CASE CheckPort(d, "main")
  BY <1>3, <1>a, StopPremises, StepMoves DEF CheckPort
<1>4. CASE Popen(d, "main") \/ Wait(d, "main")
  BY <1>4, <1>a, StopPremises, StepMoves DEF Popen, Wait
<1>5. CASE AssertPid(d, "main")
  <2>1. /\ Step(d, "main", "assertPid", IF pidFile = NoPid THEN "raised" ELSE "assertLog")
        /\ UNCHANGED <<proc, pidFile, watch, pending, frames>> /\ at[d]["main"] = "assertPid"
    BY <1>5, StopPremises, StepMoves DEF AssertPid
  <2> QED  BY <2>1, <1>a, MainCondemns
<1>6. CASE AssertLog(d, "main")
  <2>1. /\ Step(d, "main", "assertLog", IF log THEN "dcheck" ELSE "raised")
        /\ UNCHANGED <<proc, pidFile, watch, pending, frames>>
    BY <1>6 DEF AssertLog, AfterStart
  <2> QED  BY <2>1, MainCondemns
<1>7. CASE Peek(d, "main")
  <2>1. UNCHANGED <<proc, pidFile, watch, pending, frames, at>>
    BY <1>7 DEF Peek
  <2> QED  BY <2>1, StopPremises
           DEF Condemns, FrameKnows, NoneDied, Condemned, Born
<1>8. CASE ReadFails(d, "main")
  BY <1>8, StopPremises, StepMoves DEF ReadFails
<1> QED  BY <1>1, <1>2, <1>3, <1>4, <1>5, <1>6, <1>7, <1>8 DEF Start

LEMMA MainStepCondemns ==
  ASSUME TypeOK, SlotInv, StopInv, NEW d, Daemons = {d}, MainStep(d)
  PROVE  at'[d]["main"] \in Past /\ NoneDied' => Condemns(d)'
<1> USE DEF hostVars, fileVars, workVars, stopVars, PidStep, Past
<1>a. at[d]["main"] \notin Past \cup {"raised"} => at[d]["monitor"] = "off"
  BY StopPremises DEF Control, Started
<1>1. CASE Start(d, "main") \/ Peek(d, "main") \/ ReadFails(d, "main")
  BY <1>1, StartCondemns
<1>2. CASE Check1(d)
  BY <1>2, StopPremises, StepMoves DEF Check1
<1>3. CASE Check2(d)
  <2> DEFINE to == IF pidFile = NoPid THEN "raised"
                   ELSE IF PidExists(pidFile) THEN "dcheck" ELSE "rotate"
  <2>1. /\ Step(d, "main", "check2", to) /\ at[d]["main"] = "check2"
        /\ UNCHANGED <<proc, pidFile, watch, pending, frames>>
    BY <1>3, StopPremises, StepMoves DEF Check2
  <2> QED  BY <2>1, <1>a, MainCondemns
<1>4. CASE CheckDaemon(d)
  BY <1>4, MainCondemns DEF CheckDaemon
<1>5. CASE ReadDaemon(d)
  <2> DEFINE to == IF daemonPid = NoPid THEN "raised"
                   ELSE IF PidExists(daemonPid) THEN "declined" ELSE "launch"
  <2>1. /\ Step(d, "main", "dread", to)
        /\ UNCHANGED <<proc, pidFile, watch, pending, frames>>
    BY <1>5 DEF ReadDaemon
  <2> QED  BY <2>1, MainCondemns
<1>6. CASE WriteDaemon(d)
  BY <1>6, MainCondemns DEF WriteDaemon
<1>7. CASE Launch(d)
  <2>1. /\ at[d]["main"] = "launch" /\ frames[d] = <<>> /\ watch'[d] = Watchable
        /\ UNCHANGED <<proc, pidFile, frames>>
    BY <1>7, StopPremises DEF Launch, At
  <2>2. CASE Watchable = NoProc
    BY <1>7, <2>2, StopPremises DEF Launch, AtTypeOK, Threads
  <2>3. CASE Watchable # NoProc
    <3>1. at'[d]["main"] = "installInt" /\ at'[d]["monitor"] = "sleep"
      BY <1>7, <2>3, StopPremises DEF Launch, AtTypeOK, Threads
    <3>2. NoneDied => Born(Watchable)
      BY <2>3, StopPremises, RecordFound DEF Watchable
    <3>3. DOMAIN frames'[d] = {} /\ pidFile' # NoPid
      BY <2>1, <2>3 DEF Watchable
    <3>4. (NoneDied' <=> NoneDied) /\ \A p : Born(p)' <=> Born(p)
      BY <2>1 DEF NoneDied, Born
    <3> QED  BY <2>1, <3>1, <3>2, <3>3, <3>4 DEF Condemns
  <2> QED  BY <2>2, <2>3
<1>8. CASE InstallHandlers(d)
  BY <1>8, MainCondemns DEF InstallHandlers, Install
<1>9. CASE Pause(d)
  BY <1>9, MainCondemns DEF Pause
<1>10. CASE Unlink(d)
  BY <1>10, MainCondemns DEF Unlink
<1> QED  BY <1>1, <1>2, <1>3, <1>4, <1>5, <1>6, <1>7, <1>8, <1>9, <1>10 DEF MainStep

\* The server it watches is alive, so the monitor does not restart it.
LEMMA MonitorCondemns ==
  ASSUME TypeOK, SlotInv, StopInv, NEW d, Daemons = {d}, MonitorStep(d)
  PROVE  at'[d]["main"] \in Past /\ NoneDied' => Condemns(d)'
<1> USE DEF hostVars, fileVars, workVars, stopVars, PidStep
<1>1. UNCHANGED <<proc, pidFile, pending, frames>> /\ at'[d]["main"] = at[d]["main"]
  <2>1. UNCHANGED <<proc, pidFile, pending, frames>>
    BY DEF MonitorStep, Wake, Compare, Probe, Rewatch, Retail, Quit, Peek, ReadFails,
         Start, RotateLog, MoveLog, CheckPort, Popen, Wait, AssertPid, AssertLog
  <2>2. CASE Peek(d, "monitor")
    BY <2>1, <2>2 DEF Peek
  <2>3. CASE ~Peek(d, "monitor")
    <3>1. \E from, to : Step(d, "monitor", from, to)
      BY <2>3 DEF MonitorStep, Wake, Compare, Probe, Rewatch, Retail, Quit, ReadFails,
           Start, RotateLog, MoveLog, CheckPort, Popen, Wait, AssertPid, AssertLog
    <3> QED  BY <2>1, <3>1, StopPremises, StepMoves
  <2> QED  BY <2>2, <2>3
<1>2. SUFFICES ASSUME at[d]["main"] \in Past, NoneDied PROVE Condemns(d)'
  BY <1>1 DEF NoneDied
<1>3. Condemns(d) /\ AtTypeOK
  BY <1>2, StopPremises
<1>4. (Condemned' <=> Condemned) /\ \A p : Born(p)' <=> Born(p)
  BY <1>1 DEF Condemned, Born
<1>5. (\A i \in DOMAIN frames[d] : FrameKnows(frames[d][i]))'
  BY <1>1, <1>3, <1>4 DEF Condemns, FrameKnows
<1>6. ASSUME UNCHANGED watch,
             \/ at'[d]["monitor"] \in MonitorOver \cup {"quit"}
             \/ at[d]["monitor"] \in {"sleep", "compare", "probe"}
                /\ at'[d]["monitor"] \in {"sleep", "compare", "probe"}
      PROVE  Condemns(d)'
  BY <1>1, <1>3, <1>4, <1>5, <1>6 DEF Condemns, MonitorOver
<1>7. ~Start(d, "monitor") /\ ~Rewatch(d) /\ ~Retail(d)
  BY <1>3, StepMoves DEF Condemns, MonitorOver, Start, RotateLog, MoveLog, CheckPort, Popen,
       Wait, AssertPid, AssertLog, Rewatch, Retail
<1>8. CASE Wake(d)
  <2>1. UNCHANGED watch /\ at[d]["monitor"] = "sleep" /\ at'[d]["monitor"] \in {"quit", "compare"}
    BY <1>8, <1>3, StepMoves DEF Wake
  <2> QED  BY <2>1, <1>6
<1>9. CASE Compare(d)
  <2>1. UNCHANGED watch /\ at[d]["monitor"] = "compare" /\ at'[d]["monitor"] \in {"quit", "probe"}
    BY <1>9, <1>3, StepMoves DEF Compare
  <2> QED  BY <2>1, <1>6
<1>10. CASE Probe(d)
  <2>1. UNCHANGED watch /\ at[d]["monitor"] = "probe"
        /\ at'[d]["monitor"] = IF Live(watch[d]) THEN "sleep" ELSE "rotate"
    BY <1>10, <1>3, StepMoves DEF Probe, IsRunning
  <2>2. Live(watch[d])
    BY <1>2, <1>3, <2>1, BornIsLive DEF Condemns
  <2> QED  BY <2>1, <2>2, <1>6
<1>11. CASE Quit(d) \/ ReadFails(d, "monitor")
  <2>1. UNCHANGED watch /\ at'[d]["monitor"] \in {"ended", "raised"}
    BY <1>11, <1>3, StepMoves DEF Quit, ReadFails
  <2> QED  BY <2>1, <1>6 DEF MonitorOver
<1>12. CASE Peek(d, "monitor")
  <2>1. UNCHANGED <<watch, at>>
    BY <1>12 DEF Peek
  <2> QED  BY <1>1, <1>3, <1>4, <1>5, <2>1 DEF Condemns
<1> QED  BY <1>7, <1>8, <1>9, <1>10, <1>11, <1>12 DEF MonitorStep

\* The innermost call of stop moves on.
LEMMA TopMoves ==
  ASSUME frames \in [Daemons -> Seq(Frame)], NEW d \in Daemons, frames[d] # <<>>,
         NEW top, frames' = [frames EXCEPT ![d][1] = top]
  PROVE  /\ 1 \in DOMAIN frames[d] /\ DOMAIN frames'[d] = DOMAIN frames[d]
         /\ frames'[d] # <<>> /\ frames'[d][1] = top
         /\ \A i \in DOMAIN frames[d] \ {1} : frames'[d][i] = frames[d][i]
<1>1. frames[d] \in Seq(Frame) /\ 1 \in DOMAIN frames[d]
  BY LenProperties
<1>2. frames'[d] = [frames[d] EXCEPT ![1] = top]
  OBVIOUS
<1> QED  BY <1>1, <1>2

LEMMA TopCondemns ==
  ASSUME TypeOK, TypeOK', OnlyDeaths, NEW d \in Daemons, Condemns(d), frames[d] # <<>>,
         NEW top, frames' = [frames EXCEPT ![d][1] = top],
         UNCHANGED <<at, watch, pending>>, pidFile' = pidFile \/ Condemned,
         top.at \in {"terminate", "await", "kill"} => Born(top.target)',
         top.at \in {"seeFile", "unlink", "rotate", "move", "join"} => Condemned'
  PROVE  Condemns(d)'
<1>1. frames \in [Daemons -> Seq(Frame)]
  BY DEF TypeOK, StopTypeOK
<1>2. (\A i \in DOMAIN frames[d] : FrameKnows(frames[d][i]))'
  BY <1>1, TopMoves, DeathsKeep DEF Condemns, FrameKnows
<1>3. frames'[d] # <<>>
  BY <1>1, TopMoves
<1> QED  BY <1>2, <1>3, DeathsKeep DEF Condemns

LEMMA HandlerCondemns ==
  ASSUME TypeOK, TypeOK', SlotInv, StopInv, NEW d, Daemons = {d}, Deliver(d) \/ Handler(d)
  PROVE  at'[d]["main"] \in Past /\ NoneDied' => Condemns(d)'
<1> USE DEF hostVars, fileVars, threadVars, workVars
<1>a. OnlyDeaths /\ d \in Daemons /\ AtTypeOK
  BY StopPremises, HandlerStartsNoServer
<1>1. CASE HandlerRaises(d)
  BY <1>1, <1>a DEF HandlerRaises, MainRaises, Gone, AtTypeOK, Off, Threads, Past
<1>2. CASE ~HandlerRaises(d)
  <2>1. UNCHANGED <<at, watch>>
    BY <1>2 DEF Deliver, Handler, SeePid, ReadPid, Terminate, Await, KillTarget, SeeFile,
         UnlinkPidFile, StopRotatesLog, StopMovesLog, Join
  <2>2. SUFFICES ASSUME at[d]["main"] \in Past, NoneDied, NoneDied' PROVE Condemns(d)'
    BY <1>a, <2>1, DeathsKeep
  <2>3. Condemns(d) /\ frames \in [Daemons -> Seq(Frame)] /\ PidsDistinct /\ RecordedIsBorn
    BY <2>2, StopPremises
  <2>4. frames[d] # <<>> => frames[d] \in Seq(Frame) /\ 1 \in DOMAIN frames[d]
                            /\ FrameKnows(frames[d][1])
    BY <1>a, <2>3, LenProperties DEF Condemns
  <2>5. CASE Deliver(d)
    <3> DEFINE top == [at |-> "seePid", target |-> NoProc]
    <3>1. frames'[d] = <<top>> \o frames[d] /\ UNCHANGED pidFile
      BY <1>a, <2>3, <2>5 DEF Deliver
    <3>2. top \in Frame /\ frames[d] \in Seq(Frame) /\ <<top>> \in Seq(Frame)
      BY <1>a, <2>3 DEF Frame, HandlerLabels
    <3>3. /\ frames'[d] # <<>> /\ DOMAIN frames'[d] = 1..Len(frames[d]) + 1
          /\ \A i \in DOMAIN frames'[d] :
               frames'[d][i] = top \/ (i - 1 \in DOMAIN frames[d] /\ frames'[d][i] = frames[d][i - 1])
      BY <3>1, <3>2, LenProperties, ConcatProperties
    <3>4. (\A i \in DOMAIN frames[d] : FrameKnows(frames[d][i]))'
      BY <1>a, <2>3, <3>3, DeathsKeep DEF Condemns, FrameKnows
    <3> QED  BY <1>a, <2>1, <2>3, <3>1, <3>3, <3>4, DeathsKeep DEF Condemns
  <2>6. CASE SeePid(d)
    BY <1>a, <2>1, <2>3, <2>6, DeathsKeep, TopCondemns
       DEF SeePid, HandlerStep, InHandler, Condemns
  <2>7. CASE ReadPid(d)
    <3>p. PICK p : p = ProcAt(pidFile)
      OBVIOUS
    <3>1. pidFile # NoPid /\ Born(p) /\ p # NoProc
      <4>1. pidFile # NoPid
        BY <1>2, <2>7 DEF ReadPid
      <4>2. Born(p)
        BY <2>2, <2>3, <3>p, <4>1, RecordFound
      <4> QED  BY <2>2, <4>1, <4>2, BornIsLive, ProcAssumption
    <3>2. Born(p)'
      BY <1>a, <3>1, DeathsKeep
    <3>3. frames[d] # <<>> /\ UNCHANGED <<pidFile, pending>>
          /\ frames' = [frames EXCEPT ![d][1] = [at |-> "terminate", target |-> p]]
      BY <1>2, <2>7, <3>p, <3>1 DEF ReadPid, InHandler
    <3> QED  BY <1>a, <2>1, <2>3, <3>2, <3>3, TopCondemns
  <2>p. PICK p : p = Target(d)
    OBVIOUS
  <2>8. CASE Terminate(d)
    <3>1. /\ frames' = [frames EXCEPT ![d][1] = [at |-> "await", target |-> p]]
          /\ UNCHANGED <<pidFile, pending>> /\ frames[d] # <<>> /\ frames[d][1].at = "terminate"
      BY <1>2, <2>p, <2>8 DEF Terminate, HandlerStep, InHandler
    <3>2. Born(p)
      BY <2>4, <2>p, <3>1 DEF FrameKnows, Target
    <3>3. Born(p)'
      BY <1>a, <3>2, DeathsKeep
    <3> QED  BY <1>a, <2>1, <2>3, <3>1, <3>3, TopCondemns
  <2>9. CASE Await(d)
    <3>1. frames[d] # <<>> /\ frames[d][1].at = "await" /\ UNCHANGED <<pidFile, pending>>
          /\ frames' = [frames EXCEPT ![d][1] =
                          [at |-> IF Live(p) THEN "kill" ELSE "seeFile", target |-> p]]
      BY <2>p, <2>9 DEF Await, HandlerStep, InHandler
    <3>2. Born(p)
      BY <2>4, <2>p, <3>1 DEF FrameKnows, Target
    <3>3. Live(p) /\ Born(p)'
      BY <1>a, <2>2, <3>2, BornIsLive, DeathsKeep
    <3>4. frames' = [frames EXCEPT ![d][1] = [at |-> "kill", target |-> p]]
      BY <3>1, <3>3
    <3> QED  BY <1>a, <2>1, <2>3, <3>3, <3>4, <3>1, TopCondemns
  <2>10. CASE KillTarget(d)
    <3>1. /\ frames' = [frames EXCEPT ![d][1] = [at |-> "seeFile", target |-> p]]
          /\ UNCHANGED <<pidFile, pending>> /\ frames[d] # <<>> /\ frames[d][1].at = "kill"
          /\ Live(p) /\ proc' = [proc EXCEPT ![p] = "killed"]
      BY <1>2, <2>p, <2>10 DEF KillTarget, HandlerStep, InHandler
    <3>2. p \in Servers /\ proc \in [Procs -> Lives] /\ Servers \subseteq Procs
      BY <2>4, <2>p, <3>1 DEF FrameKnows, Target, Born, TypeOK, HostTypeOK, Procs
    <3>3. Condemned'
      BY <3>1, <3>2 DEF SlotInv, NoDuplicateServer, Condemned, Live
    <3> QED  BY <1>a, <2>1, <2>3, <3>1, <3>3, TopCondemns
  <2>11. CASE SeeFile(d)
    <3>1. /\ HandlerStep(d, "seeFile", IF pidFile = NoPid THEN "rotate" ELSE "unlink")
          /\ frames[d] # <<>> /\ frames[d][1].at = "seeFile" /\ UNCHANGED pidFile
      BY <2>11 DEF SeeFile, HandlerStep, InHandler
    <3> QED  BY <1>a, <2>1, <2>3, <2>4, <3>1, DeathsKeep, TopCondemns DEF HandlerStep, FrameKnows
  <2>12. CASE UnlinkPidFile(d)
    <3>1. /\ HandlerStep(d, "unlink", "rotate")
          /\ frames[d] # <<>> /\ frames[d][1].at = "unlink"
      BY <1>2, <2>12 DEF UnlinkPidFile, HandlerStep, InHandler
    <3> QED  BY <1>a, <2>1, <2>3, <2>4, <3>1, DeathsKeep, TopCondemns DEF HandlerStep, FrameKnows
  <2>13. CASE StopRotatesLog(d)
    <3>1. /\ HandlerStep(d, "rotate", IF log THEN "move" ELSE "join")
          /\ frames[d] # <<>> /\ frames[d][1].at = "rotate" /\ UNCHANGED pidFile
      BY <2>13 DEF StopRotatesLog, HandlerStep, InHandler
    <3> QED  BY <1>a, <2>1, <2>3, <2>4, <3>1, DeathsKeep, TopCondemns DEF HandlerStep, FrameKnows
  <2>14. CASE StopMovesLog(d)
    <3>1. /\ HandlerStep(d, "move", "join") /\ UNCHANGED pidFile
          /\ frames[d] # <<>> /\ frames[d][1].at = "move"
      BY <1>2, <2>14 DEF StopMovesLog, HandlerStep, InHandler
    <3> QED  BY <1>a, <2>1, <2>3, <2>4, <3>1, DeathsKeep, TopCondemns DEF HandlerStep, FrameKnows
  <2>15. CASE Join(d)
    <3>1. /\ frames[d] # <<>> /\ frames[d][1].at = "join" /\ frames'[d] = Tail(frames[d])
          /\ UNCHANGED <<pidFile, pending>>
      BY <1>a, <2>3, <2>15 DEF Join, InHandler
    <3>2. Condemned /\ Condemned'
      BY <1>a, <2>4, <3>1, DeathsKeep DEF FrameKnows
    <3>3. \A i \in DOMAIN frames'[d] :
            i + 1 \in DOMAIN frames[d] /\ frames'[d][i] = frames[d][i + 1]
      BY <2>4, <3>1, HeadTailProperties, LenProperties
    <3>4. (\A i \in DOMAIN frames[d] : FrameKnows(frames[d][i]))'
      BY <1>a, <2>3, <3>3, DeathsKeep DEF Condemns, FrameKnows
    <3> QED  BY <1>a, <2>1, <2>3, <3>1, <3>2, <3>4, DeathsKeep DEF Condemns
  <2> QED  BY <2>5, <2>6, <2>7, <2>8, <2>9, <2>10, <2>11, <2>12, <2>13, <2>14, <2>15
           DEF Handler
<1> QED  BY <1>1, <1>2

\* A daemon that begins, has exited or raised has no stop under way.
LEMMA OtherCondemns ==
  ASSUME TypeOK, TypeOK', SlotInv, StopInv, NEW d, Daemons = {d},
         Begin(d) \/ Exit(d) \/ Kill(d) \/ Send \/ HostStep \/ Reboot \/ UNCHANGED vars
  PROVE  at'[d]["main"] \in Past /\ NoneDied' => Condemns(d)'
<1> USE DEF fileVars, threadVars, workVars
<1>a. OnlyDeaths /\ d \in Daemons /\ AtTypeOK
  BY StopPremises, LifeStartsNoServer, SendStartsNoServer, HostStartsNoServer, SameIsNoStart
     DEF vars, hostVars
<1>1. CASE at'[d]["main"] \notin Past
  BY <1>1
<1>2. CASE UNCHANGED <<at, watch, frames, pidFile, pending>>
  <2> SUFFICES ASSUME at[d]["main"] \in Past, NoneDied, NoneDied' PROVE Condemns(d)'
    BY <1>a, <1>2, DeathsKeep
  <2> QED  BY <1>a, <1>2, StopPremises, CondemnsStays
<1>3. CASE Flag(d)
  <2>1. /\ at'[d]["main"] = IF at[d]["main"] = "paused" THEN "woken" ELSE at[d]["main"]
        /\ at'[d]["monitor"] = at[d]["monitor"] /\ pending'[d]
        /\ UNCHANGED <<proc, pidFile, watch, frames>>
    BY <1>3, <1>a, StopPremises DEF Flag, AtTypeOK, hostVars, Threads
  <2> QED  BY <1>a, <2>1, StopPremises
           DEF Condemns, FrameKnows, NoneDied, Condemned, Born, Past
<1>4. CASE Gone(d) \/ MainRaises(d) \/ Begin(d) \/ Reboot
  <2>1. at'[d]["main"] \in {"off", "raised", "check1"}
    BY <1>4, <1>a DEF Gone, MainRaises, Begin, Reboot, AtTypeOK, Off, Threads
  <2> QED  BY <2>1 DEF Past
<1>5. CASE Exit(d) \/ Kill(d)
  BY <1>4, <1>5 DEF Exit, Kill
<1>6. CASE HostStep \/ UNCHANGED vars
  BY <1>2, <1>6 DEF HostStep, daemonVars, vars, stopVars
<1>7. CASE Send
  BY <1>2, <1>3, <1>4, <1>7 DEF Send, SendTerm, SendInt, CliStop
<1> QED  BY <1>4, <1>5, <1>6, <1>7

LEMMA ScriptCondemns ==
  ASSUME TypeOK, TypeOK', SlotInv, StopInv, NEW d, Daemons = {d}, Script(d)
  PROVE  /\ RecordedIsBorn'
         /\ at'[d]["main"] \in Past /\ NoneDied' => Condemns(d)'
<1> USE DEF hostVars, threadVars
<1>a. script[d] # "idle" /\ {"idle", "done"} \cap Servers = {} /\ UNCHANGED at
  BY ScriptAssumption
     DEF Script, ScriptRefuses, ScriptSpawns, ScriptRecords, ScriptStates
<1>b. /\ proc \in [Procs -> Lives] /\ Servers \subseteq Procs
      /\ script \in [Daemons -> ScriptStates \cup Servers] /\ RecordedIsBorn
  BY StopPremises DEF TypeOK, HostTypeOK, Procs
<1>1. NoneDied' => NoneDied
  BY <1>b DEF Script, ScriptRefuses, ScriptRecords, ScriptSpawns, CanStart, NoneDied
<1>2. at'[d]["main"] \in Past /\ NoneDied' => FALSE
  BY <1>a, <1>1, NoScriptPast
<1>3. CASE ScriptRefuses(d)
  <2>1. /\ UNCHANGED <<proc, pidFile>>
        /\ \A e \in Daemons : script'[e] \in Servers => script'[e] = script[e]
    BY <1>3, <1>a, <1>b DEF ScriptRefuses, fileVars
  <2>2. (pidFile # NoPid => \E s \in Servers : pidFile = PidOf[s] /\ Born(s))'
    BY <1>b, <2>1 DEF RecordedIsBorn, Born
  <2>3. (\A e \in Daemons : script[e] \in Servers => Born(script[e]))'
    <3> SUFFICES ASSUME NEW e \in Daemons, script'[e] \in Servers PROVE Born(script[e])'
      OBVIOUS
    <3>1. Born(script[e]) /\ script'[e] = script[e]
      BY <1>b, <2>1 DEF RecordedIsBorn
    <3> QED  BY <2>1, <3>1 DEF Born
  <2> QED  BY <1>2, <2>2, <2>3 DEF RecordedIsBorn
<1>4. CASE ScriptRecords(d)
  <2>1. /\ UNCHANGED proc /\ script[d] \in Servers /\ pidFile' = PidOf[script[d]]
        /\ \A e \in Daemons : script'[e] \in Servers => script'[e] = script[e]
    BY <1>4, <1>a, <1>b DEF ScriptRecords
  <2>2. Born(script[d])
    BY <1>b, <2>1 DEF RecordedIsBorn
  <2>3. (\E s \in Servers : pidFile = PidOf[s] /\ Born(s))'
    BY <2>1, <2>2 DEF Born
  <2>4. (\A e \in Daemons : script[e] \in Servers => Born(script[e]))'
    <3> SUFFICES ASSUME NEW e \in Daemons, script'[e] \in Servers PROVE Born(script[e])'
      OBVIOUS
    <3>1. Born(script[e]) /\ script'[e] = script[e]
      BY <1>b, <2>1 DEF RecordedIsBorn
    <3> QED  BY <2>1, <3>1 DEF Born
  <2> QED  BY <1>2, <2>3, <2>4 DEF RecordedIsBorn
<1>5. ASSUME NEW s \in Servers, ScriptSpawns(d, s)
      PROVE  RecordedIsBorn'
  <2>1. /\ proc'[s] = "live" /\ \A p \in Procs \ {s} : proc'[p] = proc[p]
        /\ script' = [script EXCEPT ![d] = s] /\ UNCHANGED pidFile
    BY <1>5, <1>b DEF ScriptSpawns
  <2> QED  BY <1>b, <2>1 DEF RecordedIsBorn, Born
<1> QED  BY <1>2, <1>3, <1>4, <1>5 DEF Script

\* No other step writes a pid, or ends a script between spawn and record, unless the
\* machine restarts.
LEMMA OnlyScriptWrites ==
  ASSUME TypeOK, SlotInv, NEW d, Daemons = {d}, [Next]_vars, ~Script(d)
  PROVE  /\ pidFile' \in {NoPid, pidFile}
         /\ script'[d] \in Servers => script'[d] = script[d]
         /\ script[d] \in Servers => script'[d] = script[d] \/ NoneLive'
<1> USE DEF fileVars, workVars
<1> DEFINE Stays == /\ pidFile' \in {NoPid, pidFile}
                    /\ script'[d] \in Servers => script'[d] = script[d]
                    /\ script[d] \in Servers => script'[d] = script[d] \/ NoneLive'
<1>a. /\ {"idle", "running", "done"} \cap Servers = {}
      /\ script \in [Daemons -> ScriptStates \cup Servers] /\ d \in Daemons
      /\ MainKnows(d) /\ MonitorKnows(d)
  BY ScriptAssumption DEF ScriptStates, TypeOK, WorkTypeOK, SlotInv
<1>b. ASSUME NEW t \in Threads, Popen(d, t)
      PROVE  Stays
  <2>1. NoneLive'
    BY <1>b, <1>a DEF Popen, Step, At, Threads, MainKnows, MonitorKnows, NoneLive, Live,
       hostVars
  <2> QED  BY <1>b, <1>a, <2>1 DEF Popen
<1>c. CASE Reboot
  BY <1>c, <1>a DEF Reboot, NoneLive, Live, Procs
<1>1. ASSUME NEW t \in Threads, Start(d, t) \/ Peek(d, t) \/ ReadFails(d, t)
      PROVE  Stays
  BY <1>1, <1>a, <1>b DEF Start, RotateLog, MoveLog, CheckPort, Wait, AssertPid, AssertLog,
       Peek, ReadFails
<1>d. "main" \in Threads /\ "monitor" \in Threads
  BY DEF Threads
<1>2. CASE MainStep(d)
  BY <1>1, <1>2, <1>d DEF MainStep, Check1, Check2, CheckDaemon, ReadDaemon, WriteDaemon,
       Launch, InstallHandlers, Install, Pause, Unlink
<1>3. CASE MonitorStep(d)
  BY <1>1, <1>3, <1>d DEF MonitorStep, Wake, Compare, Probe, Rewatch, Retail, Quit
<1>4. CASE Gone(d) \/ MainRaises(d)
  BY <1>4 DEF Gone, MainRaises
<1>5. CASE Deliver(d) \/ Handler(d)
  BY <1>4, <1>5 DEF Deliver, Handler, SeePid, ReadPid, Terminate, Await, KillTarget, SeeFile,
       UnlinkPidFile, StopRotatesLog, StopMovesLog, Join, HandlerRaises
<1>6. CASE Begin(d) \/ Exit(d) \/ Kill(d)
  BY <1>4, <1>6 DEF Begin, Exit, Kill
<1>7. CASE Send
  BY <1>4, <1>7 DEF Send, SendTerm, SendInt, CliStop, Flag
<1>8. CASE HostStep \/ UNCHANGED vars
  BY <1>8, <1>a DEF HostStep, daemonVars, vars
<1> QED  BY <1>c, <1>2, <1>3, <1>5, <1>6, <1>7, <1>8 DEF Next, DaemonStep

LEMMA RecordKept ==
  ASSUME TypeOK, TypeOK', SlotInv, StopInv, NEW d, Daemons = {d}, [Next]_vars
  PROVE  RecordedIsBorn' /\ SpawnedIsRecorded'
<1>1. CASE ~Script(d)
  <2>1. OnlyDeaths
    <3>1. ~\E e \in Daemons, s \in Servers : ScriptSpawns(e, s)
      BY <1>1 DEF Script
    <3> QED  BY <3>1, OnlyTheScriptStarts
  <2>2. RecordedIsBorn'
    BY <1>1, <2>1, StopPremises, OnlyScriptWrites, RecordStays
  <2>3. script'[d] \notin Servers => NoneLive' \/ (LiveIsRecorded /\ script[d] \notin Servers)
    BY <1>1, OnlyScriptWrites, StopPremises DEF SpawnedIsRecorded
  <2> QED  BY <1>1, <2>1, <2>2, <2>3, OnlyScriptWrites
           DEF SpawnedIsRecorded, LiveIsRecorded, NoneLive, OnlyDeaths
<1>2. CASE Script(d)
  <2> SUFFICES SpawnedIsRecorded'
    BY <1>2, ScriptCondemns
  <2>1. /\ script \in [Daemons -> ScriptStates \cup Servers] /\ d \in Daemons
        /\ ScriptKnows(d) /\ {"running", "done"} \cap Servers = {} /\ SpawnedIsRecorded
    BY StopPremises, ScriptAssumption DEF SlotInv, ScriptStates
  <2>2. CASE ScriptRefuses(d)
    <3>1. LiveIsRecorded /\ UNCHANGED <<proc, pidFile>>
      BY <2>1, <2>2 DEF ScriptRefuses, SpawnedIsRecorded, hostVars, fileVars
    <3> QED  BY <3>1 DEF SpawnedIsRecorded, LiveIsRecorded, Live
  <2>3. CASE ScriptRecords(d)
    <3>1. OnlyLive(script[d]) /\ UNCHANGED proc /\ pidFile' = PidOf[script[d]]
      BY <2>1, <2>3 DEF ScriptRecords, ScriptKnows, hostVars
    <3> QED  BY <3>1 DEF SpawnedIsRecorded, LiveIsRecorded, OnlyLive, Live
  <2>4. ASSUME NEW s \in Servers, ScriptSpawns(d, s)
        PROVE  SpawnedIsRecorded'
    BY <2>1, <2>4 DEF ScriptSpawns, SpawnedIsRecorded
  <2> QED  BY <1>2, <2>2, <2>3, <2>4 DEF Script
<1> QED  BY <1>1, <1>2

\* While no server of a single daemon has died, the pid file leads stop to the one that is
\* alive, and no call of stop, nested or not, is past it before it has been sent SIGKILL.
\* At any time, a live server is the one in the pid file but between spawn and record.
THEOREM StopCondemns ==
  ASSUME NEW d, Daemons = {d}
  PROVE  Spec => []StopInv
<1>1. Init => StopInv
  BY ScriptAssumption
     DEF Init, StopInv, RecordedIsBorn, Off, Threads, Past, ScriptStates, SpawnedIsRecorded,
         LiveIsRecorded, Live, HostInit, Procs
<1>2. TypeOK /\ TypeOK' /\ SlotInv /\ StopInv /\ [Next]_vars => StopInv'
  <2> SUFFICES ASSUME TypeOK, TypeOK', SlotInv, StopInv, [Next]_vars PROVE StopInv'
    OBVIOUS
  <2>1. RecordedIsBorn' /\ SpawnedIsRecorded'
    BY RecordKept
  <2>2. at'[d]["main"] \in Past /\ NoneDied' => Condemns(d)'
    BY MainStepCondemns, MonitorCondemns, ScriptCondemns, HandlerCondemns, OtherCondemns
       DEF Next, DaemonStep
  <2> QED  BY <2>1, <2>2 DEF StopInv
<1>3. Spec => []SlotInv
  BY OneServer, PTL
<1> QED  BY <1>1, <1>2, <1>3, TypeCorrect, PTL DEF Spec

-----------------------------------------------------------------------------
(* What a call of stop settles.                                            *)

LEMMA SettledPremises ==
  ASSUME TypeOK, SlotInv, FollowInv, StopInv, NEW d, Daemons = {d}
  PROVE  /\ AtTypeOK /\ d \in Daemons /\ "main" \in Threads /\ "monitor" \in Threads
         /\ Control(d) /\ ScriptKnows(d) /\ Follows(d) /\ PidsDistinct /\ SpawnedIsRecorded
         /\ frames \in [Daemons -> Seq(Frame)] /\ script \in [Daemons -> ScriptStates \cup Servers]
         /\ proc \in [Procs -> Lives] /\ Servers \subseteq Procs /\ d \in Procs \ Servers
         /\ {"idle", "running", "done"} \cap Servers = {}
BY ProcAssumption, ScriptAssumption
   DEF TypeOK, HostTypeOK, WorkTypeOK, StopTypeOK, SlotInv, FollowInv, StopInv, Threads, Procs,
       ScriptStates

\* While the monitor rests, no script is at work that the live daemon waits for.
LEMMA RestsScriptless ==
  ASSUME NEW d, Control(d), Rests(d), proc[d] # "dead", at[d]["main"] # "raised"
  PROVE  script[d] = "idle"
BY DEF Control, Rests, Started

\* No one else than the call of stop, the monitor and the script makes a difference.
LEMMA SettledStays ==
  ASSUME TypeOK, TypeOK', OnlyDeaths, NEW d, NEW s \in Servers, Settled(d, s),
         at'[d]["monitor"] = at[d]["monitor"], stopping[d] => stopping'[d],
         frames'[d] = frames[d], pidFile' = pidFile,
         proc[d] = "dead" => proc'[d] = "dead",
         at[d]["main"] = "raised" => at'[d]["main"] = "raised"
  PROVE  Settled(d, s)'
<1>1. proc[s] \in Lives /\ proc'[s] \in Lives
  BY DEF TypeOK, HostTypeOK, Procs
<1> QED  BY <1>1 DEF OnlyDeaths, Settled, Hunted, NeverStarted, Rests, Live, Lives

LEMMA MainSettled ==
  ASSUME TypeOK, TypeOK', SlotInv, FollowInv, StopInv, NEW d, Daemons = {d},
         NEW s \in Servers, Settled(d, s), MainStep(d)
  PROVE  Settled(d, s)'
<1>1. frames[d] = <<>> /\ proc[d] = "live" /\ at[d]["main"] # "raised"
  BY SettledPremises, StepMoves
     DEF MainStep, Check1, Check2, CheckDaemon, ReadDaemon, WriteDaemon, Launch,
         InstallHandlers, Install, Pause, Unlink, Start, RotateLog, MoveLog, CheckPort, Popen,
         Wait, AssertPid, AssertLog, Peek, ReadFails, PidStep, Step, At, PidLabels
<1>2. UNCHANGED <<proc, stopping>>
  BY DEF MainStep, Check1, Check2, CheckDaemon, ReadDaemon, WriteDaemon, Launch,
         InstallHandlers, Install, Pause, Unlink, Start, RotateLog, MoveLog, CheckPort, Popen,
         Wait, AssertPid, AssertLog, Peek, ReadFails, hostVars, stopVars
<1>3. CASE at'[d]["monitor"] = at[d]["monitor"]
  BY <1>1, <1>2, <1>3 DEF Settled, Hunted, NeverStarted, Rests
<1>4. CASE at'[d]["monitor"] # at[d]["monitor"]
  <2>1. Launch(d)
    <3>1. ASSUME ~Launch(d), NEW from, NEW to, Step(d, "main", from, to)
          PROVE  FALSE
      BY <1>4, <3>1, SettledPremises, StepMoves
    <3>2. CASE Peek(d, "main")
      BY <1>4, <3>2 DEF Peek
    <3> QED  BY <3>1, <3>2
             DEF MainStep, Check1, Check2, CheckDaemon, ReadDaemon, WriteDaemon,
                 InstallHandlers, Install, Pause, Unlink, Start, RotateLog, MoveLog, CheckPort,
                 Popen, Wait, AssertPid, AssertLog, ReadFails, PidStep
  <2>2. ~Rests(d)
    BY <2>1, SettledPremises DEF Launch, At, Control, Rests, Started
  <2> QED  BY <1>1, <1>2, <2>2 DEF Settled, Hunted, NeverStarted
<1> QED  BY <1>3, <1>4

\* The monitor takes the stop at the end of its sleep.
LEMMA MonitorSettled ==
  ASSUME TypeOK, TypeOK', SlotInv, FollowInv, StopInv, NEW d, Daemons = {d},
         NEW s \in Servers, Settled(d, s), MonitorStep(d)
  PROVE  Settled(d, s)'
<1>1. UNCHANGED <<proc, pidFile, stopping, frames>>
  BY DEF MonitorStep, Wake, Compare, Probe, Rewatch, Retail, Quit, Peek, ReadFails,
       Start, RotateLog, MoveLog, CheckPort, Popen, Wait, AssertPid, AssertLog, hostVars,
       fileVars, stopVars
<1>2. at'[d]["main"] = at[d]["main"]
  <2>1. CASE Peek(d, "monitor")
    BY <2>1 DEF Peek
  <2>2. CASE ~Peek(d, "monitor")
    <3>1. \E from, to : Step(d, "monitor", from, to)
      BY <2>2 DEF MonitorStep, Wake, Compare, Probe, Rewatch, Retail, Quit, ReadFails, PidStep,
           Start, RotateLog, MoveLog, CheckPort, Popen, Wait, AssertPid, AssertLog
    <3> QED  BY <3>1, SettledPremises, StepMoves
  <2> QED  BY <2>1, <2>2
<1>3. stopping[d] /\ Rests(d) => Rests(d)'
  <2> SUFFICES ASSUME stopping[d], Rests(d) PROVE Rests(d)'
    OBVIOUS
  <2> USE SettledPremises, StepMoves DEF Rests, PidStep
  <2>1. CASE Wake(d)
    BY <2>1 DEF Wake
  <2>2. CASE Quit(d) \/ ReadFails(d, "monitor") \/ Peek(d, "monitor")
    BY <2>2 DEF Quit, ReadFails, Peek
  <2>3. ~(Compare(d) \/ Probe(d) \/ Rewatch(d) \/ Retail(d) \/ Start(d, "monitor"))
    BY DEF Compare, Probe, Rewatch, Retail, Start, RotateLog, MoveLog, CheckPort, Popen, Wait,
           AssertPid, AssertLog, Step, At
  <2> QED  BY <2>1, <2>2, <2>3 DEF MonitorStep
<1> QED  BY <1>1, <1>2, <1>3 DEF Settled, Hunted, NeverStarted, Live

\* The script at work has spawned the server stop hunts, if any, and will record its pid.
LEMMA ScriptSettled ==
  ASSUME TypeOK, TypeOK', SlotInv, FollowInv, StopInv, NEW d, Daemons = {d},
         NEW s \in Servers, Settled(d, s), Script(d)
  PROVE  Settled(d, s)'
<1>1. UNCHANGED <<at, frames, stopping>> /\ script[d] # "idle"
  BY SettledPremises
     DEF Script, ScriptRefuses, ScriptSpawns, ScriptRecords, threadVars, stopVars
<1>2. proc'[d] = proc[d] /\ (proc[s] # "unborn" => proc'[s] = proc[s])
  BY SettledPremises
     DEF Script, ScriptRefuses, ScriptSpawns, ScriptRecords, CanStart, hostVars
<1>3. CASE proc[s] \in {"killed", "dead"} \/ proc[d] = "dead" \/ at[d]["main"] = "raised"
  BY <1>1, <1>2, <1>3 DEF Settled
<1>4. CASE NeverStarted(d, s) /\ proc[d] # "dead" /\ at[d]["main"] # "raised"
  BY <1>1, <1>4, SettledPremises, RestsScriptless DEF NeverStarted
<1>5. CASE Hunted(d, s)
  <2>1. Live(s) /\ Live(s)'
    BY <1>2, <1>5 DEF Hunted, Live
  <2>2. pidFile' = PidOf[s]
    <3>1. CASE ScriptRefuses(d)
      BY <1>5, <3>1 DEF ScriptRefuses, Hunted, fileVars
    <3>2. CASE ScriptRecords(d)
      BY <2>1, <3>2, SettledPremises DEF ScriptRecords, ScriptKnows, OnlyLive
    <3>3. ~\E r \in Servers : ScriptSpawns(d, r)
      BY <2>1, SettledPremises DEF ScriptSpawns, ScriptKnows, NoneLive
    <3> QED  BY <3>1, <3>2, <3>3 DEF Script
  <2> QED  BY <1>1, <1>5, <2>1, <2>2 DEF Settled, Hunted
<1> QED  BY <1>3, <1>4, <1>5 DEF Settled

\* A daemon that is gone, or whose main thread has raised, has no stop to return.
LEMMA RaisesSettled ==
  ASSUME TypeOK, NEW d \in Daemons, NEW s, Gone(d) \/ MainRaises(d)
  PROVE  Settled(d, s)'
<1>1. CASE Gone(d)
  BY <1>1 DEF Gone, Dies, Settled, TypeOK, HostTypeOK, Procs
<1>2. CASE MainRaises(d)
  BY <1>1, <1>2 DEF MainRaises, Settled, TypeOK, AtTypeOK, Threads
<1> QED  BY <1>1, <1>2

\* The innermost call of stop reads the pid of the server, and ends it or raises.
LEMMA HandlerSettled ==
  ASSUME TypeOK, TypeOK', SlotInv, FollowInv, StopInv, NEW d, Daemons = {d},
         NEW s \in Servers, Settled(d, s), Deliver(d) \/ Handler(d)
  PROVE  Settled(d, s)'
<1> USE DEF hostVars, fileVars, threadVars, workVars
<1>a. OnlyDeaths
  BY SettledPremises, HandlerStartsNoServer
<1>1. CASE HandlerRaises(d)
  BY <1>1, SettledPremises, RaisesSettled DEF HandlerRaises
<1>2. CASE ~HandlerRaises(d)
  <2>1. /\ UNCHANGED at /\ (stopping[d] => stopping'[d])
        /\ proc[d] = "live"
    BY <1>2, SettledPremises
       DEF Deliver, Handler, SeePid, ReadPid, Terminate, Await, KillTarget, SeeFile,
         UnlinkPidFile, StopRotatesLog, StopMovesLog, Join, HandlerStep, InHandler, TypeOK,
         StopTypeOK
  <2>2. CASE proc[s] \in {"killed", "dead"} \/ NeverStarted(d, s) \/ at[d]["main"] = "raised"
    <3>1. proc'[s] \in Lives
      BY SettledPremises DEF TypeOK, HostTypeOK
    <3> QED  BY <1>a, <2>1, <2>2, <3>1
             DEF OnlyDeaths, Settled, NeverStarted, Rests, Lives, Live
  <2>3. CASE Hunted(d, s)
    <3> SUFFICES ASSUME Live(s)' PROVE Settled(d, s)'
      <4>1. proc'[s] \in Lives /\ proc'[s] # "unborn"
        BY <1>a, <2>3, SettledPremises DEF TypeOK, HostTypeOK, OnlyDeaths, Hunted, Live
      <4> QED  BY <4>1 DEF Settled, Live, Lives
    <3> DEFINE top == frames[d][1]
    <3>1. /\ frames[d] # <<>> /\ Live(s) /\ pidFile = PidOf[s] /\ pidFile # NoPid
          /\ top.at \in {"seePid", "readPid", "terminate", "await", "kill"}
          /\ top.at \in {"terminate", "await", "kill"} => top.target = s
      BY <2>3, PidAssumption, SettledPremises DEF Hunted, Hunts
    <3>2. ASSUME NEW next, frames' = [frames EXCEPT ![d][1] = next], Hunts(next, s),
                 UNCHANGED pidFile
          PROVE  Settled(d, s)'
      BY <3>1, <3>2, SettledPremises, TopMoves DEF Settled, Hunted
    <3>3. CASE Deliver(d)
      <4> DEFINE call == [at |-> "seePid", target |-> NoProc]
      <4>1. frames'[d] = <<call>> \o frames[d] /\ UNCHANGED pidFile
        BY <3>3, SettledPremises DEF Deliver
      <4>2. call \in Frame /\ <<call>> \in Seq(Frame)
        BY DEF Frame, HandlerLabels
      <4>3. frames[d] \in Seq(Frame)
        BY SettledPremises
      <4>4. frames'[d] # <<>> /\ frames'[d][1] = call
        BY <4>1, <4>2, <4>3, LenProperties, ConcatProperties
      <4> QED  BY <3>1, <4>1, <4>4 DEF Settled, Hunted, Hunts
    <3>4. CASE SeePid(d)
      BY <3>1, <3>2, <3>4 DEF SeePid, HandlerStep, Hunts
    <3>5. CASE ReadPid(d)
      <4>1. ProcAt(pidFile) = s
        BY <3>1, SettledPremises, ProcAtFinds
      <4>2. frames' = [frames EXCEPT ![d][1] = [at |-> "terminate", target |-> s]]
        BY <1>2, <3>1, <3>5, <4>1, SettledPremises, ProcAssumption DEF ReadPid
      <4> QED  BY <1>2, <3>2, <3>5, <4>2 DEF ReadPid, Hunts
    <3>6. CASE Terminate(d)
      BY <1>2, <3>1, <3>2, <3>6 DEF Terminate, HandlerStep, InHandler, Target, Hunts
    <3>7. CASE Await(d)
      BY <3>1, <3>2, <3>7 DEF Await, HandlerStep, InHandler, Target, Hunts
    <3>8. CASE KillTarget(d)
      BY <1>2, <3>1, <3>8, SettledPremises
         DEF KillTarget, HandlerStep, InHandler, Target, Settled
    <3>9. ~(SeeFile(d) \/ UnlinkPidFile(d) \/ StopRotatesLog(d) \/ StopMovesLog(d) \/ Join(d))
      BY <1>2, <3>1 DEF SeeFile, UnlinkPidFile, StopRotatesLog, StopMovesLog, Join,
           HandlerStep, InHandler
    <3> QED  BY <3>3, <3>4, <3>5, <3>6, <3>7, <3>8, <3>9 DEF Handler
  <2> QED  BY <2>1, <2>2, <2>3 DEF Settled
<1> QED  BY <1>1, <1>2

LEMMA OtherSettled ==
  ASSUME TypeOK, TypeOK', SlotInv, FollowInv, StopInv, NEW d, Daemons = {d},
         NEW s \in Servers, Settled(d, s),
         Begin(d) \/ Exit(d) \/ Kill(d) \/ Send \/ HostStep \/ Reboot \/ UNCHANGED vars
  PROVE  Settled(d, s)'
<1> USE DEF fileVars, threadVars, stopVars
<1>a. OnlyDeaths
  BY SettledPremises, LifeStartsNoServer, SendStartsNoServer, HostStartsNoServer, SameIsNoStart
     DEF vars, hostVars
<1>1. CASE Gone(d) \/ MainRaises(d)
  BY <1>1, SettledPremises, RaisesSettled
<1>2. CASE Exit(d) \/ Kill(d)
  BY <1>1, <1>2 DEF Exit, Kill
<1>3. CASE Begin(d)
  <2>1. /\ proc[d] = "unborn" /\ at[d]["main"] = "off" /\ at'[d]["monitor"] = at[d]["monitor"]
        /\ UNCHANGED <<stopping, frames, pidFile>>
    BY <1>3, SettledPremises DEF Begin, CanStart, Control, AtTypeOK
  <2> QED  BY <1>a, <2>1, SettledStays
<1>4. CASE Flag(d)
  <2>1. /\ at'[d]["monitor"] = at[d]["monitor"]
        /\ (at[d]["main"] = "raised" => at'[d]["main"] = "raised")
        /\ UNCHANGED <<stopping, frames, pidFile, proc>>
    BY <1>4, SettledPremises DEF Flag, AtTypeOK, hostVars
  <2> QED  BY <1>a, <2>1, SettledStays
<1>5. CASE UNCHANGED <<at, stopping, frames, pidFile>> /\ (proc[d] = "dead" => proc'[d] = "dead")
  BY <1>a, <1>5, SettledStays
<1>6. CASE HostStep \/ UNCHANGED vars
  <2>1. proc[d] = "dead" => proc'[d] = "dead"
    BY <1>6, SettledPremises, DaemonIsNoServer, ProcAssumption
       DEF HostStep, vars, hostVars, Bind, BindFails, Reaped, ShutsDown, Crash, Dies,
           StrangerArrives, PortFreed
  <2> QED  BY <1>5, <1>6, <2>1 DEF HostStep, daemonVars, vars
<1>7. CASE Reboot
  BY <1>7, SettledPremises DEF Reboot, Settled, Control, NeverStarted, Rests, Hunted, Lives, Live
<1>8. CASE Send
  <2>1. CASE CliStop /\ ProcAt(daemonPid) \notin Daemons
    <3>1. /\ SigTerm(ProcAt(daemonPid)) /\ ProcAt(daemonPid) # d
          /\ UNCHANGED <<at, stopping, frames, pidFile>>
      BY <2>1, SettledPremises DEF CliStop
    <3> QED  BY <1>5, <3>1, SettledPremises DEF SigTerm
  <2> QED  BY <1>1, <1>4, <1>8, <2>1 DEF Send, SendTerm, SendInt, CliStop
<1> QED  BY <1>2, <1>3, <1>6, <1>7, <1>8

LEMMA StepSettled ==
  ASSUME TypeOK, TypeOK', SlotInv, FollowInv, StopInv, NEW d, Daemons = {d},
         NEW s \in Servers, Settled(d, s), [Next]_vars
  PROVE  Settled(d, s)'
BY MainSettled, MonitorSettled, ScriptSettled, HandlerSettled, OtherSettled
   DEF Next, DaemonStep

\* A call of stop that begins finds in the pid file the server that is alive, if the
\* monitor rests: no script is at work then.
LEMMA BeginsSettled ==
  ASSUME TypeOK, SlotInv, FollowInv, StopInv, NEW d, Daemons = {d}, NEW s \in Servers,
         StopBegins(d), Rests(d)
  PROVE  Settled(d, s)
<1>1. frames[d] # <<>> /\ frames[d][1].at = "seePid" /\ pidFile # NoPid /\ proc[d] = "live"
  BY DEF StopBegins, InHandler
<1>2. stopping[d]
  BY <1>1, SettledPremises DEF Follows
<1>3. CASE Live(s) /\ pidFile = PidOf[s]
  BY <1>1, <1>3 DEF Settled, Hunted, Hunts
<1>4. CASE at[d]["main"] # "raised"
  <2>1. LiveIsRecorded
    BY <1>1, <1>4, SettledPremises, RestsScriptless DEF SpawnedIsRecorded
  <2>2. Live(s) => pidFile = PidOf[s]
    BY <1>1, <2>1 DEF LiveIsRecorded
  <2>3. proc[s] \in Lives
    BY SettledPremises
  <2> QED  BY <1>2, <1>3, <1>4, <2>2, <2>3 DEF Settled, NeverStarted, Live, Lives
<1> QED  BY <1>3, <1>4 DEF Settled

\* A single daemon that has stopped leaves no server running, unless its monitor was past
\* its check of is_stopping when stop was called: after any number of restarts, in nested
\* calls, and if the server ignores SIGTERM.
THEOREM StopLeavesOnlyARestart ==
  ASSUME NEW self, Daemons = {self}
  PROVE  Spec => OnlyARestartSurvivesStop
<1>1. ASSUME NEW d \in Daemons
      PROVE  Spec => [](StopBegins(d) /\ Rests(d)
                          => [](StopReturned(d) => \A s \in Servers : ~Runs(s)))
  <2> DEFINE Inv == TypeOK /\ SlotInv /\ FollowInv /\ StopInv
             AllSettled == \A s \in Servers : Settled(d, s)
             Begins == StopBegins(d) /\ Rests(d)
             Over == StopReturned(d) => \A s \in Servers : ~Runs(s)
  <2>1. Inv /\ Begins => AllSettled
    BY BeginsSettled
  <2>2. Inv /\ Inv' /\ AllSettled /\ [Next]_vars => AllSettled'
    BY StepSettled
  <2>3. AllSettled => Over
    BY DEF Settled, Hunted, NeverStarted, StopReturned, Runs
  <2>4. Spec => []Inv
    <3>1. Spec => []TypeOK
      BY TypeCorrect
    <3>2. Spec => [](SlotInv /\ NoDuplicateServer)
      BY OneServer
    <3>3. Spec => [](FollowInv /\ PidFileNamesWatched /\ WatchedIsTailed)
      BY OneServerFollowed
    <3>4. Spec => []StopInv
      BY StopCondemns
    <3> QED  BY <3>1, <3>2, <3>3, <3>4, PTL
  <2>5. Spec => [](Begins => []Over)
    <3> HIDE DEF Inv, AllSettled, Begins, Over
    <3> QED  BY <2>1, <2>2, <2>3, <2>4, PTL DEF Spec
  <2> QED  BY <2>5
<1> QED  BY <1>1 DEF OnlyARestartSurvivesStop

=============================================================================
