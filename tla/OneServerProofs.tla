-------------------------- MODULE OneServerProofs ---------------------------
(***************************************************************************)
(* One daemon never has two servers: SlotInv of DaemonInv is inductive for *)
(* every set of servers and strangers, every assignment of pids, with      *)
(* recycled ones, and every choice of events.                              *)
(***************************************************************************)
EXTENDS DaemonInv, DaemonProofs

\* A step in which no process is born.
NoBirths == \A p \in Procs : Live(p)' => Live(p)

LEMMA NoBirthsKeep ==
  ASSUME NoBirths
  PROVE  /\ PidsDistinct => PidsDistinct'
         /\ NoDuplicateServer => NoDuplicateServer'
         /\ NoneLive => NoneLive'
         /\ \A p : (\A s \in Servers : Live(s) => s = p)
                     => (\A s \in Servers : Live(s)' => s = p)
         /\ LiveIsRecorded /\ pidFile' \in {NoPid, pidFile} => LiveIsRecorded'
BY DEF NoBirths, PidsDistinct, NoDuplicateServer, NoneLive, LiveIsRecorded, Procs

LEMMA SameProc == UNCHANGED proc => NoBirths
BY DEF NoBirths, Live

\* One thread moves, the other stays.
LEMMA StepMoves ==
  ASSUME AtTypeOK, NEW d \in Daemons, NEW from, NEW to
  PROVE  /\ Step(d, "main", from, to) =>
              /\ proc[d] = "live" /\ at[d]["main"] = from
              /\ at'[d]["main"] = to /\ at'[d]["monitor"] = at[d]["monitor"]
         /\ Step(d, "monitor", from, to) =>
              /\ proc[d] = "live" /\ at[d]["monitor"] = from
              /\ at'[d]["monitor"] = to /\ at'[d]["main"] = at[d]["main"]
BY DEF AtTypeOK, Step, At, Threads

\* A pid names at most one live process, and ProcAt finds it.
LEMMA ProcAtFinds ==
  ASSUME PidsDistinct, NEW p \in Procs, Live(p)
  PROVE  ProcAt(PidOf[p]) = p
<1>1. PidExists(PidOf[p])
  BY DEF PidExists
<1>2. ProcAt(PidOf[p]) \in Procs /\ Live(ProcAt(PidOf[p]))
      /\ PidOf[ProcAt(PidOf[p])] = PidOf[p]
  BY <1>1, ProcAtType
<1> QED  BY <1>2 DEF PidsDistinct

\* What is known of daemon d.
Known(d) == Control(d) /\ MainKnows(d) /\ ScriptKnows(d) /\ MonitorKnows(d)

\* What every step of the only daemon starts from.
LEMMA Premises ==
  ASSUME TypeOK, SlotInv, NEW d, Daemons = {d}
  PROVE  /\ AtTypeOK /\ d \in Daemons /\ "main" \in Threads /\ "monitor" \in Threads
         /\ script \in [Daemons -> ScriptStates \cup Servers]
         /\ watch \in [Daemons -> Procs \cup {NoProc}]
         /\ PidsDistinct /\ NoDuplicateServer /\ Known(d)
BY DEF TypeOK, WorkTypeOK, Threads, SlotInv, Known

\* What a step in which no process is born keeps, if it leaves the pid file or
\* unlinks it.
LEMMA Kept ==
  ASSUME SlotInv, NoBirths
  PROVE  /\ PidsDistinct' /\ NoDuplicateServer'
         /\ NoneLive => NoneLive'
         /\ pidFile' \in {NoPid, pidFile} /\ LiveIsRecorded => LiveIsRecorded'
         /\ \A p : (\A s \in Servers : Live(s) => s = p)
                     => (\A s \in Servers : Live(s)' => s = p)
BY NoBirthsKeep DEF SlotInv

LEMMA Concluded ==
  ASSUME NEW d, Daemons = {d}, PidsDistinct', NoDuplicateServer', Known(d)'
  PROVE  SlotInv'
BY DEF SlotInv, Known

LEMMA StartKeeps ==
  ASSUME TypeOK, SlotInv, NEW d, Daemons = {d}, NEW t \in Threads, Start(d, t)
  PROVE  SlotInv'
<1> USE DEF Known, Control, MainKnows, ScriptKnows, MonitorKnows, Started, OnlyLive,
            workVars, fileVars, hostVars
<1>a. t = "main" \/ t = "monitor"
  BY DEF Threads
<1>b. NoBirths /\ UNCHANGED <<proc, pidFile, watch>>
  BY SameProc DEF Start, RotateLog, MoveLog, CheckPort, Popen, Wait, AssertPid, AssertLog
<1>c. Known(d)'
  <2>1. CASE RotateLog(d, t)
    BY <1>a, <1>b, <2>1, Premises, Kept, StepMoves DEF RotateLog
  <2>2. CASE MoveLog(d, t)
    BY <1>a, <1>b, <2>2, Premises, Kept, StepMoves DEF MoveLog
  <2>3. CASE CheckPort(d, t)
    BY <1>a, <1>b, <2>3, Premises, Kept, StepMoves DEF CheckPort
  <2>4. CASE Popen(d, t)
    <3>1. script'[d] = "running" /\ "running" \notin Servers
      BY <2>4, Premises, ScriptAssumption DEF Popen, ScriptStates
    <3> QED  BY <1>a, <1>b, <2>4, <3>1, Premises, Kept, StepMoves DEF Popen
  <2>5. CASE Wait(d, t)
    <3>1. script'[d] = "idle" /\ "idle" \notin Servers
      BY <2>5, Premises, ScriptAssumption DEF Wait, ScriptStates
    <3> QED  BY <1>a, <1>b, <2>5, <3>1, Premises, Kept, StepMoves DEF Wait
  <2>6. CASE AssertPid(d, t)
    BY <1>a, <1>b, <2>6, Premises, Kept, StepMoves DEF AssertPid, PidStep
  <2>7. CASE AssertLog(d, t)
    BY <1>a, <1>b, <2>7, Premises, Kept, StepMoves DEF AssertLog, AfterStart
  <2> QED  BY <2>1, <2>2, <2>3, <2>4, <2>5, <2>6, <2>7 DEF Start
<1> QED  BY <1>b, <1>c, Kept, Concluded

LEMMA PeekKeeps ==
  ASSUME TypeOK, SlotInv, NEW d, Daemons = {d}, NEW t \in Threads,
         Peek(d, t) \/ ReadFails(d, t)
  PROVE  SlotInv'
<1> USE DEF Known, Control, MainKnows, ScriptKnows, MonitorKnows, Started, OnlyLive,
            workVars, fileVars, hostVars
<1>a. t = "main" \/ t = "monitor"
  BY DEF Threads
<1>b. NoBirths /\ UNCHANGED <<proc, pidFile, watch, script>>
  BY SameProc DEF Peek, ReadFails
<1>c. Known(d)'
  <2>1. CASE Peek(d, t)
    BY <1>b, <2>1, Premises, Kept DEF Peek
  <2>2. CASE ReadFails(d, t)
    <3>1. at[d][t] \in PidLabels
      BY <2>2 DEF ReadFails
    <3> QED  BY <1>a, <1>b, <2>2, <3>1, Premises, Kept, StepMoves DEF ReadFails, PidLabels
  <2> QED  BY <2>1, <2>2
<1> QED  BY <1>b, <1>c, Kept, Concluded

\* The process a thread finds through the pid file is the live server, if any.
LEMMA FoundIsLive ==
  ASSUME PidsDistinct, LiveIsRecorded, pidFile # NoPid
  PROVE  OnlyLive(ProcAt(pidFile))
BY ProcAtFinds DEF LiveIsRecorded, OnlyLive, Procs

LEMMA MainKeeps ==
  ASSUME TypeOK, SlotInv, NEW d, Daemons = {d}, MainStep(d)
  PROVE  SlotInv'
<1> USE DEF Known, Control, MainKnows, ScriptKnows, MonitorKnows, Started, OnlyLive,
            workVars, fileVars, hostVars
<1>1. CASE Start(d, "main") \/ Peek(d, "main") \/ ReadFails(d, "main")
  BY <1>1, Premises, StartKeeps, PeekKeeps
<1>2. CASE ~(Start(d, "main") \/ Peek(d, "main") \/ ReadFails(d, "main"))
  <2>a. NoBirths /\ UNCHANGED <<proc, pidFile, script>>
    BY <1>2, SameProc DEF MainStep, Check1, Check2, CheckDaemon, ReadDaemon, WriteDaemon,
         Launch, InstallHandlers, Install, Pause, Unlink
  <2>b. Known(d)'
    <3>1. CASE Check1(d)
      BY <2>a, <3>1, Premises, Kept, StepMoves DEF Check1, PidStep
    <3>2. CASE Check2(d)
      <4>1. NoneLive => LiveIsRecorded
        BY DEF NoneLive, LiveIsRecorded
      <4> QED  BY <2>a, <3>2, <4>1, Premises, Kept, StepMoves DEF Check2, PidStep
    <3>3. CASE CheckDaemon(d)
      BY <2>a, <3>3, Premises, Kept, StepMoves DEF CheckDaemon
    <3>4. CASE ReadDaemon(d)
      BY <2>a, <3>4, Premises, Kept, StepMoves DEF ReadDaemon
    <3>5. CASE WriteDaemon(d)
      BY <2>a, <3>5, Premises, Kept, StepMoves DEF WriteDaemon
    <3>6. CASE Launch(d)
      <4>1. /\ at[d]["main"] = "launch" /\ proc[d] = "live" /\ LiveIsRecorded
            /\ at[d]["monitor"] = "off" /\ script[d] = "idle"
        BY <3>6, Premises DEF Launch, At
      <4>2. CASE Watchable = NoProc
        <5>1. at'[d]["main"] = "raised" /\ at'[d]["monitor"] = "off"
          BY <3>6, <4>1, <4>2, Premises DEF Launch, AtTypeOK, Threads
        <5> QED  BY <2>a, <4>1, <5>1, Premises, Kept
      <4>3. CASE Watchable # NoProc
        <5>1. at'[d]["main"] = "installInt" /\ at'[d]["monitor"] = "sleep"
          BY <3>6, <4>3, Premises DEF Launch, AtTypeOK, Threads
        <5>2. Watchable = ProcAt(pidFile) /\ pidFile # NoPid /\ Watchable \in Procs
          BY <4>3, ProcAtType DEF Watchable
        <5>3. watch'[d] = Watchable
          BY <3>6, Premises DEF Launch
        <5>4. \A s \in Servers : Live(s)' => s = Watchable
          BY <2>a, <4>1, <5>2, FoundIsLive, Premises, Kept
        <5> QED  BY <2>a, <4>1, <5>1, <5>2, <5>3, <5>4, ScriptAssumption DEF ScriptStates
      <4> QED  BY <4>2, <4>3
    <3>7. CASE InstallHandlers(d)
      BY <2>a, <3>7, Premises, Kept, StepMoves DEF InstallHandlers, Install
    <3>8. CASE Pause(d)
      BY <2>a, <3>8, Premises, Kept, StepMoves DEF Pause
    <3>9. CASE Unlink(d)
      BY <2>a, <3>9, Premises, Kept, StepMoves DEF Unlink
    <3> QED  BY <1>2, <3>1, <3>2, <3>3, <3>4, <3>5, <3>6, <3>7, <3>8, <3>9 DEF MainStep
  <2> QED  BY <2>a, <2>b, Kept, Concluded
<1> QED  BY <1>1, <1>2

LEMMA MonitorKeeps ==
  ASSUME TypeOK, SlotInv, NEW d, Daemons = {d}, MonitorStep(d)
  PROVE  SlotInv'
<1> USE DEF Known, Control, MainKnows, ScriptKnows, MonitorKnows, Started, OnlyLive,
            workVars, fileVars, hostVars
<1>1. CASE Start(d, "monitor") \/ Peek(d, "monitor") \/ ReadFails(d, "monitor")
  BY <1>1, Premises, StartKeeps, PeekKeeps
<1>2. CASE ~(Start(d, "monitor") \/ Peek(d, "monitor") \/ ReadFails(d, "monitor"))
  <2>a. NoBirths /\ UNCHANGED <<proc, pidFile, script>>
    BY <1>2, SameProc DEF MonitorStep, Wake, Compare, Probe, Rewatch, Retail, Quit
  <2>b. Known(d)'
    <3>1. CASE Wake(d)
      BY <2>a, <3>1, Premises, Kept, StepMoves DEF Wake, PidStep
    <3>2. CASE Compare(d)
      <4>1. at[d]["monitor"] = "compare" /\ watch[d] \in Procs
        BY <3>2, Premises, StepMoves DEF Compare, PidStep
      <4>2. PidOf[watch[d]] # NoPid
        BY <4>1, PidAssumption
      <4>3. pidFile = PidOf[watch[d]] => OnlyLive(watch[d])
        BY <4>1, <4>2, Premises
      <4> QED  BY <2>a, <3>2, <4>1, <4>3, Premises, Kept, StepMoves
               DEF Compare, PidStep, PidChanged
    <3>3. CASE Probe(d)
      <4>1. ~Live(watch[d]) /\ OnlyLive(watch[d]) => NoneLive
        BY DEF NoneLive
      <4> QED  BY <2>a, <3>3, <4>1, Premises, Kept, StepMoves DEF Probe, IsRunning
    <3>4. CASE Rewatch(d)
      <4>1. /\ at[d]["monitor"] = "rewatch" /\ LiveIsRecorded /\ proc[d] = "live"
            /\ at[d]["main"] \in Started /\ script[d] = "idle"
            /\ at'[d]["main"] = at[d]["main"]
        BY <3>4, Premises, StepMoves DEF Rewatch, PidStep
      <4>2. CASE Restarted(d) = NoProc
        <5>1. at'[d]["monitor"] = "raised"
          BY <3>4, <4>2, Premises, StepMoves DEF Rewatch, PidStep
        <5> QED  BY <2>a, <4>1, <5>1, Premises, Kept
      <4>3. CASE Restarted(d) # NoProc
        <5>1. at'[d]["monitor"] = "retail" /\ watch'[d] = Restarted(d)
          BY <3>4, <4>3, Premises, StepMoves DEF Rewatch, PidStep
        <5>2. Restarted(d) \in Procs
          BY <4>3, ProcAtType, Premises DEF Restarted, Procs
        <5>3. pidFile = NoPid \/ \A s \in Servers : Live(s)' => s = Restarted(d)
          BY <2>a, <4>1, FoundIsLive, Premises, Kept DEF Restarted
        <5> QED  BY <2>a, <4>1, <5>1, <5>2, <5>3, ScriptAssumption DEF ScriptStates
      <4> QED  BY <4>2, <4>3
    <3>5. CASE Retail(d)
      BY <2>a, <3>5, Premises, Kept, StepMoves DEF Retail
    <3>6. CASE Quit(d)
      BY <2>a, <3>6, Premises, Kept, StepMoves DEF Quit
    <3> QED  BY <1>2, <3>1, <3>2, <3>3, <3>4, <3>5, <3>6 DEF MonitorStep
  <2> QED  BY <2>a, <2>b, Kept, Concluded
<1> QED  BY <1>1, <1>2

LEMMA ScriptKeeps ==
  ASSUME TypeOK, SlotInv, NEW d, Daemons = {d}, Script(d)
  PROVE  SlotInv'
<1> USE DEF Known, Control, MainKnows, ScriptKnows, MonitorKnows, Started, OnlyLive,
            threadVars, hostVars
<1>1. CASE ScriptRefuses(d)
  <2>1. NoBirths
    BY <1>1, SameProc DEF ScriptRefuses
  <2>2. script'[d] = "done" /\ "done" \notin Servers
    BY <1>1, Premises, ScriptAssumption DEF ScriptRefuses, ScriptStates
  <2>3. NoneLive => LiveIsRecorded
    BY DEF NoneLive, LiveIsRecorded
  <2>4. script[d] = "running" /\ UNCHANGED <<proc, pidFile, watch, at>>
    BY <1>1 DEF ScriptRefuses, fileVars
  <2>5. NoneLive /\ NoneLive' /\ LiveIsRecorded'
    BY <2>1, <2>3, <2>4, Premises, Kept
  <2>6. Known(d)'
    BY <2>1, <2>2, <2>4, <2>5, Premises, Kept
  <2> QED  BY <2>1, <2>6, Kept, Concluded
<1>2. CASE ScriptRecords(d)
  <2>1. NoBirths /\ UNCHANGED <<proc, watch, at>>
    BY <1>2, SameProc DEF ScriptRecords
  <2>2. script'[d] = "done" /\ "done" \notin Servers /\ script[d] # "idle"
    BY <1>2, Premises, ScriptAssumption DEF ScriptRecords, ScriptStates
  <2>3. LiveIsRecorded'
    BY <1>2, <2>1, Premises DEF ScriptRecords, LiveIsRecorded, NoBirths, Procs
  <2>4. Known(d)'
    BY <2>1, <2>2, <2>3, Premises, Kept
  <2> QED  BY <2>1, <2>4, Kept, Concluded
<1>3. ASSUME NEW s \in Servers, ScriptSpawns(d, s)
      PROVE  SlotInv'
  <2>1. script[d] = "running" /\ NoneLive /\ script[d] # "idle"
    BY <1>3, Premises DEF ScriptSpawns
  <2>2. /\ script'[d] = s /\ s \notin ScriptStates
        /\ UNCHANGED <<at, watch, pidFile>>
    BY <1>3, Premises, ScriptAssumption DEF ScriptSpawns
  <2>3. proc \in [Procs -> Lives] /\ s \in Procs /\ s # d
    BY Premises, ProcAssumption DEF TypeOK, HostTypeOK, Procs
  <2>4. /\ proc'[d] = proc[d] /\ proc'[s] = "live"
        /\ \A p \in Procs \ {s} : proc'[p] = proc[p]
    BY <1>3, <2>3, Premises DEF ScriptSpawns, Procs
  <2>5. \A r \in Servers : Live(r)' => r = s
    BY <2>1, <2>4 DEF NoneLive, Live, Procs
  <2>6. PidsDistinct'
    BY <1>3, <2>4, Premises DEF ScriptSpawns, CanStart, PidExists, PidsDistinct, Live
  <2>7. NoDuplicateServer'
    BY <2>5 DEF NoDuplicateServer
  <2>8. Known(d)'
    BY <2>1, <2>2, <2>4, <2>5, Premises DEF ScriptStates
  <2> QED  BY <2>6, <2>7, <2>8, Concluded
<1> QED  BY <1>1, <1>2, <1>3 DEF Script

\* A daemon that has exited leaves its script running, and nothing else.
LEMMA GoneKeeps ==
  ASSUME TypeOK, SlotInv, NEW d, Daemons = {d}, Gone(d)
  PROVE  SlotInv'
<1> USE DEF Known, Control, MainKnows, ScriptKnows, MonitorKnows, Started, OnlyLive
<1>1. proc'[d] = "dead" /\ (\A p \in Procs : proc'[p] \in {"dead", proc[p]})
  BY Premises DEF Gone, Dies, TypeOK, HostTypeOK, Procs
<1>2. NoBirths
  BY <1>1 DEF NoBirths, Live
<1>3. at'[d]["main"] = "off" /\ at'[d]["monitor"] = "off" /\ UNCHANGED <<script, pidFile>>
  BY Premises DEF Gone, AtTypeOK, Off, fileVars
<1>4. Known(d)'
  BY <1>1, <1>2, <1>3, Premises, Kept
<1> QED  BY <1>2, <1>4, Kept, Concluded

LEMMA MainRaisesKeeps ==
  ASSUME TypeOK, SlotInv, NEW d, Daemons = {d}, MainRaises(d), proc[d] = "live"
  PROVE  SlotInv'
<1>1. CASE at[d]["main"] \in Leaving
  BY <1>1, GoneKeeps DEF MainRaises
<1>2. CASE at[d]["main"] \notin Leaving
  <2> USE DEF Known, Control, MainKnows, ScriptKnows, MonitorKnows, Started, OnlyLive
  <2>1. NoBirths /\ UNCHANGED <<proc, pidFile, watch, script>>
    BY <1>2, SameProc DEF MainRaises, hostVars, fileVars, workVars
  <2>2. at'[d]["main"] = "raised" /\ at'[d]["monitor"] = at[d]["monitor"]
    BY <1>2, Premises DEF MainRaises, AtTypeOK
  <2>3. Known(d)'
    BY <2>1, <2>2, Premises, Kept
  <2> QED  BY <2>1, <2>3, Kept, Concluded
<1> QED  BY <1>1, <1>2


\* A step that gives birth to no process and moves neither thread, and at most
\* unlinks the pid file, or signals a process.
LEMMA QuietKeeps ==
  ASSUME TypeOK, SlotInv, NEW d, Daemons = {d}, NoBirths,
         proc'[d] = proc[d] \/ {proc[d], proc'[d]} \cap {"unborn", "dead"} = {},
         pidFile' \in {NoPid, pidFile}, UNCHANGED <<at, watch, script>>
  PROVE  SlotInv'
<1> USE DEF Known, Control, MainKnows, ScriptKnows, MonitorKnows, Started, OnlyLive
<1>1. Known(d)'
  BY Premises, Kept
<1> QED  BY <1>1, Kept, Concluded

\* A signal revives nobody: who it is sent to is alive, or no process.
LEMMA SignalKeeps ==
  ASSUME TypeOK, SlotInv, NEW d, Daemons = {d}, NEW p, Live(p),
         SigTerm(p) \/ proc' = [proc EXCEPT ![p] = "killed"],
         UNCHANGED <<pidFile, at, watch, script>>
  PROVE  SlotInv'
<1>1. proc \in [Procs -> Lives] /\ d \in Procs
  BY DEF TypeOK, HostTypeOK, Procs
<1>2. \E l \in {"terminated", "killed"} : proc' = [proc EXCEPT ![p] = l]
  BY <1>1 DEF SigTerm
<1>3. NoBirths
  BY <1>1, <1>2 DEF NoBirths, Live
<1>4. proc'[d] = proc[d] \/ {proc[d], proc'[d]} \cap {"unborn", "dead"} = {}
  BY <1>1, <1>2 DEF Live
<1> QED  BY <1>3, <1>4, QuietKeeps

LEMMA HandlerKeeps ==
  ASSUME TypeOK, SlotInv, NEW d, Daemons = {d}, Deliver(d) \/ Handler(d)
  PROVE  SlotInv'
<1> USE DEF hostVars, fileVars, threadVars, workVars
<1>1. CASE HandlerRaises(d) /\ proc[d] = "live"
  BY <1>1, MainRaisesKeeps DEF HandlerRaises
<1>2. CASE UNCHANGED <<proc, at, watch, script>> /\ pidFile' \in {NoPid, pidFile}
  BY <1>2, SameProc, QuietKeeps
<1>3. ASSUME ~(HandlerRaises(d) /\ proc[d] = "live"),
             ~(UNCHANGED <<proc, at, watch, script>> /\ pidFile' \in {NoPid, pidFile})
      PROVE  Terminate(d) \/ KillTarget(d)
  <2>1. ~ Deliver(d)
    BY <1>3 DEF Deliver
  <2>2. ~ (SeePid(d) \/ ReadPid(d) \/ Await(d) \/ SeeFile(d) \/ Join(d))
    BY <1>3 DEF SeePid, ReadPid, Await, SeeFile, Join, InHandler
  <2>3. ~ (UnlinkPidFile(d) \/ StopRotatesLog(d) \/ StopMovesLog(d))
    BY <1>3 DEF UnlinkPidFile, StopRotatesLog, StopMovesLog, InHandler
  <2> QED  BY <2>1, <2>2, <2>3 DEF Handler
<1>4. CASE Terminate(d)
  BY <1>1, <1>4, SignalKeeps DEF Terminate, InHandler
<1>5. CASE KillTarget(d)
  BY <1>1, <1>5, SignalKeeps DEF KillTarget, InHandler
<1> QED  BY <1>1, <1>2, <1>3, <1>4, <1>5

\* A process is born with a pid nobody has.
LEMMA BirthKeeps ==
  ASSUME TypeOK, PidsDistinct, NEW p \in Procs, CanStart(p),
         proc' = [proc EXCEPT ![p] = "live"]
  PROVE  PidsDistinct' /\ \A q \in Procs \ {p} : proc'[q] = proc[q]
BY DEF TypeOK, HostTypeOK, CanStart, PidExists, PidsDistinct, Live

LEMMA LifeKeeps ==
  ASSUME TypeOK, SlotInv, NEW d, Daemons = {d}, Begin(d) \/ Exit(d) \/ Kill(d)
  PROVE  SlotInv'
<1>1. CASE Exit(d) \/ Kill(d)
  BY <1>1, GoneKeeps DEF Exit, Kill
<1>2. CASE Begin(d)
  <2> USE DEF Known, Control, MainKnows, ScriptKnows, MonitorKnows, Started, OnlyLive,
              workVars, fileVars
  <2>1. d \in Procs /\ proc \in [Procs -> Lives] /\ Servers \subseteq Procs \ {d}
    BY ProcAssumption DEF TypeOK, HostTypeOK, Procs
  <2>2. PidsDistinct' /\ \A q \in Procs \ {d} : proc'[q] = proc[q]
    BY <1>2, <2>1, Premises, BirthKeeps DEF Begin
  <2>3. proc[d] = "unborn" /\ proc'[d] = "live" /\ NoneLive /\ script[d] = "idle"
        /\ at[d]["monitor"] = "off"
    BY <1>2, <2>1, Premises DEF Begin, CanStart
  <2>4. NoneLive'
    BY <2>1, <2>2, <2>3 DEF NoneLive, Live
  <2>5. NoDuplicateServer'
    BY <2>4 DEF NoneLive, NoDuplicateServer
  <2>6. /\ at'[d]["main"] = "check1" /\ at'[d]["monitor"] = "off"
        /\ script'[d] = "idle" /\ "idle" \notin Servers
    BY <1>2, <2>3, Premises, ScriptAssumption DEF Begin, AtTypeOK, ScriptStates
  <2>7. Known(d)'
    BY <2>3, <2>4, <2>6
  <2> QED  BY <2>2, <2>5, <2>7, Concluded
<1> QED  BY <1>1, <1>2

LEMMA SendKeeps ==
  ASSUME TypeOK, SlotInv, NEW d, Daemons = {d}, Send
  PROVE  SlotInv'
<1>1. CASE Flag(d)
  <2> USE DEF Known, Control, MainKnows, ScriptKnows, MonitorKnows, Started, OnlyLive,
              workVars, fileVars, hostVars
  <2>1. NoBirths /\ UNCHANGED <<proc, pidFile, watch, script>>
    BY <1>1, SameProc DEF Flag
  <2>2. /\ at'[d]["main"] = IF at[d]["main"] = "paused" THEN "woken" ELSE at[d]["main"]
        /\ at'[d]["monitor"] = at[d]["monitor"]
    BY <1>1, Premises DEF Flag, AtTypeOK
  <2>3. Known(d)'
    BY <2>1, <2>2, Premises, Kept
  <2> QED  BY <2>1, <2>3, Kept, Concluded
<1>2. CASE Gone(d)
  BY <1>2, GoneKeeps
<1>3. CASE MainRaises(d) /\ proc[d] = "live"
  BY <1>3, MainRaisesKeeps
<1>4. CASE CliStop
  <2>1. CASE ProcAt(daemonPid) \in Daemons
    BY <1>1, <1>2, <1>4, <2>1 DEF CliStop, SendTerm
  <2>2. CASE ProcAt(daemonPid) \notin Daemons
    <3>1. SigTerm(ProcAt(daemonPid)) /\ Live(ProcAt(daemonPid))
      BY <1>4, <2>2, ProcAtType DEF CliStop
    <3> QED  BY <1>4, <2>2, <3>1, SignalKeeps DEF CliStop, fileVars, threadVars, workVars
  <2> QED  BY <2>1, <2>2
<1> QED  BY <1>1, <1>2, <1>3, <1>4 DEF Send, SendTerm, SendInt

LEMMA HostStepKeeps ==
  ASSUME TypeOK, SlotInv, NEW d, Daemons = {d}, HostStep
  PROVE  SlotInv'
<1> USE DEF HostStep, daemonVars, fileVars, threadVars, workVars
<1>1. d \in Procs /\ proc \in [Procs -> Lives] /\ d \notin Servers \cup Strangers
      /\ Servers \cup Strangers \subseteq Procs
  BY ProcAssumption DEF TypeOK, HostTypeOK, Procs
<1>2. CASE UNCHANGED proc
  BY <1>2, SameProc, QuietKeeps
<1>3. ASSUME NEW p \in Servers \cup Strangers, Dies(p)
      PROVE  SlotInv'
  <2>1. NoBirths /\ proc'[d] = proc[d]
    BY <1>1, <1>3 DEF Dies, NoBirths, Live
  <2> QED  BY <2>1, QuietKeeps
<1>4. ASSUME NEW p \in Strangers, StrangerArrives(p)
      PROVE  SlotInv'
  <2> USE DEF Known, Control, MainKnows, ScriptKnows, MonitorKnows, Started, OnlyLive
  <2>1. PidsDistinct' /\ \A q \in Procs \ {p} : proc'[q] = proc[q]
    BY <1>1, <1>4, Premises, BirthKeeps DEF StrangerArrives
  <2>2. \A s \in Servers \cup {d} : proc'[s] = proc[s]
    BY <1>1, <2>1, ProcAssumption
  <2>3. /\ NoDuplicateServer'
        /\ NoneLive => NoneLive'
        /\ LiveIsRecorded => LiveIsRecorded'
        /\ \A q : OnlyLive(q) => (\A s \in Servers : Live(s)' => s = q)
    BY <2>2, Premises DEF NoDuplicateServer, NoneLive, LiveIsRecorded, Live
  <2>4. Known(d)'
    BY <2>2, <2>3, Premises
  <2> QED  BY <2>1, <2>3, <2>4, Concluded
<1> QED  BY <1>2, <1>3, <1>4
         DEF Bind, BindFails, Reaped, ShutsDown, Crash, PortFreed

LEMMA RebootKeeps ==
  ASSUME TypeOK, SlotInv, NEW d, Daemons = {d}, Reboot
  PROVE  SlotInv'
<1> USE DEF Known, Control, MainKnows, ScriptKnows, MonitorKnows, Started, OnlyLive
<1>1. \A p \in Procs : ~Live(p)'
  BY DEF Reboot, Live
<1>2. NoneLive' /\ PidsDistinct' /\ NoDuplicateServer'
  BY <1>1 DEF NoneLive, PidsDistinct, NoDuplicateServer, Procs
<1>3. /\ at'[d]["main"] = "off" /\ at'[d]["monitor"] = "off"
      /\ script'[d] = "idle" /\ "idle" \notin Servers
  BY ScriptAssumption DEF Reboot, Off, Threads, ScriptStates
<1>4. Known(d)'
  BY <1>2, <1>3
<1> QED  BY <1>2, <1>4, Concluded

\* A single daemon has at most one server alive at any time: no start or restart
\* overlaps with the server before it, whatever the stop handler, signals at any
\* statement, crashes, recycled pids and reboots do in between.
THEOREM OneServer ==
  ASSUME NEW d, Daemons = {d}
  PROVE  Spec => [](SlotInv /\ NoDuplicateServer)
<1>1. Init => SlotInv
  <2> SUFFICES ASSUME Init PROVE SlotInv
    OBVIOUS
  <2>1. \A p \in Procs : ~Live(p)
    BY DEF Init, HostInit, Live
  <2>2. NoneLive /\ PidsDistinct /\ NoDuplicateServer
    BY <2>1 DEF NoneLive, PidsDistinct, NoDuplicateServer, Procs
  <2>3. ASSUME NEW e \in Daemons
        PROVE  /\ at[e]["main"] = "off" /\ at[e]["monitor"] = "off"
               /\ script[e] = "idle" /\ "idle" \notin Servers
    BY ScriptAssumption DEF Init, Off, Threads, ScriptStates
  <2> QED  BY <2>2, <2>3 DEF SlotInv, Control, MainKnows, ScriptKnows, MonitorKnows
<1>2. TypeOK /\ SlotInv /\ [Next]_vars => SlotInv'
  <2> SUFFICES ASSUME TypeOK, SlotInv, [Next]_vars PROVE SlotInv'
    OBVIOUS
  <2>1. CASE DaemonStep(d)
    BY <2>1, MainKeeps, MonitorKeeps, ScriptKeeps, HandlerKeeps, LifeKeeps DEF DaemonStep
  <2>2. CASE UNCHANGED vars
    BY <2>2, SameProc, QuietKeeps DEF vars, hostVars, fileVars, threadVars, workVars
  <2> QED  BY <2>1, <2>2, SendKeeps, HostStepKeeps, RebootKeeps DEF Next
<1>3. SlotInv => NoDuplicateServer
  BY DEF SlotInv
<1> QED  BY <1>1, <1>2, <1>3, TypeCorrect, PTL DEF Spec

=============================================================================
