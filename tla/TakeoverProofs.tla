--------------------------- MODULE TakeoverProofs ---------------------------
(***************************************************************************)
(* Daemons that follow each other after kills, crashes and reboots, as     *)
(* many as there are, whose start scripts outlive them: they never have    *)
(* two servers, they implement ServerSlot, and no start of theirs fails.   *)
(* TakeoverInv and BootInv of DaemonInv are inductive.                     *)
(***************************************************************************)
EXTENDS SlotProofs

\* What every step starts from.
LEMMA TakeoverPremises ==
  ASSUME TypeOK, TakeoverInv, NEW d \in Daemons
  PROVE  /\ AtTypeOK /\ "main" \in Threads /\ "monitor" \in Threads
         /\ script \in [Daemons -> ScriptStates \cup Servers]
         /\ watch \in [Daemons -> Procs \cup {NoProc}]
         /\ tail \in [Daemons -> Procs \cup {NoProc}]
         /\ proc \in [Procs -> Lives] /\ d \in Procs
         /\ PidsDistinct /\ NoDuplicateServer /\ Works(d) /\ Retired(d)
         /\ frames[d] = <<>> /\ ~pending[d] /\ ~stopping[d]
         /\ Live(d) <=> proc[d] = "live"
BY DEF TypeOK, HostTypeOK, WorkTypeOK, Threads, TakeoverInv, Unsignalled, Live, Procs

\* A step of one thread leaves the threads of the other daemons alone.
LEMMA StepLeavesOthers ==
  ASSUME AtTypeOK, NEW d \in Daemons, NEW t \in Threads, NEW from, NEW to, Step(d, t, from, to)
  PROVE  proc[d] = "live" /\ \A e \in Daemons \ {d} : at'[e] = at[e]
BY DEF AtTypeOK, Step, At

\* While one daemon is at work, or its script is, the others have done nothing yet, or
\* nothing any more.
LEMMA OthersRest ==
  ASSUME TypeOK, TakeoverInv, NEW d \in Daemons, AtWork(d), NEW e \in Daemons \ {d},
         at'[e] = at[e], script'[e] = script[e], proc'[e] = proc[e]
  PROVE  ~AtWork(e)' /\ Retired(e)' /\ Works(e)' /\ script'[e] \notin Servers
<1>1. ~Live(e) /\ script[e] \in {"idle", "done"} /\ Retired(e)
  BY DEF TakeoverInv, OneDaemon, AtWork, Booting
<1>2. at'[e]["main"] = "off" /\ at'[e]["monitor"] = "off" /\ script'[e] \in {"idle", "done"}
  BY <1>1 DEF Retired
<1>3. ~Live(e)' /\ Retired(e)'
  BY <1>1, <1>2 DEF Live, Retired
<1>4. ~AtWork(e)'
  BY <1>2, <1>3 DEF AtWork, Booting
<1>5. script'[e] \notin Servers \cup {"running"}
  BY <1>2, ScriptAssumption DEF ScriptStates
<1> QED  BY <1>2, <1>3, <1>4, <1>5 DEF Works

LEMMA NamedUnlessSpawned ==
  ASSUME TypeOK, TakeoverInv, NEW d \in Daemons, AtWork(d), script[d] \notin Servers
  PROVE  LiveIsNamed
<1>1. \A e \in Daemons \ {d} : script[e] \notin Servers
  BY ScriptAssumption DEF TakeoverInv, OneDaemon, AtWork, Booting, ScriptStates
<1> QED  BY <1>1 DEF TakeoverInv

LEMMA TakeoverConcluded ==
  ASSUME TypeOK, TakeoverInv, NEW d \in Daemons, AtWork(d),
         \A e \in Daemons \ {d} : at'[e] = at[e] /\ script'[e] = script[e] /\ proc'[e] = proc[e],
         PidsDistinct', NoDuplicateServer', Unsignalled', Retired(d)', Works(d)',
         script'[d] \notin Servers => LiveIsNamed'
  PROVE  TakeoverInv'
<1>1. \A e \in Daemons \ {d} : ~AtWork(e)' /\ Retired(e)' /\ Works(e)'
  BY OthersRest
<1>2. OneDaemon'
  BY <1>1 DEF OneDaemon
<1> QED  BY <1>1, <1>2 DEF TakeoverInv

\* A step of a thread or of a script, in which nobody is born, dies or is signalled.
LEMMA WorkConcluded ==
  ASSUME TypeOK, TakeoverInv, NEW d \in Daemons, AtWork(d),
         UNCHANGED <<proc, pidFile, stopping, pending, frames>>,
         \A e \in Daemons \ {d} : at'[e] = at[e] /\ script'[e] = script[e],
         script'[d] = script[d] \/ {script[d], script'[d]} \cap Servers = {},
         Works(d)', Retired(d)'
  PROVE  TakeoverInv'
<1>1. \A p : Live(p)' <=> Live(p)
  BY DEF Live
<1>2. PidsDistinct' /\ NoDuplicateServer' /\ Unsignalled'
  BY <1>1 DEF TakeoverInv, PidsDistinct, NoDuplicateServer, Unsignalled
<1>3. script[d] \notin Servers => LiveIsNamed
  BY NamedUnlessSpawned
<1>4. script'[d] \notin Servers => LiveIsNamed'
  BY <1>1, <1>3 DEF LiveIsNamed
<1> QED  BY <1>2, <1>4, TakeoverConcluded

LEMMA ThreadConcluded ==
  ASSUME TypeOK, TakeoverInv, NEW d \in Daemons, proc[d] = "live",
         UNCHANGED <<proc, pidFile, stopping, pending, frames>>,
         \A e \in Daemons \ {d} : at'[e] = at[e] /\ script'[e] = script[e],
         script'[d] = script[d] \/ {script[d], script'[d]} \cap Servers = {},
         Works(d)'
  PROVE  TakeoverInv'
<1>1. AtWork(d) /\ Retired(d)'
  BY DEF AtWork, Live, Retired
<1> QED  BY <1>1, WorkConcluded

\* Lives stay in such a step.
LEMMA SameLives ==
  ASSUME UNCHANGED proc
  PROVE  /\ NoneLive => NoneLive'
         /\ \A p : Live(p)' <=> Live(p)
         /\ \A p : (\A s \in Servers : Live(s) => s = p) => (\A s \in Servers : Live(s)' => s = p)
BY DEF NoneLive, Live

LEMMA StartTakes ==
  ASSUME TypeOK, TakeoverInv, NEW d \in Daemons, NEW t \in Threads, Start(d, t)
  PROVE  TakeoverInv'
<1> USE DEF Works, Started, OnlyLive, workVars, fileVars, hostVars, stopVars
<1>a. t = "main" \/ t = "monitor"
  BY DEF Threads
<1>b. /\ UNCHANGED <<proc, pidFile, watch, tail, stopping, pending, frames>>
      /\ proc[d] = "live" /\ \A e \in Daemons \ {d} : at'[e] = at[e]
  <2>1. UNCHANGED <<proc, pidFile, watch, tail, stopping, pending, frames>>
    BY DEF Start, RotateLog, MoveLog, CheckPort, Popen, Wait, AssertPid, AssertLog
  <2>2. \E from, to : Step(d, t, from, to)
    BY DEF Start, RotateLog, MoveLog, CheckPort, Popen, Wait, AssertPid, AssertLog, PidStep
  <2> QED  BY <2>1, <2>2, TakeoverPremises, StepLeavesOthers
<1>c. Works(d)'
  <2>a. UNCHANGED <<pidFile, watch, tail>> /\ AtTypeOK /\ Works(d) /\ Live(d)
    BY <1>b, TakeoverPremises
  <2>b. /\ NoneLive => NoneLive'
        /\ \A p : Live(p)' <=> Live(p)
        /\ \A p : (\A s \in Servers : Live(s) => s = p) => (\A s \in Servers : Live(s)' => s = p)
    BY <1>b, SameLives
  <2>1. CASE RotateLog(d, t)
    BY <1>a, <2>a, <2>b, <2>1, StepMoves DEF RotateLog
  <2>2. CASE MoveLog(d, t)
    BY <1>a, <2>a, <2>b, <2>2, StepMoves DEF MoveLog
  <2>3. CASE CheckPort(d, t)
    BY <1>a, <2>a, <2>b, <2>3, StepMoves DEF CheckPort
  <2>4. CASE Popen(d, t)
    <3>1. script'[d] = "running" /\ "running" \notin Servers
      BY <2>4, TakeoverPremises, ScriptAssumption DEF Popen, ScriptStates
    <3> QED  BY <1>a, <2>a, <2>b, <2>4, <3>1, StepMoves DEF Popen
  <2>5. CASE Wait(d, t)
    <3>1. script'[d] = "idle" /\ "idle" \notin Servers
      BY <2>5, TakeoverPremises, ScriptAssumption DEF Wait, ScriptStates
    <3> QED  BY <1>a, <2>a, <2>b, <2>5, <3>1, StepMoves DEF Wait
  <2>6. CASE AssertPid(d, t)
    BY <1>a, <2>a, <2>b, <2>6, StepMoves DEF AssertPid, PidStep
  <2>7. CASE AssertLog(d, t)
    BY <1>a, <2>a, <2>b, <2>7, StepMoves DEF AssertLog, AfterStart
  <2> QED  BY <2>1, <2>2, <2>3, <2>4, <2>5, <2>6, <2>7 DEF Start
<1>d. /\ \A e \in Daemons \ {d} : script'[e] = script[e]
      /\ script'[d] = script[d] \/ {script[d], script'[d]} \cap Servers = {}
  <2>1. CASE UNCHANGED script
    BY <2>1
  <2>2. CASE Popen(d, t)
    <3>1. script[d] = "idle" /\ script'[d] = "running" /\ {"idle", "running"} \cap Servers = {}
      BY <1>a, <2>2, TakeoverPremises, StepMoves, ScriptAssumption DEF Popen, ScriptStates
    <3> QED  BY <2>2, <3>1, TakeoverPremises DEF Popen
  <2>3. CASE Wait(d, t)
    BY <2>3, TakeoverPremises, ScriptAssumption DEF Wait, ScriptStates
  <2> QED  BY <2>1, <2>2, <2>3 DEF Start, RotateLog, MoveLog, CheckPort, AssertPid, AssertLog
<1> HIDE DEF Works
<1> QED  BY <1>b, <1>c, <1>d, ThreadConcluded

LEMMA PeekTakes ==
  ASSUME TypeOK, TakeoverInv, NEW d \in Daemons, NEW t \in Threads, Peek(d, t) \/ ReadFails(d, t)
  PROVE  TakeoverInv'
<1>a. t = "main" \/ t = "monitor"
  BY DEF Threads
<1>1. CASE Peek(d, t)
  <2>1. /\ UNCHANGED <<proc, pidFile, at, script, watch, tail, stopping, pending, frames>>
        /\ proc[d] = "live"
    BY <1>1 DEF Peek, At, hostVars, fileVars, workVars, stopVars
  <2>2. Works(d)'
    BY <2>1, TakeoverPremises, SameLives DEF Works, OnlyLive
  <2> QED  BY <2>1, <2>2, ThreadConcluded
<1>2. CASE ReadFails(d, t)
  <2>1. /\ UNCHANGED <<proc, pidFile, script, watch, tail, stopping, pending, frames>>
        /\ Step(d, t, at[d][t], "raised") /\ at[d][t] \in PidLabels
    BY <1>2 DEF ReadFails, hostVars, fileVars, workVars, stopVars
  <2>2. proc[d] = "live" /\ \A e \in Daemons \ {d} : at'[e] = at[e]
    BY <2>1, TakeoverPremises, StepLeavesOthers
  <2>3. AtTypeOK /\ Works(d) /\ Live(d)
    BY <2>2, TakeoverPremises
  <2>4. /\ NoneLive => NoneLive'
        /\ \A p : Live(p)' <=> Live(p)
        /\ \A p : (\A s \in Servers : Live(s) => s = p) => (\A s \in Servers : Live(s)' => s = p)
    BY <2>1, SameLives
  <2>5. Works(d)'
    BY <1>a, <2>1, <2>3, <2>4, StepMoves DEF Works, OnlyLive, Started, PidLabels
  <2> QED  BY <2>1, <2>2, <2>5, ThreadConcluded
<1> QED  BY <1>1, <1>2

\* What self.pid says of the live servers: nobody, if the file is absent or stale, and
\* otherwise the process it leads to.
LEMMA PidTells ==
  ASSUME PidsDistinct, LiveIsNamed
  PROVE  /\ pidFile = NoPid \/ ~PidExists(pidFile) => NoneLive
         /\ OnlyLive(ProcAt(pidFile))
         /\ ProcAt(pidFile) # NoProc => PidOf[ProcAt(pidFile)] = pidFile
<1>1. Servers \subseteq Procs
  BY DEF Procs
<1>2. pidFile = NoPid \/ ~PidExists(pidFile) => NoneLive
  BY <1>1, PidAssumption DEF LiveIsNamed, NoneLive, PidExists
<1>3. OnlyLive(ProcAt(pidFile))
  BY <1>1, ProcAtFinds DEF LiveIsNamed, OnlyLive
<1> QED  BY <1>2, <1>3, ProcAtType

LEMMA MainTakes ==
  ASSUME TypeOK, TakeoverInv, NEW d \in Daemons, MainStep(d)
  PROVE  TakeoverInv'
<1>1. CASE Start(d, "main") \/ Peek(d, "main") \/ ReadFails(d, "main")
  BY <1>1, TakeoverPremises, StartTakes, PeekTakes
<1>2. CASE ~(Start(d, "main") \/ Peek(d, "main") \/ ReadFails(d, "main"))
  <2> USE DEF Works, Started, OnlyLive, PidStep
  <2>a. UNCHANGED <<proc, pidFile, script, stopping, pending, frames>>
    BY <1>2 DEF MainStep, Check1, Check2, CheckDaemon, ReadDaemon, WriteDaemon, Launch,
         InstallHandlers, Install, Pause, Unlink, hostVars, fileVars, workVars, stopVars
  <2>b. AtTypeOK /\ Works(d) /\ PidsDistinct
    BY TakeoverPremises
  <2>c. /\ NoneLive => NoneLive'
        /\ \A p : Live(p)' <=> Live(p)
        /\ \A p : (\A s \in Servers : Live(s) => s = p) => (\A s \in Servers : Live(s)' => s = p)
    BY <2>a, SameLives
  <2>d. proc[d] = "live" /\ \A e \in Daemons \ {d} : at'[e] = at[e]
    <3>1. CASE Launch(d)
      BY <2>b, <3>1 DEF Launch, At, AtTypeOK
    <3>2. CASE \E from, to : Step(d, "main", from, to)
      BY <2>b, <3>2, TakeoverPremises, StepLeavesOthers
    <3> QED  BY <1>2, <3>1, <3>2 DEF MainStep, Check1, Check2, CheckDaemon, ReadDaemon,
                WriteDaemon, InstallHandlers, Install, Pause, Unlink
  <2>e. Live(d) /\ (script[d] = "idle" => LiveIsNamed)
    BY <2>d, NamedUnlessSpawned, ScriptAssumption DEF AtWork, Live, ScriptStates
  <2>f. Works(d)'
    <3>1. CASE Check1(d)
      BY <2>a, <2>b, <2>c, <2>e, <3>1, StepMoves, PidTells DEF Check1, workVars
    <3>2. CASE Check2(d)
      BY <2>a, <2>b, <2>c, <2>e, <3>2, StepMoves, PidTells DEF Check2, workVars
    <3>3. CASE CheckDaemon(d) \/ ReadDaemon(d) \/ WriteDaemon(d) \/ InstallHandlers(d)
               \/ Pause(d) \/ Unlink(d)
      <4>1. UNCHANGED <<watch, tail>>
        BY <3>3 DEF CheckDaemon, ReadDaemon, WriteDaemon, InstallHandlers, Install, Pause, Unlink, workVars
      <4> QED  BY <2>a, <2>b, <2>c, <2>e, <3>3, <4>1, StepMoves
               DEF CheckDaemon, ReadDaemon, WriteDaemon, InstallHandlers, Install, Pause, Unlink
    <3>4. CASE Launch(d)
      <4>1. at[d]["main"] = "launch" /\ at[d]["monitor"] = "off" /\ script[d] = "idle"
            /\ LiveIsNamed
        BY <2>b, <2>e, <3>4 DEF Launch, At
      <4>2. CASE Watchable = NoProc
        <5>1. at'[d]["main"] = "raised" /\ at'[d]["monitor"] = "off"
          BY <2>b, <3>4, <4>1, <4>2 DEF Launch, AtTypeOK, Threads
        <5> QED  BY <2>a, <2>c, <2>e, <4>1, <5>1, ScriptAssumption DEF ScriptStates
      <4>3. CASE Watchable # NoProc
        <5>1. at'[d]["main"] = "installInt" /\ at'[d]["monitor"] = "sleep"
          BY <2>b, <3>4, <4>3 DEF Launch, AtTypeOK, Threads
        <5>2. Watchable = ProcAt(pidFile) /\ Watchable \in Procs
          BY <4>3, ProcAtType DEF Watchable
        <5>3. watch'[d] = Watchable /\ tail'[d] = Watchable
          BY <3>4, TakeoverPremises DEF Launch
        <5>4. PidOf[Watchable] = pidFile /\ \A s \in Servers : Live(s)' => s = Watchable
          BY <2>b, <2>c, <4>1, <4>3, <5>2, PidTells
        <5> QED  BY <2>a, <2>c, <2>e, <4>1, <5>1, <5>2, <5>3, <5>4, ScriptAssumption DEF ScriptStates
      <4> QED  BY <4>2, <4>3
    <3> QED  BY <1>2, <3>1, <3>2, <3>3, <3>4 DEF MainStep
  <2> HIDE DEF Works
  <2> QED  BY <2>a, <2>d, <2>f, ThreadConcluded
<1> QED  BY <1>1, <1>2

LEMMA MonitorTakes ==
  ASSUME TypeOK, TakeoverInv, NEW d \in Daemons, MonitorStep(d)
  PROVE  TakeoverInv'
<1>1. CASE Start(d, "monitor") \/ Peek(d, "monitor") \/ ReadFails(d, "monitor")
  BY <1>1, TakeoverPremises, StartTakes, PeekTakes
<1>2. CASE ~(Start(d, "monitor") \/ Peek(d, "monitor") \/ ReadFails(d, "monitor"))
  <2> USE DEF Works, Started, OnlyLive, PidStep
  <2>a. UNCHANGED <<proc, pidFile, script, stopping, pending, frames>>
    BY <1>2 DEF MonitorStep, Wake, Compare, Probe, Rewatch, Retail, Quit, hostVars, fileVars,
         workVars, stopVars
  <2>b. AtTypeOK /\ Works(d) /\ PidsDistinct
    BY TakeoverPremises
  <2>c. /\ NoneLive => NoneLive'
        /\ \A p : Live(p)' <=> Live(p)
        /\ \A p : (\A s \in Servers : Live(s) => s = p) => (\A s \in Servers : Live(s)' => s = p)
    BY <2>a, SameLives
  <2>d. proc[d] = "live" /\ \A e \in Daemons \ {d} : at'[e] = at[e]
    <3>1. \E from, to : Step(d, "monitor", from, to)
      BY <1>2 DEF MonitorStep, Wake, Compare, Probe, Rewatch, Retail, Quit
    <3> QED  BY <3>1, TakeoverPremises, StepLeavesOthers
  <2>e. Live(d) /\ (script[d] = "idle" => LiveIsNamed)
    BY <2>d, NamedUnlessSpawned, ScriptAssumption DEF AtWork, Live, ScriptStates
  <2>f. Works(d)'
    <3>1. CASE Wake(d)
      <4>1. /\ at[d]["monitor"] = "sleep" /\ at'[d]["monitor"] \in {"quit", "compare"}
            /\ at'[d]["main"] = at[d]["main"] /\ UNCHANGED <<watch, tail>>
        BY <2>b, <3>1, StepMoves DEF Wake, workVars
      <4> QED  BY <2>a, <2>b, <2>c, <2>e, <4>1
    <3>2. CASE Compare(d)
      BY <2>a, <2>b, <2>c, <2>e, <3>2, StepMoves DEF Compare, workVars
    <3>3. CASE Probe(d)
      <4>1. ~Live(watch[d]) /\ OnlyLive(watch[d]) => NoneLive
        BY DEF NoneLive
      <4>2. /\ at[d]["monitor"] = "probe"
            /\ at'[d]["monitor"] = IF Live(watch[d]) THEN "sleep" ELSE "rotate"
            /\ at'[d]["main"] = at[d]["main"] /\ UNCHANGED <<watch, tail>>
        BY <2>b, <3>3, StepMoves DEF Probe, IsRunning, workVars
      <4> QED  BY <2>a, <2>b, <2>c, <2>e, <4>1, <4>2
    <3>4. CASE Rewatch(d)
      <4>1. /\ at[d]["monitor"] = "rewatch" /\ at[d]["main"] \in Started /\ script[d] = "idle"
            /\ at'[d]["main"] = at[d]["main"] /\ pidFile # NoPid /\ LiveIsNamed
        BY <2>b, <2>e, <3>4, StepMoves DEF Rewatch
      <4>2. Restarted(d) = ProcAt(pidFile)
        BY <4>1 DEF Restarted
      <4>3. CASE Restarted(d) = NoProc
        <5>1. at'[d]["monitor"] = "raised"
          BY <2>b, <3>4, <4>3, StepMoves DEF Rewatch
        <5> QED  BY <2>a, <2>c, <2>e, <4>1, <5>1, ScriptAssumption DEF ScriptStates
      <4>4. CASE Restarted(d) # NoProc
        <5>1. at'[d]["monitor"] = "retail" /\ watch'[d] = Restarted(d)
          BY <2>b, <3>4, <4>4, StepMoves, TakeoverPremises DEF Rewatch
        <5>2. Restarted(d) \in Procs /\ PidOf[Restarted(d)] = pidFile
          BY <4>2, <4>4, ProcAtType
        <5>3. \A s \in Servers : Live(s)' => s = Restarted(d)
          BY <2>b, <2>c, <4>1, <4>2, PidTells
        <5> QED  BY <2>a, <2>c, <2>e, <4>1, <5>1, <5>2, <5>3, ScriptAssumption DEF ScriptStates
      <4> QED  BY <4>3, <4>4
    <3>5. CASE Retail(d)
      <4>1. tail'[d] = IF log THEN watch[d] ELSE NoProc
        BY <3>5, TakeoverPremises DEF Retail
      <4> QED  BY <2>a, <2>b, <2>c, <2>e, <3>5, <4>1, StepMoves DEF Retail
    <3>6. CASE Quit(d)
      BY <2>a, <2>b, <2>c, <2>e, <3>6, StepMoves DEF Quit
    <3> QED  BY <1>2, <3>1, <3>2, <3>3, <3>4, <3>5, <3>6 DEF MonitorStep
  <2> HIDE DEF Works
  <2> QED  BY <2>a, <2>d, <2>f, ThreadConcluded
<1> QED  BY <1>1, <1>2

LEMMA ScriptTakes ==
  ASSUME TypeOK, TakeoverInv, NEW d \in Daemons, Script(d)
  PROVE  TakeoverInv'
<1> USE DEF Works, Started, OnlyLive, threadVars, hostVars, fileVars, stopVars
<1>a. AtTypeOK /\ Works(d) /\ script[d] # "idle" /\ {"idle", "running", "done"} \cap Servers = {}
  BY TakeoverPremises, ScriptAssumption
     DEF Script, ScriptRefuses, ScriptRecords, ScriptSpawns, ScriptStates
<1>b. AtWork(d) /\ Retired(d)
  BY <1>a, TakeoverPremises
     DEF Script, ScriptRefuses, ScriptRecords, ScriptSpawns, AtWork, Booting
<1>c. script'[d] # "idle" /\ \A e \in Daemons \ {d} : script'[e] = script[e]
  BY <1>a, TakeoverPremises DEF Script, ScriptRefuses, ScriptRecords, ScriptSpawns
<1>d. at[d]["monitor"] \in {"off", "wait"} /\ UNCHANGED <<at, watch, tail>>
  BY <1>a, <1>b DEF Retired, Script, ScriptRefuses, ScriptRecords, ScriptSpawns
<1>1. CASE ScriptRefuses(d)
  <2>1. UNCHANGED <<proc, pidFile, stopping, pending, frames>>
    BY <1>1 DEF ScriptRefuses
  <2>2. script[d] = "running" /\ script'[d] = "done"
    BY <1>1, TakeoverPremises DEF ScriptRefuses
  <2>3. Works(d)' /\ Retired(d)'
    BY <1>a, <1>b, <1>d, <2>1, <2>2, SameLives DEF Retired
  <2> HIDE DEF Works
  <2> QED  BY <1>a, <1>b, <1>c, <1>d, <2>1, <2>2, <2>3, WorkConcluded
<1>2. CASE ScriptRecords(d)
  <2>1. UNCHANGED <<proc, stopping, pending, frames>>
    BY <1>2 DEF ScriptRecords
  <2>2. script[d] \in Servers /\ script'[d] = "done" /\ pidFile' = PidOf[script[d]]
    BY <1>2, TakeoverPremises DEF ScriptRecords
  <2>3. LiveIsNamed'
    BY <1>a, <2>1, <2>2 DEF LiveIsNamed, Live
  <2>4. Works(d)' /\ Retired(d)'
    BY <1>a, <1>b, <1>d, <2>1, <2>2, SameLives DEF Retired
  <2>5. PidsDistinct' /\ NoDuplicateServer' /\ Unsignalled'
    BY <2>1 DEF TakeoverInv, PidsDistinct, NoDuplicateServer, Unsignalled, Live
  <2> HIDE DEF Works
  <2> QED  BY <1>b, <1>c, <1>d, <2>1, <2>3, <2>4, <2>5, TakeoverConcluded
<1>3. ASSUME NEW s \in Servers, ScriptSpawns(d, s)
      PROVE  TakeoverInv'
  <2>1. script[d] = "running" /\ NoneLive /\ script'[d] = s
        /\ UNCHANGED <<pidFile, stopping, pending, frames>>
    BY <1>3, <1>a, TakeoverPremises DEF ScriptSpawns
  <2>2. proc \in [Procs -> Lives] /\ s \in Procs /\ s \notin Daemons /\ Daemons \subseteq Procs
    BY TakeoverPremises, ProcAssumption DEF Procs
  <2>3. PidsDistinct' /\ proc'[s] = "live" /\ \A p \in Procs \ {s} : proc'[p] = proc[p]
    <3>1. CanStart(s) /\ proc' = [proc EXCEPT ![s] = "live"] /\ PidsDistinct
      BY <1>3, TakeoverPremises DEF ScriptSpawns
    <3> QED  BY <2>2, <3>1, BirthKeeps
  <2>4. \A r \in Servers : Live(r)' => r = s
    BY <2>1, <2>3 DEF NoneLive, Live, Procs
  <2>5. NoDuplicateServer'
    BY <2>4 DEF NoDuplicateServer
  <2>6. Unsignalled'
    BY <2>1, <2>3 DEF TakeoverInv, Unsignalled
  <2>7. Works(d)' /\ Retired(d)'
    BY <1>a, <1>b, <1>c, <1>d, <2>1, <2>2, <2>3, <2>4 DEF Retired, Live
  <2> HIDE DEF Works
  <2> QED  BY <1>b, <1>c, <1>d, <2>1, <2>2, <2>3, <2>5, <2>6, <2>7, TakeoverConcluded
<1> QED  BY <1>1, <1>2, <1>3 DEF Script

\* A daemon that leaves, or is killed; its script runs on.
LEMMA GoneTakes ==
  ASSUME TypeOK, TakeoverInv, NEW d \in Daemons, proc[d] = "live", Gone(d)
  PROVE  TakeoverInv'
<1>a. AtWork(d) /\ Works(d)
  BY TakeoverPremises DEF AtWork, Live
<1>1. /\ proc'[d] = "dead" /\ \A p \in Procs \ {d} : proc'[p] = proc[p]
      /\ Daemons \subseteq Procs /\ Servers \subseteq Procs \ {d}
  BY TakeoverPremises, ProcAssumption DEF Gone, Dies, Procs
<1>2. /\ UNCHANGED <<script, pidFile>> /\ \A e \in Daemons \ {d} : at'[e] = at[e]
      /\ at'[d]["main"] = "off" /\ at'[d]["monitor"] = "off"
  BY TakeoverPremises DEF Gone, AtTypeOK, Off, Threads, fileVars
<1>3. PidsDistinct' /\ NoDuplicateServer'
  <2>1. NoBirths
    BY <1>1 DEF NoBirths, Live
  <2> QED  BY <2>1, NoBirthsKeep, TakeoverPremises
<1>4. Unsignalled'
  <2>1. \A e \in Daemons : frames'[e] = <<>> /\ ~pending'[e] /\ ~stopping'[e]
    BY DEF TakeoverInv, Unsignalled, Gone, TypeOK, StopTypeOK
  <2> QED  BY <1>1, <2>1 DEF TakeoverInv, Unsignalled
<1>5. script'[d] \notin Servers => LiveIsNamed'
  <2>1. script[d] \notin Servers => LiveIsNamed
    BY <1>a, NamedUnlessSpawned
  <2> QED  BY <1>1, <1>2, <2>1 DEF LiveIsNamed, Live
<1>6. \A s \in Servers : Live(s)' <=> Live(s)
  BY <1>1 DEF Live
<1>7. Retired(d)' /\ Works(d)'
  BY <1>a, <1>1, <1>2, <1>6 DEF Retired, Works, NoneLive, OnlyLive, Live
<1> QED  BY <1>a, <1>1, <1>2, <1>3, <1>4, <1>5, <1>7, TakeoverConcluded

LEMMA LifeTakes ==
  ASSUME Unattended, TypeOK, TakeoverInv, NEW d \in Daemons, Begin(d) \/ Exit(d) \/ Kill(d)
  PROVE  TakeoverInv'
<1>1. CASE Exit(d) \/ Kill(d)
  BY <1>1, GoneTakes DEF Exit, Kill
<1>2. CASE Begin(d)
  <2>1. (\A e \in Daemons : ~AtWork(e)) /\ UNCHANGED <<pidFile, script, watch, tail, stopping,
                                                     pending, frames>>
    BY <1>2 DEF Begin, Unattended, AtWork, fileVars, workVars, stopVars
  <2>2. \A e \in Daemons : /\ at[e]["main"] = "off" /\ at[e]["monitor"] = "off"
                           /\ script[e] \in {"idle", "done"}
    BY <2>1 DEF TakeoverInv, Retired, AtWork, Booting
  <2>3. LiveIsNamed /\ {"idle", "done"} \cap Servers = {} /\ script[d] = "idle"
    BY <1>2, <2>2, ScriptAssumption DEF TakeoverInv, ScriptStates, Retired, Begin, CanStart
  <2>4. /\ PidsDistinct' /\ proc'[d] = "live" /\ \A p \in Procs \ {d} : proc'[p] = proc[p]
        /\ Daemons \subseteq Procs /\ Servers \subseteq Procs \ {d}
    BY <1>2, TakeoverPremises, BirthKeeps, ProcAssumption DEF Begin, Procs
  <2>5. \A s \in Servers : Live(s)' <=> Live(s)
    BY <2>4 DEF Live
  <2>6. NoDuplicateServer' /\ LiveIsNamed'
    BY <2>1, <2>3, <2>5 DEF TakeoverInv, NoDuplicateServer, LiveIsNamed
  <2>7. OneDaemon' /\ Unsignalled'
    <3>1. \A e \in Daemons \ {d} : ~AtWork(e)'
      BY <2>1, <2>4 DEF AtWork, Booting, Live
    <3> QED  BY <2>1, <2>4, <3>1 DEF TakeoverInv, OneDaemon, Unsignalled
  <2>8. ASSUME NEW e \in Daemons
        PROVE  Retired(e)' /\ Works(e)'
    <3>1. /\ at'[e]["main"] = IF e = d THEN "check1" ELSE "off"
          /\ at'[e]["monitor"] = "off" /\ script'[e] = script[e]
      BY <1>2, <2>1, <2>2, TakeoverPremises DEF Begin, AtTypeOK
    <3>2. Live(e)' <=> e = d
      BY <2>1, <2>4 DEF Live, AtWork
    <3>3. script'[e] \notin Servers \cup {"running"}
      BY <2>2, <2>3, <3>1
    <3>4. e # d => Retired(e)
      BY DEF TakeoverInv
    <3> QED  BY <2>3, <2>4, <3>1, <3>2, <3>3, <3>4 DEF Retired, Works, Live
  <2> QED  BY <2>4, <2>6, <2>7, <2>8 DEF TakeoverInv
<1> QED  BY <1>1, <1>2

\* A step of the machine in which no daemon takes part and no server starts.
LEMMA QuietTakes ==
  ASSUME TypeOK, TakeoverInv, PidsDistinct', UNCHANGED daemonVars,
         \A d \in Daemons : proc'[d] = proc[d],
         \A s \in Servers : Live(s)' => Live(s),
         \A p \in Procs : proc'[p] \in {proc[p], "live", "dead"}
  PROVE  TakeoverInv'
<1>1. UNCHANGED <<pidFile, at, script, watch, tail, stopping, pending, frames>>
  BY DEF daemonVars, fileVars, threadVars, workVars, stopVars
<1>2. NoDuplicateServer' /\ (LiveIsNamed => LiveIsNamed') /\ Unsignalled'
  BY <1>1 DEF TakeoverInv, NoDuplicateServer, LiveIsNamed, Unsignalled
<1>3. OneDaemon'
  BY <1>1 DEF TakeoverInv, OneDaemon, AtWork, Booting, Live
<1>4. ASSUME NEW d \in Daemons
      PROVE  Retired(d)' /\ Works(d)'
  BY <1>1 DEF TakeoverInv, Retired, Works, NoneLive, OnlyLive, Live
<1> QED  BY <1>1, <1>2, <1>3, <1>4 DEF TakeoverInv

LEMMA HostStepTakes ==
  ASSUME TypeOK, TakeoverInv, HostStep
  PROVE  TakeoverInv'
<1>1. /\ proc \in [Procs -> Lives] /\ PidsDistinct
      /\ Servers \cup Strangers \cup Daemons = Procs /\ Daemons \cap (Servers \cup Strangers) = {}
      /\ Servers \cap Strangers = {}
  BY ProcAssumption DEF TypeOK, HostTypeOK, Procs, TakeoverInv
<1>2. UNCHANGED daemonVars
  BY DEF HostStep
<1>3. CASE UNCHANGED proc
  <2>1. NoBirths
    BY <1>3, SameProc
  <2> QED  BY <1>1, <1>2, <1>3, <2>1, NoBirthsKeep, QuietTakes DEF NoBirths
<1>4. ASSUME NEW p \in Servers \cup Strangers, Dies(p)
      PROVE  TakeoverInv'
  <2>1. /\ NoBirths /\ \A d \in Daemons : proc'[d] = proc[d]
        /\ \A q \in Procs : proc'[q] \in {proc[q], "live", "dead"}
    BY <1>1, <1>4 DEF Dies, NoBirths, Live
  <2> QED  BY <1>1, <1>2, <2>1, NoBirthsKeep, QuietTakes DEF NoBirths
<1>5. ASSUME NEW p \in Strangers, StrangerArrives(p)
      PROVE  TakeoverInv'
  <2>1. PidsDistinct' /\ \A q \in Procs \ {p} : proc'[q] = proc[q]
    BY <1>1, <1>5, BirthKeeps DEF StrangerArrives
  <2>2. \A q \in Procs : proc'[q] \in {proc[q], "live", "dead"}
    BY <1>1, <1>5 DEF StrangerArrives
  <2> QED  BY <1>1, <1>2, <2>1, <2>2, QuietTakes DEF Live
<1> QED  BY <1>3, <1>4, <1>5
         DEF HostStep, Bind, BindFails, Reaped, ShutsDown, Crash, PortFreed

LEMMA RebootTakes ==
  ASSUME TypeOK, TakeoverInv, Reboot
  PROVE  TakeoverInv'
<1>1. (\A p \in Procs : ~Live(p)') /\ Servers \subseteq Procs /\ Daemons \subseteq Procs
  BY DEF Reboot, Live, Procs
<1>2. NoneLive' /\ PidsDistinct' /\ NoDuplicateServer' /\ LiveIsNamed'
  BY <1>1 DEF NoneLive, PidsDistinct, NoDuplicateServer, LiveIsNamed
<1>3. Unsignalled'
  BY DEF Reboot, Unsignalled
<1>4. ASSUME NEW d \in Daemons
      PROVE  /\ at'[d]["main"] = "off" /\ at'[d]["monitor"] = "off"
             /\ script'[d] = "idle" /\ "idle" \notin Servers
  BY ScriptAssumption DEF Reboot, Off, Threads, ScriptStates
<1>5. OneDaemon'
  BY <1>1, <1>4 DEF OneDaemon, AtWork, Booting
<1> QED  BY <1>1, <1>2, <1>3, <1>4, <1>5 DEF TakeoverInv, Retired, Works

\* Nobody runs a handler or sends a signal.
LEMMA NoSignals ==
  ASSUME Unattended, TakeoverInv
  PROVE  ~Send /\ \A d \in Daemons : ~Deliver(d) /\ ~Handler(d)
<1>1. ASSUME NEW d \in Daemons
      PROVE  ~Deliver(d) /\ \A label : ~InHandler(d, label)
  BY DEF TakeoverInv, Unsignalled, Deliver, InHandler
<1>2. ASSUME NEW d \in Daemons
      PROVE  ~Handler(d)
  BY <1>1 DEF Handler, SeePid, ReadPid, Terminate, Await, KillTarget, SeeFile, UnlinkPidFile,
       StopRotatesLog, StopMovesLog, Join, HandlerStep
<1> QED  BY <1>1, <1>2 DEF Send, Unattended

LEMMA TakeoverStep ==
  ASSUME Unattended, TypeOK, TakeoverInv, [Next]_vars
  PROVE  TakeoverInv'
<1>1. ASSUME NEW d \in Daemons, DaemonStep(d)
      PROVE  TakeoverInv'
  BY <1>1, MainTakes, MonitorTakes, ScriptTakes, LifeTakes, NoSignals DEF DaemonStep
<1>2. CASE UNCHANGED vars
  <2>1. UNCHANGED daemonVars /\ UNCHANGED proc
    BY <1>2 DEF vars, daemonVars, hostVars
  <2>2. PidsDistinct'
    BY <2>1, SameProc, NoBirthsKeep DEF TakeoverInv
  <2> QED  BY <2>1, <2>2, QuietTakes DEF Live
<1> QED  BY <1>1, <1>2, NoSignals, HostStepTakes, RebootTakes DEF Next

\* Daemons that are killed at any step, the start script at work or not, or lose their
\* machine, leave the pid file to the next one in such an order that a root_dir never has
\* two servers, however many daemons and servers come after each other, also when servers
\* crash before they are watched, when the port lingers and when strangers get the pids
\* of the dead.  The next start waits for a script that is left at work (Begin).
THEOREM OneServerInTurn ==
  ASSUME Unattended
  PROVE  Spec => [](TakeoverInv /\ NoDuplicateServer)
<1>1. Init => TakeoverInv
  <2> SUFFICES ASSUME Init PROVE TakeoverInv
    OBVIOUS
  <2>1. (\A p \in Procs : proc[p] = "unborn") /\ Servers \subseteq Procs /\ Daemons \subseteq Procs
    BY DEF Init, HostInit, Procs
  <2>2. PidsDistinct /\ NoDuplicateServer /\ LiveIsNamed
    BY <2>1 DEF PidsDistinct, NoDuplicateServer, LiveIsNamed, Live
  <2>3. Unsignalled
    BY <2>1 DEF Init, Unsignalled
  <2>4. ASSUME NEW d \in Daemons
        PROVE  /\ at[d]["main"] = "off" /\ at[d]["monitor"] = "off"
               /\ script[d] = "idle" /\ "idle" \notin Servers
    BY ScriptAssumption DEF Init, Off, Threads, ScriptStates
  <2>5. OneDaemon
    BY <2>1, <2>4 DEF OneDaemon, AtWork, Booting, Live
  <2> QED  BY <2>1, <2>2, <2>3, <2>4, <2>5 DEF TakeoverInv, Retired, Works, Live
<1>2. TypeOK /\ TakeoverInv /\ [Next]_vars => TakeoverInv'
  BY TakeoverStep
<1>3. TakeoverInv => NoDuplicateServer
  BY DEF TakeoverInv
<1> QED  BY <1>1, <1>2, <1>3, TypeCorrect, PTL DEF Spec

\* ... and every server of theirs is started once, when the one before it is dead.
THEOREM DaemonsInTurnImplementSlot ==
  ASSUME Unattended
  PROVE  Spec => ImplementsSlot
<1>1. Init => Slot!Init
  BY DEF Init, HostInit, Slot!Init, LiveServer, Unborn, Live, Procs
<1>2. TypeOK /\ TakeoverInv /\ TakeoverInv' /\ [Next]_vars => [Slot!Next]_Slot!vars
  <2> SUFFICES ASSUME TypeOK, TakeoverInv, TakeoverInv', [Next]_vars
               PROVE  [Slot!Next]_Slot!vars
    OBVIOUS
  <2>1. CASE OnlyDeaths
    BY <2>1, DeathsAreSlotSteps DEF TakeoverInv
  <2>2. CASE \E d \in Daemons, s \in Servers : ScriptSpawns(d, s)
    BY <2>2, SpawnFillsSlot DEF TakeoverInv, Works, Slot!Next
  <2> QED  BY <2>1, <2>2, OnlyTheScriptStarts
<1>3. Spec => []TakeoverInv
  BY OneServerInTurn, PTL
<1> QED  BY <1>1, <1>2, <1>3, TypeCorrect, PTL DEF Spec, ImplementsSlot, Slot!Spec

\* ... and while a daemon watches a server, the pid file names it and its log is shown.
THEOREM DaemonsInTurnFollow ==
  ASSUME Unattended
  PROVE  Spec => [](PidFileNamesWatched /\ WatchedIsTailed)
<1>1. TakeoverInv => PidFileNamesWatched /\ WatchedIsTailed
  BY DEF TakeoverInv, Works, PidFileNamesWatched, WatchedIsTailed, Watching
<1> QED  BY <1>1, OneServerInTurn, PTL

-----------------------------------------------------------------------------
(* No start fails.                                                         *)

\* What every step starts from, and what is so of the daemons that are not at work.
LEMMA BootPremises ==
  ASSUME TypeOK, TakeoverInv, BootInv, NEW d \in Daemons
  PROVE  /\ AtTypeOK /\ PeekTypeOK /\ script \in [Daemons -> ScriptStates \cup Servers]
         /\ "main" \in Threads /\ "monitor" \in Threads
         /\ Works(d) /\ Retired(d) /\ Finds(d) /\ (NoneLive => port = NoProc)
         /\ Live(d) => AtWork(d)
         /\ AtWork(d) => \A e \in Daemons \ {d} :
              ~Live(e) /\ at[e]["main"] = "off" /\ script[e] \in {"idle", "done"}
BY DEF TypeOK, HostTypeOK, WorkTypeOK, TakeoverInv, OneDaemon, AtWork, Booting, Retired, BootInv,
       HostReady, NoneLive, Threads

\* A step of one thread leaves what the others have seen alone.
LEMMA PeekMoves ==
  ASSUME PeekTypeOK, NEW d \in Daemons, NEW t \in Threads, ReadsPid(d, t)
  PROVE  /\ \A e \in Daemons \ {d} : peek'[e] = peek[e]
         /\ \A u \in Threads : peek'[d][u] => peek[d][u]
BY DEF PeekTypeOK, ReadsPid

LEMMA SameRecord ==
  ASSUME UNCHANGED <<proc, pidFile>>
  PROVE  (ServerRecorded' <=> ServerRecorded) /\ (NoneLive' <=> NoneLive)
         /\ \A p : Live(p)' <=> Live(p)
BY DEF ServerRecorded, NoneLive, Live

LEMMA BootConcluded ==
  ASSUME TypeOK, TakeoverInv, BootInv, NEW d \in Daemons, proc[d] = "live",
         UNCHANGED <<proc, port, pidFile>>, log' \/ NoneLive,
         \A e \in Daemons \ {d} : at'[e] = at[e] /\ script'[e] = script[e] /\ peek'[e] = peek[e],
         DaemonPidIsOld', Finds(d)'
  PROVE  BootInv'
<1>1. HostReady'
  BY SameRecord DEF BootInv, HostReady, Spare
<1>2. ASSUME NEW e \in Daemons \ {d}
      PROVE  Finds(e)'
  <2>1. at'[e]["main"] = "off" /\ script'[e] \notin Servers
    BY BootPremises, ScriptAssumption DEF Live, ScriptStates
  <2>2. \A t \in Threads : peek'[e][t] => pidFile' # NoPid
    BY DEF BootInv, Finds
  <2> QED  BY <2>1, <2>2 DEF Finds
<1> QED  BY <1>1, <1>2 DEF BootInv

\* A daemon that has nothing to do with daemon.pid any more stays so.
LEMMA DaemonPidStaysOld ==
  ASSUME DaemonPidIsOld, UNCHANGED <<proc, daemonPid>>, NEW d \in Daemons,
         \A e \in Daemons \ {d} : at'[e] = at[e],
         at[d]["main"] \in Written => at'[d]["main"] \in Written
  PROVE  DaemonPidIsOld'
BY DEF DaemonPidIsOld

LEMMA StartBoots ==
  ASSUME TypeOK, TakeoverInv, BootInv, NEW d \in Daemons, NEW t \in Threads, Start(d, t)
  PROVE  BootInv'
<1> USE DEF workVars, fileVars, hostVars, Written, Started
<1>a. t = "main" \/ t = "monitor"
  BY DEF Threads
<1>b. /\ UNCHANGED <<proc, port, pidFile, daemonPid>>
      /\ proc[d] = "live" /\ Live(d) /\ \A e \in Daemons \ {d} : at'[e] = at[e]
  <2>1. UNCHANGED <<proc, port, pidFile, daemonPid>>
    BY DEF Start, RotateLog, MoveLog, CheckPort, Popen, Wait, AssertPid, AssertLog
  <2>2. \E from, to : Step(d, t, from, to)
    BY DEF Start, RotateLog, MoveLog, CheckPort, Popen, Wait, AssertPid, AssertLog, PidStep
  <2> QED  BY <2>1, <2>2, TakeoverPremises, StepLeavesOthers DEF Live
<1>c. /\ \A e \in Daemons \ {d} : peek'[e] = peek[e]
      /\ \A u \in Threads : peek'[d][u] => peek[d][u]
  BY BootPremises, PeekMoves
     DEF Start, RotateLog, MoveLog, CheckPort, Popen, Wait, AssertPid, AssertLog, PidStep
<1>d. AtTypeOK /\ Works(d) /\ Finds(d) /\ (NoneLive => port = NoProc) /\ (NoneLive \/ log)
  BY BootPremises DEF BootInv, HostReady
<1>e. /\ ServerRecorded' <=> ServerRecorded
      /\ \A p : Live(p)' <=> Live(p)
      /\ ServerRecorded => ~NoneLive
  BY <1>b, SameRecord DEF ServerRecorded, NoneLive
<1>f. \A e \in Daemons \ {d} : script'[e] = script[e]
  BY BootPremises
     DEF Start, RotateLog, MoveLog, CheckPort, Popen, Wait, AssertPid, AssertLog
<1>1. Finds(d)' /\ (at[d]["main"] \in Written => at'[d]["main"] \in Written) /\ (log' \/ NoneLive)
  <2> USE DEF Works, Finds
  <2>1. CASE RotateLog(d, t)
    BY <1>a, <1>b, <1>c, <1>d, <1>e, <2>1, StepMoves DEF RotateLog
  <2>2. CASE MoveLog(d, t)
    BY <1>a, <1>b, <1>c, <1>d, <1>e, <2>2, StepMoves DEF MoveLog
  <2>3. CASE CheckPort(d, t)
    BY <1>a, <1>b, <1>c, <1>d, <1>e, <2>3, StepMoves DEF CheckPort, PortIsUsed
  <2>4. CASE Popen(d, t)
    <3>1. script'[d] = "running" /\ {"idle", "running"} \cap Servers = {}
      BY <2>4, BootPremises, ScriptAssumption DEF Popen, ScriptStates
    <3> QED  BY <1>a, <1>b, <1>c, <1>d, <1>e, <2>4, <3>1, StepMoves DEF Popen
  <2>5. CASE Wait(d, t)
    <3>1. script'[d] = "idle" /\ "idle" \notin Servers
      BY <2>5, BootPremises, ScriptAssumption DEF Wait, ScriptStates
    <3> QED  BY <1>a, <1>b, <1>c, <1>d, <1>e, <2>5, <3>1, StepMoves DEF Wait
  <2>6. CASE AssertPid(d, t)
    <3>1. pidFile # NoPid \/ ~ServerRecorded
      BY PidAssumption DEF ServerRecorded, Procs
    <3> QED  BY <1>a, <1>b, <1>c, <1>d, <1>e, <2>6, <3>1, StepMoves DEF AssertPid, PidStep
  <2>7. CASE AssertLog(d, t)
    BY <1>a, <1>b, <1>c, <1>d, <1>e, <2>7, StepMoves DEF AssertLog, AfterStart
  <2> QED  BY <2>1, <2>2, <2>3, <2>4, <2>5, <2>6, <2>7 DEF Start
<1>2. DaemonPidIsOld'
  BY <1>b, <1>1, DaemonPidStaysOld DEF BootInv
<1> QED  BY <1>b, <1>c, <1>f, <1>1, <1>2, BootConcluded

LEMMA PeekBoots ==
  ASSUME TypeOK, TakeoverInv, BootInv, NEW d \in Daemons, NEW t \in Threads,
         Peek(d, t) \/ ReadFails(d, t)
  PROVE  BootInv'
<1>1. Peek(d, t) /\ UNCHANGED <<proc, port, pidFile, daemonPid, log, at, script>>
  BY DEF BootInv, Finds, Peek, ReadFails, hostVars, fileVars, workVars
<1>2. proc[d] = "live" /\ (\A e \in Daemons \ {d} : peek'[e] = peek[e]) /\ pidFile # NoPid
  BY <1>1, BootPremises DEF Peek, At, PeekTypeOK
<1>3. Finds(d)'
  BY <1>1, <1>2, BootPremises, SameRecord DEF Finds
<1>4. DaemonPidIsOld' /\ (log' \/ NoneLive)
  BY <1>1 DEF BootInv, HostReady, DaemonPidIsOld
<1> QED  BY <1>1, <1>2, <1>3, <1>4, BootConcluded

LEMMA MainBoots ==
  ASSUME Undisturbed, TypeOK, TakeoverInv, BootInv, NEW d \in Daemons, MainStep(d)
  PROVE  BootInv'
<1>1. CASE Start(d, "main") \/ Peek(d, "main") \/ ReadFails(d, "main")
  BY <1>1, BootPremises, StartBoots, PeekBoots
<1>2. CASE ~(Start(d, "main") \/ Peek(d, "main") \/ ReadFails(d, "main"))
  <2> USE DEF PidStep, hostVars, fileVars, workVars, Written, Started
  <2>a. UNCHANGED <<proc, port, pidFile, log, script>>
    BY <1>2 DEF MainStep, Check1, Check2, CheckDaemon, ReadDaemon, WriteDaemon, Launch,
         InstallHandlers, Install, Pause, Unlink
  <2>b. AtTypeOK /\ Works(d) /\ Finds(d) /\ DaemonPidIsOld /\ d \in Procs
        /\ (log \/ NoneLive) /\ (pidFile # NoPid => \E s \in Servers : pidFile = PidOf[s])
    BY BootPremises DEF BootInv, HostReady, Procs
  <2>c. /\ ServerRecorded' <=> ServerRecorded
        /\ \A p : Live(p)' <=> Live(p)
        /\ ServerRecorded => ~NoneLive
    BY <2>a, SameRecord DEF ServerRecorded, NoneLive
  <2>d. proc[d] = "live" /\ \A e \in Daemons \ {d} : at'[e] = at[e]
    <3>1. CASE Launch(d)
      BY <2>b, <3>1 DEF Launch, At, AtTypeOK
    <3>2. CASE \E from, to : Step(d, "main", from, to)
      BY <2>b, <3>2, TakeoverPremises, StepLeavesOthers
    <3> QED  BY <1>2, <3>1, <3>2 DEF MainStep, Check1, Check2, CheckDaemon, ReadDaemon,
                WriteDaemon, InstallHandlers, Install, Pause, Unlink
  <2>e. /\ \A e \in Daemons \ {d} : peek'[e] = peek[e]
        /\ \A u \in Threads : peek'[d][u] => peek[d][u]
    BY <1>2, BootPremises, PeekMoves
       DEF MainStep, Check1, Check2, CheckDaemon, ReadDaemon, WriteDaemon, Launch,
           InstallHandlers, Install, Pause, Unlink
  <2>1. Finds(d)' /\ DaemonPidIsOld'
    <3> USE DEF Works, Finds
    <3>1. CASE Check1(d)
      <4>1. /\ at'[d]["main"] = IF pidFile = NoPid THEN "rotate" ELSE "check2"
            /\ at[d]["main"] = "check1" /\ UNCHANGED daemonPid
        BY <2>b, <3>1, StepMoves DEF Check1
      <4> QED  BY <2>a, <2>b, <2>c, <2>d, <2>e, <4>1, DaemonPidStaysOld
    <3>2. CASE Check2(d)
      <4>1. /\ pidFile # NoPid /\ UNCHANGED daemonPid /\ at[d]["main"] = "check2"
            /\ at'[d]["main"] = IF PidExists(pidFile) THEN "dcheck" ELSE "rotate"
        BY <2>b, <3>2, StepMoves DEF Check2
      <4>2. PidExists(pidFile) => ServerRecorded
        BY <2>b, <4>1 DEF Undisturbed, PidExists, ServerRecorded, Procs
      <4> QED  BY <2>a, <2>b, <2>c, <2>d, <2>e, <4>1, <4>2, DaemonPidStaysOld
    <3>3. CASE CheckDaemon(d)
      <4>1. /\ at'[d]["main"] = IF daemonPid = NoPid THEN "dwrite" ELSE "dread"
            /\ at[d]["main"] = "dcheck" /\ UNCHANGED daemonPid
        BY <2>b, <3>3, StepMoves DEF CheckDaemon
      <4> QED  BY <2>a, <2>b, <2>c, <2>d, <2>e, <4>1, DaemonPidStaysOld
    <3>4. CASE ReadDaemon(d)
      <4>1. at[d]["main"] = "dread" /\ daemonPid # NoPid /\ UNCHANGED daemonPid
            /\ at'[d]["main"] = IF PidExists(daemonPid) THEN "declined" ELSE "launch"
        BY <2>b, <3>4, StepMoves DEF ReadDaemon
      <4>2. PICK e \in Daemons : daemonPid = PidOf[e] /\ at[e]["main"] \in Written
        BY <2>b, <4>1 DEF DaemonPidIsOld
      <4>3. e \in Procs /\ ~Live(e)
        BY <2>d, <4>1, <4>2, BootPremises DEF Live, Procs
      <4>4. ~PidExists(daemonPid)
        BY <4>2, <4>3 DEF Undisturbed, PidExists
      <4> QED  BY <2>a, <2>b, <2>c, <2>d, <2>e, <4>1, <4>4, DaemonPidStaysOld
    <3>5. CASE WriteDaemon(d)
      <4>1. /\ at[d]["main"] = "dwrite" /\ at'[d]["main"] = "launch"
            /\ daemonPid' = PidOf[d] /\ proc'[d] # "unborn"
        BY <2>a, <2>b, <2>d, <3>5, StepMoves DEF WriteDaemon
      <4> QED  BY <2>a, <2>b, <2>c, <2>d, <2>e, <4>1 DEF DaemonPidIsOld
    <3>6. CASE Launch(d)
      <4>1. at[d]["main"] = "launch" /\ ServerRecorded
        BY <2>b, <3>6 DEF Launch, At
      <4>2. pidFile # NoPid /\ PidExists(pidFile) /\ log
        BY <2>b, <2>c, <4>1, PidAssumption DEF ServerRecorded, PidExists, Procs
      <4>3. Watchable # NoProc
        BY <4>2, ProcAtType, ProcAssumption DEF Watchable
      <4>4. at'[d]["main"] = "installInt" /\ UNCHANGED daemonPid
        BY <2>b, <3>6, <4>3 DEF Launch, AtTypeOK, Threads
      <4> QED  BY <2>a, <2>b, <2>c, <2>d, <2>e, <4>1, <4>4, DaemonPidStaysOld
    <3>7. CASE InstallHandlers(d) \/ Pause(d)
      <4>1. /\ at[d]["main"] \in Written /\ at'[d]["main"] \in {"installTerm", "prePause", "paused"}
            /\ UNCHANGED daemonPid
        BY <2>b, <3>7, StepMoves DEF InstallHandlers, Install, Pause
      <4> QED  BY <2>a, <2>b, <2>c, <2>d, <2>e, <4>1, DaemonPidStaysOld
    <3>8. CASE Unlink(d)
      BY <2>b, <3>8, StepMoves DEF Unlink
    <3> QED  BY <1>2, <3>1, <3>2, <3>3, <3>4, <3>5, <3>6, <3>7, <3>8 DEF MainStep
  <2> QED  BY <2>a, <2>b, <2>d, <2>e, <2>1, BootConcluded
<1> QED  BY <1>1, <1>2

LEMMA MonitorBoots ==
  ASSUME TypeOK, TakeoverInv, BootInv, NEW d \in Daemons, MonitorStep(d)
  PROVE  BootInv'
<1>1. CASE Start(d, "monitor") \/ Peek(d, "monitor") \/ ReadFails(d, "monitor")
  BY <1>1, BootPremises, StartBoots, PeekBoots
<1>2. CASE ~(Start(d, "monitor") \/ Peek(d, "monitor") \/ ReadFails(d, "monitor"))
  <2> USE DEF PidStep, hostVars, fileVars, workVars
  <2>1. UNCHANGED <<proc, port, pidFile, daemonPid, log, script>>
    BY <1>2 DEF MonitorStep, Wake, Compare, Probe, Rewatch, Retail, Quit
  <2>2. \E from, to : Step(d, "monitor", from, to)
    BY <1>2 DEF MonitorStep, Wake, Compare, Probe, Rewatch, Retail, Quit
  <2>3. proc[d] = "live" /\ \A e \in Daemons \ {d} : at'[e] = at[e]
    BY <2>2, TakeoverPremises, StepLeavesOthers
  <2>4. at'[d]["main"] = at[d]["main"]
    BY <2>2, BootPremises, StepMoves
  <2>5. /\ \A e \in Daemons \ {d} : peek'[e] = peek[e]
        /\ \A u \in Threads : peek'[d][u] => peek[d][u]
    BY <1>2, BootPremises, PeekMoves
       DEF MonitorStep, Wake, Compare, Probe, Rewatch, Retail, Quit
  <2>6. Finds(d)'
    BY <2>1, <2>4, <2>5, BootPremises, SameRecord DEF Finds
  <2>7. DaemonPidIsOld' /\ (log' \/ NoneLive)
    BY <2>1, <2>3, <2>4, DaemonPidStaysOld DEF BootInv, HostReady
  <2> QED  BY <2>1, <2>3, <2>5, <2>6, <2>7, BootConcluded
<1> QED  BY <1>1, <1>2

\* The script finds no server to refuse for, spawns one and records it.
LEMMA ScriptBoots ==
  ASSUME Undisturbed, TypeOK, TakeoverInv, BootInv, NEW d \in Daemons, Script(d)
  PROVE  BootInv'
<1> USE DEF threadVars, hostVars, fileVars
<1>a. /\ Works(d) /\ Finds(d) /\ HostReady /\ DaemonPidIsOld /\ AtWork(d) /\ Retired(d)
      /\ script \in [Daemons -> ScriptStates \cup Servers]
      /\ {"idle", "running", "done"} \cap Servers = {}
  BY TakeoverPremises, BootPremises, ScriptAssumption
     DEF BootInv, AtWork, Booting, Script, ScriptRefuses, ScriptRecords, ScriptSpawns, ScriptStates
<1>b. /\ UNCHANGED <<at, peek, port, daemonPid>>
      /\ \A e \in Daemons \ {d} : script'[e] = script[e]
      /\ \A e \in Daemons \ {d} : at[e]["main"] = "off" /\ script[e] \in {"idle", "done"}
  BY <1>a, BootPremises DEF Script, ScriptRefuses, ScriptRecords, ScriptSpawns
<1>c. /\ at[d]["main"] \in {"wait", "off"} \cup Started
      /\ script'[d] # "idle"
  BY <1>a DEF Works, Retired, Script, ScriptRefuses, ScriptRecords, ScriptSpawns
<1>1. ~ScriptRefuses(d)
  <2> SUFFICES ASSUME ScriptRefuses(d) PROVE FALSE
    OBVIOUS
  <2>1. NoneLive
    BY <1>a DEF ScriptRefuses, Works
  <2>2. PICK s \in Servers : proc[s] = "unborn"
    BY <1>a, <2>1 DEF HostReady, Spare
  <2>3. ~ServerRecorded /\ CanStart(s)
    BY <2>1, <2>2 DEF Undisturbed, NoneLive, ServerRecorded, CanStart, PidExists, Procs, Live
  <2> QED  BY <2>3 DEF ScriptRefuses
<1>2. CASE ScriptRecords(d)
  <2>1. /\ UNCHANGED <<proc, log>> /\ script[d] \in Servers /\ script'[d] = "done"
        /\ pidFile' = PidOf[script[d]] /\ pidFile' # NoPid /\ Live(script[d])
    BY <1>2, <1>a, PidAssumption DEF ScriptRecords, Finds, Procs
  <2>2. HostReady'
    BY <1>a, <1>b, <2>1 DEF HostReady, NoneLive, Spare, Live
  <2>3. DaemonPidIsOld'
    BY <1>a, <1>b, <2>1 DEF DaemonPidIsOld
  <2>4. ServerRecorded'
    BY <2>1 DEF ServerRecorded, Live
  <2>5. ASSUME NEW e \in Daemons
        PROVE  Finds(e)'
    <3>1. Finds(e)
      BY DEF BootInv
    <3>2. (e = d => script'[e] = "done") /\ (e # d => script'[e] \in {"idle", "done"} /\ at'[e]["main"] = "off")
      BY <1>b, <2>1
    <3> QED  BY <1>a, <1>b, <2>1, <2>4, <3>1, <3>2 DEF Finds
  <2> QED  BY <2>2, <2>3, <2>5 DEF BootInv
<1>3. ASSUME NEW s \in Servers, ScriptSpawns(d, s)
      PROVE  BootInv'
  <2>1. proc \in [Procs -> Lives] /\ s \in Procs /\ s \notin Daemons /\ Servers \subseteq Procs
        /\ Daemons \subseteq Procs
    BY ProcAssumption DEF TypeOK, HostTypeOK, Procs
  <2>2. /\ script'[d] = s /\ log' /\ UNCHANGED pidFile
        /\ proc'[s] = "live" /\ \A p \in Procs \ {s} : proc'[p] = proc[p]
    BY <1>3, <1>a, <2>1 DEF ScriptSpawns
  <2>3. HostReady'
    BY <1>a, <1>b, <2>1, <2>2 DEF HostReady, NoneLive, Live
  <2>4. DaemonPidIsOld'
    BY <1>a, <1>b, <2>1, <2>2 DEF DaemonPidIsOld
  <2>5. ASSUME NEW e \in Daemons
        PROVE  Finds(e)'
    <3>1. Finds(e)
      BY DEF BootInv
    <3>2. (e = d => script'[e] = s /\ at'[e]["main"] \in {"wait", "off"} \cup Started)
          /\ (e # d => script'[e] \in {"idle", "done"} /\ at'[e]["main"] = "off")
      BY <1>b, <1>c, <2>2
    <3>3. Live(s)' /\ s \notin {"idle", "running", "done"}
      BY <1>a, <2>2 DEF Live
    <3> QED  BY <1>a, <1>b, <2>2, <3>1, <3>2, <3>3 DEF Finds, Started
  <2> QED  BY <2>3, <2>4, <2>5 DEF BootInv
<1> QED  BY <1>1, <1>2, <1>3 DEF Script

LEMMA GoneBoots ==
  ASSUME Undisturbed, TypeOK, TakeoverInv, BootInv, NEW d \in Daemons, proc[d] = "live",
         Gone(d)
  PROVE  BootInv'
<1>1. /\ proc'[d] = "dead" /\ \A p \in Procs \ {d} : proc'[p] = proc[p]
      /\ Daemons \subseteq Procs /\ Servers \subseteq Procs \ {d}
  BY TakeoverPremises, ProcAssumption DEF Gone, Dies, Procs
<1>2. port' = port
  <2>1. port # d
    BY <1>1, ProcAssumption DEF TypeOK, HostTypeOK, Procs
  <2> QED  BY <2>1 DEF Gone, Dies, PortAfter
<1>3. /\ UNCHANGED <<pidFile, daemonPid, log, script>>
      /\ at'[d]["main"] = "off" /\ \A e \in Daemons \ {d} : at'[e] = at[e]
      /\ \A t \in Threads : ~peek'[d][t]
      /\ \A e \in Daemons \ {d} : peek'[e] = peek[e]
  BY BootPremises DEF Gone, AtTypeOK, PeekTypeOK, Off, NoPeek, fileVars, Threads
<1>4. HostReady'
  BY <1>1, <1>2, <1>3 DEF BootInv, HostReady, NoneLive, Spare, Live
<1>5. DaemonPidIsOld'
  BY <1>1, <1>3 DEF BootInv, DaemonPidIsOld, Written
<1>6. ASSUME NEW e \in Daemons
      PROVE  Finds(e)'
  <2>1. at'[e]["main"] = "off"
    BY <1>3, BootPremises DEF Live
  <2>2. script'[e] \in Servers => Live(script[e])'
    BY <1>1, <1>3 DEF BootInv, Finds, Live
  <2>3. \A t \in Threads : peek'[e][t] => pidFile' # NoPid
    BY <1>3 DEF BootInv, Finds
  <2> QED  BY <2>1, <2>2, <2>3 DEF Finds
<1> QED  BY <1>4, <1>5, <1>6 DEF BootInv

LEMMA LifeBoots ==
  ASSUME Undisturbed, TypeOK, TakeoverInv, BootInv, NEW d \in Daemons,
         Begin(d) \/ Exit(d) \/ Kill(d)
  PROVE  BootInv'
<1>1. CASE Exit(d) \/ Kill(d)
  BY <1>1, GoneBoots DEF Exit, Kill
<1>2. CASE Begin(d)
  <2>1. /\ (\A e \in Daemons : ~AtWork(e)) /\ proc[d] = "unborn"
        /\ UNCHANGED <<port, pidFile, daemonPid, log, script, peek>>
    BY <1>2 DEF Begin, CanStart, Undisturbed, AtWork, fileVars, workVars
  <2>2. \A e \in Daemons : at[e]["main"] = "off" /\ script[e] \in {"idle", "done"}
    BY <2>1 DEF TakeoverInv, Retired, AtWork, Booting
  <2>3. /\ proc'[d] = "live" /\ \A p \in Procs \ {d} : proc'[p] = proc[p]
        /\ Daemons \subseteq Procs /\ Servers \subseteq Procs \ {d}
    BY <1>2, TakeoverPremises, ProcAssumption DEF Begin, Procs
  <2>4. \A e \in Daemons : at'[e]["main"] = IF e = d THEN "check1" ELSE "off"
    BY <1>2, <2>2, BootPremises DEF Begin, AtTypeOK
  <2>5. HostReady'
    BY <2>1, <2>3 DEF BootInv, HostReady, NoneLive, Spare, Live
  <2>6. DaemonPidIsOld'
    BY <2>1, <2>3, <2>4 DEF BootInv, DaemonPidIsOld, Written
  <2>7. ASSUME NEW e \in Daemons
        PROVE  Finds(e)'
    BY <2>1, <2>2, <2>4, ScriptAssumption DEF BootInv, Finds, ScriptStates
  <2> QED  BY <2>5, <2>6, <2>7 DEF BootInv
<1> QED  BY <1>1, <1>2

\* No server dies while a start or a restart relies on it, and the machine has
\* nobody to reap.
LEMMA HostStepBoots ==
  ASSUME Undisturbed, TypeOK, TakeoverInv, BootInv, HostStep
  PROVE  BootInv'
<1>a. /\ proc \in [Procs -> Lives] /\ HostReady /\ DaemonPidIsOld
      /\ Servers \cup Strangers \cup Daemons = Procs /\ Daemons \cap (Servers \cup Strangers) = {}
      /\ Servers \cap Strangers = {} /\ "linger" \notin Events /\ "flap" \notin Events
  BY ProcAssumption DEF TypeOK, HostTypeOK, Procs, BootInv, Undisturbed
<1>b. UNCHANGED <<at, peek, script, pidFile, daemonPid, log>>
  BY DEF HostStep, daemonVars, threadVars, workVars, fileVars
<1>1. ASSUME \A s \in Servers : proc'[s] = proc[s], \A d \in Daemons : proc'[d] = proc[d],
             port' # Linger, port' \in Servers => Live(port')
      PROVE  BootInv'
  <2>1. HostReady'
    BY <1>a, <1>b, <1>1 DEF HostReady, NoneLive, Spare, Live
  <2>2. DaemonPidIsOld'
    BY <1>a, <1>b, <1>1 DEF DaemonPidIsOld
  <2>3. ASSUME NEW d \in Daemons
        PROVE  Finds(d)'
    BY <1>b, <1>1 DEF BootInv, Finds, ServerRecorded, Live
  <2> QED  BY <2>1, <2>2, <2>3 DEF BootInv
<1>2. ASSUME NEW s \in Servers, Bind(s)
      PROVE  BootInv'
  BY <1>a, <1>1, <1>2, ProcAssumption DEF Bind, Live, Procs
<1>3. ASSUME NEW s \in Servers, BindFails(s)
      PROVE  FALSE
  BY <1>a, <1>3 DEF BindFails, HostReady, Live, TakeoverInv, NoDuplicateServer
<1>4. ASSUME NEW p \in Servers \cup Strangers, Reaped(p) \/ ShutsDown(p)
      PROVE  FALSE
  BY <1>a, <1>4 DEF Reaped, ShutsDown, TakeoverInv, Unsignalled
<1>5. ASSUME NEW p \in Strangers, Dies(p) \/ StrangerArrives(p)
      PROVE  BootInv'
  <2>1. \A q \in Procs \ {p} : proc'[q] = proc[q]
    BY <1>a, <1>5 DEF Dies, StrangerArrives
  <2>2. port' = port
    <3>1. port # p
      BY <1>a, ProcAssumption DEF TypeOK, HostTypeOK
    <3> QED  BY <1>5, <3>1 DEF Dies, StrangerArrives, PortAfter
  <2> QED  BY <1>a, <1>1, <2>1, <2>2 DEF HostReady, Live
<1>6. ASSUME NEW p \in Servers, Crash(p)
      PROVE  BootInv'
  <2>1. PICK d \in Daemons : Watching(d, p)
    BY <1>a, <1>6 DEF Crash
  <2>2. Live(d) /\ at[d]["main"] \in Started /\ script[d] = "idle"
        /\ {"idle", "done"} \cap Servers = {}
    BY <2>1, TakeoverPremises, ScriptAssumption
       DEF Watching, Retired, Works, Started, ScriptStates
  <2>3. \A e \in Daemons : /\ at[e]["main"] \in {"off"} \cup Started
                           /\ script[e] \in {"idle", "done"}
    BY <2>2, BootPremises
  <2>4. Spare /\ proc[p] = "live" /\ proc'[p] = "dead"
        /\ \A q \in Procs \ {p} : proc'[q] = proc[q]
    BY <1>a, <1>6 DEF Crash, Dies
  <2>5. (port' = port /\ port # p) \/ port' = NoProc
    BY <1>a, <1>6 DEF Crash, Dies, PortAfter
  <2>6. HostReady'
    BY <1>a, <1>b, <2>4, <2>5, ProcAssumption DEF HostReady, NoneLive, Spare, Live, Procs
  <2>7. DaemonPidIsOld'
    BY <1>a, <1>b, <2>4 DEF DaemonPidIsOld
  <2>8. ASSUME NEW e \in Daemons
        PROVE  Finds(e)'
    BY <1>b, <2>2, <2>3 DEF BootInv, Finds, Started
  <2> QED  BY <2>6, <2>7, <2>8 DEF BootInv
<1>7. CASE PortFreed
  BY <1>a, <1>7 DEF PortFreed, HostReady
<1> QED  BY <1>2, <1>3, <1>4, <1>5, <1>6, <1>7 DEF HostStep, Crash

LEMMA RebootBoots ==
  ASSUME TypeOK, BootInv, Reboot
  PROVE  BootInv'
<1>1. /\ \A p \in Procs : proc'[p] = IF proc[p] = "unborn" THEN "unborn" ELSE "dead"
      /\ Servers \subseteq Procs /\ Daemons \subseteq Procs /\ port' = NoProc /\ Spare
      /\ UNCHANGED <<pidFile, daemonPid, log>>
  BY DEF Reboot, Procs, fileVars
<1>2. \A d \in Daemons : /\ at'[d]["main"] = "off" /\ script'[d] = "idle"
                         /\ \A t \in Threads : ~peek'[d][t]
  BY DEF Reboot, Off, NoPeek, Threads
<1>3. HostReady'
  BY <1>1, ProcAssumption DEF BootInv, HostReady, NoneLive, Spare, Live, Procs
<1>4. DaemonPidIsOld'
  BY <1>1, <1>2 DEF BootInv, DaemonPidIsOld, Written
<1>5. \A d \in Daemons : Finds(d)'
  BY <1>2, ScriptAssumption DEF Finds, ScriptStates
<1> QED  BY <1>3, <1>4, <1>5 DEF BootInv

\* No start fails or declines, whatever its predecessors left when they were killed, at any
\* step and also while their script ran, or the machine went down: a running server or
\* the pid of a dead one, a log, the daemon.pid of a dead daemon.  It does not overlap
\* with a script that a dead daemon left at work.
THEOREM StartsSucceed ==
  ASSUME Undisturbed
  PROVE  Spec => [](BootInv /\ StartSucceeds)
<1>a. Unattended
  BY DEF Undisturbed, Unattended
<1>1. Init => BootInv
  <2> SUFFICES ASSUME Init PROVE BootInv
    OBVIOUS
  <2>1. /\ \A p \in Procs : proc[p] = "unborn"
        /\ Servers \subseteq Procs /\ port = NoProc /\ pidFile = NoPid /\ daemonPid = NoPid
    BY DEF Init, HostInit, Procs
  <2>2. HostReady
    BY <2>1, ProcAssumption DEF Undisturbed, HostReady, NoneLive, Spare, Live, Procs
  <2>3. \A d \in Daemons : Finds(d)
    BY ScriptAssumption DEF Init, Off, NoPeek, Threads, Finds, ScriptStates
  <2> QED  BY <2>1, <2>2, <2>3 DEF BootInv, DaemonPidIsOld
<1>2. TypeOK /\ TakeoverInv /\ BootInv /\ [Next]_vars => BootInv'
  <2> SUFFICES ASSUME TypeOK, TakeoverInv, BootInv, [Next]_vars PROVE BootInv'
    OBVIOUS
  <2>1. ASSUME NEW d \in Daemons, DaemonStep(d)
        PROVE  BootInv'
    BY <1>a, <2>1, MainBoots, MonitorBoots, ScriptBoots, LifeBoots, NoSignals DEF DaemonStep
  <2>2. CASE UNCHANGED vars
    BY <2>2 DEF vars, hostVars, fileVars, threadVars, workVars, BootInv, HostReady,
         DaemonPidIsOld, Finds, ServerRecorded, NoneLive, Spare, Live
  <2> QED  BY <1>a, <2>1, <2>2, NoSignals, HostStepBoots, RebootBoots DEF Next
<1>3. BootInv => StartSucceeds
  BY DEF BootInv, Finds, StartSucceeds
<1>4. Spec => []TakeoverInv
  BY <1>a, OneServerInTurn, PTL
<1> QED  BY <1>1, <1>2, <1>3, <1>4, TypeCorrect, PTL DEF Spec

=============================================================================
