---------------------------- MODULE FollowProofs -----------------------------
(***************************************************************************)
(* The pid file, the process the monitor watches and the one whose log is  *)
(* shown are the same, as long as nobody stops the daemon: FollowInv of    *)
(* DaemonInv is inductive on top of SlotInv, which keeps the start script  *)
(* away from a monitor that is not waiting for it.                         *)
(***************************************************************************)
EXTENDS OneServerProofs

\* What every step of the only daemon starts from.
LEMMA FollowPremises ==
  ASSUME TypeOK, SlotInv, FollowInv, NEW d, Daemons = {d}
  PROVE  /\ AtTypeOK /\ d \in Daemons /\ Follows(d) /\ Control(d)
         /\ watch \in [Daemons -> Procs \cup {NoProc}]
         /\ tail \in [Daemons -> Procs \cup {NoProc}]
         /\ stopping \in [Daemons -> BOOLEAN] /\ DOMAIN frames = Daemons
BY DEF TypeOK, WorkTypeOK, StopTypeOK, SlotInv, FollowInv

\* A step that leaves all of it alone; a thread that goes elsewhere; a stop.
LEMMA FollowsStays ==
  ASSUME NEW d, Follows(d), UNCHANGED <<frames, tail, watch, stopping>>,
         \/ pidFile' = pidFile /\ at'[d]["monitor"] = at[d]["monitor"]
         \/ at'[d]["monitor"] \notin {"assertLog", "rewatch", "retail", "sleep", "compare", "probe"}
  PROVE  Follows(d)'
BY DEF Follows

LEMMA FollowsStopping ==
  ASSUME NEW d, Follows(d), UNCHANGED <<at, tail, watch>>, stopping'[d]
  PROVE  Follows(d)'
BY DEF Follows

LEMMA FollowsOff ==
  ASSUME NEW d, at'[d]["monitor"] = "off", frames'[d] = <<>>
  PROVE  Follows(d)'
BY DEF Follows

LEMMA StartFollows ==
  ASSUME TypeOK, SlotInv, FollowInv, NEW d, Daemons = {d}, NEW t \in Threads,
         Start(d, t) \/ Peek(d, t) \/ ReadFails(d, t)
  PROVE  Follows(d)'
<1> USE DEF stopVars, workVars, fileVars, PidStep
<1>a. /\ t = "main" \/ t = "monitor"
      /\ UNCHANGED <<pidFile, frames, tail, watch, stopping>>
  BY DEF Threads, Start, RotateLog, MoveLog, CheckPort, Popen, Wait, AssertPid, AssertLog,
         Peek, ReadFails
<1>1. CASE RotateLog(d, t)
  BY <1>a, <1>1, StepMoves, FollowPremises, FollowsStays DEF RotateLog
<1>2. CASE MoveLog(d, t)
  BY <1>a, <1>2, StepMoves, FollowPremises, FollowsStays DEF MoveLog
<1>3. CASE CheckPort(d, t)
  BY <1>a, <1>3, StepMoves, FollowPremises, FollowsStays DEF CheckPort
<1>4. CASE Popen(d, t)
  BY <1>a, <1>4, StepMoves, FollowPremises, FollowsStays DEF Popen
<1>5. CASE Wait(d, t)
  BY <1>a, <1>5, StepMoves, FollowPremises, FollowsStays DEF Wait
<1>6. CASE AssertPid(d, t)
  BY <1>a, <1>6, StepMoves, FollowPremises DEF AssertPid, Follows
<1>7. CASE AssertLog(d, t)
  BY <1>a, <1>7, StepMoves, FollowPremises DEF AssertLog, AfterStart, Follows
<1>8. CASE Peek(d, t)
  BY <1>a, <1>8, FollowPremises, FollowsStays DEF Peek
<1>9. CASE ReadFails(d, t)
  BY <1>a, <1>9, StepMoves, FollowPremises, FollowsStays DEF ReadFails
<1> QED  BY <1>1, <1>2, <1>3, <1>4, <1>5, <1>6, <1>7, <1>8, <1>9 DEF Start

LEMMA MainFollows ==
  ASSUME TypeOK, SlotInv, FollowInv, NEW d, Daemons = {d}, MainStep(d)
  PROVE  Follows(d)'
<1> USE DEF stopVars, workVars, fileVars, PidStep
<1>1. CASE Start(d, "main") \/ Peek(d, "main") \/ ReadFails(d, "main")
  BY <1>1, StartFollows DEF Threads
<1>2. CASE Check1(d) \/ Check2(d) \/ CheckDaemon(d) \/ ReadDaemon(d) \/ WriteDaemon(d)
           \/ InstallHandlers(d) \/ Pause(d) \/ Unlink(d)
  <2>1. UNCHANGED <<pidFile, frames, tail, watch, stopping>>
    BY <1>2 DEF Check1, Check2, CheckDaemon, ReadDaemon, WriteDaemon, InstallHandlers, Install,
         Pause, Unlink
  <2>2. at'[d]["monitor"] = at[d]["monitor"]
    BY <1>2, StepMoves, FollowPremises DEF Check1, Check2, CheckDaemon, ReadDaemon,
         WriteDaemon, InstallHandlers, Install, Pause, Unlink
  <2> QED  BY <2>1, <2>2, FollowPremises, FollowsStays
<1>3. CASE Launch(d)
  <2>1. /\ UNCHANGED <<pidFile, frames, stopping>>
        /\ watch'[d] = Watchable /\ tail'[d] = Watchable
        /\ at[d]["main"] = "launch" /\ at[d]["monitor"] = "off"
    BY <1>3, FollowPremises DEF Launch, At, Control, Started
  <2>2. CASE Watchable = NoProc
    BY <1>3, <2>1, <2>2, FollowPremises DEF Launch, AtTypeOK, Threads, Follows
  <2>3. CASE Watchable # NoProc
    <3>1. pidFile = PidOf[Watchable]
      BY <2>3, ProcAtType DEF Watchable
    <3> QED  BY <1>3, <2>1, <2>3, <3>1, FollowPremises DEF Launch, AtTypeOK, Threads, Follows
  <2> QED  BY <2>2, <2>3
<1> QED  BY <1>1, <1>2, <1>3 DEF MainStep

LEMMA MonitorFollows ==
  ASSUME TypeOK, SlotInv, FollowInv, NEW d, Daemons = {d}, MonitorStep(d)
  PROVE  Follows(d)'
<1> USE DEF stopVars, workVars, fileVars, PidStep
<1>1. CASE Start(d, "monitor") \/ Peek(d, "monitor") \/ ReadFails(d, "monitor")
  BY <1>1, StartFollows DEF Threads
<1>2. CASE Wake(d)
  BY <1>2, StepMoves, FollowPremises DEF Wake, Follows
<1>3. CASE Compare(d)
  BY <1>3, StepMoves, FollowPremises DEF Compare, Follows
<1>4. CASE Probe(d)
  BY <1>4, StepMoves, FollowPremises DEF Probe, Follows
<1>5. CASE Rewatch(d)
  <2>1. /\ at[d]["monitor"] = "rewatch" /\ UNCHANGED <<pidFile, frames, stopping, tail>>
        /\ watch'[d] = IF Restarted(d) = NoProc THEN watch[d] ELSE Restarted(d)
        /\ at'[d]["monitor"] = IF Restarted(d) = NoProc THEN "raised" ELSE "retail"
    BY <1>5, StepMoves, FollowPremises DEF Rewatch
  <2>2. pidFile # NoPid /\ Restarted(d) # NoProc => pidFile = PidOf[Restarted(d)]
    BY ProcAtType DEF Restarted
  <2> QED  BY <2>1, <2>2, FollowPremises DEF Follows
<1>6. CASE Retail(d)
  BY <1>6, StepMoves, FollowPremises DEF Retail, Follows
<1>7. CASE Quit(d)
  BY <1>7, StepMoves, FollowPremises DEF Quit, Follows
<1> QED  BY <1>1, <1>2, <1>3, <1>4, <1>5, <1>6, <1>7 DEF MonitorStep

\* A script that runs has the thread that waits for it, or nobody.
LEMMA ScriptFollows ==
  ASSUME TypeOK, SlotInv, FollowInv, NEW d, Daemons = {d}, Script(d)
  PROVE  Follows(d)'
<1>1. script[d] # "idle" /\ UNCHANGED <<at, tail, watch, stopping, frames>>
  BY ScriptAssumption
     DEF Script, ScriptRefuses, ScriptSpawns, ScriptRecords, threadVars, stopVars, ScriptStates
<1>2. at[d]["monitor"] \in {"off", "wait"}
  BY <1>1, FollowPremises DEF Control, Started
<1> QED  BY <1>1, <1>2, FollowPremises, FollowsStays

LEMMA GoneFollows ==
  ASSUME TypeOK, SlotInv, FollowInv, NEW d, Daemons = {d}, Gone(d)
  PROVE  Follows(d)'
BY FollowPremises, FollowsOff DEF Gone, AtTypeOK, Off, Threads

LEMMA MainRaisesFollows ==
  ASSUME TypeOK, SlotInv, FollowInv, NEW d, Daemons = {d}, MainRaises(d)
  PROVE  Follows(d)'
<1>1. CASE at[d]["main"] \in Leaving
  BY <1>1, GoneFollows DEF MainRaises
<1>2. CASE at[d]["main"] \notin Leaving
  <2>1. UNCHANGED <<pidFile, tail, watch, stopping>> /\ frames'[d] = <<>>
    BY <1>2, FollowPremises DEF MainRaises, fileVars, workVars
  <2>2. at'[d]["monitor"] = at[d]["monitor"]
    BY <1>2, FollowPremises DEF MainRaises, AtTypeOK, Threads
  <2> QED  BY <2>1, <2>2, FollowPremises DEF Follows
<1> QED  BY <1>1, <1>2

LEMMA HandlerFollows ==
  ASSUME TypeOK, SlotInv, FollowInv, NEW d, Daemons = {d}, Deliver(d) \/ Handler(d)
  PROVE  Follows(d)'
<1> USE DEF threadVars, workVars
<1>1. CASE Deliver(d)
  BY <1>1, FollowPremises, FollowsStopping DEF Deliver
<1>2. CASE HandlerRaises(d)
  BY <1>2, MainRaisesFollows DEF HandlerRaises
<1>3. CASE Handler(d) /\ ~HandlerRaises(d)
  <2>1. frames[d] # <<>> /\ UNCHANGED stopping
    BY <1>3 DEF Handler, SeePid, ReadPid, Terminate, Await, KillTarget, SeeFile,
         UnlinkPidFile, StopRotatesLog, StopMovesLog, Join, HandlerStep, InHandler
  <2>2. UNCHANGED <<at, tail, watch>>
    BY <1>3 DEF Handler, SeePid, ReadPid, Terminate, Await, KillTarget, SeeFile,
         UnlinkPidFile, StopRotatesLog, StopMovesLog, Join
  <2> QED  BY <2>1, <2>2, FollowPremises, FollowsStopping DEF Follows
<1> QED  BY <1>1, <1>2, <1>3

LEMMA SendFollows ==
  ASSUME TypeOK, SlotInv, FollowInv, NEW d, Daemons = {d}, Send
  PROVE  Follows(d)'
<1>1. CASE Flag(d)
  <2>1. at'[d]["monitor"] = at[d]["monitor"]
    BY <1>1, FollowPremises DEF Flag, AtTypeOK, Threads
  <2> QED  BY <1>1, <2>1, FollowPremises, FollowsStays DEF Flag, fileVars, workVars
<1>2. CASE Gone(d) \/ MainRaises(d)
  BY <1>2, GoneFollows, MainRaisesFollows
<1>3. CASE UNCHANGED <<fileVars, threadVars, workVars, stopping, frames>>
  BY <1>3, FollowPremises, FollowsStays DEF fileVars, threadVars, workVars
<1> QED  BY <1>1, <1>2, <1>3 DEF Send, SendTerm, SendInt, CliStop

LEMMA OtherFollows ==
  ASSUME TypeOK, SlotInv, FollowInv, NEW d, Daemons = {d},
         Begin(d) \/ Exit(d) \/ Kill(d) \/ HostStep \/ Reboot \/ UNCHANGED vars
  PROVE  Follows(d)'
<1>1. CASE Exit(d) \/ Kill(d)
  BY <1>1, GoneFollows DEF Exit, Kill
<1>2. CASE Begin(d)
  <2>1. at'[d]["monitor"] = at[d]["monitor"]
    BY <1>2, FollowPremises DEF Begin, AtTypeOK, Threads
  <2> QED  BY <1>2, <2>1, FollowPremises, FollowsStays DEF Begin, fileVars, workVars, stopVars
<1>3. CASE HostStep \/ UNCHANGED vars
  BY <1>3, FollowPremises, FollowsStays
     DEF HostStep, daemonVars, vars, fileVars, threadVars, workVars, stopVars
<1>4. CASE Reboot
  BY <1>4, FollowPremises, FollowsOff DEF Reboot, Off, Threads
<1> QED  BY <1>1, <1>2, <1>3, <1>4

\* The monitor of a single daemon shows the log of the process it watches, and the
\* pid file names it until a stop: however often the server dies, whatever else the
\* handler, signals, crashes and reboots do.
THEOREM OneServerFollowed ==
  ASSUME NEW d, Daemons = {d}
  PROVE  Spec => [](FollowInv /\ PidFileNamesWatched /\ WatchedIsTailed)
<1>1. Init => FollowInv
  BY DEF Init, FollowInv, Follows, Off, Threads
<1>2. TypeOK /\ SlotInv /\ FollowInv /\ [Next]_vars => FollowInv'
  <2> SUFFICES ASSUME TypeOK, SlotInv, FollowInv, [Next]_vars PROVE Follows(d)'
    BY DEF FollowInv
  <2> QED  BY MainFollows, MonitorFollows, ScriptFollows, HandlerFollows, SendFollows,
              OtherFollows DEF Next, DaemonStep
<1>3. FollowInv => PidFileNamesWatched /\ WatchedIsTailed
  BY DEF FollowInv, Follows, PidFileNamesWatched, WatchedIsTailed, Watching
<1>4. Spec => []SlotInv
  BY OneServer, PTL
<1> QED  BY <1>1, <1>2, <1>3, <1>4, TypeCorrect, PTL DEF Spec

=============================================================================
