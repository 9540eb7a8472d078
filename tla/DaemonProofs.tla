---------------------------- MODULE DaemonProofs ----------------------------
(***************************************************************************)
(* Theorems about Daemon, for every set of daemons, servers and strangers, *)
(* every assignment of pids and every choice of events.                    *)
(***************************************************************************)
EXTENDS Daemon, TLAPS, SequenceTheorems

-----------------------------------------------------------------------------
(* Type correctness: what the steps are made of, then the steps.           *)

LEMMA KeepType ==
  /\ HostTypeOK /\ UNCHANGED hostVars => HostTypeOK'
  /\ FileTypeOK /\ UNCHANGED fileVars => FileTypeOK'
  /\ AtTypeOK /\ UNCHANGED at => AtTypeOK'
  /\ PeekTypeOK /\ UNCHANGED peek => PeekTypeOK'
  /\ WorkTypeOK /\ UNCHANGED workVars => WorkTypeOK'
  /\ StopTypeOK /\ UNCHANGED stopVars => StopTypeOK'
<1>1. HostTypeOK /\ UNCHANGED hostVars => HostTypeOK'
  BY DEF HostTypeOK, hostVars
<1>2. FileTypeOK /\ UNCHANGED fileVars => FileTypeOK'
  BY DEF FileTypeOK, fileVars
<1>3. AtTypeOK /\ UNCHANGED at => AtTypeOK'
  BY DEF AtTypeOK
<1>4. PeekTypeOK /\ UNCHANGED peek => PeekTypeOK'
  BY DEF PeekTypeOK
<1>5. WorkTypeOK /\ UNCHANGED workVars => WorkTypeOK'
  BY DEF WorkTypeOK, workVars
<1>6. StopTypeOK /\ UNCHANGED stopVars => StopTypeOK'
  BY DEF StopTypeOK, stopVars
<1> QED  BY <1>1, <1>2, <1>3, <1>4, <1>5, <1>6

\* The labels a thread of each kind can be at.
LabelsOf(t) == IF t = "main" THEN MainLabels ELSE MonitorLabels

LEMMA StepType ==
  ASSUME AtTypeOK, NEW d \in Daemons, NEW t \in Threads, NEW from, NEW to,
         to \in LabelsOf(t), Step(d, t, from, to)
  PROVE  AtTypeOK'
BY DEF AtTypeOK, Step, Threads, LabelsOf

LEMMA ReadsPidType ==
  ASSUME PeekTypeOK, NEW d \in Daemons, NEW t \in Threads, ReadsPid(d, t)
  PROVE  PeekTypeOK'
BY DEF PeekTypeOK, ReadsPid

LEMMA DiesType ==
  ASSUME HostTypeOK, NEW p \in Procs, Dies(p)
  PROVE  HostTypeOK'
BY DEF HostTypeOK, Dies, PortAfter, Lives

\* psutil.Process returns a live process that has the pid, or raises.
LEMMA ProcAtType ==
  ASSUME NEW pid
  PROVE  \/ ProcAt(pid) = NoProc /\ ~PidExists(pid)
         \/ ProcAt(pid) \in Procs /\ Live(ProcAt(pid)) /\ PidOf[ProcAt(pid)] = pid
<1>1. CASE PidExists(pid)
  <2>1. PICK p \in Procs : Live(p) /\ PidOf[p] = pid
    BY <1>1 DEF PidExists
  <2>2. ProcAt(pid) = CHOOSE q \in Procs : Live(q) /\ PidOf[q] = pid
    BY <1>1 DEF ProcAt
  <2> QED  BY <2>1, <2>2
<1>2. CASE ~PidExists(pid)
  BY <1>2 DEF ProcAt
<1> QED  BY <1>1, <1>2

LEMMA StartType ==
  ASSUME TypeOK, NEW d \in Daemons, NEW t \in Threads, Start(d, t)
  PROVE  TypeOK'
<1> USE KeepType, StepType, ReadsPidType DEF TypeOK
<1>0. StartLabels \cup {"dcheck", "raised"} \subseteq MainLabels
      /\ StartLabels \cup {"rewatch", "raised"} \subseteq MonitorLabels
  BY DEF MainLabels, MonitorLabels
<1>a. /\ StartLabels \cup {"raised"} \subseteq LabelsOf(t)
      /\ AfterStart(t) \in LabelsOf(t)
  BY <1>0 DEF LabelsOf, AfterStart
<1>b. "move" \in LabelsOf(t) /\ "port" \in LabelsOf(t) /\ "popen" \in LabelsOf(t)
      /\ "wait" \in LabelsOf(t) /\ "assertPid" \in LabelsOf(t)
      /\ "assertLog" \in LabelsOf(t) /\ "raised" \in LabelsOf(t)
  BY <1>a DEF StartLabels
<1>1. CASE RotateLog(d, t)
  BY <1>1, <1>b DEF RotateLog
<1>2. CASE MoveLog(d, t)
  <2>1. FileTypeOK'
    BY <1>2 DEF MoveLog, FileTypeOK
  <2> QED  BY <1>2, <1>b, <2>1 DEF MoveLog
<1>3. CASE CheckPort(d, t)
  BY <1>3, <1>b DEF CheckPort
<1>4. CASE Popen(d, t)
  <2>1. WorkTypeOK'
    BY <1>4 DEF Popen, WorkTypeOK, ScriptStates
  <2> QED  BY <1>4, <1>b, <2>1 DEF Popen
<1>5. CASE Wait(d, t)
  <2>1. WorkTypeOK'
    BY <1>5 DEF Wait, WorkTypeOK, ScriptStates
  <2> QED  BY <1>5, <1>b, <2>1 DEF Wait
<1>6. CASE AssertPid(d, t)
  BY <1>6, <1>b DEF AssertPid, PidStep
<1>7. CASE AssertLog(d, t)
  BY <1>7, <1>a, <1>b DEF AssertLog
<1> QED  BY <1>1, <1>2, <1>3, <1>4, <1>5, <1>6, <1>7 DEF Start

LEMMA PeekType ==
  ASSUME TypeOK, NEW d \in Daemons, NEW t \in Threads, Peek(d, t) \/ ReadFails(d, t)
  PROVE  TypeOK'
<1> USE KeepType DEF TypeOK
<1>1. CASE Peek(d, t)
  BY <1>1 DEF Peek, PeekTypeOK
<1>2. CASE ReadFails(d, t)
  <2>1. "raised" \in LabelsOf(t)
    BY DEF LabelsOf, MainLabels, MonitorLabels
  <2>2. PeekTypeOK'
    BY <1>2 DEF ReadFails, PeekTypeOK
  <2> QED  BY <1>2, <2>1, <2>2, StepType DEF ReadFails
<1> QED  BY <1>1, <1>2

LEMMA MainType ==
  ASSUME TypeOK, NEW d \in Daemons, MainStep(d)
  PROVE  TypeOK'
<1> DEFINE L == {"rotate", "check2", "raised", "dcheck", "dwrite", "dread",
                 "declined", "launch", "installTerm", "installInt", "prePause", "paused", "done"}
<1> USE KeepType, StepType, ReadsPidType DEF TypeOK
<1>a. "main" \in Threads
  BY DEF Threads
<1>b. \A l \in L : l \in LabelsOf("main")
  BY DEF LabelsOf, MainLabels, StartLabels
<1>1. CASE Check1(d)
  BY <1>1, <1>a, <1>b DEF Check1, PidStep
<1>2. CASE Check2(d)
  BY <1>2, <1>a, <1>b DEF Check2, PidStep
<1>3. CASE CheckDaemon(d)
  BY <1>3, <1>a, <1>b DEF CheckDaemon
<1>4. CASE ReadDaemon(d)
  BY <1>4, <1>a, <1>b DEF ReadDaemon
<1>5. CASE WriteDaemon(d)
  <2>1. FileTypeOK'
    BY <1>5 DEF WriteDaemon, FileTypeOK, Pids, Procs
  <2> QED  BY <1>5, <1>a, <1>b, <2>1 DEF WriteDaemon
<1>6. CASE Launch(d)
  <2>1. Watchable \in Procs \cup {NoProc}
    BY ProcAtType DEF Watchable
  <2>2. WorkTypeOK'
    BY <1>6, <2>1 DEF Launch, WorkTypeOK
  <2>3. AtTypeOK'
    BY <1>6 DEF Launch, AtTypeOK, Threads, MainLabels, MonitorLabels
  <2> QED  BY <1>6, <1>a, <2>2, <2>3 DEF Launch
<1>7. CASE InstallHandlers(d)
  <2>1. StopTypeOK'
    BY <1>7 DEF InstallHandlers, Install, StopTypeOK, Signals
  <2> QED  BY <1>7, <1>a, <1>b, <2>1 DEF InstallHandlers, Install
<1>8. CASE Pause(d)
  BY <1>8, <1>a, <1>b DEF Pause
<1>9. CASE Unlink(d)
  <2>1. FileTypeOK'
    BY <1>9 DEF Unlink, FileTypeOK
  <2> QED  BY <1>9, <1>a, <1>b, <2>1 DEF Unlink
<1>10. CASE Start(d, "main")
  BY <1>10, <1>a, StartType
<1>11. CASE Peek(d, "main") \/ ReadFails(d, "main")
  BY <1>11, <1>a, PeekType
<1> QED  BY <1>1, <1>2, <1>3, <1>4, <1>5, <1>6, <1>7, <1>8, <1>9, <1>10, <1>11
         DEF MainStep

LEMMA MonitorType ==
  ASSUME TypeOK, NEW d \in Daemons, MonitorStep(d)
  PROVE  TypeOK'
<1> DEFINE L == {"quit", "compare", "probe", "sleep", "rotate", "raised", "retail",
                 "ended"}
<1> USE KeepType, StepType, ReadsPidType DEF TypeOK
<1>a. "monitor" \in Threads /\ "monitor" # "main"
  BY DEF Threads
<1>b. \A l \in L : l \in LabelsOf("monitor")
  BY DEF LabelsOf, MonitorLabels, StartLabels
<1>1. CASE Wake(d)
  BY <1>1, <1>a, <1>b DEF Wake, PidStep
<1>2. CASE Compare(d)
  BY <1>2, <1>a, <1>b DEF Compare, PidStep
<1>3. CASE Probe(d)
  BY <1>3, <1>a, <1>b DEF Probe
<1>4. CASE Rewatch(d)
  <2>1. Restarted(d) \in Procs \cup {NoProc}
    BY ProcAtType DEF Restarted, Procs
  <2>2. WorkTypeOK'
    BY <1>4, <2>1 DEF Rewatch, WorkTypeOK
  <2> QED  BY <1>4, <1>a, <1>b, <2>2 DEF Rewatch, PidStep
<1>5. CASE Retail(d)
  <2>1. WorkTypeOK'
    BY <1>5 DEF Retail, WorkTypeOK
  <2> QED  BY <1>5, <1>a, <1>b, <2>1 DEF Retail
<1>6. CASE Quit(d)
  <2>1. WorkTypeOK'
    BY <1>6 DEF Quit, WorkTypeOK
  <2> QED  BY <1>6, <1>a, <1>b, <2>1 DEF Quit
<1>7. CASE Start(d, "monitor")
  BY <1>7, <1>a, StartType
<1>8. CASE Peek(d, "monitor") \/ ReadFails(d, "monitor")
  BY <1>8, <1>a, PeekType
<1> QED  BY <1>1, <1>2, <1>3, <1>4, <1>5, <1>6, <1>7, <1>8 DEF MonitorStep

LEMMA ScriptType ==
  ASSUME TypeOK, NEW d \in Daemons, Script(d)
  PROVE  TypeOK'
<1> USE KeepType DEF TypeOK, threadVars
<1>1. CASE ScriptRefuses(d)
  <2>1. WorkTypeOK'
    BY <1>1 DEF ScriptRefuses, WorkTypeOK, ScriptStates
  <2> QED  BY <1>1, <2>1 DEF ScriptRefuses
<1>2. CASE ScriptRecords(d)
  <2>1. WorkTypeOK'
    BY <1>2 DEF ScriptRecords, WorkTypeOK, ScriptStates
  <2>2. FileTypeOK'
    BY <1>2 DEF ScriptRecords, FileTypeOK, Pids, Procs
  <2> QED  BY <1>2, <2>1, <2>2 DEF ScriptRecords
<1>3. ASSUME NEW s \in Servers, ScriptSpawns(d, s)
      PROVE  TypeOK'
  <2>1. WorkTypeOK'
    BY <1>3 DEF ScriptSpawns, WorkTypeOK
  <2>2. FileTypeOK'
    BY <1>3 DEF ScriptSpawns, FileTypeOK
  <2>3. HostTypeOK'
    BY <1>3 DEF ScriptSpawns, HostTypeOK, Procs, Lives
  <2> QED  BY <1>3, <2>1, <2>2, <2>3 DEF ScriptSpawns
<1> QED  BY <1>1, <1>2, <1>3 DEF Script

LEMMA TopFrameType ==
  ASSUME StopTypeOK, NEW d \in Daemons, frames[d] # <<>>,
         NEW l \in HandlerLabels, NEW p \in Procs \cup {NoProc},
         frames' = [frames EXCEPT ![d][1] = [at |-> l, target |-> p]],
         UNCHANGED <<stopping, armed, pending, sent>>
  PROVE  StopTypeOK'
<1>1. frames[d] \in Seq(Frame) /\ 1 \in 1..Len(frames[d])
  BY LenProperties DEF StopTypeOK
<1>2. [at |-> l, target |-> p] \in Frame
  BY DEF Frame
<1>3. [frames[d] EXCEPT ![1] = [at |-> l, target |-> p]] \in Seq(Frame)
  BY <1>1, <1>2, ExceptSeq
<1> QED  BY <1>3 DEF StopTypeOK

LEMMA TargetType ==
  ASSUME StopTypeOK, NEW d \in Daemons, frames[d] # <<>>
  PROVE  Target(d) \in Procs \cup {NoProc}
<1>1. frames[d] \in Seq(Frame) /\ 1 \in 1..Len(frames[d])
  BY LenProperties DEF StopTypeOK
<1>2. frames[d][1] \in Frame
  BY <1>1, ElementOfSeq
<1> QED  BY <1>2 DEF Target, Frame

LEMMA HandlerStepType ==
  ASSUME StopTypeOK, NEW d \in Daemons, NEW from, NEW to \in HandlerLabels,
         HandlerStep(d, from, to)
  PROVE  StopTypeOK'
<1>1. frames[d] # <<>>
  BY DEF HandlerStep, InHandler
<1>2. Target(d) \in Procs \cup {NoProc}
  BY <1>1, TargetType
<1> QED  BY <1>1, <1>2, TopFrameType DEF HandlerStep

LEMMA GoneType ==
  ASSUME TypeOK, NEW d \in Daemons, Gone(d), UNCHANGED sent
  PROVE  TypeOK'
<1> USE DEF TypeOK
<1>1. HostTypeOK'
  BY DiesType DEF Gone, Procs
<1>2. FileTypeOK'
  BY KeepType DEF Gone
<1>3. AtTypeOK'
  BY DEF Gone, AtTypeOK, Off, Threads, MainLabels, MonitorLabels
<1>4. PeekTypeOK'
  BY DEF Gone, PeekTypeOK, NoPeek
<1>5. WorkTypeOK'
  BY DEF Gone, WorkTypeOK
<1>6. StopTypeOK'
  BY EmptySeq DEF Gone, StopTypeOK
<1> QED  BY <1>1, <1>2, <1>3, <1>4, <1>5, <1>6

LEMMA MainRaisesType ==
  ASSUME TypeOK, NEW d \in Daemons, MainRaises(d), UNCHANGED sent
  PROVE  TypeOK'
<1>1. CASE at[d]["main"] \in Leaving
  BY <1>1, GoneType DEF MainRaises
<1>2. CASE at[d]["main"] \notin Leaving
  <2> USE DEF TypeOK
  <2>1. HostTypeOK' /\ FileTypeOK' /\ WorkTypeOK'
    BY <1>2, KeepType DEF MainRaises
  <2>2. AtTypeOK'
    BY <1>2 DEF MainRaises, AtTypeOK, Threads, MainLabels
  <2>3. PeekTypeOK'
    <3>1. "main" \in Threads /\ peek' = [peek EXCEPT ![d]["main"] = FALSE]
      BY <1>2 DEF MainRaises, Threads
    <3> QED  BY <3>1 DEF PeekTypeOK
  <2>4. StopTypeOK'
    BY <1>2, EmptySeq DEF MainRaises, StopTypeOK
  <2> QED  BY <2>1, <2>2, <2>3, <2>4
<1> QED  BY <1>1, <1>2

LEMMA SigTermType ==
  ASSUME HostTypeOK, NEW p, SigTerm(p)
  PROVE  HostTypeOK'
BY DEF HostTypeOK, SigTerm, Lives

LEMMA HandlerType ==
  ASSUME TypeOK, NEW d \in Daemons, Handler(d)
  PROVE  TypeOK'
<1> USE KeepType, HandlerStepType DEF TypeOK, threadVars
<1>a. ASSUME HandlerRaises(d) PROVE TypeOK'
  BY <1>a, MainRaisesType DEF HandlerRaises
<1>c. \A l \in {"seeFile", "readPid", "terminate", "await", "kill", "rotate",
                "unlink", "move", "join"} : l \in HandlerLabels
  BY DEF HandlerLabels
<1>1. CASE SeePid(d)
  BY <1>1, <1>c DEF SeePid
<1>2. CASE ReadPid(d)
  <2>1. CASE InHandler(d, "readPid") /\ pidFile # NoPid /\ ~HandlerRaises(d)
    <3>1. ProcAt(pidFile) \in Procs \cup {NoProc}
      BY ProcAtType
    <3>2. StopTypeOK'
      BY <1>2, <1>c, <2>1, <3>1, TopFrameType DEF ReadPid, InHandler
    <3> QED  BY <1>2, <2>1, <3>2 DEF ReadPid
  <2> QED  BY <1>2, <1>a, <2>1 DEF ReadPid
<1>3. CASE Terminate(d)
  <2>1. CASE HandlerStep(d, "terminate", "await") /\ Live(Target(d))
             /\ SigTerm(Target(d)) /\ UNCHANGED <<fileVars, threadVars, workVars>>
    BY <1>c, <2>1, SigTermType
  <2> QED  BY <1>3, <1>a, <2>1 DEF Terminate
<1>4. CASE Await(d)
  BY <1>4, <1>c DEF Await
<1>5. CASE KillTarget(d)
  <2>1. CASE HandlerStep(d, "kill", "seeFile") /\ Live(Target(d))
             /\ proc' = [proc EXCEPT ![Target(d)] = "killed"]
             /\ UNCHANGED <<port, fileVars, threadVars, workVars>>
    <3>1. HostTypeOK'
      BY <2>1 DEF HostTypeOK, Lives
    <3> QED  BY <1>c, <2>1, <3>1
  <2> QED  BY <1>5, <1>a, <2>1 DEF KillTarget
<1>6. CASE SeeFile(d)
  BY <1>6, <1>c DEF SeeFile
<1>7. CASE UnlinkPidFile(d)
  <2>1. CASE HandlerStep(d, "unlink", "rotate") /\ pidFile' = NoPid
             /\ UNCHANGED <<hostVars, daemonPid, log, threadVars, workVars>>
    <3>1. FileTypeOK'
      BY <2>1 DEF FileTypeOK
    <3> QED  BY <1>c, <2>1, <3>1
  <2> QED  BY <1>7, <1>a, <2>1 DEF UnlinkPidFile
<1>8. CASE StopRotatesLog(d)
  BY <1>8, <1>c DEF StopRotatesLog
<1>9. CASE StopMovesLog(d)
  <2>1. CASE HandlerStep(d, "move", "join") /\ log' = FALSE
             /\ UNCHANGED <<hostVars, pidFile, daemonPid, threadVars, workVars>>
    <3>1. FileTypeOK'
      BY <2>1 DEF FileTypeOK
    <3> QED  BY <1>c, <2>1, <3>1
  <2> QED  BY <1>9, <1>a, <2>1 DEF StopMovesLog
<1>10. CASE Join(d)
  <2>1. frames[d] \in Seq(Frame) /\ frames[d] # <<>>
    BY <1>10 DEF Join, InHandler, StopTypeOK
  <2>2. Tail(frames[d]) \in Seq(Frame)
    BY <2>1, HeadTailProperties
  <2>3. StopTypeOK'
    BY <1>10, <2>2 DEF Join, StopTypeOK
  <2> QED  BY <1>10, <2>3 DEF Join
<1> QED  BY <1>1, <1>2, <1>3, <1>4, <1>5, <1>6, <1>7, <1>8, <1>9, <1>10 DEF Handler

LEMMA LifeType ==
  ASSUME TypeOK, NEW d \in Daemons, Deliver(d) \/ Begin(d) \/ Exit(d) \/ Kill(d)
  PROVE  TypeOK'
<1> USE KeepType DEF TypeOK, threadVars
<1>1. CASE Deliver(d)
  <2>1. <<[at |-> "seePid", target |-> NoProc]>> \in Seq(Frame)
    BY DEF Frame, HandlerLabels
  <2>2. <<[at |-> "seePid", target |-> NoProc]>> \o frames[d] \in Seq(Frame)
    BY <2>1, ConcatProperties DEF StopTypeOK
  <2>3. StopTypeOK'
    BY <1>1, <2>2 DEF Deliver, StopTypeOK
  <2> QED  BY <1>1, <2>3 DEF Deliver
<1>2. CASE Begin(d)
  <2>1. HostTypeOK'
    BY <1>2 DEF Begin, HostTypeOK, Lives
  <2>2. AtTypeOK'
    BY <1>2 DEF Begin, AtTypeOK, Threads, MainLabels
  <2> QED  BY <1>2, <2>1, <2>2 DEF Begin
<1>3. CASE Exit(d) \/ Kill(d)
  BY <1>3, GoneType DEF Exit, Kill
<1> QED  BY <1>1, <1>2, <1>3

LEMMA SendType ==
  ASSUME TypeOK, Send
  PROVE  TypeOK'
<1> USE DEF TypeOK
<1>1. sent' \in 0..MaxSignals
  BY MaxSignalsAssumption DEF Send, StopTypeOK
<1>2. ASSUME NEW d \in Daemons, SendTerm(d) \/ SendInt(d)
      PROVE  TypeOK'
  <2>1. CASE Flag(d)
    <3>1. AtTypeOK'
      BY <2>1 DEF Flag, AtTypeOK, Threads, MainLabels
    <3>2. StopTypeOK'
      BY <1>1, <2>1 DEF Flag, StopTypeOK
    <3> QED  BY <2>1, <3>1, <3>2, KeepType DEF Flag
  <2>2. ASSUME Gone(d) \/ MainRaises(d)
        PROVE  TypeOK'
    <3>1. StopTypeOK'
      BY <1>1, <2>2, EmptySeq DEF Gone, MainRaises, StopTypeOK
    <3>2. HostTypeOK'
      BY <2>2, KeepType, DiesType DEF Gone, MainRaises, Procs
    <3>3. FileTypeOK'
      BY <2>2, KeepType DEF Gone, MainRaises
    <3>4. AtTypeOK'
      BY <2>2 DEF Gone, MainRaises, AtTypeOK, Off, Threads, MainLabels, MonitorLabels
    <3>5. PeekTypeOK'
      <4>1. CASE Gone(d)
        BY <4>1 DEF Gone, PeekTypeOK, NoPeek
      <4>2. CASE peek' = [peek EXCEPT ![d]["main"] = FALSE]
        <5>1. "main" \in Threads
          BY DEF Threads
        <5> QED  BY <4>2, <5>1 DEF PeekTypeOK
      <4> QED  BY <2>2, <4>1, <4>2 DEF MainRaises
    <3>6. WorkTypeOK'
      BY <2>2 DEF Gone, MainRaises, WorkTypeOK, workVars
    <3> QED  BY <3>1, <3>2, <3>3, <3>4, <3>5, <3>6
  <2> QED  BY <1>2, <2>1, <2>2 DEF SendTerm, SendInt
<1>3. CASE CliStop
  <2>1. CASE \E p \in Daemons : SendTerm(p)
    BY <1>2, <2>1
  <2>2. CASE SigTerm(ProcAt(daemonPid))
             /\ UNCHANGED <<fileVars, threadVars, workVars, stopping, armed,
                            pending, frames>>
    <3>1. StopTypeOK'
      BY <1>1, <2>2 DEF StopTypeOK
    <3> QED  BY <2>2, <3>1, KeepType, SigTermType DEF threadVars
  <2> QED  BY <1>3, <2>1, <2>2 DEF CliStop
<1> QED  BY <1>2, <1>3 DEF Send

LEMMA HostStepType ==
  ASSUME TypeOK, HostStep
  PROVE  TypeOK'
<1> USE DEF TypeOK
<1>1. FileTypeOK' /\ AtTypeOK' /\ PeekTypeOK' /\ WorkTypeOK' /\ StopTypeOK'
  BY KeepType DEF HostStep, daemonVars, threadVars
<1>2. HostTypeOK'
  <2>1. ASSUME NEW s \in Servers, Bind(s) \/ BindFails(s) PROVE HostTypeOK'
    BY <2>1, DiesType DEF Bind, BindFails, HostTypeOK, Procs
  <2>2. ASSUME NEW p \in Servers \cup Strangers, Reaped(p) \/ ShutsDown(p) \/ Crash(p)
        PROVE  HostTypeOK'
    BY <2>2, DiesType DEF Reaped, ShutsDown, Crash, Procs
  <2>3. ASSUME NEW p \in Strangers, StrangerArrives(p) PROVE HostTypeOK'
    BY <2>3 DEF StrangerArrives, HostTypeOK, Lives
  <2>4. CASE PortFreed
    BY <2>4 DEF PortFreed, HostTypeOK
  <2> QED  BY <2>1, <2>2, <2>3, <2>4 DEF HostStep
<1> QED  BY <1>1, <1>2

LEMMA RebootType ==
  ASSUME TypeOK, Reboot
  PROVE  TypeOK'
<1> USE DEF TypeOK, Reboot
<1>1. HostTypeOK' /\ FileTypeOK'
  BY KeepType DEF HostTypeOK, Lives
<1>2. AtTypeOK'
  BY DEF AtTypeOK, Off, Threads, MainLabels, MonitorLabels
<1>3. PeekTypeOK' /\ WorkTypeOK'
  BY DEF PeekTypeOK, NoPeek, WorkTypeOK, ScriptStates
<1>4. StopTypeOK'
  BY EmptySeq DEF StopTypeOK
<1> QED  BY <1>1, <1>2, <1>3, <1>4

\* Every variable stays within its type, whatever the daemons, the signals and
\* the environment do.
THEOREM TypeCorrect == Spec => []TypeOK
<1>1. Init => TypeOK
  <2> SUFFICES ASSUME Init PROVE TypeOK
    OBVIOUS
  <2>1. HostTypeOK /\ FileTypeOK
    BY DEF Init, HostInit, HostTypeOK, Lives, FileTypeOK
  <2>2. AtTypeOK
    BY DEF Init, AtTypeOK, Off, Threads, MainLabels, MonitorLabels
  <2>3. PeekTypeOK /\ WorkTypeOK
    BY DEF Init, PeekTypeOK, NoPeek, WorkTypeOK, ScriptStates
  <2>4. StopTypeOK
    BY EmptySeq, MaxSignalsAssumption DEF Init, StopTypeOK
  <2> QED  BY <2>1, <2>2, <2>3, <2>4 DEF TypeOK
<1>2. TypeOK /\ [Next]_vars => TypeOK'
  <2> SUFFICES ASSUME TypeOK, [Next]_vars PROVE TypeOK'
    OBVIOUS
  <2>1. ASSUME NEW d \in Daemons, DaemonStep(d) PROVE TypeOK'
    BY <2>1, MainType, MonitorType, ScriptType, HandlerType, LifeType DEF DaemonStep
  <2>2. CASE UNCHANGED vars
    BY <2>2, KeepType DEF vars, threadVars, TypeOK
  <2> QED  BY <2>1, <2>2, SendType, HostStepType, RebootType DEF Next
<1> QED  BY <1>1, <1>2, PTL DEF Spec

=============================================================================
