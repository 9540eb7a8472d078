# A verification of the platform's own programs

The repository describes a data platform on Kubernetes: set-up notes, manifests, third-party Helm charts, and a
few programs.  Most of the program logic is **sparglim** (`05.2.spark-connect-server/sparglim`), about a thousand
lines of Python that run and supervise a Spark connect server and configure Spark sessions; the rest is the
**batch side**, Airflow DAGs that start Spark jobs and watch them.  That is what this directory specifies in TLA+,
model-checks with TLC and, for its safety properties, largely proves with TLAPS.  Paths below are relative to `src/`; `S/` stands for `src/05.2.spark-connect-server/sparglim/`.

## Inventory

| part | state it keeps | operations | what is hard | what makes it correct |
|---|---|---|---|---|
| **Daemon** `S/server/daemon.py`, `tailer.py`, `utils.port_is_used` | pid file, log, `daemon.pid`; per daemon: `is_stopping`, the tailer, the monitor thread and its process object | `start_and_daemon`, `_start`, `_launch_daemon`/`_daemon_and_tail`, the monitor loop, `_wait_exit`, `stop` as the handler of SIGINT and SIGTERM | two threads and a re-entrant signal handler share files without locks; servers die at any time; daemons are killed; pids are reused; the port stays in TIME_WAIT | never two servers; the pid file, the watched and the tailed process agree; a dead server is replaced; a stop ends, and leaves no server |
| **Command line** `S/server/cli.py` | none | `start`, `stop` (signals the pid in `daemon.pid`) | stale `daemon.pid`; options, variables and defaults with different precedences | `stop` reaches the daemon that runs; each option of a server has one source |
| **Configuration** `S/config/configer.py`, `k8s.py` | `_config`, its `master_configured` | `config`, `config_s3`, `config_kerberos`, `config_local`, `config_connect_client`, `config_k8s`, `config_connect_server`, `clear` | a refused master stops a merge half-way; precedence of environment, cluster and caller | one master at most; the flag is right; no GPU or CA keys without their companions |
| **Session builder** `S/config/builder.py` | the one `_spark` of a process | `get_or_create`, `set_runtime_conf`, `config`, `clear` | default master on demand, failing creation, sessions stopped behind its back, pyspark's own running session | the session runs on the configured master until `clear` |
| **Notebook extension** `S/sql/` | the loaded magic, the variable `spark` | `%load_ext`, `%unload_ext`, `%sql` | two ways to load, each can fail half-way; `%sql` outlives an unload | the notebook gets the builder's session, shown eagerly |
| Logging, version look-ups, exceptions | none | formatting, reading file names | nothing | (not modelled) |
| **Batch jobs** `06.airflow/dags`, `05.1.spark/src` | per run: task states, tries, the name in XCom; per application: its state, attempts; the tables | submit, watch, retry; read, replace | retries of tasks, of the application, of the API call meet what earlier ones left; runs overlap and share names | a green run's own job has replaced the table, with data no older than its trigger; every run ends |
| dbt project `06.airflow/dbt` | tables | five SQL models | the order of models and tests | (not modelled) |
| Kafka producer, Flink examples, Hive metastore start script, cluster set-up, Helm charts | external systems | straight-line clients, manifests | nothing this repository decides | (not modelled) |

**How they interact.**  The command line constructs a `Daemon`, which takes its Spark options from
`SparkEnvConfiger.config_connect_server` once, runs Spark's `start-connect-server.sh`, and from then on knows the
server only through the pid file the script writes.  Its main thread waits in `signal.pause()`; its monitor
thread polls the pid file and the process and calls the same `_start`.  Python runs `stop` on the main thread,
between any two instructions, also inside another `stop`.  `sparglim-server stop` is another process; it finds
the daemon through `daemon.pid`.  In a container `tini` forwards SIGTERM, and Kubernetes may SIGKILL.  In a
notebook, `ConfigBuilder` is a singleton: the extension, the cells and `%sql` all share its session.  On the batch
side the DAG's submit task creates a SparkApplication, whose name it hands to the sensor through XCom; the Spark
operator runs the driver and restarts it; the driver replaces an Iceberg table.  One DAG is a client of the connect
server and replaces its table from the task itself.

## Modules

| module | models |
|---|---|
| `Host` | external: process table, pids, signals' effect on processes, the port with TIME_WAIT; what psutil answers |
| `DaemonThreads` | the main thread and the monitor of `daemon.py`, one action per statement that reads or writes shared state; `_start` on either thread; the start script |
| `Daemon` | `stop` as a stack of handler calls, signals, the command line, crashes, kills, reboots; `Next`, fairness and the properties. Extends `DaemonThreads` |
| `ServerSlot` | abstract: a slot for one server, filled only when empty, by servers that never return |
| `DaemonInv` | the inductive invariants `SlotInv`, `FollowInv`, `StopInv`, `Settled`, `TakeoverInv` and `BootInv`; extends `Daemon` |
| `DaemonProofs`, `OneServerProofs`, `SlotProofs`, `FollowProofs` | theorems about a single `Daemon` (the first: about any) |
| `TakeoverProofs` | theorems about daemons that follow each other |
| `SparkConfig` | configuration, builder and notebook extension: one action per call |
| `SessionLifecycle` | abstract: a master is chosen once, a session opened on it, both until a clear |
| `ServerCommand` | from command line and environment to the configuration of the server: functions, not steps; extends `SparkConfig` |
| `SparkConfigProofs`, `SessionProofs` | theorems about `SparkConfig` and `ServerCommand` |
| `SparkJob` | the DAGs, the applications they create, the drivers and the tables |
| `TableJob` | abstract: a run replaces the table after its trigger with data no older than it, and succeeds only if it did |
| `SparkJobInv`, `SparkJobProofs` | the inductive invariants `JobInv` and `FaultsPay`; theorems about `SparkJob` |
| `MCDaemon`, `MCSparkConfig`, `MCSparkJob` | instances for TLC |

### Daemon: state and steps

A *label* in `at[d]["main"]` or `at[d]["monitor"]` is the statement that thread runs next; `frames[d]` is the
stack of running calls of `stop`, and while it is not empty the main thread does not move.  `proc` gives every
process incarnation one life; `PidOf` may give two incarnations the same pid.  `self.pid` is two reads in the
code (line 113 looks, line 115 reads), so it is two steps: `Peek`, and a step with the value; `ReadFails` is the
exception when the file vanished in between.  An exception ends the thread it happens in (`raised`); in the main
thread it ends every call of `stop` with it.  The process goes when the main thread has left and the monitor is
over, as the interpreter joins non-daemon threads.

What is abstracted, and why it is enough:

* Lines 158-164 are two steps (the two asserts); 172-216 one step (`Launch`), except for its read of the pid file:
  only the monitor shares that state, and it does not run yet.
* Two signals that arrive before the handler runs are one `pending`: the handler does not look at its arguments.
* The start script is external: it refuses if the recorded server runs, else it spawns one, which opens the log,
  and records the pid in a second step.  It outlives a killed daemon.  Its own log rotation is not modelled
  (the daemon sets `SPARK_LOG_MAX_FILES=1` and rotates before).
* A stranger with a recycled pid is never a Java process, so the script never takes it for a server; for psutil
  it is a process like any other.
* `NoSuchProcess` inside the outer `try` of line 222 is modelled where it is raised, `psutil.Process`;
  `terminate` and `kill` raise it out of `stop`.
* `Gone` clears the variables of a daemon that has exited, so that runs which differ only in a dead process
  coincide.

### SparkConfig: state and steps

A value of the configuration is its *origin* (an environment variable, a default, the caller, the cluster, `None`).
Of some seventy keys the model keeps `spark.master` and `spark.remote`, those whose presence the code tests
(GPU amount and vendor, CA file, eagerEval) and one of each remaining kind (an S3 key with two variables, a
memory with a default, the server's port).  A dict is the sequence of its items, because `Config.update` sets
them in order and stops at a refused one.  The environment is read at every call, so the variables that are set
are a parameter of each call.  One slot stands for the session opened last; `running` says whether it has been
stopped, `held` whether the builder still has it.  `getOrCreate` of pyspark is external: it returns a running
session if there is one, and may fail.  `set_runtime_conf` occurs as `SparkMagic` calls it.  A `%sql` cell asks for
the session with its first statement and may fail with any (`Sql`); what its statements do is Spark's.  `%unload_ext`
leaves the magic registered, so `loaded` remembers that it has been loaded once.  Calls do not overlap: a notebook
runs one cell at a time.

### ServerCommand

`start` of `cli.py` and `Daemon.__init__` compute the server's configuration from options and variables before
anything runs, so they are operators: `ServerConfig(b, c, e, cluster, env)` is what a command `c` in an environment
`e` makes of a new configuration `b`, through `WithServer` of `SparkConfig`.  Their property is an invariant over
all commands and environments, compared with a reference that names for each option the one place it comes from.

### SparkJob: state and steps

A task is its state and try number.  A try of *submit* is three steps (begin, `Create` at the API server, `Push` of the
answer to XCom), of *sensor* a begin and looks at the application, of the Python task connect, replace, return.  A
worker may die after each (`Lost`), and what it has done stays.  The name of an application is the DAG's prefix,
the second of the trigger and the try of submit (`main_iceberg.yaml:5`), so two runs of one second ask for the same
names; the role of the workers has `create` and `get` only (`06.airflow/README.md`), so an application is never
deleted and a second `Create` of its name is refused.  An application is submitted, its driver goes through session,
read, replace and count, and may fail between any two; `restartPolicy` restarts it `onFailureRetries` times.
Submission failures have a retry count of their own that is abstracted to one outcome.  `source` counts the versions of
the data under `DATA_PATH`; a table is the version it was made from, since a replacement is one commit of Iceberg.

External: the scheduler, the API server, the Spark operator, worker deaths.  The operators of the provider are modelled as
the DAGs use them: create and push; look until completed or failed.  A sensor's timeout of seven days is left out.
The tasks `start` and `end` of the connect example are empty operators that do nothing.

## Runs

| run | question | instance | result |
|---|---|---|---|
| `supervise` | safety of one daemon; which server survives a stop? | 1 daemon, 3 servers that crash, 2 signals of 3 kinds, a kill in the start | 874 000 states, holds |
| `stop` | does a stop end? | 1 daemon, 2 servers, 2 signals, TIME_WAIT, a recycled pid | 493 000 states, holds |
| `takeover` | does a later start recover? | 2 daemons in turn, 3 servers, crashes, kills at any step, reboots | 26 000 states, holds |
| `notebook` | safety of configuration, session and server options | 3 dicts, 2 variables | 9 000 states, holds |
| `batch` | safety of the jobs; do runs end? | 2 runs of any DAG, 1 second, 1 retry at each level, 2 versions, 1 fault | 211 000 states, holds |
| `retries` | do the levels of retries stay apart, and do waiting runs end? | 2 runs of any DAG, 1 active, 1 second, 1 retry at each level, 2 faults | 122 000 states, holds |
| `lost_signal`, `restart`, `orphan`, `unreachable`, `duplicate`, `half_configured` | what a comment or a message says | smallest instance | violated, see Findings |

Daemons and DAG runs are allowed to end, so their runs do not check deadlock; `notebook` does.

**Bounds.**  Three servers are a start and two restarts: the second restart meets everything the first left, and
further ones meet the same.  Two signals are a stop and one inside it or inside a later step; a third would only
deepen the stack of handlers.  Two daemons suffice for one that dies and its successor.  A server may crash, or
the machine reboot, only while an incarnation is left (`Spare`), since a model out of servers would report
a failed restart that no code caused; the start script refuses for the same reason.  `MaxSignals` bounds signals.
The properties of the `notebook` run are about chains of calls of any length: its state space is finite without a
bound.  Its three dicts are none, one whose last item is a master (what comes before is merged), and a remote (so
that a second master can meet a first); its variables make the two things the environment decides, GPU and S3 keys.
Two runs in one second are the smallest case in which names collide; one retry at each level lets each kind of
retry meet what the other left; the code's three only repeat that (the theorems hold for any number).  `MaxVersion` and
`MaxFaults` bound new data and faults.  With one fault no retry reaches its limit, so `retries` has two: a driver that
fails twice, or a task whose worker dies twice, gives up.  It has one active run per DAG, so that the other waits in
the queue, and no new data, which the limits do not depend on.  A name that is taken is a failed try of its own and
costs no fault.  `batch` has two active runs of one DAG: `"max_active_runs": 1` stands in the `default_args` of two DAGs
(`spark_main_iceberg.py:28`, `spark_pi.py:28`), which go to the tasks, so the DAGs themselves have Airflow's default.

**Fairness** (`FairSpec`).  Both threads, the handler, the script and the exit of the interpreter take their next
step if it stays possible: operating system and interpreter schedule them, and none of these steps waits for a
human.  The kernel reaps what SIGKILL hit and ends TIME_WAIT; a booting server binds its port or fails.  *Not*
fair: signals, crashes, kills, starts, and a server's obedience to SIGTERM, which line 234 exists for.  Weak
fairness is enough: a thread's step waits for nothing but the script's end and, at the join, the monitor's, and neither
is undone again.

The fairness of `SparkJob` is weak fairness of `Progress` as a whole: as long as Airflow, the operator or a driver has
something to do, some of it gets done.  That is less than fairness of each; it suffices because
every run has finitely much to do.  *Not* fair: triggers, new data, faults.

### What the passing runs show

* `NoDuplicateServer`, `ImplementsSlot`, `SlotInv`: one daemon never has two servers, at any interleaving of a
  restart, a stop, crashes and a kill; each server is spawned only when its predecessor is gone from the process table.
* `TakeoverInv`, `StopInv`, `BootInv`: inductive invariants of the proofs below, checked on these runs before they were
  proved.  On the `takeover` run `ImplementsSlot` says that two daemons in turn still fill one slot.
* `PidFileNamesWatched`, `WatchedIsTailed`: until a stop, pid file, process object and `tail` follow the same server.
* `OnlyARestartSurvivesStop`: if the monitor was not past its check of `is_stopping` when stop was called, no server runs
  once stop has returned.  So the one way for a server to outlive a stop is a monitor that was past that check already,
  on its way to a restart or in one (the `orphan` finding).  The run has two restarts, so it says this of stops before,
  between and after them, and of one stop inside another.
* `StopEnds`: once `pause()` has returned, the process ends, whatever the nested handlers and the monitor do.
* `StartSucceeds`, `StartSupervises`, `Recovers`: a start after a kill, also one that left the start script at work and
  the next start found it done, or after a reboot ends with a watched, live
  server, and crashed servers are replaced, as long as pids are not reused and a crash does not hit the short
  time between a restart and the monitor's look at the new process (the `crash` event hits watched servers only;
  the `restart` finding is what happens otherwise).
* `OneMaster`, `SessionMatchesConfig`, `ImplementsLifecycle`: failing calls included, there is one master, the
  flag is right, and the held session runs on it until a clear.
* `StartFollowsPrecedence`: for every command and environment a server either does not start, for one of the named
  reasons, or has its master, port and other options each from the place that comes first.  The property also says
  what is easily overlooked: the port's variable goes before a custom port, other variables after custom values,
  and without a mode the custom config of the command is dropped.
* `SensorWatchesOwn`, `GreenMeansDone`: a run is green only if an application it has created itself has completed
  and replaced the table with data read since the trigger, whatever refused names, dead workers, orphaned applications and
  restarted drivers came before.
* `WritesAreBounded`, `FaultsPay`: retries on three levels do not multiply.  An application replaces the table once per
  attempt at most, and all attempts of all applications of a run are one and one more per fault: a refused name, and a
  sensor that tries again, cost no further attempt.  `RunEnds`: they do not wait for each other either, also
  when a run waits for another one (`retries`).
* `ImplementsTableJob`: all of it, seen as one job that replaces a table; an application nobody watches any more may
  still replace it after the run has ended, as `TableJob` allows.
* `JobInv`: an inductive invariant of the proofs, checked before it was proved, as `FaultsPay` was.
* `ShownIsEager`, `SessionsAreClean`, `CaGoesWithMaster`: both ways of loading the extension leave an eager
  session; no session is opened with half a GPU or with `None`; a cluster's CA file goes with the cluster's URL.

Every property of a passing run has a mutant in `PROJECT.json`, a plausible slip in one definition (named in the
modules as a bug to catch) that makes TLC report it violated.

### Findings

1. `lost_signal`: handlers are installed (167-168) before `pause()` (169).  A signal in between is handled, the
   server is stopped, and the daemon then waits for a signal that has come already.
2. `restart`: the restarted server dies before `psutil.Process(self.pid)` (198); the exception ends the monitor.
3. `orphan`: the monitor is past its check of `is_stopping` (182) and before `is_running` (194) when `stop` terminates the
   live server (230).  The monitor takes that for a crash and restarts (197); the new server survives the daemon.
4. `unreachable`: a stale `daemon.pid` is read (126-130) and never replaced, so `stop` signals the wrong pid.
5. `duplicate`: two starts in one root_dir pass the checks of 124 and 139 together.  The window is open while the start
   script works (156), and therefore also to a start that follows on a kill while the script of the killed daemon goes on.
6. `half_configured`: a dict with a second master fails as "already configured" after setting the first.

## Proofs

| theorem | says | rests on |
|---|---|---|
| `DaemonProofs!TypeCorrect` | `Spec => []TypeOK`, any constants | one lemma per action |
| `OneServerProofs!OneServer` | with one daemon, `Spec => [](SlotInv /\ NoDuplicateServer)` | `SlotInv` is inductive, `TypeCorrect` |
| `SlotProofs!OneDaemonImplementsSlot` | with one daemon, `Spec => ImplementsSlot` | `SlotInv`; only the script starts servers |
| `FollowProofs!OneServerFollowed` | with one daemon, `Spec => [](PidFileNamesWatched /\ WatchedIsTailed)` | `FollowInv` is inductive on top of `SlotInv` |
| `SlotProofs!StopCondemns` | with one daemon, `Spec => []StopInv` | `StopInv` is inductive on top of `SlotInv` |
| `SlotProofs!StopLeavesOnlyARestart` | with one daemon, `Spec => OnlyARestartSurvivesStop` | `Settled` holds when a stop begins and is kept by every step, with `SlotInv`, `FollowInv`, `StopInv` |
| `TakeoverProofs!OneServerInTurn` | with any number of daemons, if `Unattended`: `Spec => [](TakeoverInv /\ NoDuplicateServer)` | `TakeoverInv` is inductive, `TypeCorrect` |
| `TakeoverProofs!DaemonsInTurnImplementSlot`, `DaemonsInTurnFollow` | if `Unattended`: `Spec => ImplementsSlot`, `Spec => [](PidFileNamesWatched /\ WatchedIsTailed)` | `TakeoverInv` |
| `TakeoverProofs!StartsSucceed` | if `Undisturbed`: `Spec => [](BootInv /\ StartSucceeds)` | `BootInv` is inductive on top of `TakeoverInv` |
| `SparkConfigProofs!ConfigTypeCorrect`, `AtMostOneMaster`, `SessionOnItsMaster` | `Spec => []TypeOK`, `[]OneMaster`, `[]SessionMatchesConfig` | `Inv` is inductive |
| `SparkConfigProofs!BuilderImplementsLifecycle` | `Spec => ImplementsLifecycle` | `Inv`, and `LifecycleStep` |
| `SessionProofs!NotebookIsEager` | `Spec => []ShownIsEager` | `Inv`, and `EagerInv` on top of it |
| `SessionProofs!CleanSessions`, `CaFileHasMaster` | if `OwnGpu`: `Spec => []SessionsAreClean`; if `OwnMaster`: `Spec => []CaGoesWithMaster` | `Inv`, and `WholeInv` on top of it |
| `SessionProofs!StartsFollowPrecedence` | if `OwnOptions`: `Spec => []StartFollowsPrecedence` | `OverValue` and `MergeValue`: what `{**a, **b}` and a merge do to a key |
| `SparkJobProofs!JobInvariant`, `JobTypeCorrect`, `GreenIsDone`, `SensorIsRight` | `Spec => []JobInv`, `[]TypeOK`, `[]GreenMeansDone`, `[]SensorWatchesOwn` | `JobInv` is inductive |
| `SparkJobProofs!FaultsPayAlways`, `RewritesAreBounded` | `Spec => []FaultsPay`, `[]WritesAreBounded` | `FaultsPay` is inductive on top of `JobInv` |
| `SparkJobProofs!MainIcebergImplementsTableJob` | `Spec => ImplementsTableJob` | `JobInv`, one lemma per step that shows in `TableJob` |

Assumptions: in `Host`, that the sets of processes are disjoint, that no process has the pid `NoPid` and that a
daemon and a server do not share a pid; `MaxSignals` is a number; in `SparkConfig`, that callers pass dicts of
known keys and origins (of any length, with any number of masters, `None` included); in `SparkJob`, that there is a
second, that the numbers of retries are numbers and that `NoRun` is no run.  The bounds need no assumption.
TLC evaluates them all.

Some theorems hold under a hypothesis of their own, stated in the theorem.  Each is met by the instance of the run
that checks the property, and TLC refutes the property without it:

* `Unattended`: daemons are killed at any step, their start script at work or not, and lose their machine, servers die
  at any time, the port lingers and pids are reused, but nobody stops a daemon, and a start overlaps neither with a live
  daemon nor with the script of a dead one.  Both are one guard of `Begin`, which the event `overlap` lifts.  Add
  `overlap`, `term`, `int` or `cli` to the events of `takeover`, and TLC finds two servers: these are the `duplicate` and
  `orphan` findings.
* `Undisturbed`: only watched servers crash, the port is freed with its owner, pids are not reused, and starts do not
  overlap, as above.  Each of the other events, and a recycled pid, make a start raise or decline: the end of a start that
  `StartSucceeds` excludes is then what the code does.  A crash or reboot happens only while an incarnation is left
  (`Spare`, see Bounds).
* `OwnGpu`, `OwnMaster`: callers may pass anything but `None` for the GPU amount (and not the mapper's own vendor);
  anything but a CA file, or `None` for the master.  `config_k8s` merges the caller's dict last, so a caller can take the
  companion of a key away; TLC finds each of these violated when such a dict is added.
* `OwnOptions`: the caller's dict has no key twice, as Python's have not, and no `None` (a `null` in the JSON) for master,
  port or eagerEval: `get_all` would drop it, and the server would start without.

**Why `SlotInv`.**  `NoDuplicateServer` is not inductive: that a thread at `popen` finds no live server is a fact
about the whole way there.  `SlotInv` says for each label what its thread knows of the live servers, from
`NoneLive` (between the check that found the server dead and the spawn) over `OnlyLive(watch)` (after the
comparison of pids) to `LiveIsRecorded` (once the script is done).  The handler may run between any two
statements and unlink the pid file; it never starts a server, and each of these facts survives an unlink because
it either does not mention the file or allows `NoPid`.  `Control` adds that the monitor runs only after the main
thread is past its own `_start`, so the threads of one daemon never start servers at once.  With two daemons the
invariant is false, and so is the property (`duplicate`).

**Why `TakeoverInv`.**  Once daemons follow each other, a thread's knowledge must survive the death of its daemon at any
statement.  What survives is in the files: `LiveIsNamed`, that the pid file names the live server whenever no script stands
between spawn and record, also when the script outlives its daemon.  The next daemon starts from there: if it finds the file and
the process it adopts the server, else no server is alive.  `Retired` says that a dead daemon has no thread left to act,
`OneDaemon` that of all daemons one at most is alive or has its script at work (`AtWork`), and `Works` is what
`SlotInv` says of each label and of the script, for the daemon at hand.

**Why `BootInv`.**  A start can fail at many statements, and each fails for something that happened before it: the
port lingers, the log it is about to move is gone, the pid file vanished between look and read, the recorded
server is dead by the time of the assert, `daemon.pid` names a daemon that runs.  `HostReady` and `DaemonPidIsOld` say what the
machine and the predecessors leave, `Finds` what the start has established at each statement.

**Why `StopInv`.**  The stop looks for its server through the pid file, so what matters is that as long as no
server has died the file leads to the one that is alive, and that any call of `stop` that finds the file
gone may conclude that another call has sent the server SIGKILL (or seen it out).  `FrameKnows` says so for each statement of
each call on the stack; the exceptions that unwind the whole stack are covered because `Condemned` is about the servers and
not about a call.  `SpawnedIsRecorded` needs no such condition: at any time, a live server is the one in the pid file, if
there is a pid file, but between spawn and record.

**Why `Settled`.**  After a first death `StopInv` says nothing of the calls of stop, and the question is about one call and one
server: what has become of the server since the call began?  Either the call on top of the stack is on its way to it and the
pid file still names it (`Hunted`), or it was killed or has died, or it never was started and will not be, since
the monitor looks at `is_stopping` before its next restart (`NeverStarted`), or the stop will not return, as the daemon is dead or
an exception has unwound its main thread.  Each step keeps this; a nested call puts another frame on the stack, which hunts the
same server.  It holds of every server when stop begins, unless the monitor is past its check.

**Why `Inv`.**  `SessionMatchesConfig` needs `running => held`: pyspark returns a running session whatever the new
configuration says, so a session the builder has forgotten must not run.  The rest of the argument is one lemma,
`MergeGood`: a merge, wherever it stops, keeps a master that was there and adds at most one where there was
none.  Its proof is that of two master items of one dict the later is refused, so at most one is among the items
set.  Every call is then one of six kinds of step (`CallKinds`), and invariance and refinement are
proved once per kind.

**Why `WholeInv`.**  `SessionsAreClean` and `CaGoesWithMaster` pair a key with a companion, and a refused master may end
a merge between the two.  The mappers put the amount right behind the vendor, and the CA file behind the master that
`config_k8s` gives it: a merge that stops has set the companion of all it has set (`MergeWhole`), and `{**a, **b}` keeps
the order (`OverPaired`).

**Why `FollowInv`.**  Between two looks of the monitor only a stop may touch the pid file.  `SlotInv` gives that no
start script runs then; `FollowInv` adds that a running `stop` has raised `is_stopping` before it unlinks anything,
and that a restart finds the file the script has written.

**Why `JobInv`.**  `GreenMeansDone` is about the end of a chain: the sensor succeeded, so the application of the name in
XCom completed, so its last attempt replaced the table, from what it read after it was created, which was after
the trigger.  `HandOver` ties XCom to the last try of submit, `Owner` says that a name belongs to the run that created it
(its second and try are that run's), `Life` follows an attempt through its steps and counts its writes, `TryInv` bounds
the tries.  Two runs of one second never share an application, since `Create` of a name that is taken fails.

**Why `FaultsPay`.**  How often a run's applications replace the table is bounded by how many attempts its drivers get, and
a count of past attempts is not inductive: between a failure and the restart the fault has happened and the attempt has not.  So
`Attempts` counts the attempts that are due as well.  A step that makes one due is a failure of the driver, which is
a fault, or a `Create`; `Free` is the one attempt a created application stands for, and a try of submit that loses it
(`Lost`) has had its fault.

Only model-checked: everything under fairness (`StopEnds`, `StartSupervises`, `Recovers`, `RunEnds`; TLAPS proves no
liveness).  Every other property of a passing run is also the statement of a theorem, for a single daemon, daemons in turn, or
all constants, under the hypotheses named above.  The theorems about several daemons are about
daemons in turn that nobody stops; a successor that is stopped is in no passing run.

## Not modelled

* The dbt project is the jaffle shop example, unchanged: five queries over seeds.  What is delicate about it is that
  cosmos renders each model's tests right after it, so that the relationships test of `schema.yml:46` may run before
  `customers` exists; but the order is computed by cosmos from dbt's manifest, neither of which is in the repository.
* The Hive metastore's start script is two commands of external programs.
* The Kafka producer, the Flink examples, set-up notes, manifests and charts hold no state and take no decisions.
* Version look-ups and package lists of `utils.py` and `daemon.py`, logging, and the effect of SQL statements.

## Plan

Done: all modules of the table above.  What could follow:

1. Daemons in turn that are also stopped, with the orphan of a stop as the one server that may remain.
2. The order of dbt models and tests, once the DAG cosmos renders is written down in the repository.
