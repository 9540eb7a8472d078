------------------------------ MODULE SparkJob ------------------------------
(***************************************************************************)
(* The batch side of the platform: the Airflow DAGs of 06.airflow/dags,    *)
(* the Spark applications they create, and the tables their jobs           *)
(* (05.1.spark/src/etl/main_iceberg.py) replace.  A DAG that runs on the   *)
(* Spark operator has a task that creates the application and one that     *)
(* watches it; the third DAG runs its job in its only task, as a client of *)
(* the connect server.                                                     *)
(*                                                                         *)
(* External, modelled from how the DAGs use it: Airflow's scheduler, which *)
(* retries tasks; the API server, which refuses a second object of a name; *)
(* the Spark operator, which restarts drivers as the application's         *)
(* restartPolicy asks; a worker pod, a driver or the connect server dies   *)
(* at any time.                                                            *)
(***************************************************************************)
EXTENDS Naturals, FiniteSets

CONSTANTS
  Runs,            \* DAG runs
  Seconds,         \* times, as {{ ts_nodash }} shows them
  Retries,         \* "retries" of default_args
  FailureRetries,  \* onFailureRetries of the application
  ActiveRuns,      \* runs of a DAG that does not say how many may be active at once
  MaxVersion,      \* bound: versions of the source data
  MaxFaults,       \* bound: faults
  NoRun            \* not a run

\* Where the job runs, the retries of a task, and the table the job replaces.
MainIceberg == [on |-> "operator", retries |-> Retries, table |-> "taxis"]
Pi == [on |-> "operator", retries |-> Retries, table |-> "none"]
ConnectExample == [on |-> "connect", retries |-> 0, table |-> "demo"]
Dags == {MainIceberg, Pi, ConnectExample}

ASSUME ConstantsAssumption ==
  /\ NoRun \notin Runs /\ Seconds # {}
  /\ Retries \in Nat /\ FailureRetries \in Nat

\* The name of the application: the DAG's prefix, the second, the try of submit.
Names == {MainIceberg, Pi} \X Seconds \X (1..Retries + 1)
NoName == <<>>

VARIABLES
  run,     \* of each run: "none", "queued", "running", "success", "failed"
  order,   \* its DAG, the second it was triggered, the version of the source then
  task,    \* state and try number of its tasks
  xcom,    \* the name submit has pushed, NoName if none
  app,     \* the application of each name; by is NoRun while there is none
  source,  \* the version of the source data, DATA_PATH
  table,   \* the version raw.taxis_spark was made from, 0 while there is none
  demo,    \* raw.demo has been written
  faults   \* the number of faults so far

airflowVars == <<run, order, task, xcom>>
tableVars == <<table, demo>>
hostVars == <<source, faults>>
vars == <<airflowVars, app, tableVars, hostVars>>

TaskIds == {"submit", "sensor", "python"}
TaskStates == {"none", "running", "created", "connected", "written",
               "retry", "success", "failed"}
Apps == [by : Runs \cup {NoRun},
         state : {"none", "new", "running", "pending", "completed", "failed"},
         attempts : Nat, step : {"off", "up", "ready", "read", "replaced"},
         seen : Nat, writes : Nat]

TypeOK ==
  /\ run \in [Runs -> {"none", "queued", "running", "success", "failed"}]
  /\ order \in [Runs -> [dag : Dags, second : Seconds, since : Nat]]
  /\ task \in [Runs -> [TaskIds -> [state : TaskStates, try : 0..Retries + 1]]]
  /\ xcom \in [Runs -> Names \cup {NoName}]
  /\ app \in [Names -> Apps]
  /\ source \in Nat /\ table \in Nat /\ demo \in BOOLEAN /\ faults \in Nat

AppOf(r, state) == [by |-> r, state |-> state, attempts |-> 0, step |-> "off",
                    seen |-> 0, writes |-> 0]
NoApp == AppOf(NoRun, "none")

Init ==
  /\ run = [r \in Runs |-> "none"]
  /\ order = [r \in Runs |-> [dag |-> MainIceberg, since |-> 0,
                               second |-> CHOOSE s \in Seconds : TRUE]]
  /\ task = [r \in Runs |-> [k \in TaskIds |-> [state |-> "none", try |-> 0]]]
  /\ xcom = [r \in Runs |-> NoName] /\ app = [n \in Names |-> NoApp]
  /\ source = 1 /\ table = 0 /\ demo = FALSE /\ faults = 0

-----------------------------------------------------------------------------
(* The scheduler.                                                          *)

DagOf(r) == order[r].dag
TasksOf(r) == IF DagOf(r).on = "operator" THEN {"submit", "sensor"} ELSE {"python"}
In(r, k, s) == k \in TasksOf(r) /\ task[r][k].state = s
Moves(r, k, s) == task' = [task EXCEPT ![r][k].state = s]

\* schedule_interval is None: a run is triggered by hand, and two can be within
\* the same second.
Trigger(r) ==
  /\ run[r] = "none" /\ run' = [run EXCEPT ![r] = "queued"]
  /\ \E dag \in Dags, s \in Seconds :
       order' = [order EXCEPT ![r] = [dag |-> dag, second |-> s, since |-> source]]
  /\ UNCHANGED <<task, xcom, app, tableVars, hostVars>>

Active(dag) == {r \in Runs : DagOf(r) = dag /\ run[r] = "running"}

\* A "max_active_runs" in default_args goes to the tasks, not to the DAG.
Starts(r) ==
  /\ run[r] = "queued" /\ Cardinality(Active(DagOf(r))) < ActiveRuns
  /\ run' = [run EXCEPT ![r] = "running"]
  /\ UNCHANGED <<order, task, xcom, app, tableVars, hostVars>>

\* A try of a task begins; submit >> sensor.
Begin(r, k) ==
  /\ run[r] = "running" /\ k \in TasksOf(r) /\ task[r][k].state \in {"none", "retry"}
  /\ k = "sensor" => task[r]["submit"].state = "success"
  /\ task' = [task EXCEPT ![r][k] = [state |-> "running", try |-> @.try + 1]]
  /\ UNCHANGED <<run, order, xcom, app, tableVars, hostVars>>

\* A bug to catch: one try too many.
AfterFailureOnceMore(r, t) == IF t.try <= DagOf(r).retries + 1 THEN "retry" ELSE "failed"

AfterFailure(r, t) == IF t.try <= DagOf(r).retries THEN "retry" ELSE "failed"

TryFails(r, k) == Moves(r, k, AfterFailure(r, task[r][k]))

Working == {"running", "created", "connected", "written"}

\* What can go wrong at any time.
Fault == faults < MaxFaults /\ faults' = faults + 1

\* The worker pod of a try dies, wherever the try has got to.
Lost(r, k) ==
  /\ k \in TasksOf(r) /\ task[r][k].state \in Working
  /\ TryFails(r, k) /\ Fault
  /\ UNCHANGED <<run, order, xcom, app, tableVars, source>>

Ends(r) ==
  /\ run[r] = "running"
  /\ \/ /\ \A k \in TasksOf(r) : In(r, k, "success")
        /\ run' = [run EXCEPT ![r] = "success"]
     \/ /\ \E k \in TasksOf(r) : In(r, k, "failed")
        /\ run' = [run EXCEPT ![r] = "failed"]
  /\ UNCHANGED <<order, task, xcom, app, tableVars, hostVars>>

-----------------------------------------------------------------------------
(* submit and sensor: SparkKubernetesOperator and SparkKubernetesSensor.   *)

Name(r) == <<DagOf(r), order[r].second, task[r]["submit"].try>>

\* The API server refuses a name it has.  A bug to catch: the refusal is taken for
\* success.
CreateOrKeep(r) ==
  /\ In(r, "submit", "running") /\ Moves(r, "submit", "created")
  /\ app' = IF app[Name(r)].by # NoRun THEN app
            ELSE [app EXCEPT ![Name(r)] = AppOf(r, "new")]
  /\ UNCHANGED <<run, order, xcom, tableVars, hostVars>>

Create(r) ==
  /\ In(r, "submit", "running")
  /\ \/ /\ app[Name(r)].by = NoRun /\ Moves(r, "submit", "created")
        /\ app' = [app EXCEPT ![Name(r)] = AppOf(r, "new")]
     \/ app[Name(r)].by # NoRun /\ TryFails(r, "submit") /\ UNCHANGED app
  /\ UNCHANGED <<run, order, xcom, tableVars, hostVars>>

\* do_xcom_push: what the API server answered, which holds the name.
Push(r) ==
  /\ In(r, "submit", "created") /\ Moves(r, "submit", "success")
  /\ xcom' = [xcom EXCEPT ![r] = Name(r)]
  /\ UNCHANGED <<run, order, app, tableVars, hostVars>>

\* Two bugs to catch: all but a failed application is fine; a failure is not noticed.
PokeNotFailed(r) ==
  /\ In(r, "sensor", "running")
  /\ \/ app[xcom[r]].state # "failed" /\ Moves(r, "sensor", "success")
     \/ app[xcom[r]].state = "failed" /\ TryFails(r, "sensor")
  /\ UNCHANGED <<run, order, xcom, app, tableVars, hostVars>>
PokeCompleted(r) ==
  /\ In(r, "sensor", "running")
  /\ app[xcom[r]].state = "completed" /\ Moves(r, "sensor", "success")
  /\ UNCHANGED <<run, order, xcom, app, tableVars, hostVars>>

\* A look that finds neither is followed by another one.
Poke(r) ==
  /\ In(r, "sensor", "running")
  /\ \/ app[xcom[r]].state = "completed" /\ Moves(r, "sensor", "success")
     \/ app[xcom[r]].state = "failed" /\ TryFails(r, "sensor")
  /\ UNCHANGED <<run, order, xcom, app, tableVars, hostVars>>

-----------------------------------------------------------------------------
(* The task of the connect example: connect, createOrReplace, return.      *)

Connect(r) ==
  /\ In(r, "python", "running")
  /\ \/ Moves(r, "python", "connected") /\ UNCHANGED faults
     \/ TryFails(r, "python") /\ Fault
  /\ UNCHANGED <<run, order, xcom, app, tableVars, source>>

ReplaceDemo(r) ==
  /\ In(r, "python", "connected") /\ Moves(r, "python", "written") /\ demo' = TRUE
  /\ UNCHANGED <<run, order, xcom, app, table, hostVars>>

Returns(r) ==
  /\ In(r, "python", "written") /\ Moves(r, "python", "success")
  /\ UNCHANGED <<run, order, xcom, app, tableVars, hostVars>>

-----------------------------------------------------------------------------
(* The Spark operator and the driver of an application.                    *)

Changes(n, a) ==
  app' = [app EXCEPT ![n] = a] /\ UNCHANGED <<airflowVars, demo, source>>

\* The driver is submitted, in the end: submissions have retries of their own.
Submits(n) ==
  /\ app[n].state \in {"new", "pending"}
  /\ \/ /\ Changes(n, [app[n] EXCEPT !.state = "running", !.step = "up",
                                      !.attempts = @ + 1])
        /\ UNCHANGED faults
     \/ Changes(n, [app[n] EXCEPT !.state = "failed"]) /\ Fault
  /\ UNCHANGED table

\* get_spark: the session, on the catalog lakehouse, and the keys of the S3 store.
GetsSpark(n) ==
  /\ app[n].step = "up" /\ n[1].table = "taxis"
  /\ Changes(n, [app[n] EXCEPT !.step = "ready"])
  /\ UNCHANGED <<table, faults>>

\* spark.read: which files there are is looked up now.
Reads(n) ==
  /\ app[n].step = "ready"
  /\ Changes(n, [app[n] EXCEPT !.step = "read", !.seen = source])
  /\ UNCHANGED <<table, faults>>

\* pi.py replaces no table.
Computes(n) == app[n].step = "up" /\ n[1].table = "none"

\* A bug to catch: the table is replaced after the driver has said it is done.
CompletesEarly(n) ==
  /\ app[n].step = "read" \/ Computes(n)
  /\ Changes(n, [app[n] EXCEPT !.step = "off", !.state = "completed"])
  /\ UNCHANGED <<table, faults>>

\* CREATE DATABASE IF NOT EXISTS, createOrReplace: one commit.
Replaces(n) ==
  /\ app[n].step = "read" /\ table' = app[n].seen
  /\ Changes(n, [app[n] EXCEPT !.step = "replaced", !.writes = @ + 1])
  /\ UNCHANGED faults

\* A bug to catch: restartPolicy Always.
CompletesAgain(n) ==
  /\ app[n].step = "replaced" \/ Computes(n)
  /\ Changes(n, [app[n] EXCEPT !.step = "off", !.state = "pending"])
  /\ UNCHANGED <<table, faults>>

\* The count, and the exit of the driver.
Completes(n) ==
  /\ app[n].step = "replaced" \/ Computes(n)
  /\ Changes(n, [app[n] EXCEPT !.step = "off", !.state = "completed"])
  /\ UNCHANGED <<table, faults>>

\* A bug to catch: one attempt too many.
FailsOnceMore(n) ==
  /\ app[n].state = "running"
  /\ Changes(n, [app[n] EXCEPT !.step = "off",
       !.state = IF app[n].attempts <= FailureRetries + 1 THEN "pending" ELSE "failed"])
  /\ Fault /\ UNCHANGED table

\* The driver fails at any of its statements: restartPolicy OnFailure.
Fails(n) ==
  /\ app[n].state = "running"
  /\ Changes(n, [app[n] EXCEPT !.step = "off",
       !.state = IF app[n].attempts <= FailureRetries THEN "pending" ELSE "failed"])
  /\ Fault /\ UNCHANGED table

\* New files in DATA_PATH.
Arrive ==
  /\ source < MaxVersion /\ source' = source + 1
  /\ UNCHANGED <<airflowVars, app, tableVars, faults>>

-----------------------------------------------------------------------------

TaskStep(r) ==
  \/ \E k \in TasksOf(r) : Begin(r, k)
  \/ Create(r) \/ Push(r) \/ Poke(r) \/ Connect(r) \/ ReplaceDemo(r) \/ Returns(r)
RunStep(r) == Starts(r) \/ TaskStep(r) \/ Ends(r)
AppStep(n) == Submits(n) \/ GetsSpark(n) \/ Reads(n) \/ Replaces(n) \/ Completes(n)

Progress == (\E r \in Runs : RunStep(r)) \/ \E n \in Names : AppStep(n)

Next ==
  \/ Progress
  \/ \E r \in Runs : Trigger(r) \/ \E k \in TasksOf(r) : Lost(r, k)
  \/ \E n \in Names : Fails(n)
  \/ Arrive

Spec == Init /\ [][Next]_vars

\* As long as Airflow, the operator or a driver has something to do, something of
\* it gets done; nothing has to be triggered, to arrive or to fail.
FairSpec == Spec /\ WF_vars(Progress)

-----------------------------------------------------------------------------
(* Properties.                                                             *)

\* A green run did its job, once it was triggered: its own application completed,
\* and made the table from data no older than what was there at the trigger.
GreenMeansDone ==
  \A r \in Runs : run[r] = "success" =>
    IF DagOf(r).on = "connect" THEN demo
    ELSE LET a == app[xcom[r]]
         IN  /\ a.by = r /\ a.state = "completed"
             /\ DagOf(r).table = "taxis" => a.writes > 0 /\ a.seen >= order[r].since

\* The name submit hands the sensor is that of an application of this run, and of
\* the newest: two runs of one second, and tries that died after they had created
\* one, do not mislead it.
SensorWatchesOwn ==
  \A r \in Runs : xcom[r] # NoName =>
    /\ app[xcom[r]].by = r
    /\ \A n \in Names : app[n].by = r => n[3] <= xcom[r][3]

\* Retries on three levels (Airflow's of submit and of the sensor, the operator's of the
\* driver) never multiply the work: an application replaces the table as often as
\* onFailureRetries allows, and all applications of a run together no more often than once
\* and once more for each fault, so that a refused name or a retried sensor costs nothing.
Replacements(r) ==
  {w \in Names \X (1..FailureRetries + 1) : app[w[1]].by = r /\ w[2] <= app[w[1]].writes}

WritesAreBounded ==
  /\ \A n \in Names : app[n].writes <= FailureRetries + 1
  /\ \A r \in Runs : Cardinality(Replacements(r)) <= faults + 1

\* A run that was triggered ends, green or red.
RunEnds == \A r \in Runs : run[r] = "queued" ~> run[r] \in {"success", "failed"}

\* The runs of spark_main_iceberg implement TableJob.
OfJob(r) == DagOf(r) = MainIceberg
JobState(r) ==
  IF ~OfJob(r) THEN "none" ELSE IF run[r] \in {"queued", "running"} THEN "active" ELSE run[r]
Wrote(r) == OfJob(r) /\ \E n \in Names : app[n].by = r /\ app[n].writes > 0

Job == INSTANCE TableJob WITH
         state <- [r \in Runs |-> JobState(r)],
         since <- [r \in Runs |-> IF OfJob(r) THEN order[r].since ELSE 0],
         wrote <- [r \in Runs |-> Wrote(r)]
ImplementsTableJob == Job!Spec

=============================================================================
