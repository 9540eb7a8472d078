----------------------------- MODULE SparkJobInv -----------------------------
(***************************************************************************)
(* What keeps the properties of SparkJob true: the runs, the tries, what   *)
(* submit hands over to the sensor, and the life of an application.        *)
(***************************************************************************)
EXTENDS SparkJob

\* A run that has not been triggered has done nothing, a green one everything.
RunInv(r) ==
  /\ order[r].since <= source
  /\ run[r] = "none" =>
       order[r].since = 0 /\ \A k \in TaskIds : task[r][k].state = "none"
  /\ run[r] = "success" => \A k \in TasksOf(r) : task[r][k].state = "success"

\* A try t of task k: the last one is not followed by another.
Try(r, k, t) ==
  /\ IF t.state = "none" THEN t.try = 0 ELSE k \in TasksOf(r) /\ t.try >= 1
  /\ t.state = "retry" => t.try <= DagOf(r).retries
TryInv(r) == \A k \in TaskIds : Try(r, k, task[r][k])

\* The application submit has created is that of its last try, and the one the
\* sensor watches.
HandOver(r) ==
  LET submit == task[r]["submit"].state
      sensor == task[r]["sensor"].state
  IN  /\ submit \in {"created", "success"} => app[Name(r)].by = r
      /\ xcom[r] = IF submit = "success" THEN Name(r) ELSE NoName
      /\ sensor # "none" => submit = "success"
      /\ sensor = "success" => app[xcom[r]].state = "completed"
      /\ task[r]["python"].state \in {"written", "success"} => demo

\* An application is named after the run that has created it.
Owner(n) ==
  app[n].by # NoRun =>
    /\ run[app[n].by] # "none"
    /\ n[1] = DagOf(app[n].by) /\ n[2] = order[app[n].by].second
    /\ n[3] <= task[app[n].by]["submit"].try

\* An attempt writes once at most, and what it writes it has read since the trigger.
Done(n, a) == a.state = "completed" /\ n[1].table = "taxis"

Life(n, a) ==
  /\ a.by = NoRun => a = NoApp
  /\ a.step # "off" <=> a.state = "running"
  /\ a.step \in {"ready", "read", "replaced"} => n[1].table = "taxis"
  /\ (a.step \in {"read", "replaced"} \/ Done(n, a)) =>
       order[a.by].since <= a.seen /\ a.seen <= source
  /\ (a.step = "replaced" \/ Done(n, a)) => a.writes > 0
  /\ a.writes <= a.attempts /\ a.attempts <= FailureRetries + 1
  /\ (a.state = "running" /\ a.step # "replaced") => a.writes < a.attempts
  /\ a.state \in {"new", "pending"} => a.attempts <= FailureRetries

\* The attempts of a run's applications, those that are made and those that are due.  Each
\* but the first has a fault behind it: submit creates another application only when it
\* lost its worker, the operator starts a driver again only when it failed.
Due(a) == IF a.state \in {"new", "pending"} THEN a.attempts + 1 ELSE a.attempts
Attempts(r) ==
  {w \in Names \X (1..FailureRetries + 1) : app[w[1]].by = r /\ w[2] <= Due(app[w[1]])}

\* The first attempt of a run is paid for when submit has created its application.
Free(r) == IF task[r]["submit"].state \in {"created", "success"} THEN 1 ELSE 0

\* All three levels of retries together: submit tries again, the sensor looks again and the
\* operator starts a driver again, and never is there an attempt more than faults explain.
FaultsPay ==
  \A r \in Runs : IsFiniteSet(Attempts(r)) /\ Cardinality(Attempts(r)) <= faults + Free(r)

\* All of it.  The retries of the scheduler and of the operator meet here: what a
\* try leaves behind never passes for what another one has done.
JobInv ==
  /\ TypeOK
  /\ \A r \in Runs : RunInv(r) /\ TryInv(r) /\ HandOver(r)
  /\ \A n \in Names : Owner(n) /\ Life(n, app[n])

=============================================================================
