--------------------------- MODULE SparkJobProofs ---------------------------
(***************************************************************************)
(* For any number of runs, of retries on each level and of faults: a green *)
(* run did its job, the sensor watches its run's application, each attempt *)
(* to replace the table but the first has a fault behind it, and the DAG   *)
(* implements TableJob.                                                    *)
(***************************************************************************)
EXTENDS SparkJobInv, FiniteSetTheorems, TLAPS

USE ConstantsAssumption

LEMMA DagFacts ==
  /\ MainIceberg # Pi /\ MainIceberg.table = "taxis" /\ Pi.table = "none"
  /\ \A d \in Dags : d.retries \in Nat /\ d.retries <= Retries
  /\ \A d \in Dags : d.on = "operator" <=> d \in {MainIceberg, Pi}
  /\ \A d \in Dags : d.on \in {"operator", "connect"}
BY DEF Dags, MainIceberg, Pi, ConnectExample

LEMMA NameFacts ==
  /\ NoName \notin Names
  /\ \A n \in Names : /\ n = <<n[1], n[2], n[3]>>
                      /\ n[1] \in {MainIceberg, Pi} /\ n[1] \in Dags
                      /\ n[3] \in 1..Retries + 1
                      /\ n[1].table = "taxis" => n[1] = MainIceberg
BY DagFacts DEF Names, NoName, Dags

LEMMA NameOf ==
  ASSUME TypeOK, NEW r \in Runs, TryInv(r), task[r]["submit"].state # "none"
  PROVE  Name(r) \in Names
<1>1. "submit" \in TaskIds
  BY DEF TaskIds
<1>2. "submit" \in TasksOf(r) /\ task[r]["submit"].try \in 1..Retries + 1
  BY <1>1 DEF TryInv, Try, TypeOK
<1>3. DagOf(r) \in {MainIceberg, Pi}
  BY <1>2, DagFacts DEF TasksOf, TypeOK, DagOf
<1> QED  BY <1>2, <1>3 DEF Name, Names, TypeOK

LEMMA InitInv == Init => JobInv
<1> SUFFICES ASSUME Init  PROVE JobInv
  OBVIOUS
<1>1. (CHOOSE s \in Seconds : TRUE) \in Seconds
  OBVIOUS
<1>2. NoApp \in Apps
  BY DEF NoApp, AppOf, Apps
<1>3. TypeOK
  <2>1. order \in [Runs -> [dag : Dags, second : Seconds, since : Nat]]
    <3>1. MainIceberg \in Dags
      BY DEF Dags
    <3> QED  BY <1>1, <3>1 DEF Init
  <2>2. task \in [Runs -> [TaskIds -> [state : TaskStates, try : 0..Retries + 1]]]
    BY DEF Init, TaskStates
  <2> QED  BY <1>2, <2>1, <2>2 DEF Init, TypeOK
<1>4. \A r \in Runs : RunInv(r) /\ TryInv(r) /\ HandOver(r)
  BY DEF Init, RunInv, TryInv, Try, HandOver, TaskIds
<1>5. \A n \in Names : Owner(n) /\ Life(n, app[n])
  <2>1. \A n \in Names : app[n] = NoApp
    BY DEF Init
  <2>2. \A n : Life(n, NoApp)
    BY DEF Life, Done, NoApp, AppOf
  <2> QED  BY <2>1, <2>2 DEF Owner, NoApp, AppOf
<1> QED  BY <1>3, <1>4, <1>5 DEF JobInv

-----------------------------------------------------------------------------
(* A step of an application, and a step of a task.                         *)

\* What happens to application n concerns nobody else, as long as it keeps its
\* owner and does not leave "completed".
LEMMA AppChanges ==
  ASSUME JobInv, NEW n \in Names, NEW a \in Apps, Changes(n, a),
         a.by = app[n].by, app[n].state # "completed", Life(n, a),
         table' \in Nat, faults' \in Nat
  PROVE  JobInv'
<1>1. /\ app' = [app EXCEPT ![n] = a]
      /\ UNCHANGED <<run, order, task, xcom, demo, source>>
  BY DEF Changes, airflowVars
<1>2. TypeOK'
  BY <1>1 DEF JobInv, TypeOK
<1>3. \A m \in Names : app'[m].by = app[m].by /\
                       (app[m].state = "completed" => app'[m] = app[m])
  BY <1>1 DEF JobInv, TypeOK
<1>4. ASSUME NEW r \in Runs  PROVE RunInv(r)' /\ TryInv(r)' /\ HandOver(r)'
  <2>1. RunInv(r)' /\ TryInv(r)'
    BY <1>1 DEF JobInv, RunInv, TryInv, Try, TasksOf, DagOf
  <2>2. task[r]["submit"].state # "none" => Name(r) \in Names
    BY NameOf DEF JobInv
  <2>3. HandOver(r)'
    BY <1>1, <1>3, <2>2 DEF JobInv, HandOver, Name, DagOf
  <2> QED  BY <2>1, <2>3
<1>5. ASSUME NEW m \in Names  PROVE Owner(m)' /\ Life(m, app[m])'
  <2>1. Owner(m)'
    BY <1>1, <1>3 DEF JobInv, Owner, DagOf
  <2>2. app'[m] = IF m = n THEN a ELSE app[m]
    BY <1>1 DEF JobInv, TypeOK
  <2>3. Life(m, app'[m])
    BY <2>2 DEF JobInv
  <2>4. Life(m, app[m])'
    BY <1>1, <2>3 DEF Life, Done
  <2> QED  BY <2>1, <2>4
<1> QED  BY <1>2, <1>4, <1>5 DEF JobInv

\* Task k of run r goes on to t, and tells no lie about the others.
LEMMA TaskMoves ==
  ASSUME JobInv, NEW r \in Runs, NEW k \in TasksOf(r),
         NEW t \in [state : TaskStates, try : 0..Retries + 1],
         task' = [task EXCEPT ![r][k] = t],
         UNCHANGED <<run, order, xcom, app, source, table>>,
         demo' \in BOOLEAN, demo => demo', faults' \in Nat,
         run[r] # "none", task[r][k].state # "success", Try(r, k, t),
         k = "submit" => t.try >= task[r][k].try /\ t.state \notin {"created", "success"},
         k = "sensor" => task[r]["submit"].state = "success"
                         /\ (t.state = "success" => app[xcom[r]].state = "completed"),
         k = "python" => (t.state \in {"written", "success"} => demo')
  PROVE  JobInv'
<1>1. k \in TaskIds /\ TasksOf(r) \subseteq TaskIds
  BY DEF TasksOf, TaskIds
<1>2. \A q \in Runs, j \in TaskIds :
        task'[q][j] = IF q = r /\ j = k THEN t ELSE task[q][j]
  BY <1>1 DEF JobInv, TypeOK
<1>3. TypeOK'
  BY <1>1 DEF JobInv, TypeOK
<1>4. ASSUME NEW q \in Runs  PROVE RunInv(q)' /\ TryInv(q)' /\ HandOver(q)'
  <2>0. RunInv(q) /\ TryInv(q) /\ HandOver(q) /\ TasksOf(q) \subseteq TaskIds
    BY DEF JobInv, TasksOf, TaskIds
  <2>1. RunInv(q)'
    BY <1>1, <1>2, <2>0 DEF RunInv, TasksOf, DagOf
  <2>2. TryInv(q)'
    BY <1>2, <2>0 DEF TryInv, Try, TasksOf, DagOf
  <2>3. HandOver(q)'
    BY <1>1, <1>2, <2>0 DEF HandOver, Name, DagOf, TaskIds
  <2> QED  BY <2>1, <2>2, <2>3
<1>5. ASSUME NEW n \in Names  PROVE Owner(n)' /\ Life(n, app[n])'
  <2>1. /\ Owner(n) /\ Life(n, app[n]) /\ app[n].by \in Runs \cup {NoRun}
        /\ \A q \in Runs : task[q]["submit"].try \in Nat /\ task'[q]["submit"].try \in Nat
    BY <1>3 DEF JobInv, TypeOK, Apps, TaskIds
  <2>2. \A q \in Runs : task[q]["submit"].try <= task'[q]["submit"].try
    BY <1>2, <2>1 DEF TaskIds
  <2>3. Owner(n)'
    BY <2>1, <2>2, NameFacts DEF Owner, DagOf
  <2>4. Life(n, app[n])'
    BY <2>1 DEF Life, Done
  <2> QED  BY <2>3, <2>4
<1> QED  BY <1>3, <1>4, <1>5 DEF JobInv

LEMMA Moved ==
  ASSUME TypeOK, NEW r \in Runs, NEW k \in TasksOf(r), NEW s, Moves(r, k, s)
  PROVE  /\ task[r][k] \in [state : TaskStates, try : 0..Retries + 1]
         /\ task' = [task EXCEPT ![r][k] = [state |-> s, try |-> task[r][k].try]]
<1>1. k \in TaskIds
  BY DEF TasksOf, TaskIds
<1>2. task \in [Runs -> [TaskIds -> [state : TaskStates, try : 0..Retries + 1]]]
  BY DEF TypeOK
<1>3. task[r][k] \in [state : TaskStates, try : 0..Retries + 1]
  BY <1>1, <1>2
<1>4. [task[r][k] EXCEPT !.state = s] = [state |-> s, try |-> task[r][k].try]
  BY <1>3
<1>5. task' = [task EXCEPT ![r] = [task[r] EXCEPT ![k] = [task[r][k] EXCEPT !.state = s]]]
  BY <1>1, <1>2 DEF Moves
<1> QED  BY <1>3, <1>4, <1>5

\* A try in progress goes on to s.
LEMMA TryMoves ==
  ASSUME JobInv, NEW r \in Runs, NEW k \in TasksOf(r), task[r][k].state \in Working,
         NEW s \in TaskStates \ {"none"}, Moves(r, k, s),
         s = "retry" => task[r][k].try <= DagOf(r).retries,
         UNCHANGED <<run, order, xcom, app, source, table>>,
         demo' \in BOOLEAN, demo => demo', faults' \in Nat,
         k = "submit" => s \notin {"created", "success"},
         k = "sensor" => (s = "success" => app[xcom[r]].state = "completed"),
         k = "python" => (s \in {"written", "success"} => demo')
  PROVE  JobInv'
<1> DEFINE t == [state |-> s, try |-> task[r][k].try]
<1>1. k \in TaskIds /\ TypeOK
  BY DEF JobInv, TasksOf, TaskIds
<1>2. /\ task[r][k] \in [state : TaskStates, try : 0..Retries + 1]
      /\ task' = [task EXCEPT ![r][k] = t]
  BY <1>1, Moved
<1>3. Try(r, k, task[r][k]) /\ RunInv(r) /\ HandOver(r)
  BY <1>1 DEF JobInv, TryInv
<1>4. run[r] # "none" /\ (k = "sensor" => task[r]["submit"].state = "success")
  BY <1>1, <1>3 DEF RunInv, HandOver, Working
<1>5. Try(r, k, t) /\ t \in [state : TaskStates, try : 0..Retries + 1] /\ t.state = s
  BY <1>2, <1>3 DEF Try, TaskStates, Working
<1>6. task[r][k].state # "success" /\ t.try >= task[r][k].try
  BY <1>2 DEF Working
<1> HIDE DEF t
<1> QED  BY <1>2, <1>4, <1>5, <1>6, TaskMoves

\* A failed try is followed by another one, or by none.
LEMMA TryFailsMoves ==
  ASSUME JobInv, NEW r \in Runs, NEW k \in TasksOf(r), task[r][k].state \in Working,
         TryFails(r, k), UNCHANGED <<run, order, xcom, app, tableVars, source>>,
         faults' \in Nat
  PROVE  JobInv'
<1> DEFINE s == AfterFailure(r, task[r][k])
<1>1. /\ s \in TaskStates \ {"none"} /\ s \in {"retry", "failed"} /\ Moves(r, k, s)
      /\ s = "retry" => task[r][k].try <= DagOf(r).retries
  BY DEF TryFails, AfterFailure, TaskStates
<1>2. UNCHANGED table /\ demo' = demo /\ demo \in BOOLEAN
  BY DEF tableVars, JobInv, TypeOK
<1> HIDE DEF s
<1> QED  BY <1>1, <1>2, TryMoves

-----------------------------------------------------------------------------
(* The invariant is inductive.                                             *)

LEMMA StepInv == JobInv /\ [Next]_vars => JobInv'
<1> SUFFICES ASSUME JobInv, [Next]_vars  PROVE JobInv'
  OBVIOUS
<1>a. TypeOK /\ faults \in Nat /\ demo \in BOOLEAN /\ table \in Nat
  BY DEF JobInv, TypeOK
<1>b. \A r \in Runs : TasksOf(r) \subseteq TaskIds
  BY DEF TasksOf, TaskIds
<1>1. CASE UNCHANGED vars
  BY <1>1 DEF vars, airflowVars, tableVars, hostVars, JobInv, TypeOK, RunInv, TryInv, Try,
     HandOver, Owner, Life, Done, TasksOf, DagOf, Name
<1>2. ASSUME NEW r \in Runs, Trigger(r)  PROVE JobInv'
  <2>1. /\ run[r] = "none" /\ run' = [run EXCEPT ![r] = "queued"]
        /\ UNCHANGED <<task, xcom, app, source, table, demo, faults>>
    BY <1>2 DEF Trigger, tableVars, hostVars
  <2>2. PICK dag \in Dags, s \in Seconds :
          order' = [order EXCEPT ![r] = [dag |-> dag, second |-> s, since |-> source]]
    BY <1>2 DEF Trigger
  <2>3. TypeOK'
    BY <1>a, <2>1, <2>2 DEF TypeOK
  <2>4. \A q \in Runs : q # r => order'[q] = order[q] /\ run'[q] = run[q]
    BY <1>a, <2>1, <2>2 DEF TypeOK
  <2>5. order'[r].since = source /\ run'[r] = "queued" /\ source \in Nat
    BY <1>a, <2>1, <2>2 DEF TypeOK
  <2>6. ASSUME NEW q \in Runs  PROVE RunInv(q)' /\ TryInv(q)' /\ HandOver(q)'
    <3>1. RunInv(q) /\ TryInv(q) /\ HandOver(q)
      BY DEF JobInv
    <3>2. CASE q # r
      BY <2>1, <2>4, <3>1, <3>2 DEF RunInv, TryInv, Try, HandOver, TasksOf, DagOf, Name
    <3>3. CASE q = r
      <4>1. \A k \in TaskIds : task[r][k].state = "none"
        BY <2>1, <3>1, <3>3 DEF RunInv
      <4>2. RunInv(r)' /\ TryInv(r)'
        BY <2>1, <2>5, <3>1, <3>3, <4>1 DEF RunInv, TryInv, Try
      <4>3. HandOver(r)'
        BY <2>1, <3>1, <3>3, <4>1 DEF HandOver, TaskIds
      <4> QED  BY <3>3, <4>2, <4>3
    <3> QED  BY <3>2, <3>3
  <2>7. ASSUME NEW n \in Names  PROVE Owner(n)' /\ Life(n, app[n])'
    <3>1. Owner(n) /\ Life(n, app[n]) /\ app[n].by \in Runs \cup {NoRun} /\ app[n].by # r
      BY <1>a, <2>1 DEF JobInv, TypeOK, Apps, Owner
    <3>2. Owner(n)'
      BY <2>1, <2>4, <3>1 DEF Owner, DagOf
    <3>3. CASE app[n].by = NoRun
      <4>1. app'[n] = NoApp
        BY <2>1, <3>1, <3>3 DEF Life
      <4> QED  BY <3>2, <4>1 DEF Life, Done, NoApp, AppOf
    <3>4. CASE app[n].by # NoRun
      <4>1. app'[n] = app[n] /\ order'[app[n].by] = order[app[n].by] /\ source' = source
        BY <2>1, <2>4, <3>1, <3>4
      <4> QED  BY <3>1, <3>2, <4>1 DEF Life, Done
    <3> QED  BY <3>2, <3>3, <3>4
  <2> QED  BY <2>3, <2>6, <2>7 DEF JobInv
<1>3. ASSUME NEW r \in Runs, Starts(r)  PROVE JobInv'
  <2>1. /\ run' \in [Runs -> {"none", "queued", "running", "success", "failed"}]
        /\ \A q \in Runs : q # r => run'[q] = run[q]
        /\ run[r] # "none" /\ run'[r] # "none"
        /\ UNCHANGED <<order, task, xcom, app, source, table, demo, faults>>
    BY <1>a, <1>3 DEF Starts, TypeOK, tableVars, hostVars
  <2>2. run'[r] = "success" => \A k \in TasksOf(r) : task[r][k].state = "success"
    BY <1>a, <1>3 DEF Starts, In, TypeOK
  <2>3. TypeOK'
    BY <1>a, <2>1 DEF TypeOK
  <2>4. \A q \in Runs : RunInv(q)' /\ TryInv(q)' /\ HandOver(q)'
    BY <2>1, <2>2 DEF JobInv, RunInv, TryInv, Try, HandOver, TasksOf, DagOf, Name
  <2>5. ASSUME NEW n \in Names  PROVE Owner(n)' /\ Life(n, app[n])'
    BY <1>a, <2>1 DEF JobInv, TypeOK, Apps, Owner, Life, Done, DagOf
  <2> QED  BY <2>3, <2>4, <2>5 DEF JobInv
<1>4. ASSUME NEW r \in Runs, NEW k \in TasksOf(r), Begin(r, k)  PROVE JobInv'
  <2> DEFINE t == [state |-> "running", try |-> task[r][k].try + 1]
  <2>1. /\ k \in TaskIds /\ task[r][k] \in [state : TaskStates, try : 0..Retries + 1]
        /\ task \in [Runs -> [TaskIds -> [state : TaskStates, try : 0..Retries + 1]]]
    BY <1>a, <1>b DEF TypeOK
  <2>2. task' = [task EXCEPT ![r][k] = t]
    BY <1>4, <2>1 DEF Begin
  <2>3. Try(r, k, task[r][k]) /\ DagOf(r).retries <= Retries /\ DagOf(r).retries \in Nat
    BY <1>a, <2>1, DagFacts DEF JobInv, TryInv, DagOf, TypeOK
  <2>4. Try(r, k, t) /\ t \in [state : TaskStates, try : 0..Retries + 1]
        /\ t.state = "running" /\ t.try >= task[r][k].try /\ task[r][k].state # "success"
    BY <1>4, <2>1, <2>3 DEF Try, Begin, TaskStates
  <2>5. run[r] # "none" /\ (k = "sensor" => task[r]["submit"].state = "success")
    BY <1>4 DEF Begin
  <2>6. UNCHANGED <<run, order, xcom, app, source, table, demo, faults>>
    BY <1>4 DEF Begin, tableVars, hostVars
  <2> HIDE DEF t
  <2> QED  BY <1>a, <2>2, <2>4, <2>5, <2>6, TaskMoves
<1>5. ASSUME NEW r \in Runs, NEW k \in TasksOf(r), Lost(r, k)  PROVE JobInv'
  BY <1>a, <1>5, TryFailsMoves DEF Lost, Fault
<1>6. ASSUME NEW r \in Runs, Ends(r)  PROVE JobInv'
  <2>1. /\ run' \in [Runs -> {"none", "queued", "running", "success", "failed"}]
        /\ \A q \in Runs : q # r => run'[q] = run[q]
        /\ run[r] # "none" /\ run'[r] # "none"
        /\ UNCHANGED <<order, task, xcom, app, source, table, demo, faults>>
    BY <1>a, <1>6 DEF Ends, TypeOK, tableVars, hostVars
  <2>2. run'[r] = "success" => \A k \in TasksOf(r) : task[r][k].state = "success"
    BY <1>a, <1>6 DEF Ends, In, TypeOK
  <2>3. TypeOK'
    BY <1>a, <2>1 DEF TypeOK
  <2>4. \A q \in Runs : RunInv(q)' /\ TryInv(q)' /\ HandOver(q)'
    BY <2>1, <2>2 DEF JobInv, RunInv, TryInv, Try, HandOver, TasksOf, DagOf, Name
  <2>5. ASSUME NEW n \in Names  PROVE Owner(n)' /\ Life(n, app[n])'
    BY <1>a, <2>1 DEF JobInv, TypeOK, Apps, Owner, Life, Done, DagOf
  <2> QED  BY <2>3, <2>4, <2>5 DEF JobInv
<1>7. ASSUME NEW r \in Runs, Create(r)  PROVE JobInv'
  <2>1. /\ "submit" \in TasksOf(r) /\ task[r]["submit"].state = "running"
        /\ UNCHANGED <<run, order, xcom, source, table, demo, faults>>
    BY <1>7 DEF Create, In, tableVars, hostVars
  <2>2. CASE app[Name(r)].by # NoRun /\ TryFails(r, "submit") /\ UNCHANGED app
    BY <1>a, <2>1, <2>2, TryFailsMoves DEF Working, tableVars
  <2>3. CASE /\ app[Name(r)].by = NoRun /\ Moves(r, "submit", "created")
             /\ app' = [app EXCEPT ![Name(r)] = AppOf(r, "new")]
    <3> DEFINE a == AppOf(r, "new")
               t == [state |-> "created", try |-> task[r]["submit"].try]
    <3>1. a \in Apps /\ a.by = r /\ a.state = "new" /\ Life(Name(r), a)
      <4>1. a = [by |-> r, state |-> "new", attempts |-> 0, step |-> "off",
                 seen |-> 0, writes |-> 0]
        BY DEF AppOf
      <4> HIDE DEF a
      <4>2. a \in Apps /\ a.by = r /\ a.state = "new"
        BY <4>1 DEF Apps
      <4>3. Life(Name(r), a)
        BY <4>1 DEF Life, Done
      <4> QED  BY <4>2, <4>3
    <3>2. /\ task[r]["submit"] \in [state : TaskStates, try : 0..Retries + 1]
          /\ task' = [task EXCEPT ![r]["submit"] = t]
      BY <1>a, <2>1, <2>3, Moved
    <3>3. Try(r, "submit", task[r]["submit"]) /\ RunInv(r) /\ HandOver(r)
      BY <1>b, <2>1 DEF JobInv, TryInv
    <3>4. Name(r) \in Names
      BY <1>a, <2>1, NameOf DEF JobInv
    <3>5. /\ Try(r, "submit", t) /\ t \in [state : TaskStates, try : 0..Retries + 1]
          /\ t.state = "created" /\ t.try = task[r]["submit"].try /\ run[r] # "none"
          /\ t.try \in Nat
      BY <1>b, <2>1, <3>2, <3>3 DEF Try, TaskStates, RunInv
    <3>6. \A n \in Names : app'[n] = IF n = Name(r) THEN a ELSE app[n]
      BY <1>a, <2>3, <3>4 DEF TypeOK
    <3>7. \A q \in Runs, k \in TaskIds :
            task'[q][k] = IF q = r /\ k = "submit" THEN t ELSE task[q][k]
      BY <1>a, <1>b, <2>1, <3>2 DEF TypeOK
    <3> HIDE DEF a, t
    <3>8. TypeOK'
      <4>1. app' \in [Names -> Apps]
        BY <1>a, <2>3, <3>1 DEF TypeOK, a
      <4>2. task' \in [Runs -> [TaskIds -> [state : TaskStates, try : 0..Retries + 1]]]
        BY <1>a, <1>b, <2>1, <3>2, <3>5 DEF TypeOK
      <4> QED  BY <1>a, <2>1, <4>1, <4>2 DEF TypeOK
    <3>9. ASSUME NEW q \in Runs  PROVE RunInv(q)' /\ TryInv(q)' /\ HandOver(q)'
      <4>1. RunInv(q) /\ TryInv(q) /\ HandOver(q) /\ TasksOf(q) \subseteq TaskIds
        BY <1>b DEF JobInv
      <4>2. RunInv(q)'
        BY <1>b, <2>1, <3>5, <3>7, <4>1 DEF RunInv, TasksOf, DagOf
      <4>3. TryInv(q)'
        BY <2>1, <3>5, <3>7, <4>1 DEF TryInv, Try, TasksOf, DagOf
      <4>4. Name(q)' = Name(q)
        BY <2>1, <3>5, <3>7 DEF Name, DagOf, TaskIds
      <4>5. HandOver(q)'
        <5>1. CASE q = r
          BY <2>1, <3>1, <3>4, <3>5, <3>6, <3>7, <4>1, <4>4, <5>1 DEF HandOver, TaskIds
        <5>2. CASE q # r
          <6>1. task[q]["submit"].state # "none" => Name(q) \in Names
            BY <1>a, <4>1, NameOf
          <6>2. Name(q) \in Names /\ app[Name(q)].by = q => app'[Name(q)] = app[Name(q)]
            BY <2>3, <3>6
          <6> QED  BY <2>1, <3>7, <4>1, <4>4, <5>2, <6>1, <6>2 DEF HandOver, TaskIds
        <5> QED  BY <5>1, <5>2
      <4> QED  BY <4>2, <4>3, <4>5
    <3>10. ASSUME NEW n \in Names  PROVE Owner(n)' /\ Life(n, app[n])'
      <4>1. Owner(n) /\ Life(n, app[n]) /\ app[n].by \in Runs \cup {NoRun}
        BY <1>a DEF JobInv, TypeOK, Apps
      <4>2. \A q \in Runs : task'[q]["submit"].try = task[q]["submit"].try
        BY <3>5, <3>7 DEF TaskIds
      <4>3. Owner(n)'
        <5>1. CASE n = Name(r)
          BY <2>1, <3>1, <3>5, <3>6, <4>2, <5>1, NameFacts DEF Owner, Name, DagOf
        <5>2. CASE n # Name(r)
          BY <2>1, <3>6, <4>1, <4>2, <5>2 DEF Owner, DagOf
        <5> QED  BY <5>1, <5>2
      <4>4. Life(n, app'[n])
        BY <3>1, <3>6, <4>1
      <4>5. Life(n, app[n])'
        BY <2>1, <4>4 DEF Life, Done
      <4> QED  BY <4>3, <4>5
    <3> QED  BY <3>8, <3>9, <3>10 DEF JobInv
  <2> QED  BY <1>7, <2>2, <2>3 DEF Create
<1>8. ASSUME NEW r \in Runs, Push(r)  PROVE JobInv'
  <2> DEFINE t == [state |-> "success", try |-> task[r]["submit"].try]
  <2>1. /\ "submit" \in TasksOf(r) /\ task[r]["submit"].state = "created"
        /\ Moves(r, "submit", "success") /\ xcom' = [xcom EXCEPT ![r] = Name(r)]
        /\ UNCHANGED <<run, order, app, source, table, demo, faults>>
    BY <1>8 DEF Push, In, tableVars, hostVars
  <2>2. /\ task[r]["submit"] \in [state : TaskStates, try : 0..Retries + 1]
        /\ task' = [task EXCEPT ![r]["submit"] = t]
    BY <1>a, <2>1, Moved
  <2>3. RunInv(r) /\ Try(r, "submit", task[r]["submit"]) /\ HandOver(r)
    BY <1>b, <2>1 DEF JobInv, TryInv
  <2>4. Name(r) \in Names
    BY <1>a, <2>1, NameOf DEF JobInv
  <2>5. \A q \in Runs, k \in TaskIds :
          task'[q][k] = IF q = r /\ k = "submit" THEN t ELSE task[q][k]
    BY <1>a, <1>b, <2>1, <2>2 DEF TypeOK
  <2>6. /\ t \in [state : TaskStates, try : 0..Retries + 1]
        /\ t.state = "success" /\ t.try = task[r]["submit"].try
    BY <2>2 DEF TaskStates
  <2> HIDE DEF t
  <2>7. TypeOK'
    <3>1. task' \in [Runs -> [TaskIds -> [state : TaskStates, try : 0..Retries + 1]]]
      BY <1>a, <1>b, <2>1, <2>2, <2>6 DEF TypeOK
    <3> QED  BY <1>a, <2>1, <2>4, <3>1 DEF TypeOK
  <2>8. ASSUME NEW q \in Runs  PROVE RunInv(q)' /\ TryInv(q)' /\ HandOver(q)'
    <3>1. RunInv(q) /\ TryInv(q) /\ HandOver(q) /\ TasksOf(q) \subseteq TaskIds
      BY <1>b DEF JobInv
    <3>2. RunInv(q)'
      BY <1>b, <2>1, <2>3, <2>6, <2>5, <3>1 DEF RunInv, TasksOf, DagOf
    <3>3. TryInv(q)'
      BY <2>1, <2>3, <2>5, <2>6, <3>1 DEF TryInv, Try, TasksOf, DagOf
    <3>4. Name(q)' = Name(q)
      BY <2>1, <2>5, <2>6 DEF Name, DagOf, TaskIds
    <3>5. xcom'[q] = IF q = r THEN Name(r) ELSE xcom[q]
      BY <1>a, <2>1 DEF TypeOK
    <3>6. HandOver(q)'
      <4>1. CASE q = r
        BY <2>1, <2>3, <2>5, <2>6, <3>4, <3>5, <4>1 DEF HandOver, TaskIds
      <4>2. CASE q # r
        BY <2>1, <2>5, <3>1, <3>4, <3>5, <4>2 DEF HandOver, TaskIds
      <4> QED  BY <4>1, <4>2
    <3> QED  BY <3>2, <3>3, <3>6
  <2>9. ASSUME NEW n \in Names  PROVE Owner(n)' /\ Life(n, app[n])'
    <3>1. Owner(n) /\ Life(n, app[n]) /\ app[n].by \in Runs \cup {NoRun}
      BY <1>a DEF JobInv, TypeOK, Apps
    <3>2. \A q \in Runs : task'[q]["submit"].try = task[q]["submit"].try
      BY <2>5, <2>6 DEF TaskIds
    <3> QED  BY <2>1, <3>1, <3>2 DEF Owner, Life, Done, DagOf
  <2> QED  BY <2>7, <2>8, <2>9 DEF JobInv
<1>9. ASSUME NEW r \in Runs, Poke(r)  PROVE JobInv'
  <2>1. "sensor" \in TasksOf(r) /\ task[r]["sensor"].state \in Working
        /\ UNCHANGED <<run, order, xcom, app, source, table, demo, faults>>
    BY <1>9 DEF Poke, In, Working, tableVars, hostVars
  <2>2. CASE app[xcom[r]].state = "completed" /\ Moves(r, "sensor", "success")
    BY <1>a, <2>1, <2>2, TryMoves DEF TaskStates
  <2>3. CASE TryFails(r, "sensor")
    BY <1>a, <2>1, <2>3, TryFailsMoves DEF tableVars
  <2> QED  BY <1>9, <2>2, <2>3 DEF Poke
<1>10. ASSUME NEW r \in Runs, Connect(r)  PROVE JobInv'
  <2>1. "python" \in TasksOf(r) /\ task[r]["python"].state \in Working
        /\ UNCHANGED <<run, order, xcom, app, source, table, demo>> /\ faults' \in Nat
    BY <1>a, <1>10 DEF Connect, In, Working, tableVars, Fault
  <2>2. CASE Moves(r, "python", "connected")
    BY <1>a, <2>1, <2>2, TryMoves DEF TaskStates
  <2>3. CASE TryFails(r, "python")
    BY <1>a, <2>1, <2>3, TryFailsMoves DEF tableVars
  <2> QED  BY <1>10, <2>2, <2>3 DEF Connect
<1>11. ASSUME NEW r \in Runs, ReplaceDemo(r)  PROVE JobInv'
  <2>1. "python" \in TasksOf(r) /\ task[r]["python"].state \in Working
        /\ UNCHANGED <<run, order, xcom, app, source, table, faults>> /\ demo' = TRUE
    BY <1>11 DEF ReplaceDemo, In, Working, hostVars
  <2> QED  BY <1>a, <1>11, <2>1, TryMoves DEF ReplaceDemo, TaskStates
<1>12. ASSUME NEW r \in Runs, Returns(r)  PROVE JobInv'
  <2>1. "python" \in TasksOf(r) /\ task[r]["python"].state \in Working
        /\ UNCHANGED <<run, order, xcom, app, source, table, demo, faults>>
    BY <1>12 DEF Returns, In, Working, hostVars, tableVars
  <2>2. demo
    BY <1>12 DEF Returns, In, JobInv, HandOver
  <2> QED  BY <1>a, <1>12, <2>1, <2>2, TryMoves DEF Returns, TaskStates
<1>13. ASSUME NEW n \in Names, Submits(n)  PROVE JobInv'
  <2>1. app[n] \in Apps /\ Life(n, app[n]) /\ source \in Nat
        /\ (app[n].by # NoRun => order[app[n].by].since <= source)
    BY <1>a DEF JobInv, TypeOK, RunInv, Apps
  <2>2. CASE Changes(n, [app[n] EXCEPT !.state = "running", !.step = "up",
                                       !.attempts = @ + 1]) /\ UNCHANGED faults
    <3> DEFINE a == [app[n] EXCEPT !.state = "running", !.step = "up", !.attempts = @ + 1]
    <3>1. a \in Apps /\ a.by = app[n].by /\ app[n].state # "completed"
      <4>1. app[n].attempts \in Nat /\ app[n].attempts + 1 \in Nat
        BY <2>1 DEF Apps
      <4>2. app[n].state # "completed"
        BY <1>13 DEF Submits
      <4> QED  BY <2>1, <4>1, <4>2 DEF Apps
    <3>2. Life(n, a)
      BY <1>13, <2>1 DEF Submits, Apps, Life, Done, NoApp, AppOf
    <3>3. Changes(n, a)
      BY <2>2
    <3> HIDE DEF a
    <3> QED  BY <1>a, <1>13, <2>2, <3>1, <3>2, <3>3, AppChanges DEF Submits
  <2>3. CASE Changes(n, [app[n] EXCEPT !.state = "failed"]) /\ Fault
    <3> DEFINE a == [app[n] EXCEPT !.state = "failed"]
    <3>1. a \in Apps /\ a.by = app[n].by /\ app[n].state # "completed"
      BY <1>13, <2>1 DEF Submits, Apps
    <3>2. Life(n, a)
      BY <1>13, <2>1 DEF Submits, Apps, Life, Done, NoApp, AppOf
    <3>3. Changes(n, a) /\ faults' \in Nat
      BY <1>a, <2>3 DEF Fault
    <3> HIDE DEF a
    <3> QED  BY <1>a, <1>13, <3>1, <3>2, <3>3, AppChanges DEF Submits
  <2> QED  BY <1>13, <2>2, <2>3 DEF Submits
<1>14. ASSUME NEW n \in Names, GetsSpark(n)  PROVE JobInv'
  <2>1. app[n] \in Apps /\ Life(n, app[n]) /\ source \in Nat
        /\ (app[n].by # NoRun => order[app[n].by].since <= source)
    BY <1>a DEF JobInv, TypeOK, RunInv, Apps
  <2> DEFINE a == [app[n] EXCEPT !.step = "ready"]
  <2>2. Changes(n, a) /\ table' \in Nat /\ faults' \in Nat
    BY <1>a, <1>14, <2>1 DEF GetsSpark, Fault, Apps
  <2>3. a \in Apps /\ a.by = app[n].by /\ app[n].state # "completed"
    BY <1>14, <2>1 DEF GetsSpark, Apps, Life
  <2>4. Life(n, a)
    BY <1>14, <2>1 DEF GetsSpark, Apps, Life, Done, NoApp, AppOf
  <2> HIDE DEF a
  <2> QED  BY <2>2, <2>3, <2>4, AppChanges
<1>15. ASSUME NEW n \in Names, Reads(n)  PROVE JobInv'
  <2>1. app[n] \in Apps /\ Life(n, app[n]) /\ source \in Nat
        /\ (app[n].by # NoRun => order[app[n].by].since <= source)
    BY <1>a DEF JobInv, TypeOK, RunInv, Apps
  <2> DEFINE a == [app[n] EXCEPT !.step = "read", !.seen = source]
  <2>2. Changes(n, a) /\ table' \in Nat /\ faults' \in Nat
    BY <1>a, <1>15, <2>1 DEF Reads, Fault, Apps
  <2>3. a \in Apps /\ a.by = app[n].by /\ app[n].state # "completed"
    BY <1>15, <2>1 DEF Reads, Apps, Life
  <2>4. Life(n, a)
    BY <1>15, <2>1 DEF Reads, Apps, Life, Done, NoApp, AppOf
  <2> HIDE DEF a
  <2> QED  BY <2>2, <2>3, <2>4, AppChanges
<1>16. ASSUME NEW n \in Names, Replaces(n)  PROVE JobInv'
  <2>1. app[n] \in Apps /\ Life(n, app[n]) /\ source \in Nat
        /\ (app[n].by # NoRun => order[app[n].by].since <= source)
    BY <1>a DEF JobInv, TypeOK, RunInv, Apps
  <2> DEFINE a == [app[n] EXCEPT !.step = "replaced", !.writes = @ + 1]
  <2>2. Changes(n, a) /\ table' \in Nat /\ faults' \in Nat
    BY <1>a, <1>16, <2>1 DEF Replaces, Fault, Apps
  <2>3. a \in Apps /\ a.by = app[n].by /\ app[n].state # "completed"
    <3>1. app[n].writes \in Nat /\ app[n].writes + 1 \in Nat
      BY <2>1 DEF Apps
    <3>2. app[n].state # "completed"
      BY <1>16, <2>1 DEF Replaces, Life
    <3> QED  BY <2>1, <3>1, <3>2 DEF Apps
  <2>4. Life(n, a)
    BY <1>16, <2>1 DEF Replaces, Apps, Life, Done, NoApp, AppOf
  <2> HIDE DEF a
  <2> QED  BY <2>2, <2>3, <2>4, AppChanges
<1>17. ASSUME NEW n \in Names, Completes(n)  PROVE JobInv'
  <2>1. app[n] \in Apps /\ Life(n, app[n]) /\ source \in Nat
        /\ (app[n].by # NoRun => order[app[n].by].since <= source)
    BY <1>a DEF JobInv, TypeOK, RunInv, Apps
  <2> DEFINE a == [app[n] EXCEPT !.step = "off", !.state = "completed"]
  <2>2. Changes(n, a) /\ table' \in Nat /\ faults' \in Nat
    BY <1>a, <1>17, <2>1 DEF Completes, Fault, Apps
  <2>3. a \in Apps /\ a.by = app[n].by /\ app[n].state # "completed"
    BY <1>17, <2>1 DEF Completes, Computes, Apps, Life
  <2>4. Life(n, a)
    BY <1>17, <2>1, NameFacts, DagFacts DEF Completes, Computes, Apps, Life, Done, NoApp, AppOf
  <2> HIDE DEF a
  <2> QED  BY <2>2, <2>3, <2>4, AppChanges
<1>18. ASSUME NEW n \in Names, Fails(n)  PROVE JobInv'
  <2>1. app[n] \in Apps /\ Life(n, app[n]) /\ source \in Nat
        /\ (app[n].by # NoRun => order[app[n].by].since <= source)
    BY <1>a DEF JobInv, TypeOK, RunInv, Apps
  <2> DEFINE a == [app[n] EXCEPT !.step = "off",
                    !.state = IF app[n].attempts <= FailureRetries THEN "pending" ELSE "failed"]
  <2>2. Changes(n, a) /\ table' \in Nat /\ faults' \in Nat
    BY <1>a, <1>18, <2>1 DEF Fails, Fault, Apps
  <2>3. a \in Apps /\ a.by = app[n].by /\ app[n].state # "completed"
    BY <1>18, <2>1 DEF Fails, Apps, Life
  <2>4. Life(n, a)
    BY <1>18, <2>1 DEF Fails, Apps, Life, Done, NoApp, AppOf
  <2> HIDE DEF a
  <2> QED  BY <2>2, <2>3, <2>4, AppChanges
<1>19. ASSUME Arrive  PROVE JobInv'
  <2>1. source' = source + 1 /\ UNCHANGED <<run, order, task, xcom, app, table, demo, faults>>
    BY <1>19 DEF Arrive, airflowVars, tableVars
  <2>2. TypeOK'
    BY <1>a, <2>1 DEF TypeOK
  <2>3. ASSUME NEW r \in Runs  PROVE RunInv(r)' /\ TryInv(r)' /\ HandOver(r)'
    BY <1>a, <2>1 DEF JobInv, TypeOK, RunInv, TryInv, Try, HandOver, TasksOf, DagOf, Name
  <2>4. ASSUME NEW n \in Names  PROVE Owner(n)' /\ Life(n, app[n])'
    <3>1. app[n] \in Apps /\ Owner(n) /\ Life(n, app[n])
      BY <1>a DEF JobInv, TypeOK
    <3> QED  BY <1>a, <2>1, <3>1 DEF Apps, Owner, Life, Done, DagOf, TypeOK
  <2> QED  BY <2>2, <2>3, <2>4 DEF JobInv
<1> QED
  BY <1>1, <1>2, <1>3, <1>4, <1>5, <1>6, <1>7, <1>8, <1>9, <1>10, <1>11, <1>12, <1>13,
     <1>14, <1>15, <1>16, <1>17, <1>18, <1>19
  DEF Next, Progress, RunStep, TaskStep, AppStep

\* submit, sensor, their retries and those of the application never take what one try
\* left behind for the work of another: each knows what JobInv says, always.
THEOREM JobInvariant == Spec => []JobInv
<1>1. JobInv /\ [Next]_vars => JobInv'
  BY StepInv
<1> QED  BY InitInv, <1>1, PTL DEF Spec

-----------------------------------------------------------------------------
(* What follows from it.                                                   *)

\* Runs, tasks and applications are always in one of their states, and no task is
\* tried more often than default_args allows (AfterFailure).
THEOREM JobTypeCorrect == Spec => []TypeOK
BY JobInvariant, PTL DEF JobInv

\* The DAGs' submit >> sensor: a green run's own application has completed, with
\* data read since the trigger.
THEOREM GreenIsDone == Spec => []GreenMeansDone
<1>1. ASSUME JobInv  PROVE GreenMeansDone
  <2> SUFFICES ASSUME NEW r \in Runs, run[r] = "success", DagOf(r).on # "connect"
               PROVE  LET a == app[xcom[r]]
                      IN  /\ a.by = r /\ a.state = "completed"
                          /\ DagOf(r).table = "taxis" => a.writes > 0 /\ a.seen >= order[r].since
    <3>1. ASSUME NEW r \in Runs, run[r] = "success", DagOf(r).on = "connect"  PROVE demo
      BY <1>1, <3>1 DEF JobInv, RunInv, HandOver, TasksOf
    <3> QED  BY <3>1 DEF GreenMeansDone
  <2>1. TypeOK /\ RunInv(r) /\ TryInv(r) /\ HandOver(r)
    BY <1>1 DEF JobInv
  <2>2. task[r]["submit"].state = "success" /\ task[r]["sensor"].state = "success"
    BY <2>1, DagFacts DEF RunInv, TasksOf, TypeOK, DagOf
  <2>3. Name(r) \in Names /\ xcom[r] = Name(r)
    BY <2>1, <2>2, NameOf DEF HandOver
  <2>4. app[Name(r)].by = r /\ app[Name(r)].state = "completed"
    BY <2>1, <2>2, <2>3 DEF HandOver
  <2>5. Life(Name(r), app[Name(r)]) /\ Name(r)[1] = DagOf(r) /\ app[Name(r)] \in Apps
    BY <1>1, <2>1, <2>3 DEF JobInv, Name, TypeOK
  <2>6. order[r].since \in Nat
    BY <2>1 DEF TypeOK
  <2> QED  BY <2>3, <2>4, <2>5, <2>6 DEF Life, Done, Apps
<1> QED  BY <1>1, JobInvariant, PTL

\* The sensor's application_name, an xcom of submit, is that of the newest
\* application of the same run.
THEOREM SensorIsRight == Spec => []SensorWatchesOwn
<1>1. ASSUME JobInv  PROVE SensorWatchesOwn
  <2> SUFFICES ASSUME NEW r \in Runs, xcom[r] # NoName
               PROVE  /\ app[xcom[r]].by = r
                      /\ \A n \in Names : app[n].by = r => n[3] <= xcom[r][3]
    BY DEF SensorWatchesOwn
  <2>1. task[r]["submit"].state = "success" /\ xcom[r] = Name(r) /\ app[Name(r)].by = r
    BY <1>1 DEF JobInv, HandOver
  <2>2. Name(r)[3] = task[r]["submit"].try
    BY DEF Name
  <2>3. r # NoRun
    OBVIOUS
  <2> QED  BY <1>1, <2>1, <2>2, <2>3 DEF JobInv, Owner
<1> QED  BY <1>1, JobInvariant, PTL

-----------------------------------------------------------------------------
(* The faults pay for the attempts.                                        *)

LEMMA Grows ==
  ASSUME NEW S, NEW T, NEW x, NEW m \in Nat, NEW n \in Nat,
         IsFiniteSet(S), Cardinality(S) <= m,
         \/ T \subseteq S /\ m <= n
         \/ T \subseteq S \cup {x} /\ m + 1 <= n
  PROVE  IsFiniteSet(T) /\ Cardinality(T) <= n
<1>1. Cardinality(S) \in Nat
  BY FS_CardinalityType
<1>2. CASE T \subseteq S /\ m <= n
  <2>1. IsFiniteSet(T) /\ Cardinality(T) <= Cardinality(S)
    BY <1>2, FS_Subset
  <2>2. Cardinality(T) \in Nat
    BY <2>1, FS_CardinalityType
  <2> QED  BY <1>1, <1>2, <2>1, <2>2
<1>3. CASE T \subseteq S \cup {x} /\ m + 1 <= n
  <2>1. /\ IsFiniteSet(S \cup {x})
        /\ Cardinality(S \cup {x}) = IF x \in S THEN Cardinality(S) ELSE Cardinality(S) + 1
    BY FS_AddElement
  <2>2. IsFiniteSet(T) /\ Cardinality(T) <= Cardinality(S \cup {x})
    BY <1>3, <2>1, FS_Subset
  <2>3. Cardinality(T) \in Nat
    BY <2>2, FS_CardinalityType
  <2> QED  BY <1>1, <1>3, <2>1, <2>2, <2>3
<1> QED  BY <1>2, <1>3

\* What a step may do to the account of a run: nothing it did not pay for.
Paid(r) ==
  \/ Attempts(r)' \subseteq Attempts(r) /\ faults + Free(r) <= faults' + Free(r)'
  \/ /\ \E x : Attempts(r)' \subseteq Attempts(r) \cup {x}
     /\ faults + Free(r) + 1 <= faults' + Free(r)'

LEMMA FreeType == \A r \in Runs : Free(r) \in {0, 1} /\ Free(r)' \in {0, 1}
BY DEF Free

LEMMA AppsKept ==
  ASSUME UNCHANGED app, NEW r \in Runs
  PROVE  Attempts(r)' \subseteq Attempts(r)
BY DEF Attempts, Due

LEMMA DuesKept ==
  ASSUME TypeOK, TypeOK', NEW n \in Names, NEW a \in Apps, app' = [app EXCEPT ![n] = a],
         a.by = app[n].by, NEW r \in Runs
  PROVE  /\ Due(a) <= Due(app[n]) => Attempts(r)' \subseteq Attempts(r)
         /\ Due(a) <= Due(app[n]) + 1 =>
              Attempts(r)' \subseteq Attempts(r) \cup {<<n, Due(app[n]) + 1>>}
<1>1. \A m \in Names : app[m] \in Apps /\ app'[m] = IF m = n THEN a ELSE app[m]
  BY DEF TypeOK
<1>2. \A b \in Apps : Due(b) \in Nat
  BY DEF Apps, Due
<1>3. \A w : w \in Attempts(r)' <=>
        /\ w \in Names \X (1..FailureRetries + 1)
        /\ app'[w[1]].by = r /\ w[2] <= Due(app'[w[1]])
  BY DEF Attempts, Due
<1>4. \A w : w \in Attempts(r) <=>
        /\ w \in Names \X (1..FailureRetries + 1)
        /\ app[w[1]].by = r /\ w[2] <= Due(app[w[1]])
  BY DEF Attempts
<1>5. ASSUME NEW w \in Attempts(r)'
      PROVE  /\ w = <<w[1], w[2]>> /\ w[1] \in Names /\ w[2] \in 1..FailureRetries + 1
             /\ app[w[1]].by = r /\ (w[1] # n => w \in Attempts(r))
             /\ (w[1] = n => w[2] <= Due(a))
  BY <1>1, <1>3, <1>4
<1>6. Due(a) <= Due(app[n]) => Attempts(r)' \subseteq Attempts(r)
  <2> SUFFICES ASSUME Due(a) <= Due(app[n]), NEW w \in Attempts(r)', w[1] = n
               PROVE  w[2] <= Due(app[n])
    BY <1>4, <1>5
  <2> QED  BY <1>1, <1>2, <1>5
<1>7. Due(a) <= Due(app[n]) + 1 =>
        Attempts(r)' \subseteq Attempts(r) \cup {<<n, Due(app[n]) + 1>>}
  <2> SUFFICES ASSUME Due(a) <= Due(app[n]) + 1, NEW w \in Attempts(r)', w[1] = n
               PROVE  w[2] <= Due(app[n]) \/ w[2] = Due(app[n]) + 1
    BY <1>4, <1>5
  <2> QED  BY <1>1, <1>2, <1>5
<1> QED  BY <1>6, <1>7

LEMMA FaultPays ==
  ASSUME TypeOK, UNCHANGED app, faults' = faults + 1, NEW r \in Runs
  PROVE  Paid(r)
BY AppsKept, FreeType DEF Paid, TypeOK

LEMMA NothingToPay ==
  ASSUME TypeOK, UNCHANGED <<app, faults>>, NEW r \in Runs,
         Free(r) = 1 => Free(r)' = 1
  PROVE  Paid(r)
BY AppsKept, FreeType DEF Paid, TypeOK

\* Application n goes on to a, which costs nothing unless the driver is to run again.
LEMMA DriverPays ==
  ASSUME TypeOK, TypeOK', NEW n \in Names, NEW a \in Apps, Changes(n, a),
         a.by = app[n].by, NEW r \in Runs,
         \/ Due(a) <= Due(app[n]) /\ (UNCHANGED faults \/ faults' = faults + 1)
         \/ Due(a) <= Due(app[n]) + 1 /\ faults' = faults + 1
  PROVE  Paid(r)
<1>1. app' = [app EXCEPT ![n] = a] /\ UNCHANGED task
  BY DEF Changes, airflowVars
<1>2. Free(r)' = Free(r) /\ faults \in Nat
  BY <1>1 DEF Free, TypeOK
<1>3. CASE Due(a) <= Due(app[n]) /\ (UNCHANGED faults \/ faults' = faults + 1)
  <2>1. Attempts(r)' \subseteq Attempts(r)
    BY <1>1, <1>3, DuesKept
  <2> QED  BY <1>2, <1>3, <2>1, FreeType DEF Paid
<1>4. CASE Due(a) <= Due(app[n]) + 1 /\ faults' = faults + 1
  <2>1. Attempts(r)' \subseteq Attempts(r) \cup {<<n, Due(app[n]) + 1>>}
    BY <1>1, <1>4, DuesKept
  <2>2. faults + Free(r) + 1 <= faults' + Free(r)'
    BY <1>2, <1>4, FreeType
  <2> QED  BY <2>1, <2>2, Zenon DEF Paid
<1> QED  BY <1>3, <1>4

LEMMA StepPays == JobInv /\ JobInv' /\ [Next]_vars => \A r \in Runs : Paid(r)
<1> SUFFICES ASSUME JobInv, JobInv', [Next]_vars, NEW q \in Runs  PROVE Paid(q)
  OBVIOUS
<1>a. TypeOK /\ TypeOK'
  BY DEF JobInv
<1>b. \A r \in Runs : TasksOf(r) \subseteq TaskIds
  BY DEF TasksOf, TaskIds
<1>c. ASSUME NEW r \in Runs, NEW k \in TasksOf(r), NEW s, Moves(r, k, s),
             k # "submit" \/ task[r][k].state \notin {"created", "success"} \/ s = "success"
      PROVE  Free(q) = 1 => Free(q)' = 1
  <2>1. task' = [task EXCEPT ![r][k] = [state |-> s, try |-> task[r][k].try]]
    BY <1>a, <1>c, Moved
  <2>2. \A j \in TaskIds : task'[q][j] = IF q = r /\ j = k
                        THEN [state |-> s, try |-> task[r][k].try] ELSE task[q][j]
    BY <1>a, <1>b, <2>1 DEF TypeOK
  <2> QED  BY <1>c, <2>2 DEF Free, TaskIds
<1>1. CASE UNCHANGED <<task, app, faults>>
  BY <1>a, <1>1, NothingToPay DEF Free
<1>2. ASSUME NEW r \in Runs, NEW k \in TasksOf(r), Begin(r, k)  PROVE Paid(q)
  <2>1. /\ k \in TaskIds /\ task[r][k].state \in {"none", "retry"} /\ UNCHANGED <<app, faults>>
        /\ task' = [task EXCEPT ![r][k] = [state |-> "running", try |-> task[r][k].try + 1]]
    BY <1>a, <1>b, <1>2 DEF Begin, hostVars, TypeOK
  <2>2. \A j \in TaskIds : task'[q][j] = IF q = r /\ j = k
                  THEN [state |-> "running", try |-> task[r][k].try + 1] ELSE task[q][j]
    BY <1>a, <1>b, <2>1 DEF TypeOK
  <2>3. Free(q) = 1 => Free(q)' = 1
    BY <2>1, <2>2 DEF Free, TaskIds
  <2> QED  BY <1>a, <2>1, <2>3, NothingToPay
<1>3. ASSUME NEW r \in Runs, NEW k \in TasksOf(r), Lost(r, k)  PROVE Paid(q)
  BY <1>a, <1>3, FaultPays DEF Lost, Fault
<1>4. ASSUME NEW r \in Runs, Create(r)  PROVE Paid(q)
  <2>1. /\ "submit" \in TasksOf(r) /\ task[r]["submit"].state = "running"
        /\ UNCHANGED faults
    BY <1>4 DEF Create, In, hostVars
  <2>2. CASE TryFails(r, "submit") /\ UNCHANGED app
    BY <1>a, <1>c, <2>1, <2>2, NothingToPay DEF TryFails
  <2>3. CASE /\ app[Name(r)].by = NoRun /\ Moves(r, "submit", "created")
             /\ app' = [app EXCEPT ![Name(r)] = AppOf(r, "new")]
    <3>1. Name(r) \in Names
      BY <1>a, <2>1, NameOf DEF JobInv
    <3>2. \A n \in Names : app'[n] = IF n = Name(r) THEN AppOf(r, "new") ELSE app[n]
      BY <1>a, <2>3 DEF TypeOK
    <3>3. AppOf(r, "new").by = r /\ Due(AppOf(r, "new")) = 1
      BY DEF AppOf, Due
    <3>4. \A w : w \in Attempts(q)' <=>
            /\ w \in Names \X (1..FailureRetries + 1)
            /\ app'[w[1]].by = q /\ w[2] <= Due(app'[w[1]])
      BY DEF Attempts, Due
    <3>5. \A w : w \in Attempts(q) <=>
            /\ w \in Names \X (1..FailureRetries + 1)
            /\ app[w[1]].by = q /\ w[2] <= Due(app[w[1]])
      BY DEF Attempts
    <3>6. ASSUME NEW w \in Attempts(q)'
          PROVE  w \in Attempts(q) \/ (q = r /\ w = <<Name(r), 1>>)
      <4>1. w = <<w[1], w[2]>> /\ w[1] \in Names /\ w[2] \in 1..FailureRetries + 1
        BY <3>4
      <4>2. CASE w[1] = Name(r)
        BY <3>2, <3>3, <3>4, <4>1, <4>2
      <4>3. CASE w[1] # Name(r)
        BY <3>2, <3>4, <3>5, <4>1, <4>3
      <4> QED  BY <4>2, <4>3
    <3>7. CASE q # r
      <4>1. Attempts(q)' \subseteq Attempts(q)
        BY <3>6, <3>7
      <4>2. Free(q) = 1 => Free(q)' = 1
        BY <1>c, <2>1, <2>3
      <4> QED  BY <1>a, <2>1, <4>1, <4>2, FreeType DEF Paid, TypeOK
    <3>8. CASE q = r
      <4>1. Attempts(q)' \subseteq Attempts(q) \cup {<<Name(r), 1>>}
        BY <3>6
      <4>2. task' = [task EXCEPT ![r]["submit"] =
                       [state |-> "created", try |-> task[r]["submit"].try]]
        BY <1>a, <2>1, <2>3, Moved
      <4>3. task'[r]["submit"].state = "created"
        BY <1>a, <1>b, <2>1, <4>2 DEF TypeOK
      <4>4. Free(q) = 0 /\ Free(q)' = 1
        BY <2>1, <3>8, <4>3 DEF Free
      <4>5. faults + Free(q) + 1 <= faults' + Free(q)'
        BY <1>a, <2>1, <4>4 DEF TypeOK
      <4> QED  BY <4>1, <4>5, Zenon DEF Paid
    <3> QED  BY <3>7, <3>8
  <2> QED  BY <1>4, <2>2, <2>3 DEF Create
<1>5. ASSUME NEW r \in Runs, Push(r) \/ Poke(r) \/ ReplaceDemo(r) \/ Returns(r)
      PROVE  Paid(q)
  <2>1. UNCHANGED <<app, faults>>
    BY <1>5 DEF Push, Poke, ReplaceDemo, Returns, hostVars
  <2>2. Free(q) = 1 => Free(q)' = 1
    BY <1>5, <1>c DEF Push, Poke, ReplaceDemo, Returns, In, TryFails
  <2> QED  BY <1>a, <2>1, <2>2, NothingToPay
<1>6. ASSUME NEW r \in Runs, Connect(r)  PROVE Paid(q)
  <2>1. CASE UNCHANGED faults /\ Moves(r, "python", "connected")
    <3>1. Free(q) = 1 => Free(q)' = 1
      BY <1>6, <1>c, <2>1 DEF Connect, In
    <3> QED  BY <1>a, <1>6, <2>1, <3>1, NothingToPay DEF Connect
  <2>2. CASE Fault
    BY <1>a, <1>6, <2>2, FaultPays DEF Connect, Fault
  <2> QED  BY <1>6, <2>1, <2>2 DEF Connect
<1>7. ASSUME NEW n \in Names,
             Submits(n) \/ GetsSpark(n) \/ Reads(n) \/ Replaces(n) \/ Completes(n) \/ Fails(n)
      PROVE  Paid(q)
  <2> DEFINE pays(a) == \/ Due(a) <= Due(app[n]) /\ (UNCHANGED faults \/ faults' = faults + 1)
                        \/ Due(a) <= Due(app[n]) + 1 /\ faults' = faults + 1
  <2>1. app[n] \in Apps /\ app'[n] \in Apps /\ Life(n, app[n]) /\ app \in [Names -> Apps]
    BY <1>a DEF JobInv, TypeOK
  <2>2. /\ app[n].attempts \in Nat /\ app[n].attempts + 1 \in Nat
        /\ app[n].writes \in Nat /\ app[n].writes + 1 \in Nat
    BY <2>1 DEF Apps
  <2>3. source \in Nat
    BY <1>a DEF TypeOK
  <2>4. \E a \in Apps : Changes(n, a) /\ a.by = app[n].by /\ pays(a)
    <3>1. CASE Submits(n)
      <4>1. CASE /\ Changes(n, [app[n] EXCEPT !.state = "running", !.step = "up",
                                              !.attempts = @ + 1])
                 /\ UNCHANGED faults
        <5> DEFINE a == [app[n] EXCEPT !.state = "running", !.step = "up", !.attempts = @ + 1]
        <5>1. a \in Apps /\ a.by = app[n].by
          BY <2>1, <2>2 DEF Apps
        <5>2. Due(a) <= Due(app[n])
          BY <2>1, <2>2, <3>1 DEF Submits, Due, Apps
        <5>3. Changes(n, a)
          BY <4>1
        <5> HIDE DEF a
        <5> QED  BY <4>1, <5>1, <5>2, <5>3
      <4>2. CASE Changes(n, [app[n] EXCEPT !.state = "failed"]) /\ Fault
        <5> DEFINE a == [app[n] EXCEPT !.state = "failed"]
        <5>1. a \in Apps /\ a.by = app[n].by
          BY <2>1 DEF Apps
        <5>2. Due(a) <= Due(app[n])
          BY <2>1, <2>2, <3>1 DEF Submits, Due, Apps
        <5>3. Changes(n, a) /\ faults' = faults + 1
          BY <4>2 DEF Fault
        <5> HIDE DEF a
        <5> QED  BY <5>1, <5>2, <5>3
      <4> QED  BY <3>1, <4>1, <4>2 DEF Submits
    <3>2. CASE GetsSpark(n)
      <4> DEFINE a == [app[n] EXCEPT !.step = "ready"]
      <4>1. a \in Apps /\ a.by = app[n].by
        BY <2>1, <2>2, <2>3 DEF Apps
      <4>2. Due(a) <= Due(app[n])
        BY <2>1, <2>2, <3>2 DEF GetsSpark, Due, Apps
      <4>3. Changes(n, a) /\ UNCHANGED faults
        BY <3>2 DEF GetsSpark
      <4> HIDE DEF a
      <4> QED  BY <4>1, <4>2, <4>3
    <3>3. CASE Reads(n)
      <4> DEFINE a == [app[n] EXCEPT !.step = "read", !.seen = source]
      <4>1. a \in Apps /\ a.by = app[n].by
        BY <2>1, <2>2, <2>3 DEF Apps
      <4>2. Due(a) <= Due(app[n])
        BY <2>1, <2>2, <3>3 DEF Reads, Due, Apps
      <4>3. Changes(n, a) /\ UNCHANGED faults
        BY <3>3 DEF Reads
      <4> HIDE DEF a
      <4> QED  BY <4>1, <4>2, <4>3
    <3>4. CASE Replaces(n)
      <4> DEFINE a == [app[n] EXCEPT !.step = "replaced", !.writes = @ + 1]
      <4>1. a \in Apps /\ a.by = app[n].by
        BY <2>1, <2>2, <2>3 DEF Apps
      <4>2. Due(a) <= Due(app[n])
        BY <2>1, <2>2, <3>4 DEF Replaces, Due, Apps
      <4>3. Changes(n, a) /\ UNCHANGED faults
        BY <3>4 DEF Replaces
      <4> HIDE DEF a
      <4> QED  BY <4>1, <4>2, <4>3
    <3>5. CASE Completes(n)
      <4> DEFINE a == [app[n] EXCEPT !.step = "off", !.state = "completed"]
      <4>1. a \in Apps /\ a.by = app[n].by
        BY <2>1, <2>2, <2>3 DEF Apps
      <4>2. Due(a) <= Due(app[n])
        BY <2>1, <2>2, <3>5 DEF Completes, Due, Apps
      <4>3. Changes(n, a) /\ UNCHANGED faults
        BY <3>5 DEF Completes
      <4> HIDE DEF a
      <4> QED  BY <4>1, <4>2, <4>3
    <3>6. CASE Fails(n)
      <4> DEFINE a == [app[n] EXCEPT !.step = "off",
                 !.state = IF app[n].attempts <= FailureRetries THEN "pending" ELSE "failed"]
      <4>1. a \in Apps /\ a.by = app[n].by
        BY <2>1, <2>2, <2>3 DEF Apps
      <4>2. Due(a) <= Due(app[n]) + 1
        BY <2>1, <2>2, <3>6 DEF Fails, Due, Apps
      <4>3. Changes(n, a) /\ faults' = faults + 1
        BY <3>6 DEF Fails, Fault
      <4> HIDE DEF a
      <4> QED  BY <4>1, <4>2, <4>3
    <3> QED  BY <1>7, <3>1, <3>2, <3>3, <3>4, <3>5, <3>6
  <2> QED  BY <1>a, <2>4, DriverPays
<1> QED
  BY <1>1, <1>2, <1>3, <1>4, <1>5, <1>6, <1>7
  DEF Next, Progress, RunStep, TaskStep, AppStep, Trigger, Starts, Ends, Arrive, vars,
      airflowVars, tableVars, hostVars

\* onFailureRetries of the application and "retries" of submit and of the sensor: every
\* attempt of a run but the first has a fault of its own behind it.
THEOREM FaultsPayAlways == Spec => []FaultsPay
<1>1. Init => FaultsPay
  <2> SUFFICES ASSUME Init, NEW r \in Runs
               PROVE  IsFiniteSet(Attempts(r)) /\ Cardinality(Attempts(r)) <= faults + Free(r)
    BY DEF FaultsPay
  <2>1. Attempts(r) = {}
    BY DEF Init, Attempts, NoApp, AppOf
  <2> QED  BY <2>1, FS_EmptySet, FreeType DEF Init
<1>2. JobInv /\ JobInv' /\ FaultsPay /\ [Next]_vars => FaultsPay'
  <2> SUFFICES ASSUME JobInv, JobInv', FaultsPay, [Next]_vars, NEW r \in Runs
               PROVE  IsFiniteSet(Attempts(r))' /\ (Cardinality(Attempts(r)) <= faults + Free(r))'
    BY DEF FaultsPay
  <2>1. faults + Free(r) \in Nat /\ faults' + Free(r)' \in Nat
    <3>1. faults \in Nat /\ faults' \in Nat
      BY DEF JobInv, TypeOK
    <3> QED  BY <3>1, FreeType
  <2>2. IsFiniteSet(Attempts(r)) /\ Cardinality(Attempts(r)) <= faults + Free(r)
    BY DEF FaultsPay
  <2>3. Paid(r)
    BY StepPays
  <2>4. CASE Attempts(r)' \subseteq Attempts(r) /\ faults + Free(r) <= faults' + Free(r)'
    BY <2>1, <2>2, <2>4, Grows
  <2>5. CASE /\ \E x : Attempts(r)' \subseteq Attempts(r) \cup {x}
             /\ faults + Free(r) + 1 <= faults' + Free(r)'
    BY <2>1, <2>2, <2>5, Grows
  <2> QED  BY <2>3, <2>4, <2>5 DEF Paid
<1> QED  BY <1>1, <1>2, JobInvariant, PTL DEF Spec

\* However the retries of submit, of the sensor and of the driver fall together, an
\* application replaces the table once per attempt the operator allows, and the
\* applications of a run once and once more for each fault.
THEOREM RewritesAreBounded == Spec => []WritesAreBounded
<1>1. ASSUME JobInv, FaultsPay  PROVE WritesAreBounded
  <2>1. \A n \in Names : app[n] \in Apps /\ Life(n, app[n])
    BY <1>1 DEF JobInv, TypeOK
  <2>2. ASSUME NEW n \in Names  PROVE app[n].writes <= FailureRetries + 1
    BY <2>1 DEF Apps, Life
  <2>3. ASSUME NEW r \in Runs  PROVE Cardinality(Replacements(r)) <= faults + 1
    <3>1. \A n \in Names : app[n].writes <= Due(app[n])
      BY <2>1 DEF Apps, Life, Due
    <3>2. \A n \in Names : app[n].writes \in Nat /\ Due(app[n]) \in Nat
      BY <2>1 DEF Apps, Due
    <3>3. Replacements(r) \in SUBSET Attempts(r)
      BY <3>1, <3>2 DEF Replacements, Attempts
    <3>4. IsFiniteSet(Attempts(r)) /\ Cardinality(Attempts(r)) <= faults + Free(r)
      BY <1>1 DEF FaultsPay
    <3>5. faults \in Nat /\ Free(r) \in {0, 1}
      BY <1>1, FreeType DEF JobInv, TypeOK
    <3>6. IsFiniteSet(Replacements(r)) /\ Cardinality(Replacements(r)) <= Cardinality(Attempts(r))
      BY <3>3, <3>4, FS_Subset
    <3>7. Cardinality(Replacements(r)) \in Nat /\ Cardinality(Attempts(r)) \in Nat
      BY <3>4, <3>6, FS_CardinalityType
    <3> QED  BY <3>4, <3>5, <3>6, <3>7
  <2> QED  BY <2>2, <2>3 DEF WritesAreBounded
<1> QED  BY <1>1, JobInvariant, FaultsPayAlways, PTL

-----------------------------------------------------------------------------
(* The runs of spark_main_iceberg implement TableJob.                      *)

LEMMA JobInit == Init => Job!Init
<1> SUFFICES ASSUME Init  PROVE Job!Init
  OBVIOUS
<1>1. \A r \in Runs : JobState(r) = "none" /\ order[r].since = 0
  BY DEF Init, JobState
<1>2. \A r \in Runs : Wrote(r) = FALSE
  BY DEF Init, Wrote, NoApp, AppOf
<1>3. [r \in Runs |-> JobState(r)] = [r \in Runs |-> "none"]
  BY <1>1
<1>4. [r \in Runs |-> IF OfJob(r) THEN order[r].since ELSE 0] = [r \in Runs |-> 0]
  BY <1>1
<1>5. [r \in Runs |-> Wrote(r)] = [r \in Runs |-> FALSE]
  BY <1>2, Zenon
<1> QED  BY <1>3, <1>4, <1>5 DEF Init, Job!Init

\* Nothing happens to the table, nor to a run that is for it.
LEMMA JobStutters ==
  ASSUME UNCHANGED <<order, source, table>>,
         \A r \in Runs : JobState(r)' = JobState(r) /\ Wrote(r)' = Wrote(r)
  PROVE  UNCHANGED Job!vars
<1>1. \A r \in Runs : OfJob(r)' = OfJob(r)
  BY DEF OfJob, DagOf
<1> QED  BY <1>1 DEF Job!vars

LEMMA WroteSame ==
  ASSUME order' = order, \A n \in Names : app'[n].by = app[n].by /\ app'[n].writes = app[n].writes
  PROVE  \A r \in Runs : Wrote(r)' = Wrote(r)
BY DEF Wrote, OfJob, DagOf

LEMMA StateSame ==
  ASSUME order' = order, run' = run
  PROVE  \A r \in Runs : JobState(r)' = JobState(r)
BY DEF JobState, OfJob, DagOf

LEMMA JobStep == JobInv /\ JobInv' /\ [Next]_vars => [Job!Next]_Job!vars
<1> SUFFICES ASSUME JobInv, JobInv', [Next]_vars  PROVE [Job!Next]_Job!vars
  OBVIOUS
<1>a. TypeOK /\ TypeOK' /\ \A r \in Runs : RunInv(r)
  BY DEF JobInv
<1>1. CASE UNCHANGED <<run, order, app, source, table>>
  BY <1>1, WroteSame, StateSame, JobStutters
<1>2. ASSUME NEW r \in Runs, Trigger(r)  PROVE [Job!Next]_Job!vars
  <2>1. /\ run[r] = "none" /\ run' = [run EXCEPT ![r] = "queued"]
        /\ UNCHANGED <<app, source, table>>
    BY <1>2 DEF Trigger, tableVars, hostVars
  <2>2. PICK dag \in Dags, s \in Seconds :
          order' = [order EXCEPT ![r] = [dag |-> dag, second |-> s, since |-> source]]
    BY <1>2 DEF Trigger
  <2>3. \A q \in Runs : q # r => order'[q] = order[q] /\ run'[q] = run[q]
    BY <1>a, <2>1, <2>2 DEF TypeOK
  <2>4. order'[r].since = source /\ order'[r].dag = dag /\ run'[r] = "queued"
    BY <1>a, <2>1, <2>2 DEF TypeOK
  <2>5. \A n \in Names : app[n].by # r
    BY <2>1 DEF JobInv, Owner
  <2>6. \A q \in Runs : Wrote(q)' = Wrote(q)
    BY <2>1, <2>3, <2>5 DEF Wrote, OfJob, DagOf
  <2>7. [q \in Runs |-> Wrote(q)]' = [q \in Runs |-> Wrote(q)]
    BY <2>6, Zenon
  <2>8. \A q \in Runs : q # r => JobState(q)' = JobState(q) /\ OfJob(q)' = OfJob(q)
    BY <2>3 DEF JobState, OfJob, DagOf
  <2>9. JobState(r) = "none" /\ (IF OfJob(r) THEN order[r].since ELSE 0) = 0
    BY <1>a, <2>1 DEF JobState, RunInv
  <2>10. CASE dag = MainIceberg
    <3>1. OfJob(r)' /\ JobState(r)' = "active"
      BY <2>4, <2>10 DEF JobState, OfJob, DagOf
    <3>2. [q \in Runs |-> JobState(q)]' = [[q \in Runs |-> JobState(q)] EXCEPT ![r] = "active"]
      BY <2>8, <3>1
    <3>3. [q \in Runs |-> IF OfJob(q) THEN order[q].since ELSE 0]'
          = [[q \in Runs |-> IF OfJob(q) THEN order[q].since ELSE 0] EXCEPT ![r] = source]
      BY <2>3, <2>4, <2>8, <3>1
    <3> QED  BY <2>1, <2>7, <2>9, <3>2, <3>3 DEF Job!Next, Job!Trigger
  <2>11. CASE dag # MainIceberg
    <3>1. ~OfJob(r)' /\ JobState(r)' = "none"
      BY <2>4, <2>11 DEF JobState, OfJob, DagOf
    <3>2. [q \in Runs |-> JobState(q)]' = [q \in Runs |-> JobState(q)]
      BY <2>8, <2>9, <3>1
    <3>3. [q \in Runs |-> IF OfJob(q) THEN order[q].since ELSE 0]'
          = [q \in Runs |-> IF OfJob(q) THEN order[q].since ELSE 0]
      BY <2>3, <2>8, <2>9, <3>1
    <3> QED  BY <2>1, <2>7, <3>2, <3>3 DEF Job!vars
  <2> QED  BY <2>10, <2>11
<1>3. ASSUME NEW r \in Runs, Starts(r)  PROVE [Job!Next]_Job!vars
  <2>1. /\ run[r] = "queued" /\ run' = [run EXCEPT ![r] = "running"]
        /\ UNCHANGED <<order, app, source, table>>
    BY <1>3 DEF Starts, tableVars, hostVars
  <2>2. \A q \in Runs : JobState(q)' = JobState(q)
    BY <1>a, <2>1 DEF JobState, OfJob, DagOf, TypeOK
  <2> QED  BY <2>1, <2>2, WroteSame, JobStutters
<1>4. ASSUME NEW r \in Runs, Ends(r)  PROVE [Job!Next]_Job!vars
  <2>1. /\ run[r] = "running" /\ UNCHANGED <<order, app, source, table>>
        /\ \A q \in Runs : q # r => run'[q] = run[q]
        /\ run'[r] \in {"success", "failed"}
    BY <1>a, <1>4 DEF Ends, TypeOK, tableVars, hostVars
  <2>2. \A q \in Runs : (q # r => JobState(q)' = JobState(q)) /\ OfJob(q)' = OfJob(q)
    BY <2>1 DEF JobState, OfJob, DagOf
  <2>3. \A q \in Runs : Wrote(q)' = Wrote(q)
    BY <2>1, WroteSame
  <2>4. CASE ~OfJob(r)
    <3>1. JobState(r)' = JobState(r)
      BY <2>2, <2>4 DEF JobState
    <3> QED  BY <2>1, <2>2, <2>3, <3>1, JobStutters
  <2>5. CASE OfJob(r)
    <3>1. JobState(r) = "active" /\ JobState(r)' = run'[r]
      BY <2>1, <2>2, <2>5 DEF JobState
    <3>2. [q \in Runs |-> JobState(q)]' = [[q \in Runs |-> JobState(q)] EXCEPT ![r] = run'[r]]
      BY <2>2, <3>1
    <3>3. [q \in Runs |-> Wrote(q)]' = [q \in Runs |-> Wrote(q)]
      BY <2>3, Zenon
    <3>4. [q \in Runs |-> IF OfJob(q) THEN order[q].since ELSE 0]'
          = [q \in Runs |-> IF OfJob(q) THEN order[q].since ELSE 0]
      BY <2>1, <2>2
    <3>5. run'[r] = "success" => Wrote(r)
      <4> SUFFICES ASSUME run'[r] = "success"  PROVE Wrote(r)
        OBVIOUS
      <4>1. RunInv(r)' /\ TryInv(r)' /\ HandOver(r)'
        BY DEF JobInv
      <4>2. DagOf(r)' = MainIceberg /\ MainIceberg.on = "operator" /\ MainIceberg.table = "taxis"
        BY <2>2, <2>5 DEF OfJob, MainIceberg
      <4>3. task'[r]["submit"].state = "success" /\ task'[r]["sensor"].state = "success"
        BY <4>1, <4>2 DEF RunInv, TasksOf
      <4>4. UNCHANGED task
        BY <1>4 DEF Ends
      <4>5. Name(r) \in Names /\ app[Name(r)].by = r /\ app[Name(r)].state = "completed"
        BY <1>a, <4>3, <4>4, NameOf DEF JobInv, HandOver
      <4>6. Life(Name(r), app[Name(r)]) /\ Name(r)[1] = DagOf(r) /\ DagOf(r) = MainIceberg
        BY <2>5, <4>5 DEF JobInv, Name, OfJob
      <4>7. app[Name(r)].writes > 0
        BY <4>2, <4>5, <4>6 DEF Life, Done
      <4> QED  BY <2>5, <4>5, <4>7 DEF Wrote
    <3> QED  BY <2>1, <3>1, <3>2, <3>3, <3>4, <3>5 DEF Job!Next, Job!Finish
  <2> QED  BY <2>4, <2>5
<1>5. ASSUME NEW r \in Runs, Create(r)  PROVE [Job!Next]_Job!vars
  <2>1. UNCHANGED <<run, order, source, table>>
    BY <1>5 DEF Create, tableVars, hostVars
  <2>2. CASE UNCHANGED app
    BY <1>1, <2>1, <2>2
  <2>3. CASE /\ app[Name(r)].by = NoRun
             /\ app' = [app EXCEPT ![Name(r)] = AppOf(r, "new")]
    <3>1. In(r, "submit", "running")
      BY <1>5 DEF Create
    <3>2. Name(r) \in Names
      BY <1>a, <3>1, NameOf DEF In, JobInv
    <3>3. app[Name(r)].writes = 0
      BY <2>3, <3>2 DEF JobInv, Life, NoApp, AppOf
    <3>4. \A n \in Names : app'[n] = IF n = Name(r) THEN AppOf(r, "new") ELSE app[n]
      BY <1>a, <2>3 DEF TypeOK
    <3>5. AppOf(r, "new").writes = 0
      BY DEF AppOf
    <3>6. \A n \in Names : app'[n] = app[n] \/ (app[n].writes = 0 /\ app'[n].writes = 0)
      BY <3>3, <3>4, <3>5
    <3>7. \A q \in Runs : Wrote(q)' = Wrote(q)
      BY <2>1, <3>6 DEF Wrote, OfJob, DagOf
    <3> QED  BY <2>1, <3>7, StateSame, JobStutters
  <2> QED  BY <1>5, <2>2, <2>3 DEF Create
<1>6. ASSUME NEW n \in Names, Submits(n) \/ GetsSpark(n) \/ Reads(n) \/ Completes(n) \/ Fails(n)
      PROVE  [Job!Next]_Job!vars
  <2>1. /\ UNCHANGED <<run, order, source, table>>
        /\ \E a : /\ app' = [app EXCEPT ![n] = a]
                 /\ a.by = app[n].by /\ a.writes = app[n].writes
    <3>1. app[n] \in Apps
      BY <1>a DEF TypeOK
    <3> QED
      BY <1>6, <3>1 DEF Submits, GetsSpark, Reads, Completes, Fails, Changes, airflowVars, Apps
  <2>2. \A m \in Names : app'[m].by = app[m].by /\ app'[m].writes = app[m].writes
    BY <1>a, <2>1 DEF TypeOK
  <2> QED  BY <2>1, <2>2, WroteSame, StateSame, JobStutters
<1>7. ASSUME NEW n \in Names, Replaces(n)  PROVE [Job!Next]_Job!vars
  <2> DEFINE r == app[n].by
  <2>1. /\ UNCHANGED <<run, order, source>> /\ table' = app[n].seen /\ app[n].step = "read"
        /\ app' = [app EXCEPT ![n] = [app[n] EXCEPT !.step = "replaced", !.writes = @ + 1]]
    BY <1>7 DEF Replaces, Changes, airflowVars
  <2>2. Owner(n) /\ Life(n, app[n]) /\ app[n] \in Apps
    BY <1>a DEF JobInv, TypeOK
  <2>3. r \in Runs
    BY <2>1, <2>2 DEF Life, NoApp, AppOf, Apps
  <2>4. OfJob(r) /\ run[r] # "none"
    BY <2>1, <2>2, <2>3, NameFacts DEF Life, Owner, OfJob
  <2>5. order[r].since <= table' /\ table' <= source /\ order[r].since \in Nat
        /\ source \in Nat /\ table' \in Nat
    BY <1>a, <2>1, <2>2, <2>3 DEF Life, TypeOK
  <2>6. JobState(r) # "none"
    BY <2>4 DEF JobState
  <2>7. \A m \in Names : /\ app'[m].by = app[m].by
                         /\ app'[m].writes = IF m = n THEN app[n].writes + 1 ELSE app[m].writes
    BY <1>a, <2>1, <2>2 DEF TypeOK, Apps
  <2>8. app[n].writes + 1 > 0
    BY <2>2 DEF Apps
  <2>9. \A q \in Runs : Wrote(q)' = IF q = r THEN TRUE ELSE Wrote(q)
    BY <2>1, <2>4, <2>7, <2>8 DEF Wrote, OfJob, DagOf
  <2>10. [q \in Runs |-> Wrote(q)]' = [[q \in Runs |-> Wrote(q)] EXCEPT ![r] = TRUE]
    BY <2>9, Zenon
  <2>11. \A q \in Runs : JobState(q)' = JobState(q) /\ OfJob(q)' = OfJob(q)
    BY <2>1 DEF JobState, OfJob, DagOf
  <2>12. /\ [q \in Runs |-> JobState(q)]' = [q \in Runs |-> JobState(q)]
         /\ [q \in Runs |-> IF OfJob(q) THEN order[q].since ELSE 0]'
            = [q \in Runs |-> IF OfJob(q) THEN order[q].since ELSE 0]
    BY <2>1, <2>11
  <2> HIDE DEF r
  <2>13. \E v \in [q \in Runs |-> IF OfJob(q) THEN order[q].since ELSE 0][r]..source : table' = v
    BY <2>3, <2>4, <2>5
  <2>14. [q \in Runs |-> JobState(q)][r] # "none"
    BY <2>3, <2>6
  <2>15. Job!Replace(r)
    BY <2>1, <2>10, <2>12, <2>13, <2>14, Zenon DEF Job!Replace
  <2> QED  BY <2>3, <2>15 DEF Job!Next
<1>8. ASSUME Arrive  PROVE [Job!Next]_Job!vars
  <2>1. source' = source + 1 /\ UNCHANGED <<run, order, app, table>>
    BY <1>8 DEF Arrive, airflowVars, tableVars
  <2>2. \A q \in Runs : JobState(q)' = JobState(q) /\ OfJob(q)' = OfJob(q) /\ Wrote(q)' = Wrote(q)
    BY <2>1, WroteSame DEF JobState, OfJob, DagOf
  <2>3. [q \in Runs |-> Wrote(q)]' = [q \in Runs |-> Wrote(q)]
    BY <2>2, Zenon
  <2>4. /\ [q \in Runs |-> JobState(q)]' = [q \in Runs |-> JobState(q)]
        /\ [q \in Runs |-> IF OfJob(q) THEN order[q].since ELSE 0]'
           = [q \in Runs |-> IF OfJob(q) THEN order[q].since ELSE 0]
    BY <2>1, <2>2
  <2> QED  BY <2>1, <2>3, <2>4 DEF Job!Next, Job!Arrive
<1>9. ASSUME NEW r \in Runs, NEW k \in TasksOf(r), Begin(r, k) \/ Lost(r, k)
      PROVE  [Job!Next]_Job!vars
  BY <1>1, <1>9 DEF Begin, Lost, tableVars, hostVars
<1>10. ASSUME NEW r \in Runs, Push(r) \/ Poke(r) \/ Connect(r) \/ ReplaceDemo(r) \/ Returns(r)
       PROVE  [Job!Next]_Job!vars
  BY <1>1, <1>10 DEF Push, Poke, Connect, ReplaceDemo, Returns, tableVars, hostVars
<1>11. CASE UNCHANGED vars
  BY <1>1, <1>11 DEF vars, airflowVars, tableVars, hostVars
<1> QED
  BY <1>2, <1>3, <1>4, <1>5, <1>6, <1>7, <1>8, <1>9, <1>10, <1>11
  DEF Next, Progress, RunStep, TaskStep, AppStep

\* The DAG spark_main_iceberg and its job implement TableJob: the table is replaced
\* for a run that was triggered, with data read since then, and a run is green only
\* if it was.
THEOREM MainIcebergImplementsTableJob == Spec => ImplementsTableJob
<1>1. JobInv /\ JobInv' /\ [Next]_vars => [Job!Next]_Job!vars
  BY JobStep
<1> QED  BY <1>1, JobInit, JobInvariant, PTL DEF Spec, ImplementsTableJob, Job!Spec

=============================================================================
