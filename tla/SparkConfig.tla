----------------------------- MODULE SparkConfig -----------------------------
(***************************************************************************)
(* sparglim/config/configer.py and builder.py, and the notebook that uses  *)
(* them, sparglim/sql: a process collects the configuration of its Spark   *)
(* session from the environment, from the cluster and from its own dicts,  *)
(* opens the session once, and hands it out until clear().                 *)
(*                                                                         *)
(* The value of a configuration key is abstracted to where it came from:   *)
(* the environment variable, a default, the caller, the cluster.  Of the   *)
(* some seventy keys of the mappers the model keeps those the control flow *)
(* depends on, and one of each kind otherwise.  A dict is the sequence of  *)
(* its items, in insertion order, because Config.update stops in the       *)
(* middle of one when it meets a second master; an item whose value is     *)
(* Absent is not there.  The environment belongs to the process and may    *)
(* change between two calls: env, the variables that are set, is a         *)
(* parameter of the calls that read it.                                    *)
(***************************************************************************)
EXTENDS Naturals, Sequences

CONSTANTS
  Customs,    \* the dicts callers pass
  Settable    \* the environment variables that may be set

MasterKeys == {"master", "remote"}
Keys == MasterKeys \cup {"s3", "memory", "vendor", "amount", "ca", "port", "eager"}
EnvVars == {"SPARGLIM_MASTER", "SPARGLIM_REMOTE", "S3_ACCESS_KEY",
            "AWS_ACCESS_KEY_ID", "SPARGLIM_K8S_GPU_AMOUNT",
            "SPARGLIM_CONNECT_SERVER_PORT"}
Modes == {"local", "connect_client", "k8s"}

\* "None" is Python's None as a value; Absent is no such key.
Absent == "absent"
Origins == EnvVars \cup {"default", "custom", "cluster", "None", "true"}

Item(k, v) == [key |-> k, value |-> v]
Items == [key : Keys, value : Origins \cup {Absent}]
Dicts == Seq(Items)

ASSUME CustomsAssumption == Customs \subseteq Dicts

VARIABLES
  conf,        \* _config: the origin of the value of each key
  configured,  \* _config.master_configured
  held,        \* _spark of the builder is a session: the last one opened
  running,     \* that session has not been stopped
  sconf,       \* its configuration, NoConf once it is neither held nor running
  loaded,      \* the extension sparglim.sql: "never" loaded, "now", or "before": %sql stays
  shown,       \* the variable `spark` of the notebook: the session above
               \* ("last"), one before it ("stale"), or "none"
  raised       \* the exception the last call raised, "no" if none

configVars == <<conf, configured>>
sessionVars == <<held, running, sconf>>
notebookVars == <<loaded, shown>>
vars == <<configVars, sessionVars, notebookVars, raised>>

Exceptions == {"no", "already", "unconfigurable", "spark"}
Confs == [Keys -> Origins \cup {Absent}]
NoConf == [k \in Keys |-> Absent]

TypeOK ==
  /\ conf \in Confs /\ configured \in BOOLEAN
  /\ held \in BOOLEAN /\ running \in BOOLEAN /\ sconf \in Confs
  /\ loaded \in {"never", "now", "before"} /\ shown \in {"last", "stale", "none"}
  /\ raised \in Exceptions

-----------------------------------------------------------------------------
(* _config_from_env: the first variable that is set gives the value, else  *)
(* the default does; a key with neither is left out.                       *)

Mapped(k, vs, default) == [key |-> k, vars |-> vs, default |-> default]

DefaultMapper == <<Mapped("s3", <<"S3_ACCESS_KEY", "AWS_ACCESS_KEY_ID">>, Absent)>>
LocalMapper == <<Mapped("master", <<"SPARGLIM_MASTER">>, "default"),
                 Mapped("memory", <<>>, "default")>>
ClientMapper == <<Mapped("remote", <<"SPARGLIM_REMOTE">>, "default")>>
ServerMapper == <<Mapped("port", <<"SPARGLIM_CONNECT_SERVER_PORT">>, Absent)>>
K8sMapper == <<Mapped("master", <<"SPARGLIM_MASTER">>, "default"),
               Mapped("memory", <<>>, "default"),
               Mapped("vendor", <<>>, "default"),
               Mapped("amount", <<"SPARGLIM_K8S_GPU_AMOUNT">>, Absent)>>

FromVars(m, env) ==
  LET set == {i \in DOMAIN m.vars : m.vars[i] \in env}
  IN  IF set = {} THEN m.default
      ELSE m.vars[CHOOSE i \in set : \A j \in set : i <= j]

FromEnv(mapper, env) ==
  [i \in DOMAIN mapper |-> Item(mapper[i].key, FromVars(mapper[i], env))]

\* The items of a dict with key k, and its value.
At(dict, k) == {i \in DOMAIN dict : dict[i].key = k /\ dict[i].value # Absent}
Value(dict, k) ==
  IF At(dict, k) = {} THEN Absent ELSE dict[CHOOSE i \in At(dict, k) : TRUE].value

\* {**a, **b}: a's items with b's values where it has one, then b's others.
Over(a, b) ==
  [i \in DOMAIN a |->
     IF a[i].value # Absent /\ At(b, a[i].key) # {}
     THEN Item(a[i].key, Value(b, a[i].key)) ELSE a[i]]
  \o [i \in DOMAIN b |->
        IF At(a, b[i].key) # {} THEN Item(b[i].key, Absent) ELSE b[i]]

-----------------------------------------------------------------------------
(* A Config and the exception a call on it raised.                         *)

NoRaise(cf, flag) == [conf |-> cf, configured |-> flag, raised |-> "no"]
Now == NoRaise(conf, configured)

\* initialize(): a new Config of the default mapper, which has no master.
Initialized(env) ==
  NoRaise([k \in Keys |-> Value(FromEnv(DefaultMapper, env), k)], FALSE)

MasterItems(dict) == UNION {At(dict, k) : k \in MasterKeys}

\* Two bugs to catch: the flag is looked at once per dict; it is never looked at.
RefusedLate(b, dict) == IF b.configured THEN MasterItems(dict) ELSE {}
RefusedNever(b, dict) == {}

\* The items Config.__setitem__ refuses: a master is set already, or was by an
\* earlier item of the same dict.
Refused(b, dict) ==
  {i \in MasterItems(dict) : b.configured \/ \E j \in MasterItems(dict) : j < i}

\* config(dict), that is Config.update: item by item, up to the first refused
\* one.  What has been set stays set.
Done(b, dict) == {i \in DOMAIN dict : \A j \in Refused(b, dict) : i < j}

Merge(b, dict) ==
  LET done == Done(b, dict)
      set(k) == At(dict, k) \cap done
  IN  IF b.raised # "no" THEN b
      ELSE [conf |-> [k \in Keys |-> IF set(k) = {} THEN b.conf[k]
                                     ELSE dict[CHOOSE i \in set(k) : TRUE].value],
            configured |-> b.configured \/ MasterItems(dict) \cap done # {},
            raised |-> IF done = DOMAIN dict THEN "no" ELSE "already"]

\* A bug to catch: the exception is not an UnconfigurableError.
UnconfigurableValue(b) == [b EXCEPT !.raised = IF @ = "no" THEN "value" ELSE @]

Unconfigurable(b) == [b EXCEPT !.raised = IF @ = "no" THEN "unconfigurable" ELSE @]

WithLocal(b, custom, env) == Merge(b, Over(FromEnv(LocalMapper, env), custom))
WithClient(b, custom, env) == Merge(b, Over(FromEnv(ClientMapper, env), custom))

\* config_k8s: without an amount there is no GPU.  A bug to catch: the vendor stays.
GpuKept(dict) == dict
Gpu(dict) ==
  [i \in DOMAIN dict |-> IF dict[i].key = "vendor" /\ At(dict, "amount") = {}
                         THEN Item("vendor", Absent) ELSE dict[i]]

\* The master is the cluster's, which is "unreadable", or has a CA file or none.
ClusterItems(cluster) ==
  <<Item("master", "cluster"), Item("ca", IF cluster = "ca" THEN "cluster" ELSE "None")>>

\* A bug to catch: SPARGLIM_MASTER goes over the URL of the cluster.
WithK8sOfEnv(b, custom, cluster, env) ==
  IF cluster = "unreadable" THEN Unconfigurable(b)
  ELSE Merge(b, Over(Over(ClusterItems(cluster), Gpu(FromEnv(K8sMapper, env))), custom))

WithK8s(b, custom, cluster, env) ==
  IF cluster = "unreadable" THEN Unconfigurable(b)
  ELSE Merge(b, Over(Over(Gpu(FromEnv(K8sMapper, env)), ClusterItems(cluster)), custom))

WithMode(b, m, custom, cluster, env) ==
  IF m = "local" THEN WithLocal(b, custom, env)
  ELSE IF m = "connect_client" THEN WithClient(b, custom, env)
  ELSE IF m = "k8s" THEN WithK8s(b, custom, cluster, env)
  ELSE Unconfigurable(b)

\* config_connect_server knows two of the modes, and none at all, with which the
\* caller's dict is not used.
WithServer(b, m, custom, cluster, env) ==
  LET c == IF m = "no" THEN b
           ELSE IF m \in {"local", "k8s"} THEN WithMode(b, m, custom, cluster, env)
           ELSE Unconfigurable(b)
  IN  Merge(c, FromEnv(ServerMapper, env))

\* What the cluster can be like; no other mode asks.
Clusters(m) == IF m = "k8s" THEN {"unreadable", "ca", "noCa"} ELSE {"noCa"}

-----------------------------------------------------------------------------
(* The calls.                                                              *)

Init ==
  /\ \E env \in SUBSET Settable : conf = Initialized(env).conf
  /\ configured = FALSE
  /\ held = FALSE /\ running = FALSE /\ sconf = NoConf
  /\ loaded = "never" /\ shown = "none" /\ raised = "no"

Becomes(b) == conf' = b.conf /\ configured' = b.configured /\ raised' = b.raised

Configure(b) == Becomes(b) /\ UNCHANGED <<sessionVars, notebookVars>>

\* config, config_s3 (and config_kerberos), config_local, config_connect_client,
\* config_k8s and config_connect_server.
Config(c) == Configure(Merge(Now, c))
ConfigS3(c, env) == Configure(Merge(Now, Over(FromEnv(DefaultMapper, env), c)))
ConfigMode(m, c, cluster, env) == Configure(WithMode(Now, m, c, cluster, env))
ConfigServer(m, c, cluster, env) == Configure(WithServer(Now, m, c, cluster, env))

\* get_all leaves None out.  A bug to catch: it does not.
GetAllRaw(cf) == cf
GetAll(cf) == [k \in Keys |-> IF cf[k] = "None" THEN Absent ELSE cf[k]]

\* SparkSession.builder.getOrCreate() of a process whose session is running
\* returns that one, with the options that can still be changed.
Opens(b) ==
  /\ Becomes(b)
  /\ sconf' = IF running THEN [sconf EXCEPT !["eager"] =
                                 IF b.conf["eager"] = Absent THEN @ ELSE b.conf["eager"]]
              ELSE GetAll(b.conf)
  /\ held' = TRUE /\ running' = TRUE

OpenFails(b) == Becomes([b EXCEPT !.raised = "spark"]) /\ UNCHANGED sessionVars

\* get_or_create() falls back to the local master.
Ready(b, env) == IF b.configured THEN b ELSE WithLocal(b, <<>>, env)

GetOrCreate(env) ==
  /\ \/ held /\ raised' = "no" /\ UNCHANGED <<configVars, sessionVars>>
     \/ ~held /\ OpenFails(Ready(Now, env))
     \/ ~held /\ Opens(Ready(Now, env))
  /\ UNCHANGED notebookVars

Forgotten(h, r) == IF h \/ r THEN sconf ELSE NoConf

\* A bug to catch: the session is dropped and not stopped.
ResetRunning(env) ==
  /\ Becomes(Initialized(env))
  /\ held' = FALSE /\ sconf' = Forgotten(FALSE, running) /\ UNCHANGED running
  /\ shown' = IF shown = "last" THEN "stale" ELSE shown

Reset(env) ==
  /\ Becomes(Initialized(env))
  /\ held' = FALSE /\ running' = (running /\ ~held)
  /\ sconf' = Forgotten(held', running')
  /\ shown' = IF shown = "last" THEN "stale" ELSE shown

Clear(env) == Reset(env) /\ UNCHANGED loaded

\* The notebook stops the session it was given: the builder does not notice.
StopSession ==
  /\ running /\ running' = FALSE /\ sconf' = Forgotten(held, FALSE)
  /\ raised' = "no"
  /\ UNCHANGED <<configVars, held, notebookVars>>

-----------------------------------------------------------------------------
(* %load_ext sparglim.sql: SparkMagic.__init__, then a cell that assigns   *)
(* `spark`.  An exception of SparkMagic fails the load; one of the cell is *)
(* only shown.                                                             *)

Eager == <<Item("eager", "true")>>

\* set_runtime_conf.  A bug to catch: it is not called.
RuntimeEagerNot == UNCHANGED sconf
RuntimeEager == sconf' = [sconf EXCEPT !["eager"] = "true"]

LoadWithSession ==
  /\ held
  /\ \/ /\ running /\ RuntimeEager
        /\ loaded' = "now" /\ shown' = "last" /\ raised' = "no"
     \/ ~running /\ raised' = "spark" /\ UNCHANGED <<sconf, notebookVars>>
  /\ UNCHANGED <<configVars, held, running>>

LoadWithout(mode, cluster, env) ==
  LET b == WithMode(Merge(Now, Eager), mode, <<>>, cluster, env)
  IN  /\ ~held
      /\ \/ b.raised # "no" /\ Becomes(b) /\ UNCHANGED <<sessionVars, notebookVars>>
         \/ b.raised = "no" /\ OpenFails(Ready(b, env)) /\ loaded' = "now" /\ UNCHANGED shown
         \/ b.raised = "no" /\ Opens(Ready(b, env)) /\ loaded' = "now" /\ shown' = "last"

LoadExt(env) ==
  /\ loaded # "now"
  /\ \/ LoadWithSession
     \/ \E mode \in Modes \cup {"other"} :
          \E cluster \in Clusters(mode) : LoadWithout(mode, cluster, env)

UnloadExt(env) == loaded = "now" /\ loaded' = "before" /\ Reset(env)

\* %sql: a cell without statements does nothing.  Otherwise each one asks for the
\* session, which the first may have to open, and is run on it; the first that fails
\* ends the cell.
Sql(env) ==
  /\ loaded # "never" /\ UNCHANGED notebookVars
  /\ \/ raised' = "no" /\ UNCHANGED <<configVars, sessionVars>>
     \/ held /\ raised' = "spark" /\ UNCHANGED <<configVars, sessionVars>>
     \/ ~held /\ OpenFails(Ready(Now, env))
     \/ ~held /\ \E r \in {"no", "spark"} : Opens([Ready(Now, env) EXCEPT !.raised = r])

-----------------------------------------------------------------------------

Call(env) ==
  \/ \E c \in Customs :
       \/ Config(c) \/ ConfigS3(c, env)
       \/ \E m \in Modes : \E cluster \in Clusters(m) : ConfigMode(m, c, cluster, env)
       \/ \E m \in {"no", "local", "k8s", "other"} :
            \E cluster \in Clusters(m) : ConfigServer(m, c, cluster, env)
  \/ GetOrCreate(env) \/ Clear(env) \/ LoadExt(env) \/ UnloadExt(env)
  \/ Sql(env)

Next == StopSession \/ \E env \in SUBSET Settable : Call(env)

Spec == Init /\ [][Next]_vars

-----------------------------------------------------------------------------
(* Properties.                                                             *)

\* Config.__setitem__: however calls fail, in the middle of a dict or before it,
\* there is one spark.master or spark.remote when the flag is up, and none before.
OneMaster ==
  /\ configured <=> \E k \in MasterKeys : conf[k] # Absent
  /\ \A j, k \in MasterKeys : conf[j] # Absent /\ conf[k] # Absent => j = k

\* The session get_or_create hands out runs on the master in the configuration,
\* also after a clear and a new choice, though pyspark prefers a running session.
SessionMatchesConfig ==
  held => configured /\ \A k \in MasterKeys : sconf[k] = GetAll(conf)[k]

\* The `spark` of a notebook shows DataFrames eagerly, whether SparkMagic opened
\* the session or found one.
ShownIsEager == shown = "last" /\ held => sconf["eager"] = "true"

\* The CA file of a cluster goes with the cluster's own URL, or one the caller
\* gave, never with SPARGLIM_MASTER or a default.
CaGoesWithMaster ==
  conf["ca"] # Absent => conf["master"] \in {"cluster", "custom"}

\* No session is asked for a GPU by default, or given None for a CA file, whatever
\* sequence of calls built its configuration.
SessionsAreClean ==
  /\ \A k \in Keys : sconf[k] # "None"
  /\ sconf["vendor"] = "default" => sconf["amount"] # Absent

\* The builder implements SessionLifecycle.
NoMaster == <<>>
MasterOf(cf) ==
  IF cf["master"] # Absent THEN <<"master", cf["master"]>>
  ELSE IF cf["remote"] # Absent THEN <<"remote", cf["remote"]>>
  ELSE NoMaster
OpenOn == IF held THEN MasterOf(sconf) ELSE NoMaster

Lifecycle == INSTANCE SessionLifecycle WITH
               Masters <- MasterKeys \X Origins,
               chosen <- MasterOf(conf), open <- OpenOn
ImplementsLifecycle == Lifecycle!Spec

\* "ConfigBuilder already configured, try get_or_create() or clear()": the call
\* that raises AlreadyConfiguredError found a master already configured.
AlreadyMeansConfigured == [][raised' = "already" => configured]_vars

=============================================================================
