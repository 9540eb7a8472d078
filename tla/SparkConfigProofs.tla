------------------------- MODULE SparkConfigProofs --------------------------
(***************************************************************************)
(* For every set of dicts and of environment variables: the configuration  *)
(* keeps its type, has at most one master, and the session the builder     *)
(* holds runs on it; and the builder implements SessionLifecycle.          *)
(***************************************************************************)
EXTENDS SparkConfig, SequenceTheorems, TLAPS

\* A Config as a call may leave it.
OneMasterIn(b) ==
  /\ b.configured <=> \E k \in MasterKeys : b.conf[k] # Absent
  /\ \A j, k \in MasterKeys : b.conf[j] # Absent /\ b.conf[k] # Absent => j = k

Configs == [conf : Confs, configured : BOOLEAN, raised : Exceptions]
Good(b) == b \in Configs /\ OneMasterIn(b)

\* c may follow b without a clear.
Keeps(b, c) ==
  b.configured => c.configured /\ \A k \in MasterKeys : c.conf[k] = b.conf[k]

LEMMA AbsentIsNoOrigin == Absent \notin Origins
BY DEF Absent, Origins, EnvVars

LEMMA MasterItemsOf ==
  ASSUME NEW dict, NEW i
  PROVE  i \in MasterItems(dict) <=>
           i \in DOMAIN dict /\ dict[i].key \in MasterKeys /\ dict[i].value # Absent
BY DEF MasterItems, At

\* What config() does to a Config, whatever the dict: one that has a master keeps
\* it, one that has none gets at most one.
LEMMA MergeGood ==
  ASSUME NEW b, Good(b), NEW dict \in Dicts
  PROVE  Good(Merge(b, dict)) /\ Keeps(b, Merge(b, dict))
<1>1. CASE b.raised # "no"
  BY <1>1 DEF Merge, Keeps
<1>2. CASE b.raised = "no"
  <2> DEFINE done == Done(b, dict)
             set(k) == At(dict, k) \cap done
             c == Merge(b, dict)
  <2>0. \A i \in DOMAIN dict : dict[i] \in Items
    BY DEF Dicts
  <2>1. /\ c.conf = [k \in Keys |-> IF set(k) = {} THEN b.conf[k]
                                    ELSE dict[CHOOSE i \in set(k) : TRUE].value]
        /\ c.configured = (b.configured \/ MasterItems(dict) \cap done # {})
        /\ c.raised \in {"no", "already"}
        /\ c \in [conf : {c.conf}, configured : {c.configured}, raised : {c.raised}]
    BY <1>2 DEF Merge
  <2>2. \A k \in Keys : set(k) # {} =>
          /\ dict[CHOOSE i \in set(k) : TRUE].value \in Origins
          /\ dict[CHOOSE i \in set(k) : TRUE].value # Absent
    BY <2>0, AbsentIsNoOrigin DEF At, Items
  <2>3. c.conf \in Confs
    BY <2>1, <2>2 DEF Good, Configs, Confs
  <2>4. c \in Configs
    BY <2>1, <2>3 DEF Good, Configs, Exceptions
  <2>5. MasterKeys \subseteq Keys
    BY DEF Keys
  <2>6. \A i \in DOMAIN dict : i \in Nat
    BY LenProperties DEF Dicts
  <2>7. CASE b.configured
    <3>1. \A k \in MasterKeys : set(k) = {}
      <4>1. SUFFICES ASSUME NEW k \in MasterKeys, NEW i \in set(k)  PROVE FALSE
        OBVIOUS
      <4>2. i \in DOMAIN dict /\ i \in MasterItems(dict)
        BY DEF MasterItems, At
      <4>3. i \in Refused(b, dict)
        BY <2>7, <4>2 DEF Refused
      <4> QED  BY <2>6, <4>2, <4>3 DEF Done
    <3>2. \A k \in MasterKeys : c.conf[k] = b.conf[k]
      BY <2>1, <2>5, <3>1
    <3> QED  BY <2>1, <2>4, <2>7, <3>2 DEF Good, OneMasterIn, Keeps
  <2>8. CASE ~b.configured
    <3>1. \A i, j \in MasterItems(dict) \cap done : i = j
      <4>1. SUFFICES ASSUME NEW i \in MasterItems(dict) \cap done,
                            NEW j \in MasterItems(dict) \cap done, j < i
                     PROVE  FALSE
        BY <2>6, MasterItemsOf
      <4>2. i \in Refused(b, dict) /\ i \in Nat
        BY <2>6, <4>1, MasterItemsOf DEF Refused
      <4> QED  BY <4>2 DEF Done
    <3>2. \A k \in MasterKeys : c.conf[k] # Absent <=> set(k) # {}
      BY <2>1, <2>2, <2>5, <2>8 DEF Good, OneMasterIn
    <3>3. \A k \in MasterKeys : set(k) # {} =>
            \E i \in MasterItems(dict) \cap done : dict[i].key = k
      BY DEF MasterItems, At
    <3>4. MasterItems(dict) \cap done # {} => \E k \in MasterKeys : set(k) # {}
      BY DEF MasterItems, At
    <3>5. c.configured <=> \E k \in MasterKeys : c.conf[k] # Absent
      BY <2>1, <2>8, <3>2, <3>3, <3>4
    <3>6. \A j, k \in MasterKeys : c.conf[j] # Absent /\ c.conf[k] # Absent => j = k
      BY <3>1, <3>2, <3>3
    <3> HIDE DEF c
    <3> QED  BY <2>4, <2>8, <3>5, <3>6 DEF Good, OneMasterIn, Keeps, c
  <2> QED  BY <2>7, <2>8
<1> QED  BY <1>1, <1>2

-----------------------------------------------------------------------------
(* The dicts the calls merge.                                              *)

\* {**a, **b} is a dict.
LEMMA OverDict ==
  ASSUME NEW a \in Dicts, NEW b \in Dicts
  PROVE  Over(a, b) \in Dicts
<1>1. \A k : Value(b, k) \in Origins \cup {Absent}
  <2>1. \A i \in DOMAIN b : b[i] \in Items
    BY DEF Dicts
  <2> QED  BY <2>1 DEF Value, At, Items
<1> DEFINE left(i) == IF a[i].value # Absent /\ At(b, a[i].key) # {}
                      THEN Item(a[i].key, Value(b, a[i].key)) ELSE a[i]
           right(i) == IF At(a, b[i].key) # {} THEN Item(b[i].key, Absent) ELSE b[i]
<1>2. [i \in DOMAIN a |-> left(i)] \in Dicts
  <2>1. Len(a) \in Nat /\ DOMAIN a = 1..Len(a) /\ \A i \in 1..Len(a) : a[i] \in Items
    BY LenProperties DEF Dicts
  <2>2. \A i \in 1..Len(a) : left(i) \in Items
    BY <1>1, <2>1 DEF Items, Item
  <2> HIDE DEF left
  <2> QED  BY <2>1, <2>2, IsASeq DEF Dicts
<1>3. [i \in DOMAIN b |-> right(i)] \in Dicts
  <2>1. Len(b) \in Nat /\ DOMAIN b = 1..Len(b) /\ \A i \in 1..Len(b) : b[i] \in Items
    BY LenProperties DEF Dicts
  <2>2. \A i \in 1..Len(b) : right(i) \in Items
    BY <2>1 DEF Items, Item
  <2> HIDE DEF right
  <2> QED  BY <2>1, <2>2, IsASeq DEF Dicts
<1> QED  BY <1>2, <1>3, ConcatProperties DEF Over, Dicts

\* An entry of a mapper, of up to two variables.
Entries ==
  {m \in [key : Keys, vars : Seq(EnvVars), default : Origins \cup {Absent}] :
     Len(m.vars) <= 2}

\* _config_from_env gives a dict.
LEMMA FromEnvDict ==
  ASSUME NEW mapper \in Seq(Entries), NEW env
  PROVE  /\ FromEnv(mapper, env) \in Dicts
         /\ \A i \in DOMAIN mapper :
              FromVars(mapper[i], env) \in EnvVars \cup {mapper[i].default}
<1>1. Len(mapper) \in Nat /\ DOMAIN mapper = 1..Len(mapper)
  BY LenProperties
<1>2. \A i \in DOMAIN mapper :
        /\ mapper[i].key \in Keys /\ mapper[i].default \in Origins \cup {Absent}
        /\ mapper[i].vars \in Seq(EnvVars) /\ Len(mapper[i].vars) <= 2
  <2>1. \A i \in DOMAIN mapper : mapper[i] \in Entries
    BY <1>1, ElementOfSeq
  <2> QED  BY <2>1 DEF Entries
<1>3. ASSUME NEW i \in DOMAIN mapper
      PROVE  FromVars(mapper[i], env) \in EnvVars \cup {mapper[i].default}
  <2> DEFINE vs == mapper[i].vars
             set == {j \in DOMAIN vs : vs[j] \in env}
  <2>1. vs \in Seq(EnvVars) /\ Len(vs) <= 2
    BY <1>2, <1>3
  <2>2. Len(vs) \in Nat /\ DOMAIN vs = 1..Len(vs) /\ \A j \in DOMAIN vs : vs[j] \in EnvVars
    BY <2>1, LenProperties
  <2>3. set # {} => \E j \in set : \A l \in set : j <= l
    BY <2>1, <2>2
  <2> QED  BY <2>2, <2>3 DEF FromVars
<1>4. \A i \in 1..Len(mapper) : Item(mapper[i].key, FromVars(mapper[i], env)) \in Items
  BY <1>2, <1>1, <1>3 DEF Items, Item, Origins
<1> DEFINE item(i) == Item(mapper[i].key, FromVars(mapper[i], env))
<1>5. [i \in 1..Len(mapper) |-> item(i)] \in Seq(Items)
  <2>1. \A i \in 1..Len(mapper) : item(i) \in Items
    BY <1>4
  <2> HIDE DEF item
  <2> QED  BY <1>1, <2>1, IsASeq
<1> QED  BY <1>1, <1>3, <1>5 DEF FromEnv, Dicts

LEMMA MappersAreEntries ==
  /\ DefaultMapper \in Seq(Entries) /\ LocalMapper \in Seq(Entries)
  /\ ClientMapper \in Seq(Entries) /\ ServerMapper \in Seq(Entries)
  /\ K8sMapper \in Seq(Entries)
<1> DEFINE optional == Origins \cup {Absent}
<1>0. ASSUME NEW k \in Keys, NEW default \in optional,
             NEW vs \in Seq(EnvVars), Len(vs) <= 2
      PROVE  Mapped(k, vs, default) \in Entries
  BY <1>0 DEF Mapped, Entries
<1>1. ASSUME NEW k \in Keys, NEW default \in optional
      PROVE  Mapped(k, <<>>, default) \in Entries
  <2>1. <<>> \in Seq(EnvVars) /\ Len(<<>>) <= 2
    OBVIOUS
  <2> QED  BY <1>0, <2>1
<1>2. ASSUME NEW k \in Keys, NEW default \in optional, NEW v \in EnvVars
      PROVE  Mapped(k, <<v>>, default) \in Entries
  <2>1. <<v>> \in Seq(EnvVars) /\ Len(<<v>>) <= 2
    OBVIOUS
  <2> QED  BY <1>0, <2>1
<1>3. ASSUME NEW k \in Keys, NEW default \in optional, NEW v \in EnvVars, NEW w \in EnvVars
      PROVE  Mapped(k, <<v, w>>, default) \in Entries
  <2>1. <<v, w>> \in Seq(EnvVars) /\ Len(<<v, w>>) <= 2
    OBVIOUS
  <2> QED  BY <1>0, <2>1
<1>4. {"default", Absent} \subseteq optional
  BY DEF Origins
<1>5. /\ {"s3", "memory", "vendor", "amount", "port", "master", "remote"} \subseteq Keys
      /\ {"SPARGLIM_MASTER", "SPARGLIM_REMOTE", "S3_ACCESS_KEY", "AWS_ACCESS_KEY_ID",
          "SPARGLIM_K8S_GPU_AMOUNT", "SPARGLIM_CONNECT_SERVER_PORT"} \subseteq EnvVars
  BY DEF Keys, MasterKeys, EnvVars
<1> HIDE DEF optional
<1>6. DefaultMapper \in Seq(Entries)
  BY <1>3, <1>4, <1>5 DEF DefaultMapper
<1>7. LocalMapper \in Seq(Entries)
  BY <1>1, <1>2, <1>4, <1>5 DEF LocalMapper
<1>8. ClientMapper \in Seq(Entries) /\ ServerMapper \in Seq(Entries)
  BY <1>2, <1>4, <1>5 DEF ClientMapper, ServerMapper
<1>9. K8sMapper \in Seq(Entries)
  BY <1>1, <1>2, <1>4, <1>5 DEF K8sMapper
<1> QED  BY <1>6, <1>7, <1>8, <1>9

LEMMA NoDict == <<>> \in Dicts
BY EmptySeq DEF Dicts

LEMMA ClusterDict ==
  ASSUME NEW cluster  PROVE ClusterItems(cluster) \in Dicts
BY DEF ClusterItems, Dicts, Items, Item, Keys, MasterKeys, Origins

LEMMA GpuDict ==
  ASSUME NEW dict \in Dicts  PROVE Gpu(dict) \in Dicts
<1> DEFINE item(i) == IF dict[i].key = "vendor" /\ At(dict, "amount") = {}
                      THEN Item("vendor", Absent) ELSE dict[i]
<1>1. Len(dict) \in Nat /\ DOMAIN dict = 1..Len(dict) /\ \A i \in 1..Len(dict) : dict[i] \in Items
  BY LenProperties DEF Dicts
<1>2. \A i \in 1..Len(dict) : item(i) \in Items
  BY <1>1 DEF Items, Item, Keys
<1> HIDE DEF item
<1>3. [i \in 1..Len(dict) |-> item(i)] \in Seq(Items)
  BY <1>1, <1>2, IsASeq
<1> QED  BY <1>1, <1>3 DEF Gpu, Dicts, item

-----------------------------------------------------------------------------
(* What each call does to a Config.                                        *)

LEMMA KeepsTrans ==
  ASSUME NEW b, NEW c, NEW e, Keeps(b, c), Keeps(c, e)
  PROVE  Keeps(b, e)
BY DEF Keeps

LEMMA UnconfigurableGood ==
  ASSUME NEW b, Good(b)
  PROVE  Good(Unconfigurable(b)) /\ Keeps(b, Unconfigurable(b))
BY DEF Good, Keeps, Unconfigurable, Configs, Exceptions, OneMasterIn

LEMMA WithModeGood ==
  ASSUME NEW b, Good(b), NEW m, NEW c \in Dicts, NEW cluster, NEW env
  PROVE  Good(WithMode(b, m, c, cluster, env)) /\ Keeps(b, WithMode(b, m, c, cluster, env))
<1>1. Good(WithLocal(b, c, env)) /\ Keeps(b, WithLocal(b, c, env))
  BY MappersAreEntries, FromEnvDict, OverDict, MergeGood DEF WithLocal
<1>2. Good(WithClient(b, c, env)) /\ Keeps(b, WithClient(b, c, env))
  BY MappersAreEntries, FromEnvDict, OverDict, MergeGood DEF WithClient
<1>3. Good(WithK8s(b, c, cluster, env)) /\ Keeps(b, WithK8s(b, c, cluster, env))
  <2>1. Over(Over(Gpu(FromEnv(K8sMapper, env)), ClusterItems(cluster)), c) \in Dicts
    BY MappersAreEntries, FromEnvDict, GpuDict, ClusterDict, OverDict
  <2> QED  BY <2>1, MergeGood, UnconfigurableGood DEF WithK8s
<1> QED  BY <1>1, <1>2, <1>3, UnconfigurableGood DEF WithMode

LEMMA WithServerGood ==
  ASSUME NEW b, Good(b), NEW m, NEW c \in Dicts, NEW cluster, NEW env
  PROVE  Good(WithServer(b, m, c, cluster, env)) /\ Keeps(b, WithServer(b, m, c, cluster, env))
<1> DEFINE e == IF m = "no" THEN b
                ELSE IF m \in {"local", "k8s"} THEN WithMode(b, m, c, cluster, env)
                ELSE Unconfigurable(b)
<1>1. Good(e) /\ Keeps(b, e)
  <2>1. CASE m = "no"
    BY <2>1 DEF Keeps
  <2>2. CASE m # "no"
    BY <2>2, WithModeGood, UnconfigurableGood
  <2> QED  BY <2>1, <2>2
<1>2. WithServer(b, m, c, cluster, env) = Merge(e, FromEnv(ServerMapper, env))
  BY DEF WithServer
<1> HIDE DEF e
<1> QED  BY <1>1, <1>2, MappersAreEntries, FromEnvDict, MergeGood, KeepsTrans

\* get_or_create() leaves a configured Config, whatever it found.
LEMMA ReadyGood ==
  ASSUME NEW b, Good(b), b.raised = "no", NEW env
  PROVE  /\ Good(Ready(b, env)) /\ Ready(b, env).configured
         /\ Keeps(b, Ready(b, env))
<1>1. CASE b.configured
  BY <1>1 DEF Ready, Keeps
<1>2. CASE ~b.configured
  <2> DEFINE dict == Over(FromEnv(LocalMapper, env), <<>>)
             from == FromEnv(LocalMapper, env)
  <2>1. dict \in Dicts /\ from \in Dicts
    BY MappersAreEntries, FromEnvDict, OverDict, NoDict
  <2>2. Good(WithLocal(b, <<>>, env)) /\ Keeps(b, WithLocal(b, <<>>, env))
    BY <2>1, MergeGood DEF WithLocal
  <2>3. from[1].key = "master" /\ from[1].value # Absent /\ 1 \in DOMAIN from
    <3>1. 1 \in DOMAIN LocalMapper /\ LocalMapper[1] = Mapped("master", <<"SPARGLIM_MASTER">>, "default")
      BY DEF LocalMapper
    <3>2. FromVars(LocalMapper[1], env) \in EnvVars \cup {"default"}
      <4>1. FromVars(LocalMapper[1], env) \in EnvVars \cup {LocalMapper[1].default}
        BY <3>1, MappersAreEntries, FromEnvDict
      <4> QED  BY <3>1, <4>1 DEF Mapped
    <3> QED  BY <3>1, <3>2 DEF FromEnv, Item, Mapped, EnvVars, Absent
  <2>4. 1 \in DOMAIN dict /\ dict[1] = from[1]
    <3> DEFINE left == [i \in DOMAIN from |->
                          IF from[i].value # Absent /\ At(<<>>, from[i].key) # {}
                          THEN Item(from[i].key, Value(<<>>, from[i].key)) ELSE from[i]]
               right == [i \in DOMAIN <<>> |->
                           IF At(from, <<>>[i].key) # {} THEN Item(<<>>[i].key, Absent)
                           ELSE <<>>[i]]
    <3>1. \A k : At(<<>>, k) = {}
      BY DEF At
    <3>2. left = from
      BY <2>1, <3>1, LenProperties DEF Dicts
    <3>3. right = <<>>
      OBVIOUS
    <3>4. dict = from \o <<>>
      BY <3>2, <3>3 DEF Over
    <3>5. Len(from) \in Nat /\ DOMAIN from = 1..Len(from) /\ DOMAIN dict = 1..Len(dict)
      BY <2>1, LenProperties DEF Dicts
    <3> QED  BY <2>1, <2>3, <3>4, <3>5, NoDict, EmptySeq, ConcatProperties DEF Dicts
  <2> HIDE DEF dict, from
  <2>5. 1 \in MasterItems(dict)
    BY <2>3, <2>4, MasterItemsOf DEF MasterKeys
  <2>6. 1 \in Done(b, dict)
    <3>1. \A i \in DOMAIN dict : i \in Nat /\ 1 <= i
      BY <2>1, LenProperties DEF Dicts
    <3>2. \A i \in Refused(b, dict) : 1 < i
      BY <1>2, <3>1, MasterItemsOf DEF Refused
    <3> QED  BY <2>4, <3>2 DEF Done
  <2>7. WithLocal(b, <<>>, env).configured
    BY <2>5, <2>6 DEF WithLocal, Merge, dict, from
  <2> QED  BY <1>2, <2>2, <2>7 DEF Ready
<1> QED  BY <1>1, <1>2

LEMMA InitializedGood ==
  ASSUME NEW env  PROVE Good(Initialized(env))
<1>1. FromEnv(DefaultMapper, env) \in Dicts
  BY MappersAreEntries, FromEnvDict
<1>2. \A i \in DOMAIN FromEnv(DefaultMapper, env) :
        FromEnv(DefaultMapper, env)[i] \in Items /\ FromEnv(DefaultMapper, env)[i].key = "s3"
  BY <1>1 DEF Dicts, FromEnv, DefaultMapper, Item, Mapped
<1>3. \A k \in Keys : Value(FromEnv(DefaultMapper, env), k) \in Origins \cup {Absent}
  BY <1>2 DEF Value, At, Items
<1>4. \A k \in MasterKeys : Value(FromEnv(DefaultMapper, env), k) = Absent
  BY <1>2 DEF Value, At, MasterKeys
<1> QED  BY <1>3, <1>4 DEF Good, OneMasterIn, Configs, Confs, Initialized, NoRaise,
                         Exceptions, Keys

-----------------------------------------------------------------------------
(* The inductive invariant.  A call raises anew, so what the last one      *)
(* raised is not part of the Config the next one starts from (Now).  A     *)
(* session that runs is one the builder holds: clear stops it, so pyspark  *)
(* has no session of an earlier master to return.                          *)

Inv ==
  /\ TypeOK
  /\ OneMaster
  /\ running => held
  /\ SessionMatchesConfig

LEMMA NowGood == Inv => Good(Now) /\ Now.raised = "no"
BY DEF Inv, TypeOK, OneMaster, Good, OneMasterIn, Configs, Now, NoRaise, Exceptions

\* A Good result gives conf and configured a type and one master.
LEMMA BecomesGood ==
  ASSUME NEW b, Good(b), Becomes(b)
  PROVE  /\ conf' \in Confs /\ configured' \in BOOLEAN /\ raised' \in Exceptions
         /\ OneMaster'
         /\ conf' = b.conf /\ configured' = b.configured
BY DEF Good, Configs, Becomes, OneMasterIn, OneMaster

LEMMA GetAllConf ==
  ASSUME NEW cf \in Confs
  PROVE  GetAll(cf) \in Confs
BY DEF GetAll, Confs

\* A call that only configures.
LEMMA ConfigureStep ==
  ASSUME Inv, NEW b, Good(b), Keeps(Now, b), Configure(b)
  PROVE  Inv'
<1>1. /\ conf' \in Confs /\ configured' \in BOOLEAN /\ raised' \in Exceptions
      /\ OneMaster' /\ conf' = b.conf /\ configured' = b.configured
  BY BecomesGood DEF Configure
<1>2. UNCHANGED <<held, running, sconf, loaded, shown>>
  BY DEF Configure, sessionVars, notebookVars
<1>3. SessionMatchesConfig'
  <2>1. SUFFICES ASSUME held  PROVE SessionMatchesConfig'
    BY <1>2 DEF SessionMatchesConfig
  <2>2. configured' /\ \A k \in MasterKeys : conf'[k] = conf[k] /\ sconf[k] = GetAll(conf)[k]
    BY <1>1, <2>1 DEF Inv, SessionMatchesConfig, Keeps, Now, NoRaise
  <2>3. \A k \in MasterKeys : GetAll(conf')[k] = GetAll(conf)[k]
    BY <2>2 DEF GetAll, Keys
  <2> QED  BY <1>2, <2>2, <2>3 DEF SessionMatchesConfig
<1> QED  BY <1>1, <1>2, <1>3 DEF Inv, TypeOK

\* A session is opened where there was none, on the Config b.
LEMMA OpensStep ==
  ASSUME Inv, ~held, NEW b, Good(b), b.configured, Opens(b),
         loaded' \in {"never", "now", "before"}, shown' \in {"last", "stale", "none"}
  PROVE  Inv'
<1>1. /\ conf' \in Confs /\ configured' \in BOOLEAN /\ raised' \in Exceptions
      /\ OneMaster' /\ conf' = b.conf /\ configured' = b.configured
  BY BecomesGood DEF Opens
<1>2. ~running /\ sconf' = GetAll(b.conf) /\ held' /\ running' /\ held' \in BOOLEAN /\ running' \in BOOLEAN
  BY DEF Inv, Opens
<1>3. sconf' \in Confs
  BY <1>1, <1>2, GetAllConf
<1> QED  BY <1>1, <1>2, <1>3 DEF Inv, TypeOK, SessionMatchesConfig

LEMMA OpenFailsStep ==
  ASSUME Inv, ~held, NEW b, Good(b), OpenFails(b),
         loaded' \in {"never", "now", "before"}, shown' \in {"last", "stale", "none"}
  PROVE  Inv'
<1>1. Good([b EXCEPT !.raised = "spark"])
  BY DEF Good, Configs, Exceptions, OneMasterIn
<1>2. conf' \in Confs /\ configured' \in BOOLEAN /\ raised' \in Exceptions /\ OneMaster'
  BY <1>1, BecomesGood DEF OpenFails
<1>3. UNCHANGED <<held, running, sconf>>
  BY DEF OpenFails, sessionVars
<1> QED  BY <1>2, <1>3 DEF Inv, TypeOK, SessionMatchesConfig

LEMMA ResetStep ==
  ASSUME Inv, NEW env, Reset(env), loaded' \in {"never", "now", "before"}
  PROVE  Inv'
<1>1. Good(Initialized(env))
  BY InitializedGood
<1>2. conf' \in Confs /\ configured' \in BOOLEAN /\ raised' \in Exceptions /\ OneMaster'
  BY <1>1, BecomesGood DEF Reset
<1>3. ~held' /\ ~running' /\ held' \in BOOLEAN /\ running' \in BOOLEAN
  BY DEF Reset, Inv
<1>4. sconf' \in Confs
  BY DEF Reset, Forgotten, Inv, TypeOK, NoConf, Confs
<1> QED  BY <1>2, <1>3, <1>4 DEF Inv, TypeOK, SessionMatchesConfig, Reset

LEMMA InitInv == Init => Inv
<1> SUFFICES ASSUME Init  PROVE Inv
  OBVIOUS
<1>1. PICK env : conf = Initialized(env).conf
  BY DEF Init
<1>2. Good(Initialized(env)) /\ Initialized(env).configured = FALSE
  BY InitializedGood DEF Initialized, NoRaise
<1>3. conf \in Confs /\ OneMaster
  BY <1>1, <1>2 DEF Init, Good, Configs, OneMasterIn, OneMaster
<1>4. NoConf \in Confs
  BY DEF NoConf, Confs
<1> QED  BY <1>3, <1>4 DEF Init, Inv, TypeOK, SessionMatchesConfig, Exceptions

-----------------------------------------------------------------------------
(* Every call is one of six kinds of step.  The invariant and the          *)
(* refinement below look at the kinds only.                                *)

Typed == loaded' \in {"never", "now", "before"} /\ shown' \in {"last", "stale", "none"}

Configures == \E b : Good(b) /\ Keeps(Now, b) /\ Configure(b)
HandsOut == raised' \in {"no", "spark"} /\ UNCHANGED <<configVars, sessionVars, notebookVars>>
OpensOn == \E b : ~held /\ Good(b) /\ b.configured /\ Keeps(Now, b) /\ Opens(b) /\ Typed
FailsToOpen == \E b : ~held /\ Good(b) /\ Keeps(Now, b) /\ OpenFails(b) /\ Typed
Resets == \E env : Reset(env) /\ loaded' \in {"never", "now", "before"}

CallKind == Configures \/ HandsOut \/ OpensOn \/ FailsToOpen \/ Resets \/ LoadWithSession

LEMMA LoadWithoutKind ==
  ASSUME Inv, NEW env, NEW mode, NEW cluster, LoadWithout(mode, cluster, env)
  PROVE  CallKind
<1> DEFINE a == Merge(Now, Eager)
           b == WithMode(a, mode, <<>>, cluster, env)
           e == Ready(b, env)
<1>1. Eager \in Dicts
  BY DEF Eager, Dicts, Items, Item, Keys, Origins
<1>2. Good(a) /\ Keeps(Now, a)
  BY <1>1, NowGood, MergeGood
<1>3. Good(b) /\ Keeps(a, b)
  <2> HIDE DEF a
  <2> QED  BY <1>2, NoDict, WithModeGood
<1>4. Keeps(Now, b)
  <2> HIDE DEF a, b
  <2> QED  BY <1>2, <1>3, KeepsTrans
<1>5. b.raised = "no" => Good(e) /\ e.configured /\ Keeps(Now, e)
  <2> HIDE DEF b
  <2> QED  BY <1>3, <1>4, ReadyGood, KeepsTrans
<1>6. ~held
  BY DEF LoadWithout
<1>7. CASE b.raised # "no" /\ Becomes(b) /\ UNCHANGED <<sessionVars, notebookVars>>
  <2> HIDE DEF b
  <2> QED  BY <1>3, <1>4, <1>7 DEF Configure, Configures, CallKind
<1>8. CASE b.raised = "no" /\ OpenFails(e) /\ loaded' = "now" /\ UNCHANGED shown
  <2> HIDE DEF b, e
  <2> QED  BY <1>5, <1>6, <1>8 DEF Inv, TypeOK, Typed, FailsToOpen, CallKind
<1>9. CASE b.raised = "no" /\ Opens(e) /\ loaded' = "now" /\ shown' = "last"
  <2> HIDE DEF b, e
  <2> QED  BY <1>5, <1>6, <1>9 DEF Typed, OpensOn, CallKind
<1> QED  BY <1>7, <1>8, <1>9 DEF LoadWithout

LEMMA CallKinds ==
  ASSUME Inv, NEW env, Call(env)  PROVE CallKind
<1>0. Good(Now) /\ Now.raised = "no" /\ Customs \subseteq Dicts
  BY NowGood, CustomsAssumption
<1>1. ASSUME NEW c \in Customs, Config(c)  PROVE Configures
  <2>1. Good(Merge(Now, c)) /\ Keeps(Now, Merge(Now, c))
    BY <1>0, MergeGood
  <2> QED  BY <1>1, <2>1 DEF Config, Configures
<1>2. ASSUME NEW c \in Customs, ConfigS3(c, env)  PROVE Configures
  <2>1. Over(FromEnv(DefaultMapper, env), c) \in Dicts
    BY <1>0, MappersAreEntries, FromEnvDict, OverDict
  <2>2. /\ Good(Merge(Now, Over(FromEnv(DefaultMapper, env), c)))
        /\ Keeps(Now, Merge(Now, Over(FromEnv(DefaultMapper, env), c)))
    BY <1>0, <2>1, MergeGood
  <2> QED  BY <1>2, <2>2 DEF ConfigS3, Configures
<1>3. ASSUME NEW c \in Customs, NEW m, NEW cluster, ConfigMode(m, c, cluster, env)
      PROVE  Configures
  <2>1. /\ Good(WithMode(Now, m, c, cluster, env))
        /\ Keeps(Now, WithMode(Now, m, c, cluster, env))
    BY <1>0, WithModeGood
  <2> QED  BY <1>3, <2>1 DEF ConfigMode, Configures
<1>4. ASSUME NEW c \in Customs, NEW m, NEW cluster, ConfigServer(m, c, cluster, env)
      PROVE  Configures
  <2>1. /\ Good(WithServer(Now, m, c, cluster, env))
        /\ Keeps(Now, WithServer(Now, m, c, cluster, env))
    BY <1>0, WithServerGood
  <2> QED  BY <1>4, <2>1 DEF ConfigServer, Configures
<1>5. ASSUME GetOrCreate(env)  PROVE CallKind
  <2> DEFINE b == Ready(Now, env)
  <2>1. Good(b) /\ b.configured /\ Keeps(Now, b)
    BY <1>0, ReadyGood
  <2>2. UNCHANGED notebookVars /\ Typed
    BY <1>5 DEF GetOrCreate, notebookVars, Typed, Inv, TypeOK
  <2>3. CASE held /\ raised' = "no" /\ UNCHANGED <<configVars, sessionVars>>
    BY <2>2, <2>3 DEF HandsOut, CallKind
  <2>4. CASE ~held /\ OpenFails(b)
    <3> HIDE DEF b
    <3> QED  BY <2>1, <2>2, <2>4 DEF FailsToOpen, CallKind
  <2>5. CASE ~held /\ Opens(b)
    <3> HIDE DEF b
    <3> QED  BY <2>1, <2>2, <2>5 DEF OpensOn, CallKind
  <2> QED  BY <1>5, <2>3, <2>4, <2>5 DEF GetOrCreate
<1>6. ASSUME Clear(env)  PROVE Resets
  BY <1>6 DEF Clear, Resets, Inv, TypeOK
<1>7. ASSUME UnloadExt(env)  PROVE Resets
  BY <1>7 DEF UnloadExt, Resets
<1>8. ASSUME Sql(env)  PROVE CallKind
  <2> DEFINE b == Ready(Now, env)
  <2>1. Good(b) /\ b.configured /\ Keeps(Now, b)
    BY <1>0, ReadyGood
  <2>2. UNCHANGED notebookVars /\ Typed
    BY <1>8 DEF Sql, notebookVars, Typed, Inv, TypeOK
  <2>3. CASE raised' \in {"no", "spark"} /\ UNCHANGED <<configVars, sessionVars>>
    BY <2>2, <2>3 DEF HandsOut, CallKind
  <2>4. CASE ~held /\ OpenFails(b)
    <3> HIDE DEF b
    <3> QED  BY <2>1, <2>2, <2>4 DEF FailsToOpen, CallKind
  <2>5. CASE ~held /\ \E r \in {"no", "spark"} : Opens([b EXCEPT !.raised = r])
    <3>1. PICK r \in {"no", "spark"} : Opens([b EXCEPT !.raised = r])
      BY <2>5
    <3> DEFINE c == [b EXCEPT !.raised = r]
    <3>2. c.conf = b.conf /\ c.configured = b.configured /\ c \in Configs
      <4> HIDE DEF b
      <4> QED  BY <2>1 DEF Good, Configs, Exceptions
    <3> HIDE DEF b
    <3>3. Good(c) /\ c.configured /\ Keeps(Now, c) /\ Opens(c)
      BY <2>1, <3>1, <3>2 DEF Good, OneMasterIn, Keeps
    <3> HIDE DEF c
    <3> QED  BY <2>2, <2>5, <3>3 DEF OpensOn, CallKind
  <2> QED  BY <1>8, <2>3, <2>4, <2>5 DEF Sql
<1> QED  BY <1>1, <1>2, <1>3, <1>4, <1>5, <1>6, <1>7, <1>8, LoadWithoutKind
         DEF Call, LoadExt, CallKind

\* A running session is configured eagerly: its master stays.
LEMMA LoadKeeps ==
  ASSUME Inv, LoadWithSession
  PROVE  /\ UNCHANGED <<conf, configured, held, running>>
         /\ sconf' \in Confs /\ \A k \in MasterKeys : sconf'[k] = sconf[k]
         /\ Typed /\ raised' \in Exceptions
<1>1. CASE /\ running /\ RuntimeEager
           /\ loaded' = "now" /\ shown' = "last" /\ raised' = "no"
  BY <1>1 DEF LoadWithSession, configVars, RuntimeEager, Inv, TypeOK, Confs, Origins, Keys,
              MasterKeys, Exceptions, Typed
<1>2. CASE ~running /\ raised' = "spark" /\ UNCHANGED <<sconf, notebookVars>>
  BY <1>2 DEF LoadWithSession, configVars, notebookVars, Inv, TypeOK, Exceptions, Typed
<1> QED  BY <1>1, <1>2 DEF LoadWithSession

LEMMA NextInv == Inv /\ [Next]_vars => Inv'
<1> SUFFICES ASSUME Inv, [Next]_vars  PROVE Inv'
  OBVIOUS
<1>1. CASE StopSession
  <2>1. sconf' \in Confs /\ (held => sconf' = sconf)
    BY <1>1 DEF StopSession, Forgotten, Inv, TypeOK, NoConf, Confs
  <2> QED  BY <1>1, <2>1 DEF StopSession, configVars, notebookVars, Inv, TypeOK,
                            OneMaster, SessionMatchesConfig, Exceptions
<1>2. CASE Configures
  BY <1>2, ConfigureStep DEF Configures
<1>3. CASE HandsOut
  BY <1>3 DEF HandsOut, configVars, sessionVars, notebookVars, Inv, TypeOK, OneMaster,
              SessionMatchesConfig, Exceptions
<1>4. CASE OpensOn
  BY <1>4, OpensStep DEF OpensOn, Typed
<1>5. CASE FailsToOpen
  BY <1>5, OpenFailsStep DEF FailsToOpen, Typed
<1>6. CASE Resets
  BY <1>6, ResetStep DEF Resets
<1>7. CASE LoadWithSession
  BY <1>7, LoadKeeps DEF Typed, Inv, TypeOK, OneMaster, SessionMatchesConfig, GetAll
<1>8. CASE UNCHANGED vars
  BY <1>8 DEF vars, configVars, sessionVars, notebookVars, Inv, TypeOK, OneMaster,
              SessionMatchesConfig
<1> QED  BY <1>1, <1>2, <1>3, <1>4, <1>5, <1>6, <1>7, <1>8, CallKinds DEF Next, CallKind

LEMMA Invariant == Spec => []Inv
BY InitInv, NextInv, PTL DEF Spec

-----------------------------------------------------------------------------

\* Whatever dicts the callers pass and variables are set, the configuration, the
\* session and the notebook keep their types: Config.update and the mappers only
\* store values of the keys they know.
THEOREM ConfigTypeCorrect == Spec => []TypeOK
<1>1. Inv => TypeOK
  BY DEF Inv
<1> QED  BY <1>1, Invariant, PTL

\* Config.__setitem__ keeps one spark.master or spark.remote, and its flag right,
\* through every sequence of calls, the failing ones and get_or_create's fallback
\* included.
THEOREM AtMostOneMaster == Spec => []OneMaster
<1>1. Inv => OneMaster
  BY DEF Inv
<1> QED  BY <1>1, Invariant, PTL

\* The session the builder hands out runs on the configured master, also when the
\* notebook stopped it, after a clear() and a new choice, and when a later call
\* failed.
THEOREM SessionOnItsMaster == Spec => []SessionMatchesConfig
<1>1. Inv => SessionMatchesConfig
  BY DEF Inv
<1> QED  BY <1>1, Invariant, PTL

-----------------------------------------------------------------------------
(* The refinement.  Config.update leaves a Config whose master is the one  *)
(* it had, or a first one, so only the kinds of step that clear drop it.   *)

Masters == MasterKeys \X Origins

LEMMA MasterOfType ==
  ASSUME NEW cf \in Confs
  PROVE  /\ MasterOf(cf) \in Masters \cup {NoMaster}
         /\ MasterOf(cf) = NoMaster <=> \A k \in MasterKeys : cf[k] = Absent
<1>1. \A k \in Keys : cf[k] # Absent => cf[k] \in Origins
  BY DEF Confs
<1>2. <<"master", cf["master"]>> # <<>> /\ <<"remote", cf["remote"]>> # <<>>
  OBVIOUS
<1> QED  BY <1>1, <1>2 DEF MasterOf, Masters, NoMaster, MasterKeys, Keys

LEMMA SameMaster ==
  ASSUME NEW cf, NEW cg, \A k \in MasterKeys : cf[k] = cg[k]
  PROVE  MasterOf(cf) = MasterOf(cg)
BY DEF MasterOf, MasterKeys

\* What a configuring call does to the chosen master.
LEMMA ChosenOnce ==
  ASSUME Inv, NEW b, Good(b), Keeps(Now, b)
  PROVE  /\ MasterOf(b.conf) \in Masters \cup {NoMaster}
         /\ MasterOf(conf) # MasterOf(b.conf) => MasterOf(conf) = NoMaster
         /\ b.configured => MasterOf(b.conf) # NoMaster
<1>1. conf \in Confs /\ b.conf \in Confs
  BY DEF Inv, TypeOK, Good, Configs
<1>2. CASE configured
  BY <1>2, SameMaster, <1>1, MasterOfType DEF Keeps, Now, NoRaise, Good, OneMasterIn
<1>3. CASE ~configured
  <2>1. MasterOf(conf) = NoMaster
    BY <1>1, <1>3, MasterOfType DEF Inv, OneMaster
  <2> QED  BY <1>1, <2>1, MasterOfType DEF Good, OneMasterIn
<1> QED  BY <1>2, <1>3

\* A session is opened on the chosen master; get_all drops one that is None.
LEMMA OpenOnChosen ==
  ASSUME NEW b, Good(b)
  PROVE  MasterOf(GetAll(b.conf)) \in {MasterOf(b.conf), NoMaster}
BY DEF Good, Configs, Confs, OneMasterIn, MasterOf, NoMaster, GetAll, MasterKeys, Keys

LEMMA LifecycleInit == Init => Lifecycle!Init
<1> SUFFICES ASSUME Init  PROVE MasterOf(conf) = NoMaster /\ OpenOn = NoMaster
  BY DEF Lifecycle!Init
<1>1. conf \in Confs /\ \A k \in MasterKeys : conf[k] = Absent
  BY InitInv DEF Inv, TypeOK, OneMaster, Init
<1> QED  BY <1>1, MasterOfType DEF Init, OpenOn

LEMMA LifecycleStep ==
  Inv /\ Inv' /\ [Next]_vars => [Lifecycle!Next]_<<MasterOf(conf), OpenOn>>
<1> SUFFICES ASSUME Inv, Inv', [Next]_vars
             PROVE  [Lifecycle!Next]_<<MasterOf(conf), OpenOn>>
  OBVIOUS
<1> DEFINE chosen == MasterOf(conf)
           Stays == chosen' = chosen \/ (chosen = NoMaster /\ chosen' \in Masters)
<1>0. chosen' \in Masters \cup {NoMaster} /\ (~held => OpenOn = NoMaster) /\ (~held' => OpenOn' = NoMaster)
  BY MasterOfType DEF Inv, TypeOK, OpenOn
<1>1. ASSUME Stays, OpenOn' = OpenOn  PROVE [Lifecycle!Next]_<<MasterOf(conf), OpenOn>>
  BY <1>1 DEF Lifecycle!Next, Lifecycle!Choose, Masters
<1>2. ASSUME NEW b, Good(b), Keeps(Now, b), conf' = b.conf  PROVE Stays
  BY <1>0, <1>2, ChosenOnce
<1>3. CASE Configures
  <2>1. PICK b : Good(b) /\ Keeps(Now, b) /\ Configure(b)
    BY <1>3 DEF Configures
  <2>2. conf' = b.conf /\ UNCHANGED <<held, sconf>>
    BY <2>1 DEF Configure, Becomes, sessionVars
  <2> QED  BY <1>1, <1>2, <2>1, <2>2 DEF OpenOn
<1>4. CASE HandsOut \/ UNCHANGED vars
  <2>1. UNCHANGED <<conf, held, sconf>>
    BY <1>4 DEF HandsOut, vars, configVars, sessionVars
  <2> QED  BY <2>1 DEF OpenOn
<1>5. CASE OpensOn
  <2>1. PICK b : ~held /\ Good(b) /\ b.configured /\ Keeps(Now, b) /\ Opens(b)
    BY <1>5 DEF OpensOn
  <2>2. conf' = b.conf /\ held' /\ sconf' = GetAll(b.conf)
    BY <2>1 DEF Opens, Becomes, Inv
  <2>3. Stays /\ chosen' # NoMaster /\ chosen' \in Masters
    BY <1>0, <1>2, <2>1, <2>2, ChosenOnce
  <2>4. OpenOn = NoMaster /\ OpenOn' \in {chosen', NoMaster}
    BY <1>0, <2>1, <2>2, OpenOnChosen DEF OpenOn
  <2>5. CASE OpenOn' = chosen'
    BY <2>3, <2>4, <2>5 DEF Lifecycle!Next, Lifecycle!Open, Masters
  <2> QED  BY <1>1, <2>3, <2>4, <2>5
<1>6. CASE FailsToOpen
  <2>1. PICK b : ~held /\ Good(b) /\ Keeps(Now, b) /\ OpenFails(b)
    BY <1>6 DEF FailsToOpen
  <2>2. conf' = b.conf /\ UNCHANGED <<held, sconf>>
    BY <2>1 DEF OpenFails, Becomes, sessionVars, Good, Configs
  <2> QED  BY <1>1, <1>2, <2>1, <2>2 DEF OpenOn
<1>7. CASE Resets
  <2>1. ~held' /\ configured' = FALSE
    BY <1>7 DEF Resets, Reset, Becomes, Initialized, NoRaise
  <2>2. chosen' = NoMaster /\ OpenOn' = NoMaster
    BY <1>0, <2>1, MasterOfType DEF Inv, TypeOK, OneMaster
  <2> QED  BY <2>2 DEF Lifecycle!Next, Lifecycle!Clear
<1>8. CASE LoadWithSession
  <2>1. UNCHANGED <<conf, held>> /\ \A k \in MasterKeys : sconf'[k] = sconf[k]
    BY <1>8, LoadKeeps
  <2> QED  BY <2>1, SameMaster DEF OpenOn
<1>9. CASE StopSession
  <2>1. UNCHANGED <<conf, held>> /\ (held => sconf' = sconf)
    BY <1>9 DEF StopSession, Forgotten, configVars
  <2> QED  BY <2>1 DEF OpenOn
<1> QED  BY <1>3, <1>4, <1>5, <1>6, <1>7, <1>8, <1>9, CallKinds DEF Next, CallKind

\* The builder implements SessionLifecycle: a master is chosen once, the session is
\* opened on it, and only clear() or unloading the extension takes them back.
THEOREM BuilderImplementsLifecycle == Spec => ImplementsLifecycle
<1>1. Inv /\ Inv' /\ [Next]_vars => [Lifecycle!Next]_Lifecycle!vars
  BY LifecycleStep DEF Lifecycle!vars
<1> QED  BY <1>1, LifecycleInit, Invariant, PTL DEF Spec, ImplementsLifecycle, Lifecycle!Spec

=============================================================================
