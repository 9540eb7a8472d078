---------------------------- MODULE SessionProofs -----------------------------
(***************************************************************************)
(* What a configuration gives its session.  The `spark` of a notebook      *)
(* shows DataFrames eagerly: SparkMagic merges eagerEval before the mode,  *)
(* no mapper has that key, and the session is opened on what came out of   *)
(* it, or set afterwards.  GPU and CA keys come with their companions, at  *)
(* whatever item a merge stops.  A connect server has each option from the *)
(* place that comes first.                                                 *)
(***************************************************************************)
EXTENDS SparkConfigProofs, ServerCommand

\* Dicts that say nothing of eagerEval.
Plain == {item \in Items : item.key # "eager"}

LEMMA PlainItems ==
  ASSUME NEW dict \in Dicts
  PROVE  /\ Len(dict) \in Nat /\ DOMAIN dict = 1..Len(dict)
         /\ dict = [i \in 1..Len(dict) |-> dict[i]]
         /\ \A i \in DOMAIN dict : dict[i] \in Items
         /\ dict \in Seq(Plain) <=> \A i \in DOMAIN dict : dict[i].key # "eager"
<1>1. /\ Len(dict) \in Nat /\ DOMAIN dict = 1..Len(dict)
      /\ dict = [i \in 1..Len(dict) |-> dict[i]]
      /\ \A i \in DOMAIN dict : dict[i] \in Items
  BY LenProperties DEF Dicts
<1>2. ASSUME \A i \in DOMAIN dict : dict[i].key # "eager"  PROVE dict \in Seq(Plain)
  <2>1. \A i \in 1..Len(dict) : dict[i] \in Plain
    BY <1>1, <1>2 DEF Plain
  <2>2. [i \in 1..Len(dict) |-> dict[i]] \in Seq(Plain)
    BY <1>1, <2>1, IsASeq
  <2> QED  BY <1>1, <2>2
<1>3. ASSUME dict \in Seq(Plain), NEW i \in DOMAIN dict  PROVE dict[i].key # "eager"
  <2>1. dict[i] \in Plain
    BY <1>1, <1>3, ElementOfSeq
  <2> QED  BY <2>1 DEF Plain
<1> QED  BY <1>1, <1>2, <1>3

LEMMA PlainIsDict == Seq(Plain) \subseteq Dicts
<1> SUFFICES ASSUME NEW dict \in Seq(Plain)  PROVE dict \in Dicts
  OBVIOUS
<1> QED  BY DEF Plain, Dicts

LEMMA FromEnvPlain ==
  ASSUME NEW env
  PROVE  /\ FromEnv(LocalMapper, env) \in Seq(Plain)
         /\ FromEnv(ClientMapper, env) \in Seq(Plain)
         /\ FromEnv(K8sMapper, env) \in Seq(Plain)
<1>1. ASSUME NEW mapper \in Seq(Entries), \A i \in DOMAIN mapper : mapper[i].key # "eager"
      PROVE  FromEnv(mapper, env) \in Seq(Plain)
  <2>1. FromEnv(mapper, env) \in Dicts
    BY FromEnvDict
  <2>2. \A i \in DOMAIN FromEnv(mapper, env) : FromEnv(mapper, env)[i].key # "eager"
    BY <1>1 DEF FromEnv, Item
  <2> QED  BY <2>1, <2>2, PlainItems
<1>2. \A i \in DOMAIN LocalMapper : LocalMapper[i].key # "eager"
  BY DEF LocalMapper, Mapped
<1>3. \A i \in DOMAIN ClientMapper : ClientMapper[i].key # "eager"
  BY DEF ClientMapper, Mapped
<1>4. \A i \in DOMAIN K8sMapper : K8sMapper[i].key # "eager"
  BY DEF K8sMapper, Mapped
<1> QED  BY <1>1, <1>2, <1>3, <1>4, MappersAreEntries

LEMMA GpuPlain ==
  ASSUME NEW dict \in Seq(Plain)  PROVE Gpu(dict) \in Seq(Plain)
<1>1. dict \in Dicts /\ Gpu(dict) \in Dicts
  BY PlainIsDict, GpuDict
<1>2. \A i \in DOMAIN Gpu(dict) : Gpu(dict)[i].key # "eager"
  BY <1>1, PlainItems DEF Gpu, Item
<1> QED  BY <1>1, <1>2, PlainItems

LEMMA ClusterPlain ==
  ASSUME NEW cluster  PROVE ClusterItems(cluster) \in Seq(Plain)
<1>1. \A i \in DOMAIN ClusterItems(cluster) : ClusterItems(cluster)[i].key # "eager"
  BY DEF ClusterItems, Item
<1> QED  BY <1>1, ClusterDict, PlainItems

\* {**a, **b} has no key that neither has.
LEMMA OverPlain ==
  ASSUME NEW a \in Seq(Plain), NEW b \in Seq(Plain)
  PROVE  Over(a, b) \in Seq(Plain)
<1>0. a \in Dicts /\ b \in Dicts
  BY PlainIsDict
<1>1. \A k : Value(b, k) \in Origins \cup {Absent}
  <2>1. \A i \in DOMAIN b : b[i] \in Items
    BY <1>0, PlainItems
  <2> QED  BY <2>1 DEF Value, At, Items
<1> DEFINE left(i) == IF a[i].value # Absent /\ At(b, a[i].key) # {}
                      THEN Item(a[i].key, Value(b, a[i].key)) ELSE a[i]
           right(i) == IF At(a, b[i].key) # {} THEN Item(b[i].key, Absent) ELSE b[i]
<1>2. [i \in DOMAIN a |-> left(i)] \in Seq(Plain)
  <2>1. \A i \in 1..Len(a) : left(i) \in Plain
    BY <1>0, <1>1, PlainItems DEF Items, Item, Plain
  <2> HIDE DEF left
  <2> QED  BY <1>0, <2>1, PlainItems, IsASeq
<1>3. [i \in DOMAIN b |-> right(i)] \in Seq(Plain)
  <2>1. \A i \in 1..Len(b) : right(i) \in Plain
    BY <1>0, PlainItems DEF Items, Item, Plain
  <2> HIDE DEF right
  <2> QED  BY <1>0, <2>1, PlainItems, IsASeq
<1> QED  BY <1>2, <1>3, ConcatProperties DEF Over

\* What a merge of such a dict leaves of eagerEval.
Kept(b, c) == c.conf["eager"] = b.conf["eager"]

LEMMA MergePlain ==
  ASSUME NEW b, NEW dict \in Seq(Plain)
  PROVE  Kept(b, Merge(b, dict))
<1>1. At(dict, "eager") = {}
  BY PlainIsDict, PlainItems DEF At
<1> QED  BY <1>1 DEF Merge, Kept, Keys

LEMMA ModeKeepsEager ==
  ASSUME NEW b, NEW m, NEW cluster, NEW env
  PROVE  Kept(b, WithMode(b, m, <<>>, cluster, env)) /\ Kept(b, Ready(b, env))
<1>0. <<>> \in Seq(Plain)
  BY EmptySeq
<1>1. Kept(b, WithLocal(b, <<>>, env)) /\ Kept(b, WithClient(b, <<>>, env))
  BY <1>0, FromEnvPlain, OverPlain, MergePlain DEF WithLocal, WithClient
<1>2. Kept(b, WithK8s(b, <<>>, cluster, env))
  <2>1. Over(Over(Gpu(FromEnv(K8sMapper, env)), ClusterItems(cluster)), <<>>) \in Seq(Plain)
    BY <1>0, FromEnvPlain, GpuPlain, ClusterPlain, OverPlain
  <2> QED  BY <2>1, MergePlain DEF WithK8s, Unconfigurable, Kept
<1> QED  BY <1>1, <1>2 DEF WithMode, Unconfigurable, Kept, Ready

LEMMA EagerIsMerged ==
  ASSUME Inv
  PROVE  Merge(Now, Eager).conf["eager"] = "true"
<1>1. At(Eager, "eager") = {1} /\ MasterItems(Eager) = {} /\ DOMAIN Eager = {1}
  BY DEF At, Eager, Item, MasterItems, MasterKeys, Absent
<1>2. Done(Now, Eager) = {1}
  BY <1>1 DEF Done, Refused
<1> QED  BY <1>1, <1>2 DEF Merge, Now, NoRaise, Keys, Eager, Item

-----------------------------------------------------------------------------

\* The notebook's session is the builder's last one until a clear.
EagerInv == shown = "last" => held /\ sconf["eager"] = "true"

LEMMA LoadWithoutEager ==
  ASSUME Inv, EagerInv, NEW env, NEW mode, NEW cluster, LoadWithout(mode, cluster, env)
  PROVE  EagerInv'
<1> DEFINE a == Merge(Now, Eager)
           b == WithMode(a, mode, <<>>, cluster, env)
           e == Ready(b, env)
<1>1. a.conf["eager"] = "true"
  BY EagerIsMerged
<1>2. e.conf["eager"] = "true"
  <2> HIDE DEF a
  <2>1. Kept(a, b)
    BY ModeKeepsEager
  <2> HIDE DEF b
  <2>2. Kept(b, e)
    BY ModeKeepsEager
  <2> QED  BY <1>1, <2>1, <2>2 DEF Kept
<1> HIDE DEF a, b, e
<1>3. ~held /\ ~running /\ shown # "last"
  BY DEF LoadWithout, Inv, EagerInv
<1>4. CASE Opens(e)
  <2>1. held' /\ sconf' = GetAll(e.conf)
    BY <1>3, <1>4 DEF Opens
  <2>2. sconf'["eager"] = "true"
    BY <1>2, <2>1 DEF GetAll, Keys
  <2> QED  BY <2>1, <2>2 DEF EagerInv
<1>5. CASE shown' = shown
  BY <1>3, <1>5 DEF EagerInv
<1>6. Opens(e) \/ shown' = shown
  BY DEF LoadWithout, a, b, e, notebookVars
<1> QED  BY <1>4, <1>5, <1>6

LEMMA CallEager ==
  ASSUME Inv, EagerInv, NEW env, Call(env)
  PROVE  EagerInv'
<1>1. CASE UNCHANGED <<held, sconf, shown>>
  BY <1>1 DEF EagerInv
<1>2. CASE ~held /\ UNCHANGED shown
  BY <1>2 DEF EagerInv
<1>3. ASSUME NEW c \in Customs,
             \/ Config(c) \/ ConfigS3(c, env)
             \/ \E m \in Modes : \E cluster \in Clusters(m) : ConfigMode(m, c, cluster, env)
             \/ \E m \in {"no", "local", "k8s", "other"} :
                  \E cluster \in Clusters(m) : ConfigServer(m, c, cluster, env)
      PROVE  EagerInv'
  BY <1>1, <1>3 DEF Config, ConfigS3, ConfigMode, ConfigServer, Configure, sessionVars,
       notebookVars
<1>4. CASE GetOrCreate(env)
  BY <1>1, <1>2, <1>4 DEF GetOrCreate, sessionVars, notebookVars
<1>5. CASE Sql(env)
  BY <1>1, <1>2, <1>5 DEF Sql, sessionVars, notebookVars
<1>6. CASE Clear(env) \/ UnloadExt(env)
  BY <1>6 DEF Clear, UnloadExt, Reset, EagerInv
<1>7. CASE LoadWithSession
  <2>1. CASE running
    BY <1>7, <2>1 DEF LoadWithSession, RuntimeEager, EagerInv, Inv, TypeOK, Confs, Keys
  <2>2. CASE ~running
    BY <1>1, <1>7, <2>2 DEF LoadWithSession, notebookVars
  <2> QED  BY <2>1, <2>2
<1> QED  BY <1>3, <1>4, <1>5, <1>6, <1>7, LoadWithoutEager DEF Call, LoadExt

\* SparkMagic: both ways to load the extension leave a session that shows DataFrames
\* eagerly, whatever has been configured, has failed or is called afterwards, until the
\* session is cleared.
THEOREM NotebookIsEager == Spec => []ShownIsEager
<1>1. Init => EagerInv
  BY DEF Init, EagerInv
<1>2. Inv /\ EagerInv /\ [Next]_vars => EagerInv'
  <2> SUFFICES ASSUME Inv, EagerInv, [Next]_vars  PROVE EagerInv'
    OBVIOUS
  <2>1. CASE StopSession
    BY <2>1 DEF StopSession, Forgotten, notebookVars, EagerInv
  <2>2. CASE UNCHANGED vars
    BY <2>2 DEF vars, sessionVars, notebookVars, EagerInv
  <2> QED  BY <2>1, <2>2, CallEager DEF Next
<1>3. EagerInv => ShownIsEager
  BY DEF EagerInv, ShownIsEager
<1> QED  BY <1>1, <1>2, <1>3, Invariant, PTL DEF Spec

-----------------------------------------------------------------------------
(* Keys and their companions.  A dict has a default vendor only right      *)
(* before an amount, and a CA file only after a master of the cluster or   *)
(* of the caller; so what Config.update has set of it when it stops has    *)
(* the companion too.                                                      *)

\* What callers must not pass: an amount that is None, or the mapper's vendor; a CA
\* file, or a master that is None.
OwnGpu ==
  \A c \in Customs : \A i \in DOMAIN c :
    /\ c[i].key = "amount" => c[i].value # "None"
    /\ c[i].key = "vendor" => c[i].value # "default"
OwnMaster ==
  \A c \in Customs : \A i \in DOMAIN c :
    /\ c[i].key = "ca" => c[i].value = Absent
    /\ c[i].key = "master" => c[i].value \in {"custom", Absent}

GpuPair(dict) ==
  \A i \in DOMAIN dict :
    /\ dict[i].key = "amount" => dict[i].value # "None"
    /\ dict[i].key = "vendor" /\ dict[i].value = "default" =>
         /\ i + 1 \in DOMAIN dict
         /\ dict[i + 1].key = "amount" /\ dict[i + 1].value # Absent
CaPair(dict) ==
  \A i \in DOMAIN dict :
    dict[i].key = "ca" /\ dict[i].value # Absent =>
      \E j \in DOMAIN dict :
        /\ j < i /\ dict[j].key = "master" /\ dict[j].value \in {"cluster", "custom"}
Paired(dict) == (OwnGpu => GpuPair(dict)) /\ (OwnMaster => CaPair(dict))

\* The same of a configuration.
GpuWhole(cf) == cf["amount"] # "None" /\ (cf["vendor"] = "default" => cf["amount"] # Absent)
CaWhole(cf) == cf["ca"] # Absent => cf["master"] \in {"cluster", "custom"}
Whole(cf) == (OwnGpu => GpuWhole(cf)) /\ (OwnMaster => CaWhole(cf))

\* A dict a caller may pass, or none.
Passed(c) ==
  /\ c \in Dicts
  /\ OwnGpu => \A i \in DOMAIN c :
       /\ c[i].key = "amount" => c[i].value # "None"
       /\ c[i].key = "vendor" => c[i].value # "default"
  /\ OwnMaster => \A i \in DOMAIN c :
       /\ c[i].key = "ca" => c[i].value = Absent
       /\ c[i].key = "master" => c[i].value \in {"custom", Absent}

LEMMA CustomsPassed ==
  /\ Passed(<<>>) /\ \A c \in Customs : Passed(c)
  /\ \A c : Passed(c) => c \in Dicts /\ Paired(c)
<1>1. \A c \in Customs : Passed(c)
  BY CustomsAssumption DEF OwnGpu, OwnMaster, Passed
<1>2. Passed(<<>>)
  BY NoDict DEF Passed
<1>3. \A c : Passed(c) => c \in Dicts /\ Paired(c)
  BY DEF Passed, Paired, GpuPair, CaPair
<1> QED  BY <1>1, <1>2, <1>3

\* Config.update sets a prefix of a dict, and none of it if the master in it, which
\* comes before the CA file, is refused.
LEMMA MergeWhole ==
  ASSUME NEW b, Good(b), Whole(b.conf), NEW dict \in Dicts, Paired(dict)
  PROVE  Whole(Merge(b, dict).conf)
<1>1. CASE b.raised # "no"
  BY <1>1 DEF Merge
<1>2. CASE b.raised = "no"
  <2> DEFINE done == Done(b, dict)
             set(k) == At(dict, k) \cap done
             c == Merge(b, dict)
  <2>1. c.conf = [k \in Keys |-> IF set(k) = {} THEN b.conf[k]
                                  ELSE dict[CHOOSE i \in set(k) : TRUE].value]
    BY <1>2 DEF Merge
  <2>2. \A i \in DOMAIN dict : i \in Nat
    BY LenProperties DEF Dicts
  <2>3. ASSUME NEW k \in Keys
        PROVE  \/ set(k) = {} /\ c.conf[k] = b.conf[k]
               \/ \E i \in set(k) : c.conf[k] = dict[i].value
    <3>1. set(k) # {} => (CHOOSE i \in set(k) : TRUE) \in set(k)
      OBVIOUS
    <3> QED  BY <2>1, <3>1
  <2>4. \A k, i : i \in set(k) <=> /\ i \in DOMAIN dict /\ dict[i].key = k
                                  /\ dict[i].value # Absent /\ i \in done
    BY DEF At
  <2>5. \A i : i \in done <=> i \in DOMAIN dict /\ \A j \in Refused(b, dict) : i < j
    BY DEF Done
  <2>6. \A i : i \in Refused(b, dict) =>
           i \in DOMAIN dict /\ dict[i].key \in MasterKeys /\ dict[i].value # Absent
    BY MasterItemsOf DEF Refused
  <2>7. {"vendor", "amount", "ca", "master"} \subseteq Keys
    BY DEF Keys, MasterKeys
  <2> HIDE DEF set, c, done
  <2>8. ASSUME OwnGpu  PROVE GpuWhole(c.conf)
    <3>0. GpuWhole(b.conf) /\ GpuPair(dict)
      BY <2>8 DEF Whole, Paired
    <3>1. c.conf["amount"] # "None"
      BY <2>3, <2>4, <2>7, <3>0 DEF GpuWhole, GpuPair
    <3>2. b.conf["amount"] # Absent => c.conf["amount"] # Absent
      BY <2>3, <2>4, <2>7
    <3>3. ASSUME c.conf["vendor"] = "default", set("vendor") # {}
          PROVE  c.conf["amount"] # Absent
      <4>1. PICK i \in set("vendor") : dict[i].value = "default"
        BY <2>3, <2>7, <3>3
      <4>2. /\ i \in DOMAIN dict /\ i \in done /\ i + 1 \in DOMAIN dict
            /\ dict[i + 1].key = "amount" /\ dict[i + 1].value # Absent
        BY <2>4, <3>0, <4>1 DEF GpuPair
      <4>3. ASSUME NEW j \in Refused(b, dict)  PROVE i + 1 < j
        <5>1. i < j /\ i \in Nat /\ j \in Nat /\ j # i + 1
          BY <2>2, <2>5, <2>6, <4>2 DEF MasterKeys
        <5> QED  BY <5>1
      <4>4. i + 1 \in set("amount")
        BY <2>4, <2>5, <4>2, <4>3
      <4> QED  BY <2>3, <2>4, <2>7, <4>4
    <3> QED  BY <2>3, <2>7, <3>0, <3>1, <3>2, <3>3 DEF GpuWhole
  <2>9. ASSUME OwnMaster, c.conf["ca"] # Absent
        PROVE  c.conf["master"] \in {"cluster", "custom"}
    <3>0. CaWhole(b.conf) /\ CaPair(dict)
      BY <2>9 DEF Whole, Paired
    <3>1. CASE set("ca") = {}
      <4>1. b.conf["master"] \in {"cluster", "custom"}
        BY <2>3, <2>7, <2>9, <3>0, <3>1 DEF CaWhole
      <4>2. b.configured
        BY <4>1 DEF Good, OneMasterIn, MasterKeys, Absent
      <4> QED  BY <4>1, <4>2, MergeGood DEF Keeps, MasterKeys, c
    <3>2. CASE set("ca") # {}
      <4>1. PICK i \in DOMAIN dict : i \in done /\ dict[i].key = "ca" /\ dict[i].value # Absent
        BY <2>4, <3>2
      <4>2. PICK j \in DOMAIN dict :
              /\ j < i /\ dict[j].key = "master" /\ dict[j].value \in {"cluster", "custom"}
        BY <3>0, <4>1 DEF CaPair
      <4>3. j \in MasterItems(dict) /\ j \notin Refused(b, dict) /\ i \in Nat /\ j \in Nat
        BY <2>2, <2>5, <4>1, <4>2, MasterItemsOf DEF MasterKeys, Absent
      <4>4. ~b.configured /\ \A l \in MasterItems(dict) : ~(l < j)
        BY <4>3 DEF Refused
      <4>5. j \in done
        BY <2>2, <2>5, <2>6, <4>1, <4>2
      <4>6. j \in set("master")
        BY <2>4, <4>2, <4>5 DEF Absent
      <4>7. ASSUME NEW l \in set("master")  PROVE l = j
        <5>1. l \in MasterItems(dict) /\ l \in Nat /\ ~(l < j)
          BY <2>2, <2>4, <4>4, MasterItemsOf DEF MasterKeys
        <5>2. ~(j < l)
          BY <2>4, <2>5, <4>3, <5>1 DEF Refused
        <5> QED  BY <4>3, <5>1, <5>2
      <4> QED  BY <2>3, <2>7, <4>2, <4>6, <4>7
    <3> QED  BY <3>1, <3>2
  <2> QED  BY <2>8, <2>9 DEF Whole, CaWhole, c
<1> QED  BY <1>1, <1>2

\* {**a, **c}, item by item.
OfFirst(a, c, i) == IF a[i].value # Absent /\ At(c, a[i].key) # {}
                    THEN Item(a[i].key, Value(c, a[i].key)) ELSE a[i]
OfSecond(a, c, i) == IF At(a, c[i].key) # {} THEN Item(c[i].key, Absent) ELSE c[i]

LEMMA OverItems ==
  ASSUME NEW a \in Dicts, NEW c \in Dicts
  PROVE  /\ Over(a, c) \in Dicts
         /\ Len(a) \in Nat /\ DOMAIN a = 1..Len(a) /\ Len(c) \in Nat /\ DOMAIN c = 1..Len(c)
         /\ DOMAIN Over(a, c) = 1..(Len(a) + Len(c))
         /\ \A i \in 1..Len(a) : Over(a, c)[i] = OfFirst(a, c, i)
         /\ \A i \in 1..Len(c) : Over(a, c)[Len(a) + i] = OfSecond(a, c, i)
<1>1. Len(a) \in Nat /\ DOMAIN a = 1..Len(a) /\ Len(c) \in Nat /\ DOMAIN c = 1..Len(c)
  BY LenProperties DEF Dicts
<1> DEFINE left(i) == OfFirst(a, c, i)
           right(i) == OfSecond(a, c, i)
           d == Over(a, c)
<1>2. d = [i \in 1..Len(a) |-> left(i)] \o [i \in 1..Len(c) |-> right(i)]
  BY <1>1 DEF Over, OfFirst, OfSecond
<1> HIDE DEF left, right, d
<1>3. /\ DOMAIN d = 1..(Len(a) + Len(c))
      /\ \A i \in 1..Len(a) : d[i] = left(i)
      /\ \A i \in 1..Len(c) : d[Len(a) + i] = right(i)
  BY <1>1, <1>2
<1> QED  BY <1>1, <1>3, OverDict DEF left, right, d

LEMMA OverPaired ==
  ASSUME NEW a \in Dicts, Paired(a), NEW c, Passed(c)
  PROVE  Over(a, c) \in Dicts /\ Paired(Over(a, c))
<1> DEFINE left(i) == OfFirst(a, c, i)
           right(i) == OfSecond(a, c, i)
           d == Over(a, c)
<1>1. c \in Dicts /\ d \in Dicts
  BY OverDict DEF Passed
<1>2. /\ Len(a) \in Nat /\ DOMAIN a = 1..Len(a) /\ Len(c) \in Nat /\ DOMAIN c = 1..Len(c)
      /\ DOMAIN d = 1..(Len(a) + Len(c))
      /\ \A i \in 1..Len(a) : d[i] = left(i)
      /\ \A i \in 1..Len(c) : d[Len(a) + i] = right(i)
  BY <1>1, OverItems
<1>3. \A i \in DOMAIN d : \/ i \in 1..Len(a) /\ d[i] = left(i)
                          \/ \E j \in 1..Len(c) : i = Len(a) + j /\ d[i] = right(j)
  <2> HIDE DEF left, right, d
  <2>1. ASSUME NEW i \in DOMAIN d, i \notin 1..Len(a)
        PROVE  \E j \in 1..Len(c) : i = Len(a) + j /\ d[i] = right(j)
    <3>1. i - Len(a) \in 1..Len(c) /\ i = Len(a) + (i - Len(a))
      BY <1>2, <2>1
    <3> QED  BY <1>2, <3>1
  <2> QED  BY <1>2, <2>1
<1>4. \A k : At(c, k) # {} =>
        \E j \in DOMAIN c : c[j].key = k /\ c[j].value # Absent /\ Value(c, k) = c[j].value
  BY DEF At, Value
<1>5. \A i : /\ left(i).key = a[i].key
             /\ \/ left(i).value = a[i].value
                \/ /\ a[i].value # Absent /\ left(i).value # Absent
                   /\ \E j \in DOMAIN c : c[j].key = a[i].key /\ left(i).value = c[j].value
  BY <1>4 DEF Item, OfFirst
<1>6. \A i : right(i).key = c[i].key /\ right(i).value \in {c[i].value, Absent}
  BY DEF Item, OfSecond
<1> HIDE DEF left, right, d
<1>0. ASSUME NEW i \in DOMAIN d
      PROVE  \/ /\ i \in DOMAIN a /\ d[i] = left(i) /\ d[i].key = a[i].key
                /\ \/ d[i].value = a[i].value
                   \/ /\ a[i].value # Absent /\ d[i].value # Absent
                      /\ \E j \in DOMAIN c : c[j].key = d[i].key /\ d[i].value = c[j].value
             \/ \E j \in DOMAIN c : d[i].key = c[j].key /\ d[i].value \in {c[j].value, Absent}
  <2>1. CASE i \in 1..Len(a) /\ d[i] = left(i)
    BY <1>2, <1>5, <2>1
  <2>2. CASE \E j \in 1..Len(c) : i = Len(a) + j /\ d[i] = right(j)
    BY <1>2, <1>6, <2>2
  <2> QED  BY <1>3, <2>1, <2>2
<1>7. ASSUME OwnGpu  PROVE GpuPair(d)
  <2>0. /\ GpuPair(a)
        /\ \A i \in DOMAIN c : /\ c[i].key = "amount" => c[i].value # "None"
                               /\ c[i].key = "vendor" => c[i].value # "default"
    BY <1>7 DEF Paired, Passed
  <2>1. ASSUME NEW i \in DOMAIN d, d[i].key = "amount"  PROVE d[i].value # "None"
    BY <1>0, <2>0, <2>1 DEF GpuPair, Absent
  <2>2. ASSUME NEW i \in DOMAIN d, d[i].key = "vendor", d[i].value = "default"
        PROVE  /\ i + 1 \in DOMAIN d
               /\ d[i + 1].key = "amount" /\ d[i + 1].value # Absent
    <3>1. i \in DOMAIN a /\ d[i] = left(i) /\ a[i].key = "vendor" /\ a[i].value = "default"
      BY <1>0, <2>0, <2>2 DEF Absent
    <3>2. i + 1 \in DOMAIN a /\ a[i + 1].key = "amount" /\ a[i + 1].value # Absent
      BY <2>0, <3>1 DEF GpuPair
    <3> QED  BY <1>2, <1>5, <3>2
  <2> QED  BY <2>1, <2>2 DEF GpuPair
<1>8. ASSUME OwnMaster  PROVE CaPair(d)
  <2>0. /\ CaPair(a)
        /\ \A i \in DOMAIN c : /\ c[i].key = "ca" => c[i].value = Absent
                               /\ c[i].key = "master" => c[i].value \in {"custom", Absent}
    BY <1>8 DEF Paired, Passed
  <2>1. SUFFICES ASSUME NEW i \in DOMAIN d, d[i].key = "ca", d[i].value # Absent
                 PROVE  \E j \in DOMAIN d : /\ j < i /\ d[j].key = "master"
                                            /\ d[j].value \in {"cluster", "custom"}
    BY DEF CaPair
  <2>2. i \in DOMAIN a /\ a[i].key = "ca" /\ a[i].value # Absent
    BY <1>0, <2>0, <2>1
  <2>3. PICK j \in DOMAIN a : j < i /\ a[j].key = "master" /\ a[j].value \in {"cluster", "custom"}
    BY <2>0, <2>2 DEF CaPair
  <2>4. j \in DOMAIN d /\ d[j] = left(j)
    BY <1>2, <2>3
  <2> QED  BY <1>5, <2>0, <2>3, <2>4
<1> QED  BY <1>1, <1>7, <1>8 DEF Paired, d

\* A mapper without the keys in question.
Unpaired(m) == m.key \notin {"vendor", "amount", "ca"}

LEMMA FromEnvPaired ==
  ASSUME NEW env, NEW mapper \in {DefaultMapper, LocalMapper, ClientMapper, ServerMapper}
  PROVE  FromEnv(mapper, env) \in Dicts /\ Paired(FromEnv(mapper, env))
<1>1. \A i \in DOMAIN mapper : Unpaired(mapper[i])
  BY DEF DefaultMapper, LocalMapper, ClientMapper, ServerMapper, Mapped, Unpaired
<1>2. \A i \in DOMAIN FromEnv(mapper, env) :
        i \in DOMAIN mapper /\ FromEnv(mapper, env)[i].key = mapper[i].key
  BY DEF FromEnv, Item
<1>3. Paired(FromEnv(mapper, env))
  BY <1>1, <1>2 DEF Paired, GpuPair, CaPair, Unpaired
<1> QED  BY <1>3, MappersAreEntries, FromEnvDict

LEMMA K8sPaired ==
  ASSUME NEW env, NEW cluster
  PROVE  LET dict == Over(Gpu(FromEnv(K8sMapper, env)), ClusterItems(cluster))
         IN  dict \in Dicts /\ Paired(dict)
<1> DEFINE from == FromEnv(K8sMapper, env)
           gpu == Gpu(from)
           items == ClusterItems(cluster)
           dict == Over(gpu, items)
<1>1. from \in Dicts /\ gpu \in Dicts /\ items \in Dicts /\ dict \in Dicts
  BY MappersAreEntries, FromEnvDict, GpuDict, ClusterDict, OverDict
<1>2. /\ DOMAIN from = 1..4 /\ DOMAIN gpu = 1..4 /\ DOMAIN items = 1..2
      /\ from[1].key = "master" /\ from[2].key = "memory"
      /\ from[3].key = "vendor" /\ from[4].key = "amount"
      /\ items[1] = Item("master", "cluster") /\ items[2].key = "ca"
      /\ items[2].value \in {"cluster", "None"}
  BY DEF FromEnv, K8sMapper, Mapped, Item, Gpu, ClusterItems
<1>3. from[1].value # Absent /\ from[4].value # "None"
  <2>1. /\ 1 \in DOMAIN K8sMapper /\ K8sMapper[1] = Mapped("master", <<"SPARGLIM_MASTER">>, "default")
        /\ 4 \in DOMAIN K8sMapper
        /\ K8sMapper[4] = Mapped("amount", <<"SPARGLIM_K8S_GPU_AMOUNT">>, Absent)
    BY DEF K8sMapper
  <2>2. /\ FromVars(K8sMapper[1], env) \in EnvVars \cup {K8sMapper[1].default}
        /\ FromVars(K8sMapper[4], env) \in EnvVars \cup {K8sMapper[4].default}
    BY <2>1, MappersAreEntries, FromEnvDict
  <2> QED  BY <2>1, <2>2 DEF FromEnv, Item, Mapped, EnvVars, Absent
<1>4. At(items, "master") = {1} /\ Value(items, "master") = "cluster"
  <2>1. At(items, "master") = {1}
    BY <1>2 DEF At, Item, Absent
  <2> QED  BY <1>2, <2>1 DEF Value, Item
<1>5. \A k \in {"memory", "vendor", "amount"} : At(items, k) = {}
  BY <1>2 DEF At, Item
<1>6. /\ gpu[1] = from[1] /\ gpu[2] = from[2] /\ gpu[4] = from[4]
      /\ gpu[3] = IF from[4].value = Absent THEN Item("vendor", Absent) ELSE from[3]
  <2>1. At(from, "amount") = IF from[4].value = Absent THEN {} ELSE {4}
    BY <1>2 DEF At
  <2> QED  BY <1>2, <2>1 DEF Gpu
<1> HIDE DEF from, gpu, items
<1>7. /\ DOMAIN dict = 1..6
      /\ dict[1] = Item("master", "cluster") /\ dict[2] = gpu[2]
      /\ dict[3] = gpu[3] /\ dict[4] = gpu[4] /\ dict[5].key = "master" /\ dict[6] = items[2]
  <2>1. Len(gpu) = 4 /\ Len(items) = 2
    BY <1>1, <1>2, LenProperties DEF Dicts
  <2>2. /\ DOMAIN dict = 1..(Len(gpu) + Len(items))
        /\ \A i \in 1..Len(gpu) : dict[i] = OfFirst(gpu, items, i)
        /\ \A i \in 1..Len(items) : dict[Len(gpu) + i] = OfSecond(gpu, items, i)
    <3> HIDE DEF dict
    <3> QED  BY <1>1, OverItems DEF dict
  <2> HIDE DEF dict
  <2>3. /\ DOMAIN dict = 1..6 /\ \A i \in 1..4 : dict[i] = OfFirst(gpu, items, i)
        /\ dict[5] = OfSecond(gpu, items, 1) /\ dict[6] = OfSecond(gpu, items, 2)
    BY <2>1, <2>2
  <2>4. /\ dict[1] = Item("master", "cluster") /\ dict[2] = gpu[2] /\ dict[3] = gpu[3]
        /\ dict[4] = gpu[4]
    BY <1>2, <1>3, <1>4, <1>5, <1>6, <2>3 DEF Item, OfFirst
  <2>5. At(gpu, "ca") = {}
    BY <1>2, <1>6 DEF At, Item
  <2> QED  BY <1>2, <2>4, <2>5, <2>3 DEF Item, OfSecond
<1> HIDE DEF dict
<1>8. GpuPair(dict)
  <2>1. ASSUME NEW i \in DOMAIN dict, dict[i].key = "amount"  PROVE dict[i].value # "None"
    BY <1>2, <1>3, <1>6, <1>7, <2>1 DEF Item
  <2>2. ASSUME NEW i \in DOMAIN dict, dict[i].key = "vendor", dict[i].value = "default"
        PROVE  i + 1 \in DOMAIN dict /\ dict[i + 1].key = "amount" /\ dict[i + 1].value # Absent
    BY <1>2, <1>6, <1>7, <2>2 DEF Item, Absent
  <2> QED  BY <2>1, <2>2 DEF GpuPair
<1>9. CaPair(dict)
  BY <1>2, <1>6, <1>7 DEF CaPair, Item
<1> QED  BY <1>1, <1>8, <1>9 DEF Paired, dict, gpu, items, from

\* What the calls make of a configuration.
LEMMA ModeWhole ==
  ASSUME NEW b, Good(b), Whole(b.conf), NEW m, NEW c, Passed(c), NEW cluster, NEW env
  PROVE  Whole(WithMode(b, m, c, cluster, env).conf)
<1>1. Unconfigurable(b).conf = b.conf
  BY DEF Unconfigurable, Good, Configs
<1>2. Whole(WithLocal(b, c, env).conf) /\ Whole(WithClient(b, c, env).conf)
  BY FromEnvPaired, OverPaired, MergeWhole DEF WithLocal, WithClient
<1>3. Whole(WithK8s(b, c, cluster, env).conf)
  <2>1. /\ Over(Over(Gpu(FromEnv(K8sMapper, env)), ClusterItems(cluster)), c) \in Dicts
        /\ Paired(Over(Over(Gpu(FromEnv(K8sMapper, env)), ClusterItems(cluster)), c))
    BY K8sPaired, OverPaired
  <2> QED  BY <1>1, <2>1, MergeWhole DEF WithK8s
<1> QED  BY <1>1, <1>2, <1>3 DEF WithMode

LEMMA ServerWhole ==
  ASSUME NEW b, Good(b), Whole(b.conf), NEW m, NEW c, Passed(c), NEW cluster, NEW env
  PROVE  Whole(WithServer(b, m, c, cluster, env).conf)
<1> DEFINE e == IF m = "no" THEN b
                ELSE IF m \in {"local", "k8s"} THEN WithMode(b, m, c, cluster, env)
                ELSE Unconfigurable(b)
<1>1. Good(e) /\ Whole(e.conf)
  <2>1. Good(WithMode(b, m, c, cluster, env)) /\ Whole(WithMode(b, m, c, cluster, env).conf)
    BY CustomsPassed, WithModeGood, ModeWhole
  <2>2. Good(Unconfigurable(b)) /\ Unconfigurable(b).conf = b.conf
    BY UnconfigurableGood DEF Unconfigurable, Good, Configs
  <2> QED  BY <2>1, <2>2
<1>2. WithServer(b, m, c, cluster, env) = Merge(e, FromEnv(ServerMapper, env))
  BY DEF WithServer
<1> HIDE DEF e
<1> QED  BY <1>1, <1>2, FromEnvPaired, MergeWhole

LEMMA ReadyWhole ==
  ASSUME NEW b, Good(b), Whole(b.conf), NEW env
  PROVE  Whole(Ready(b, env).conf)
<1>1. Whole(WithLocal(b, <<>>, env).conf)
  BY CustomsPassed, FromEnvPaired, OverPaired, MergeWhole DEF WithLocal
<1> QED  BY <1>1 DEF Ready

LEMMA InitializedWhole ==
  ASSUME NEW env  PROVE Whole(Initialized(env).conf)
<1>1. \A i \in DOMAIN FromEnv(DefaultMapper, env) : FromEnv(DefaultMapper, env)[i].key = "s3"
  BY DEF FromEnv, DefaultMapper, Item, Mapped
<1>2. \A k \in {"vendor", "amount", "ca"} : Value(FromEnv(DefaultMapper, env), k) = Absent
  BY <1>1 DEF Value, At
<1> QED  BY <1>2 DEF Initialized, NoRaise, Whole, GpuWhole, CaWhole, Keys, Absent

LEMMA CallWhole ==
  ASSUME Inv, Whole(conf), NEW env, Call(env)
  PROVE  Whole(conf')
<1>0. Good(Now) /\ Now.raised = "no" /\ Now.conf = conf
  BY NowGood DEF Now, NoRaise
<1>1. ASSUME NEW c \in Customs, Config(c)  PROVE Whole(conf')
  BY <1>0, <1>1, CustomsPassed, MergeWhole DEF Config, Configure, Becomes
<1>2. ASSUME NEW c \in Customs, ConfigS3(c, env)  PROVE Whole(conf')
  <2>1. /\ Over(FromEnv(DefaultMapper, env), c) \in Dicts
        /\ Paired(Over(FromEnv(DefaultMapper, env), c))
    BY CustomsPassed, FromEnvPaired, OverPaired
  <2> QED  BY <1>0, <1>2, <2>1, MergeWhole DEF ConfigS3, Configure, Becomes
<1>3. ASSUME NEW c \in Customs, NEW m, NEW cluster, ConfigMode(m, c, cluster, env)
      PROVE  Whole(conf')
  BY <1>0, <1>3, CustomsPassed, ModeWhole DEF ConfigMode, Configure, Becomes
<1>4. ASSUME NEW c \in Customs, NEW m, NEW cluster, ConfigServer(m, c, cluster, env)
      PROVE  Whole(conf')
  BY <1>0, <1>4, CustomsPassed, ServerWhole DEF ConfigServer, Configure, Becomes
<1>5. ASSUME NEW b, Good(b), Whole(b.conf), NEW r,
             \/ Becomes(b) \/ Opens(b) \/ OpenFails(b) \/ Opens([b EXCEPT !.raised = r])
      PROVE  Whole(conf')
  <2>1. [b EXCEPT !.raised = r].conf = b.conf /\ [b EXCEPT !.raised = "spark"].conf = b.conf
    BY <1>5 DEF Good, Configs
  <2> QED  BY <1>5, <2>1 DEF Becomes, Opens, OpenFails
<1>6. Good(Ready(Now, env)) /\ Whole(Ready(Now, env).conf)
  BY <1>0, ReadyGood, ReadyWhole
<1>7. CASE UNCHANGED configVars
  BY <1>7 DEF configVars
<1>8. CASE GetOrCreate(env) \/ Sql(env)
  BY <1>5, <1>6, <1>7, <1>8 DEF GetOrCreate, Sql
<1>9. CASE Clear(env) \/ UnloadExt(env)
  BY <1>9, InitializedWhole DEF Clear, UnloadExt, Reset, Becomes
<1>10. ASSUME NEW mode, NEW cluster, LoadWithout(mode, cluster, env)  PROVE Whole(conf')
  <2> DEFINE a == Merge(Now, Eager)
             b == WithMode(a, mode, <<>>, cluster, env)
             e == Ready(b, env)
  <2>1. Good(a) /\ Whole(a.conf)
    <3>1. Eager \in Dicts /\ Paired(Eager)
      BY DEF Eager, Dicts, Items, Item, Keys, Origins, Paired, GpuPair, CaPair
    <3> QED  BY <1>0, <3>1, MergeGood, MergeWhole
  <2>2. Good(b) /\ Whole(b.conf)
    <3> HIDE DEF a
    <3> QED  BY <2>1, NoDict, CustomsPassed, WithModeGood, ModeWhole
  <2>3. b.raised = "no" => Good(e) /\ Whole(e.conf)
    <3> HIDE DEF b
    <3> QED  BY <2>2, ReadyGood, ReadyWhole
  <2>4. Becomes(b) \/ (b.raised = "no" /\ (OpenFails(e) \/ Opens(e)))
    BY <1>10 DEF LoadWithout
  <2> HIDE DEF b, e
  <2> QED  BY <1>5, <2>2, <2>3, <2>4
<1>11. CASE LoadWithSession
  BY <1>7, <1>11 DEF LoadWithSession
<1> QED  BY <1>1, <1>2, <1>3, <1>4, <1>8, <1>9, <1>10, <1>11 DEF Call, LoadExt

\* A session is given the configuration it is opened on, or made eager.
LEMMA SessionFrom ==
  ASSUME Inv, [Next]_vars
  PROVE  \/ sconf' \in {sconf, NoConf, GetAll(conf')}
         \/ sconf' = [sconf EXCEPT !["eager"] = "true"]
<1>1. CASE Configures \/ HandsOut \/ UNCHANGED vars
  BY <1>1 DEF Configures, Configure, HandsOut, vars, sessionVars
<1>2. CASE OpensOn \/ FailsToOpen
  BY <1>2 DEF OpensOn, Opens, Becomes, FailsToOpen, OpenFails, sessionVars, Inv
<1>3. CASE Resets \/ StopSession
  BY <1>3 DEF Resets, Reset, StopSession, Forgotten
<1>4. CASE LoadWithSession
  BY <1>4 DEF LoadWithSession, RuntimeEager
<1> QED  BY <1>1, <1>2, <1>3, <1>4, CallKinds DEF Next, CallKind

\* Both keep a session clean.
WholeInv == Whole(conf) /\ (OwnGpu => SessionsAreClean)

LEMMA WholeInvariant == Spec => []WholeInv
<1>1. Init => WholeInv
  BY InitializedWhole DEF Init, WholeInv, SessionsAreClean, NoConf, Keys, Absent
<1>2. Inv /\ WholeInv /\ [Next]_vars => WholeInv'
  <2> SUFFICES ASSUME Inv, WholeInv, [Next]_vars  PROVE WholeInv'
    OBVIOUS
  <2>1. Whole(conf')
    <3>1. CASE \E env : Call(env)
      BY <3>1, CallWhole DEF WholeInv
    <3>2. CASE UNCHANGED conf
      BY <3>2 DEF WholeInv
    <3> QED  BY <3>1, <3>2 DEF Next, StopSession, configVars, vars
  <2>2. ASSUME OwnGpu  PROVE SessionsAreClean'
    <3>0. SessionsAreClean /\ sconf \in Confs /\ GpuWhole(conf')
      BY <2>1, <2>2 DEF WholeInv, Inv, TypeOK, Whole
    <3>1. CASE sconf' = GetAll(conf')
      BY <3>0, <3>1 DEF GetAll, GpuWhole, SessionsAreClean, Keys, Absent
    <3>2. CASE sconf' = NoConf
      BY <3>2 DEF NoConf, SessionsAreClean, Keys, Absent
    <3>3. CASE sconf' = sconf
      BY <3>0, <3>3 DEF SessionsAreClean
    <3>4. CASE sconf' = [sconf EXCEPT !["eager"] = "true"]
      BY <3>0, <3>4 DEF SessionsAreClean, Keys, Confs
    <3> QED  BY <3>1, <3>2, <3>3, <3>4, SessionFrom
  <2> QED  BY <2>1, <2>2 DEF WholeInv
<1> QED  BY <1>1, <1>2, Invariant, PTL DEF Spec

\* config_k8s leaves no vendor without an amount, and Config.update never sets one and
\* stops before the other: unless a caller passes None for the amount, no session is
\* asked for half a GPU, nor given any None, whatever calls failed in between.
THEOREM CleanSessions ==
  ASSUME OwnGpu  PROVE Spec => []SessionsAreClean
<1>1. WholeInv => SessionsAreClean
  BY OwnGpu DEF WholeInv
<1> QED  BY <1>1, WholeInvariant, PTL

\* config_k8s merges the CA file together with the cluster's URL: a merge that a master
\* refuses stops before the CA file, so unless a caller passes one, it stands with that
\* URL or a caller's.
THEOREM CaFileHasMaster ==
  ASSUME OwnMaster  PROVE Spec => []CaGoesWithMaster
<1>1. WholeInv => CaGoesWithMaster
  BY OwnMaster DEF WholeInv, Whole, CaWhole, CaGoesWithMaster
<1> QED  BY <1>1, WholeInvariant, PTL

-----------------------------------------------------------------------------
(* The value each key gets, when no key is twice in a dict.                *)

Once(dict, k) == \A i, j \in At(dict, k) : i = j

LEMMA ValueIs ==
  ASSUME NEW dict, NEW k
  PROVE  /\ Value(dict, k) = Absent <=> At(dict, k) = {}
         /\ Once(dict, k) => \A i \in At(dict, k) : Value(dict, k) = dict[i].value
<1>1. At(dict, k) # {} => (CHOOSE i \in At(dict, k) : TRUE) \in At(dict, k)
  OBVIOUS
<1>2. \A i \in At(dict, k) : dict[i].value # Absent
  BY DEF At
<1> QED  BY <1>1, <1>2 DEF Value, Once

\* {**a, **c}: c's value before a's.
LEMMA OverValue ==
  ASSUME NEW a \in Dicts, NEW c \in Dicts, NEW k, Once(a, k), Once(c, k)
  PROVE  /\ Once(Over(a, c), k)
         /\ Value(Over(a, c), k) =
              IF Value(c, k) # Absent THEN Value(c, k) ELSE Value(a, k)
<1> DEFINE d == Over(a, c)
<1>1. /\ Len(a) \in Nat /\ DOMAIN a = 1..Len(a) /\ Len(c) \in Nat /\ DOMAIN c = 1..Len(c)
      /\ DOMAIN d = 1..(Len(a) + Len(c))
      /\ \A i \in 1..Len(a) : d[i] = OfFirst(a, c, i)
      /\ \A i \in 1..Len(c) : d[Len(a) + i] = OfSecond(a, c, i)
  BY OverItems
<1>2. /\ Value(a, k) = Absent <=> At(a, k) = {}
      /\ Value(c, k) = Absent <=> At(c, k) = {}
  BY ValueIs
<1> HIDE DEF d
<1>3. ASSUME NEW i \in 1..Len(a)
      PROVE  /\ i \in At(d, k) <=> i \in At(a, k)
             /\ i \in At(a, k) => d[i].value = IF At(c, k) # {} THEN Value(c, k) ELSE a[i].value
  <2>1. i \in DOMAIN d /\ d[i] = OfFirst(a, c, i) /\ i \in DOMAIN a
    BY <1>1, <1>3
  <2>2. CASE a[i].value # Absent /\ At(c, a[i].key) # {}
    <3>1. d[i].key = a[i].key /\ d[i].value = Value(c, a[i].key) /\ d[i].value # Absent
      BY <2>1, <2>2, ValueIs DEF OfFirst, Item
    <3> QED  BY <2>1, <2>2, <3>1 DEF At
  <2>3. CASE ~(a[i].value # Absent /\ At(c, a[i].key) # {})
    <3>1. d[i] = a[i]
      BY <2>1, <2>3 DEF OfFirst
    <3> QED  BY <2>1, <2>3, <3>1 DEF At
  <2> QED  BY <2>2, <2>3
<1>4. ASSUME NEW j \in 1..Len(c)
      PROVE  /\ Len(a) + j \in At(d, k) <=> j \in At(c, k) /\ At(a, k) = {}
             /\ j \in At(c, k) /\ At(a, k) = {} => d[Len(a) + j].value = c[j].value
  <2>1. Len(a) + j \in DOMAIN d /\ d[Len(a) + j] = OfSecond(a, c, j) /\ j \in DOMAIN c
    BY <1>1, <1>4
  <2> QED  BY <2>1 DEF OfSecond, At, Item
<1>5. ASSUME NEW i \in At(d, k)
      PROVE  \/ i \in At(a, k)
             \/ At(a, k) = {} /\ \E j \in At(c, k) : i = Len(a) + j
  <2>1. i \in DOMAIN d
    BY <1>5 DEF At
  <2>2. CASE i \in 1..Len(a)
    BY <1>3, <1>5, <2>2
  <2>3. CASE i \notin 1..Len(a)
    <3>1. i - Len(a) \in 1..Len(c) /\ i = Len(a) + (i - Len(a))
      BY <1>1, <2>1, <2>3
    <3> QED  BY <1>4, <1>5, <3>1
  <2> QED  BY <2>2, <2>3
<1>6. Once(d, k)
  BY <1>5 DEF Once
<1>7. \A i \in At(d, k) : Value(d, k) = d[i].value
  BY <1>6, ValueIs
<1>8. CASE At(a, k) # {}
  <2>1. PICK i \in At(a, k) : TRUE
    BY <1>8
  <2>2. i \in 1..Len(a) /\ Value(a, k) = a[i].value
    BY <1>1, <2>1, ValueIs DEF At
  <2>3. Value(d, k) = IF At(c, k) # {} THEN Value(c, k) ELSE a[i].value
    BY <1>3, <1>7, <2>1, <2>2
  <2> QED  BY <1>2, <1>6, <2>2, <2>3 DEF d
<1>9. CASE At(a, k) = {} /\ At(c, k) # {}
  <2>1. PICK j \in At(c, k) : TRUE
    BY <1>9
  <2>2. j \in 1..Len(c) /\ Value(c, k) = c[j].value
    BY <1>1, <2>1, ValueIs DEF At
  <2>3. Value(d, k) = c[j].value
    BY <1>4, <1>7, <1>9, <2>1, <2>2
  <2> QED  BY <1>2, <1>6, <1>9, <2>2, <2>3 DEF d
<1>10. CASE At(a, k) = {} /\ At(c, k) = {}
  <2>1. At(d, k) = {}
    BY <1>5, <1>10
  <2> QED  BY <1>2, <1>6, <1>10, <2>1, ValueIs DEF d
<1> QED  BY <1>8, <1>9, <1>10

\* config() of a new configuration: a dict with one master is merged in full, one with
\* two is not.
LEMMA MergeValue ==
  ASSUME NEW b, b.raised = "no", NEW dict \in Dicts,
         \A k \in MasterKeys : Once(dict, k),
         \/ Value(dict, "master") = Absent /\ Value(dict, "remote") = Absent
         \/ ~b.configured /\ Value(dict, "master") # Absent
  PROVE  /\ Merge(b, dict).raised = IF Value(dict, "remote") = Absent THEN "no" ELSE "already"
         /\ Value(dict, "remote") = Absent =>
              \A k \in Keys : Merge(b, dict).conf[k] =
                IF Value(dict, k) = Absent THEN b.conf[k] ELSE Value(dict, k)
<1>1. \A i \in MasterItems(dict) : i \in Nat
  BY LenProperties, MasterItemsOf DEF Dicts
<1>2. MasterItems(dict) = At(dict, "master") \cup At(dict, "remote")
  BY DEF MasterItems, MasterKeys
<1>3. \A k \in Keys : Value(dict, k) = Absent <=> At(dict, k) = {}
  BY ValueIs
<1>4. {"master", "remote"} \subseteq Keys /\ MasterKeys = {"master", "remote"}
  BY DEF Keys, MasterKeys
<1>5. CASE Value(dict, "remote") = Absent
  <2>1. Refused(b, dict) = {}
    <3>1. \A i, j \in MasterItems(dict) : i = j
      <4>1. At(dict, "remote") = {} /\ Once(dict, "master")
        BY <1>3, <1>4, <1>5
      <4> QED  BY <1>2, <4>1 DEF Once
    <3>2. MasterItems(dict) = {} \/ ~b.configured
      BY <1>2, <1>3, <1>4, <1>5
    <3> QED  BY <1>1, <3>1, <3>2 DEF Refused
  <2>2. Done(b, dict) = DOMAIN dict
    BY <2>1 DEF Done
  <2>3. \A k : At(dict, k) \cap DOMAIN dict = At(dict, k)
    BY DEF At
  <2>4. /\ Merge(b, dict).raised = "no"
        /\ Merge(b, dict).conf =
             [k \in Keys |-> IF At(dict, k) \cap DOMAIN dict = {} THEN b.conf[k]
                             ELSE dict[CHOOSE i \in At(dict, k) \cap DOMAIN dict : TRUE].value]
    BY <2>2 DEF Merge
  <2>5. ASSUME NEW k \in Keys
        PROVE  Merge(b, dict).conf[k] = IF At(dict, k) = {} THEN b.conf[k] ELSE Value(dict, k)
    <3>1. At(dict, k) \cap DOMAIN dict = At(dict, k)
      BY <2>3
    <3>2. Merge(b, dict).conf[k] = IF At(dict, k) = {} THEN b.conf[k]
                                   ELSE dict[CHOOSE i \in At(dict, k) : TRUE].value
      BY <2>4, <3>1
    <3> QED  BY <3>2 DEF Value
  <2> QED  BY <1>3, <1>5, <2>4, <2>5
<1>6. CASE Value(dict, "remote") # Absent
  <2>1. PICK i \in At(dict, "remote"), j \in At(dict, "master") : i # j
    BY <1>3, <1>4, <1>6 DEF At
  <2>2. i \in Refused(b, dict) \/ j \in Refused(b, dict)
    BY <1>1, <1>2, <2>1 DEF Refused
  <2>3. PICK r \in Refused(b, dict) : r \in DOMAIN dict /\ r \in Nat
    BY <1>1, <2>2, MasterItemsOf DEF Refused
  <2>4. r \notin Done(b, dict)
    BY <2>3 DEF Done
  <2> QED  BY <1>6, <2>3, <2>4 DEF Merge
<1> QED  BY <1>5, <1>6

\* A dict of the mappers names each key once.
LEMMA KeyValue ==
  ASSUME NEW dict, \A i, j \in DOMAIN dict : dict[i].key = dict[j].key => i = j
  PROVE  /\ \A k : Once(dict, k)
         /\ \A i \in DOMAIN dict : Value(dict, dict[i].key) = dict[i].value
         /\ \A k : (\A i \in DOMAIN dict : dict[i].key # k) => Value(dict, k) = Absent
<1>1. \A k : Once(dict, k)
  BY DEF Once, At
<1>2. ASSUME NEW i \in DOMAIN dict  PROVE Value(dict, dict[i].key) = dict[i].value
  <2>1. CASE dict[i].value # Absent
    <3>1. i \in At(dict, dict[i].key)
      BY <2>1 DEF At
    <3> QED  BY <1>1, <3>1, ValueIs
  <2>2. CASE dict[i].value = Absent
    <3>1. At(dict, dict[i].key) = {}
      BY <2>2 DEF At
    <3> QED  BY <2>2, <3>1, ValueIs
  <2> QED  BY <2>1, <2>2
<1>3. ASSUME NEW k, \A i \in DOMAIN dict : dict[i].key # k  PROVE Value(dict, k) = Absent
  BY <1>3, ValueIs DEF At
<1> QED  BY <1>1, <1>2, <1>3

LEMMA FromOneVar ==
  ASSUME NEW k, NEW v, NEW default, NEW env
  PROVE  FromVars(Mapped(k, <<v>>, default), env) = IF v \in env THEN v ELSE default
<1> DEFINE m == Mapped(k, <<v>>, default)
           set == {i \in DOMAIN m.vars : m.vars[i] \in env}
<1>1. m.vars = <<v>> /\ m.default = default /\ DOMAIN m.vars = {1} /\ m.vars[1] = v
  BY DEF Mapped
<1>2. set = IF v \in env THEN {1} ELSE {}
  BY <1>1
<1>3. (CHOOSE i \in {1} : \A j \in {1} : i <= j) = 1
  OBVIOUS
<1> QED  BY <1>1, <1>2, <1>3 DEF FromVars

\* The keys the precedence is about.
Options == {"master", "remote", "port", "eager"}

Var(v, env) == IF v \in env THEN v ELSE Absent
Before(x, y) == IF x # Absent THEN x ELSE y

\* The dicts that name a master and no other option.
OnlyMaster(dict, v) ==
  /\ dict \in Dicts /\ \A k \in Options : Once(dict, k)
  /\ Value(dict, "master") = v /\ v # Absent
  /\ \A k \in Options \ {"master"} : Value(dict, k) = Absent

LEMMA LocalOptions ==
  ASSUME NEW env
  PROVE  OnlyMaster(FromEnv(LocalMapper, env), Before(Var("SPARGLIM_MASTER", env), "default"))
<1> DEFINE dict == FromEnv(LocalMapper, env)
<1>1. /\ DOMAIN dict = 1..2 /\ dict[1].key = "master" /\ dict[2].key = "memory"
      /\ dict[1].value = FromVars(Mapped("master", <<"SPARGLIM_MASTER">>, "default"), env)
  BY DEF FromEnv, LocalMapper, Mapped, Item
<1>2. dict \in Dicts
  BY MappersAreEntries, FromEnvDict
<1> HIDE DEF dict
<1>3. dict[1].value = Before(Var("SPARGLIM_MASTER", env), "default")
  BY <1>1, FromOneVar DEF Before, Var, Absent
<1>4. /\ \A k : Once(dict, k) /\ Value(dict, "master") = dict[1].value
      /\ \A k \in Options \ {"master"} : Value(dict, k) = Absent
  <2>1. \A i, j \in DOMAIN dict : dict[i].key = dict[j].key => i = j
    BY <1>1
  <2>2. \A k \in Options \ {"master"} : \A i \in DOMAIN dict : dict[i].key # k
    BY <1>1 DEF Options
  <2> QED  BY <1>1, <2>1, <2>2, KeyValue
<1>5. dict[1].value # Absent
  BY <1>3 DEF Before, Var, Absent
<1> QED  BY <1>2, <1>3, <1>4, <1>5 DEF OnlyMaster, dict

LEMMA K8sOptions ==
  ASSUME NEW env, NEW cluster
  PROVE  OnlyMaster(Over(Gpu(FromEnv(K8sMapper, env)), ClusterItems(cluster)), "cluster")
<1> DEFINE gpu == Gpu(FromEnv(K8sMapper, env))
           items == ClusterItems(cluster)
<1>1. gpu \in Dicts /\ items \in Dicts
  BY MappersAreEntries, FromEnvDict, GpuDict, ClusterDict
<1>2. /\ DOMAIN gpu = 1..4 /\ gpu[1].key = "master" /\ gpu[2].key = "memory"
      /\ gpu[3].key = "vendor" /\ gpu[4].key = "amount"
  BY DEF Gpu, FromEnv, K8sMapper, Mapped, Item
<1>3. /\ DOMAIN items = 1..2 /\ items[1] = Item("master", "cluster") /\ items[2].key = "ca"
  BY DEF ClusterItems, Item
<1> HIDE DEF gpu, items
<1>4. /\ \A k : Once(gpu, k)
      /\ \A k \in Options \ {"master"} : Value(gpu, k) = Absent
  <2>1. \A i, j \in DOMAIN gpu : gpu[i].key = gpu[j].key => i = j
    BY <1>2
  <2>2. \A k \in Options \ {"master"} : \A i \in DOMAIN gpu : gpu[i].key # k
    BY <1>2 DEF Options
  <2> QED  BY <2>1, <2>2, KeyValue
<1>5. /\ \A k : Once(items, k) /\ Value(items, "master") = "cluster"
      /\ \A k \in Options \ {"master"} : Value(items, k) = Absent
  <2>1. \A i, j \in DOMAIN items : items[i].key = items[j].key => i = j
    BY <1>3 DEF Item
  <2>2. \A k \in Options \ {"master"} : \A i \in DOMAIN items : items[i].key # k
    BY <1>3 DEF Options, Item
  <2>3. 1 \in DOMAIN items /\ items[1].key = "master" /\ items[1].value = "cluster"
    BY <1>3 DEF Item
  <2> QED  BY <2>1, <2>2, <2>3, KeyValue
<1>6. \A k : /\ Once(Over(gpu, items), k)
             /\ Value(Over(gpu, items), k) =
                  IF Value(items, k) # Absent THEN Value(items, k) ELSE Value(gpu, k)
  BY <1>1, <1>4, <1>5, OverValue
<1>7. Over(gpu, items) \in Dicts
  BY <1>1, OverDict
<1> QED  BY <1>4, <1>5, <1>6, <1>7 DEF OnlyMaster, Absent, Options, gpu, items

LEMMA ServerOptions ==
  ASSUME NEW env
  PROVE  LET dict == FromEnv(ServerMapper, env)
         IN  /\ dict \in Dicts /\ \A k : Once(dict, k)
             /\ Value(dict, "port") = Var("SPARGLIM_CONNECT_SERVER_PORT", env)
             /\ \A k \in Options \ {"port"} : Value(dict, k) = Absent
<1> DEFINE dict == FromEnv(ServerMapper, env)
<1>1. /\ DOMAIN dict = 1..1 /\ dict[1].key = "port"
      /\ dict[1].value = FromVars(Mapped("port", <<"SPARGLIM_CONNECT_SERVER_PORT">>, Absent), env)
  BY DEF FromEnv, ServerMapper, Mapped, Item
<1>2. dict \in Dicts
  BY MappersAreEntries, FromEnvDict
<1> HIDE DEF dict
<1>3. dict[1].value = Var("SPARGLIM_CONNECT_SERVER_PORT", env)
  BY <1>1, FromOneVar DEF Var
<1>4. /\ \A k : Once(dict, k) /\ Value(dict, "port") = dict[1].value
      /\ \A k \in Options \ {"port"} : Value(dict, k) = Absent
  <2>1. \A i, j \in DOMAIN dict : dict[i].key = dict[j].key => i = j
    BY <1>1
  <2>2. \A k \in Options \ {"port"} : \A i \in DOMAIN dict : dict[i].key # k
    BY <1>1
  <2>3. 1 \in DOMAIN dict
    BY <1>1
  <2> QED  BY <1>1, <2>1, <2>2, <2>3, KeyValue
<1> QED  BY <1>2, <1>3, <1>4 DEF dict

\* A new configuration: no master, no port, nothing eager.
New(b) ==
  b.raised = "no" /\ ~b.configured /\ \A k \in Options : b.conf[k] = Absent

LEMMA InitializedNew == ASSUME NEW env  PROVE New(Initialized(env))
<1>1. \A i \in DOMAIN FromEnv(DefaultMapper, env) : FromEnv(DefaultMapper, env)[i].key = "s3"
  BY DEF FromEnv, DefaultMapper, Item, Mapped
<1>2. \A k \in Options : Value(FromEnv(DefaultMapper, env), k) = Absent
  BY <1>1 DEF Value, At, Options
<1> QED  BY <1>2 DEF New, Initialized, NoRaise, Options, Keys, MasterKeys

\* A custom dict over a mode's, then the port of the environment.
LEMMA ServerMerge ==
  ASSUME NEW b, New(b), NEW a, NEW v, OnlyMaster(a, v),
         NEW c \in Dicts, \A k \in Options : Once(c, k), NEW env
  PROVE  LET s == Merge(Merge(b, Over(a, c)), FromEnv(ServerMapper, env))
         IN  /\ s.raised = "no" <=> Value(c, "remote") = Absent
             /\ s.raised = "no" =>
                  /\ s.conf["master"] = Before(Value(c, "master"), v)
                  /\ s.conf["port"] =
                       Before(Var("SPARGLIM_CONNECT_SERVER_PORT", env), Value(c, "port"))
                  /\ s.conf["eager"] = Value(c, "eager")
<1> DEFINE d == Over(a, c)
           e == Merge(b, d)
           p == FromEnv(ServerMapper, env)
           s == Merge(e, p)
<1>1. /\ d \in Dicts
      /\ \A k \in Options : /\ Once(d, k)
                            /\ Value(d, k) = IF Value(c, k) # Absent THEN Value(c, k)
                                             ELSE Value(a, k)
  BY OverDict, OverValue DEF OnlyMaster
<1>2. /\ p \in Dicts /\ \A k : Once(p, k)
      /\ Value(p, "port") = Var("SPARGLIM_CONNECT_SERVER_PORT", env)
      /\ \A k \in Options \ {"port"} : Value(p, k) = Absent
  BY ServerOptions
<1>3. MasterKeys = {"master", "remote"} /\ Options \subseteq Keys
  BY DEF MasterKeys, Options, Keys
<1>4. /\ Value(d, "master") = Before(Value(c, "master"), v) /\ Value(d, "master") # Absent
      /\ \A k \in Options \ {"master"} : Value(d, k) = Value(c, k)
  BY <1>1 DEF OnlyMaster, Options, Before
<1> HIDE DEF d, p
<1>5. /\ e.raised = IF Value(d, "remote") = Absent THEN "no" ELSE "already"
      /\ Value(d, "remote") = Absent =>
           \A k \in Keys : e.conf[k] = IF Value(d, k) = Absent THEN b.conf[k] ELSE Value(d, k)
  <2>1. \A k \in MasterKeys : Once(d, k)
    BY <1>1, <1>3 DEF Options
  <2> QED  BY <1>1, <1>4, <2>1, MergeValue DEF New
<1> HIDE DEF e
<1>6. CASE Value(c, "remote") # Absent
  <2>1. e.raised = "already"
    BY <1>4, <1>5, <1>6 DEF Options
  <2>2. s = e
    BY <2>1 DEF Merge
  <2> QED  BY <1>6, <2>1, <2>2 DEF d, e, p
<1>7. CASE Value(c, "remote") = Absent
  <2>1. e.raised = "no" /\ \A k \in Options :
          e.conf[k] = IF Value(d, k) = Absent THEN Absent ELSE Value(d, k)
    BY <1>3, <1>4, <1>5, <1>7 DEF Options, New
  <2>2. /\ s.raised = "no"
        /\ \A k \in Keys : s.conf[k] = IF Value(p, k) = Absent THEN e.conf[k] ELSE Value(p, k)
    <3>1. /\ Value(p, "master") = Absent /\ Value(p, "remote") = Absent
          /\ \A k \in MasterKeys : Once(p, k)
      BY <1>2 DEF Options
    <3> HIDE DEF s
    <3> QED  BY <1>2, <2>1, <3>1, MergeValue DEF s
  <2> HIDE DEF s
  <2>3. /\ s.conf["master"] = e.conf["master"] /\ s.conf["eager"] = e.conf["eager"]
        /\ s.conf["port"] = Before(Var("SPARGLIM_CONNECT_SERVER_PORT", env), e.conf["port"])
    BY <1>2, <1>3, <2>2 DEF Options, Before
  <2>4. /\ e.conf["master"] = Before(Value(c, "master"), v)
        /\ e.conf["eager"] = Value(c, "eager") /\ e.conf["port"] = Value(c, "port")
    BY <1>4, <2>1 DEF Options
  <2> QED  BY <1>7, <2>2, <2>3, <2>4 DEF d, e, p, s
<1> QED  BY <1>6, <1>7

LEMMA FirstIs ==
  /\ \A x, y, z : First(<<x, y, z>>) = Before(x, Before(y, z))
  /\ \A x, y, z, w : First(<<x, y, z, w>>) = Before(x, Before(y, Before(z, w)))
<1>1. ASSUME NEW n \in Nat, NEW v, DOMAIN v = 1..n
      PROVE  /\ \A i \in 1..n : v[i] # Absent /\ (\A j \in 1..n : j < i => v[j] = Absent)
                                  => First(v) = v[i]
             /\ (\A i \in 1..n : v[i] = Absent) => First(v) = Absent
  <2> DEFINE found == {i \in DOMAIN v : v[i] # Absent}
  <2>1. First(v) = IF found = {} THEN Absent
                   ELSE v[CHOOSE i \in found : \A j \in found : i <= j]
    BY DEF First
  <2>2. ASSUME NEW i \in 1..n, v[i] # Absent, \A j \in 1..n : j < i => v[j] = Absent
        PROVE  First(v) = v[i]
    <3>1. i \in found /\ \A j \in found : i <= j /\ j \in Nat
      BY <1>1, <2>2
    <3>2. \A j \in found : (\A l \in found : j <= l) => j = i
      BY <3>1
    <3>3. (CHOOSE j \in found : \A l \in found : j <= l) = i
      <4> HIDE DEF found
      <4> QED  BY <3>1, <3>2
    <3> QED  BY <2>1, <3>1, <3>3
  <2> QED  BY <1>1, <2>1, <2>2
<1>2. ASSUME NEW x, NEW y, NEW z
      PROVE  First(<<x, y, z>>) = Before(x, Before(y, z))
  <2> DEFINE v == <<x, y, z>>
  <2>1. DOMAIN v = 1..3 /\ v[1] = x /\ v[2] = y /\ v[3] = z
    OBVIOUS
  <2> HIDE DEF v
  <2>2. /\ \A i \in 1..3 : v[i] # Absent /\ (\A j \in 1..3 : j < i => v[j] = Absent)
                             => First(v) = v[i]
        /\ (\A i \in 1..3 : v[i] = Absent) => First(v) = Absent
    BY <1>1, <2>1
  <2> HIDE DEF v
  <2>3. CASE x # Absent
    <3>1. v[1] # Absent /\ \A j \in 1..3 : j < 1 => v[j] = Absent
      BY <2>1, <2>3
    <3> QED  BY <2>1, <2>2, <2>3, <3>1 DEF Before, v
  <2>4. CASE x = Absent /\ y # Absent
    <3>1. v[2] # Absent /\ \A j \in 1..3 : j < 2 => v[j] = Absent
      BY <2>1, <2>4
    <3> QED  BY <2>1, <2>2, <2>4, <3>1 DEF Before, v
  <2>5. CASE x = Absent /\ y = Absent /\ z # Absent
    <3>1. v[3] # Absent /\ \A j \in 1..3 : j < 3 => v[j] = Absent
      BY <2>1, <2>5
    <3> QED  BY <2>1, <2>2, <2>5, <3>1 DEF Before, v
  <2>6. CASE x = Absent /\ y = Absent /\ z = Absent
    BY <2>1, <2>2, <2>6 DEF Before, v
  <2> QED  BY <2>3, <2>4, <2>5, <2>6
<1>3. ASSUME NEW x, NEW y, NEW z, NEW w
      PROVE  First(<<x, y, z, w>>) = Before(x, Before(y, Before(z, w)))
  <2> DEFINE v == <<x, y, z, w>>
  <2>1. DOMAIN v = 1..4 /\ v[1] = x /\ v[2] = y /\ v[3] = z /\ v[4] = w
    OBVIOUS
  <2> HIDE DEF v
  <2>2. /\ \A i \in 1..4 : v[i] # Absent /\ (\A j \in 1..4 : j < i => v[j] = Absent)
                             => First(v) = v[i]
        /\ (\A i \in 1..4 : v[i] = Absent) => First(v) = Absent
    BY <1>1, <2>1
  <2> HIDE DEF v
  <2>3. CASE x # Absent
    <3>1. v[1] # Absent /\ \A j \in 1..4 : j < 1 => v[j] = Absent
      BY <2>1, <2>3
    <3> QED  BY <2>1, <2>2, <2>3, <3>1 DEF Before, v
  <2>4. CASE x = Absent /\ y # Absent
    <3>1. v[2] # Absent /\ \A j \in 1..4 : j < 2 => v[j] = Absent
      BY <2>1, <2>4
    <3> QED  BY <2>1, <2>2, <2>4, <3>1 DEF Before, v
  <2>5. CASE x = Absent /\ y = Absent /\ z # Absent
    <3>1. v[3] # Absent /\ \A j \in 1..4 : j < 3 => v[j] = Absent
      BY <2>1, <2>5
    <3> QED  BY <2>1, <2>2, <2>5, <3>1 DEF Before, v
  <2>6. CASE x = Absent /\ y = Absent /\ z = Absent /\ w # Absent
    <3>1. v[4] # Absent /\ \A j \in 1..4 : j < 4 => v[j] = Absent
      BY <2>1, <2>6
    <3> QED  BY <2>1, <2>2, <2>6, <3>1 DEF Before, v
  <2>7. CASE x = Absent /\ y = Absent /\ z = Absent /\ w = Absent
    BY <2>1, <2>2, <2>7 DEF Before, v
  <2> QED  BY <2>3, <2>4, <2>5, <2>6, <2>7
<1> QED  BY <1>2, <1>3

\* The dicts of callers are Python's, without a key twice, and what they choose for the
\* server is not None.
OwnOptions ==
  \A c \in Customs : /\ \A k \in Options : Once(c, k)
                     /\ \A k \in Options \ {"remote"} : Value(c, k) # "None"

\* What s, the configuration of a server, has each option from.
HasOptions(s, mode, c, cluster, env) ==
  LET custom(k) == IF mode = "no" THEN Absent ELSE Value(c, k)
  IN  /\ s.raised = "no" <=> /\ mode # "other" /\ cluster # "unreadable"
                             /\ custom("remote") = Absent
      /\ s.raised = "no" =>
           /\ s.conf["master"] =
                IF mode = "no" THEN Absent
                ELSE Before(custom("master"),
                       IF mode = "k8s" THEN "cluster"
                       ELSE Before(Var("SPARGLIM_MASTER", env), "default"))
           /\ s.conf["port"] =
                Before(Var("SPARGLIM_CONNECT_SERVER_PORT", env), custom("port"))
           /\ s.conf["eager"] = custom("eager")

LEMMA StartOptions ==
  ASSUME OwnOptions, NEW b, New(b), NEW env,
         NEW c \in Customs, NEW mode \in {"no", "local", "k8s", "other"},
         NEW cluster \in Clusters(mode)
  PROVE  HasOptions(WithServer(b, mode, c, cluster, env), mode, c, cluster, env)
<1> DEFINE p == FromEnv(ServerMapper, env)
           s == WithServer(b, mode, c, cluster, env)
<1>0. c \in Dicts /\ \A k \in Options : Once(c, k)
  BY CustomsAssumption DEF OwnOptions
<1>1. CASE mode = "no"
  <2>1. s = Merge(b, p) /\ b.raised = "no"
    BY <1>1 DEF WithServer, New
  <2>2. /\ p \in Dicts /\ \A k : Once(p, k)
        /\ Value(p, "port") = Var("SPARGLIM_CONNECT_SERVER_PORT", env)
        /\ \A k \in Options \ {"port"} : Value(p, k) = Absent
    BY ServerOptions
  <2> HIDE DEF p, s
  <2>3. /\ s.raised = "no"
        /\ \A k \in Keys : s.conf[k] = IF Value(p, k) = Absent THEN b.conf[k] ELSE Value(p, k)
    <3>1. /\ Value(p, "master") = Absent /\ Value(p, "remote") = Absent
          /\ \A k \in MasterKeys : Once(p, k)
      BY <2>2 DEF Options
    <3> QED  BY <2>1, <2>2, <3>1, MergeValue
  <2>4. Options \subseteq Keys /\ cluster # "unreadable" /\ mode # "other"
    BY <1>1 DEF Options, Keys, MasterKeys, Clusters
  <2>5. /\ s.conf["master"] = Absent /\ s.conf["eager"] = Absent
        /\ s.conf["port"] = Before(Var("SPARGLIM_CONNECT_SERVER_PORT", env), Absent)
    BY <2>2, <2>3, <2>4 DEF New, Options, Before
  <2> QED  BY <1>1, <2>3, <2>4, <2>5 DEF s, HasOptions
<1>2. CASE mode = "local"
  <2> DEFINE v == Before(Var("SPARGLIM_MASTER", env), "default")
             a == FromEnv(LocalMapper, env)
  <2>1. s = Merge(Merge(b, Over(a, c)), p) /\ cluster # "unreadable"
    BY <1>2 DEF WithServer, WithMode, WithLocal, Clusters
  <2>2. OnlyMaster(a, v)
    BY LocalOptions
  <2> HIDE DEF a, s, v
  <2> QED  BY <1>0, <1>2, <2>1, <2>2, ServerMerge DEF s, v, HasOptions
<1>3. CASE mode = "k8s" /\ cluster # "unreadable"
  <2> DEFINE a == Over(Gpu(FromEnv(K8sMapper, env)), ClusterItems(cluster))
  <2>1. s = Merge(Merge(b, Over(a, c)), p)
    BY <1>3 DEF WithServer, WithMode, WithK8s
  <2>2. OnlyMaster(a, "cluster")
    BY K8sOptions
  <2> HIDE DEF a, s
  <2> QED  BY <1>0, <1>3, <2>1, <2>2, ServerMerge DEF s, HasOptions
<1>4. CASE mode = "other" \/ cluster = "unreadable"
  <2>1. s = Merge(Unconfigurable(b), p)
    BY <1>4 DEF WithServer, WithMode, WithK8s, Clusters
  <2>2. Unconfigurable(b).raised # "no"
    BY DEF Unconfigurable, New
  <2> QED  BY <1>4, <2>1, <2>2 DEF Merge, HasOptions
<1> QED  BY <1>1, <1>2, <1>3, <1>4

\* start and Daemon.__init__: whatever options, variables and custom dicts there are, a
\* server either does not start, for a named reason, or has its mode, master, port and
\* the rest each from the place that comes first.
THEOREM StartsFollowPrecedence ==
  ASSUME OwnOptions  PROVE Spec => []StartFollowsPrecedence
<1>1. StartFollowsPrecedence
  <2> SUFFICES ASSUME NEW env, Now = Initialized(env),
                      NEW c \in Commands, NEW e \in Environments,
                      NEW cluster \in Clusters(ModeOf(c, e))
               PROVE
        LET s == ServerConfig(Now, c, e, cluster, env)
            mode == ModeOf(c, e)
            own == c.mode # "no" /\ c.custom # <<>>
            chosen == IF own THEN c.custom ELSE e.custom
            custom(k) == IF mode = "no" THEN Absent ELSE Value(chosen, k)
            var(v) == IF v \in env THEN v ELSE Absent
        IN  /\ s.raised = "no" <=>
                 /\ e.script /\ c.custom # Garbled /\ chosen # Garbled
                 /\ mode # "other" /\ cluster # "unreadable"
                 /\ custom("remote") = Absent
            /\ s.raised = "no" =>
                 /\ ConfigOf(s)["master"] =
                      IF mode = "no" THEN Absent
                      ELSE First(<<custom("master"), IF mode = "k8s" THEN "cluster" ELSE Absent,
                                   var("SPARGLIM_MASTER"), "default">>)
                 /\ PortOf(s) = First(<<var("SPARGLIM_CONNECT_SERVER_PORT"), custom("port"),
                                        "default">>)
                 /\ ConfigOf(s)["eager"] = custom("eager")
    BY DEF StartFollowsPrecedence
  <2> DEFINE s == ServerConfig(Now, c, e, cluster, env)
             mode == ModeOf(c, e)
             chosen == IF c.mode # "no" /\ c.custom # <<>> THEN c.custom ELSE e.custom
             custom(k) == IF mode = "no" THEN Absent ELSE Value(chosen, k)
  <2>0. New(Now) /\ mode \in {"no", "local", "k8s", "other"} /\ chosen = CustomOf(c, e)
    BY InitializedNew DEF ModeOf, Commands, Environments, CustomOf
  <2>1. CASE c.custom = Garbled \/ chosen = Garbled
    <3>1. s = [Now EXCEPT !.raised = "value"]
      BY <2>0, <2>1 DEF ServerConfig
    <3>2. s.raised = "value"
      BY <3>1 DEF Now, NoRaise
    <3> QED  BY <2>1, <3>2
  <2>2. CASE c.custom # Garbled /\ chosen # Garbled /\ ~e.script
    <3>1. s = Unconfigurable(Now)
      BY <2>0, <2>2 DEF ServerConfig
    <3>2. s.raised = "unconfigurable"
      BY <3>1 DEF Now, NoRaise, Unconfigurable
    <3> QED  BY <2>2, <3>2
  <2>3. CASE c.custom # Garbled /\ chosen # Garbled /\ e.script
    <3>1. s = WithServer(Now, mode, chosen, cluster, env)
      BY <2>0, <2>3 DEF ServerConfig
    <3>2. chosen \in Customs
      BY <2>3 DEF Commands, Environments, JSONs
    <3> HIDE DEF s, mode, chosen
    <3>3. cluster \in Clusters(mode)
      BY DEF mode
    <3>4. /\ s.raised = "no" <=> /\ mode # "other" /\ cluster # "unreadable"
                                 /\ custom("remote") = Absent
          /\ s.raised = "no" =>
               /\ s.conf["master"] =
                    IF mode = "no" THEN Absent
                    ELSE Before(custom("master"),
                           IF mode = "k8s" THEN "cluster"
                           ELSE Before(Var("SPARGLIM_MASTER", env), "default"))
               /\ s.conf["port"] =
                    Before(Var("SPARGLIM_CONNECT_SERVER_PORT", env), custom("port"))
               /\ s.conf["eager"] = custom("eager")
      <4>1. PICK b : b = Now
        OBVIOUS
      <4>2. New(b) /\ s = WithServer(b, mode, chosen, cluster, env)
        BY <2>0, <3>1, <4>1
      <4>3. HasOptions(WithServer(b, mode, chosen, cluster, env), mode, chosen, cluster, env)
        BY <2>0, <3>2, <3>3, <4>2, StartOptions
      <4> QED  BY <4>2, <4>3 DEF HasOptions
    <3>5. \A k \in Options \ {"remote"} : custom(k) # "None"
      BY <3>2 DEF OwnOptions, Absent
    <3> HIDE DEF custom
    <3>6. ASSUME s.raised = "no"
          PROVE  /\ s.conf["master"] # "None" /\ s.conf["port"] # "None" /\ s.conf["eager"] # "None"
      BY <3>4, <3>5, <3>6 DEF Options, Before, Var, Absent
    <3>7. ASSUME s.raised = "no"
          PROVE  /\ ConfigOf(s)["master"] = s.conf["master"]
                 /\ ConfigOf(s)["port"] = s.conf["port"]
                 /\ ConfigOf(s)["eager"] = s.conf["eager"]
      BY <3>6, <3>7 DEF ConfigOf, GetAll, Keys, MasterKeys
    <3>8. ASSUME s.raised = "no"
          PROVE  PortOf(s) = Before(Var("SPARGLIM_CONNECT_SERVER_PORT", env),
                                    Before(custom("port"), "default"))
      BY <3>4, <3>7, <3>8 DEF PortOf, Before
    <3>9. ASSUME s.raised = "no", mode # "no"
          PROVE  ConfigOf(s)["master"] =
                   Before(custom("master"),
                     Before(IF mode = "k8s" THEN "cluster" ELSE Absent,
                       Before(Var("SPARGLIM_MASTER", env), "default")))
      BY <3>4, <3>7, <3>9 DEF Before, Absent
    <3>10. s.raised = "no" <=>
             /\ e.script /\ c.custom # Garbled /\ chosen # Garbled
             /\ mode # "other" /\ cluster # "unreadable" /\ custom("remote") = Absent
      BY <2>3, <3>4
    <3>11. ASSUME s.raised = "no"
           PROVE  /\ ConfigOf(s)["master"] =
                       IF mode = "no" THEN Absent
                       ELSE First(<<custom("master"), IF mode = "k8s" THEN "cluster" ELSE Absent,
                                    Var("SPARGLIM_MASTER", env), "default">>)
                  /\ PortOf(s) = First(<<Var("SPARGLIM_CONNECT_SERVER_PORT", env), custom("port"),
                                         "default">>)
                  /\ ConfigOf(s)["eager"] = custom("eager")
      BY <3>4, <3>7, <3>8, <3>9, <3>11, FirstIs
    <3> QED  BY <3>10, <3>11 DEF Var, custom, s, mode, chosen
  <2> QED  BY <2>1, <2>2, <2>3
<1> QED  BY <1>1, PTL

=============================================================================
