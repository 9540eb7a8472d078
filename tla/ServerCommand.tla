---------------------------- MODULE ServerCommand ----------------------------
(***************************************************************************)
(* The command `start` of server/cli.py and Daemon.__init__: which of the  *)
(* options, environment variables and defaults decide about the            *)
(* configuration of the connect server.  They are functions of the command *)
(* and of the environment it is run in; Daemon is what happens after it.   *)
(***************************************************************************)
EXTENDS SparkConfig

\* The options of the command, and what it finds: SPARGLIM_SERVER_MODE,
\* SPARGLIM_SERVER_CUSTOM_CONFIG and the start script of Spark.  "no" is a mode that
\* is not given or empty; <<>> is a custom config that is not given or empty.
Garbled == <<Item("none", "garbled")>>
JSONs == Customs \cup {Garbled}
Commands == [mode : {"no", "local", "k8s", "other"}, custom : JSONs]
Environments == [mode : {"unset", "no", "local", "k8s", "other"}, custom : JSONs,
                 script : BOOLEAN]

\* Daemon: self.mode, self.custom_config.
ModeOf(c, e) ==
  IF c.mode # "no" THEN c.mode ELSE IF e.mode = "unset" THEN "local" ELSE e.mode

\* A bug to catch: the two dicts are merged.
CustomOfBoth(c, e) == IF c.custom = Garbled THEN e.custom ELSE Over(e.custom, c.custom)

\* `start` passes its custom_config on only with a mode.
CustomOf(c, e) == IF c.mode # "no" /\ c.custom # <<>> THEN c.custom ELSE e.custom

\* start, then Daemon.__init__ up to its configuration; b is the new Config.  The JSON
\* of the environment is only looked at when it is needed.
ServerConfig(b, c, e, cluster, env) ==
  IF Garbled \in {c.custom, CustomOf(c, e)} THEN [b EXCEPT !.raised = "value"]
  ELSE IF ~e.script THEN Unconfigurable(b)
  ELSE WithServer(b, ModeOf(c, e), CustomOf(c, e), cluster, env)

\* Daemon.config and Daemon.port: what the start script and port_is_used are given.
ConfigOf(b) == GetAll(b.conf)
PortOf(b) == IF ConfigOf(b)["port"] = Absent THEN "default" ELSE ConfigOf(b)["port"]

-----------------------------------------------------------------------------
(* Properties.                                                             *)

First(values) ==
  LET found == {i \in DOMAIN values : values[i] # Absent}
  IN  IF found = {} THEN Absent ELSE values[CHOOSE i \in found : \A j \in found : i <= j]

\* However many places name an option, a started server has it from one: the mode of
\* the command before that of the environment; the custom config of the command, if it
\* comes with a mode, before all of that of the environment; a custom master before the
\* cluster's, that before the variable's; but the port of the variable before a custom
\* one.  What has not been chosen can neither stop a start nor show in it, and without
\* a mode the server gets no master and none of the custom config.
StartFollowsPrecedence ==
  \A env \in SUBSET (Settable \cup {"SPARGLIM_MASTER", "SPARGLIM_CONNECT_SERVER_PORT"}) :
    Now = Initialized(env) =>
      \A c \in Commands, e \in Environments : \A cluster \in Clusters(ModeOf(c, e)) :
        LET s == ServerConfig(Now, c, e, cluster, env)
            mode == ModeOf(c, e)
            own == c.mode # "no" /\ c.custom # <<>>
            chosen == IF own THEN c.custom ELSE e.custom
            custom(k) == IF mode = "no" THEN Absent ELSE Value(chosen, k)
            var(v) == IF v \in env THEN v ELSE Absent
        IN  /\ s.raised = "no" <=>
                 /\ e.script /\ c.custom # Garbled /\ chosen # Garbled
                 /\ mode # "other" /\ cluster # "unreadable"
                 /\ custom("remote") = Absent
            /\ s.raised = "no" =>
                 /\ ConfigOf(s)["master"] =
                      IF mode = "no" THEN Absent
                      ELSE First(<<custom("master"), IF mode = "k8s" THEN "cluster" ELSE Absent,
                                   var("SPARGLIM_MASTER"), "default">>)
                 /\ PortOf(s) = First(<<var("SPARGLIM_CONNECT_SERVER_PORT"), custom("port"),
                                        "default">>)
                 /\ ConfigOf(s)["eager"] = custom("eager")

=============================================================================
