---------------------------- MODULE MCSparkConfig ----------------------------
(* Instances of SparkConfig for TLC.                                       *)
EXTENDS ServerCommand

\* No dict, one that ends in a master, and one that is a remote.
Master == <<Item("eager", "custom"), Item("port", "custom"), Item("master", "custom")>>
Remote == <<Item("remote", "custom")>>
AllDicts == {<<>>, Master, Remote}

=============================================================================
