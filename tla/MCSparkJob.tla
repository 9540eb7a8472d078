----------------------------- MODULE MCSparkJob -----------------------------
(* Instances of SparkJob for TLC: MCBatch.cfg, MCRetries.cfg.             *)
EXTENDS SparkJobInv

=============================================================================
