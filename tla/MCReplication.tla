----------------------------- MODULE MCReplication -----------------------------
(* Instances of Replication. *)
EXTENDS Replication

================================================================================
