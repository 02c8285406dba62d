-------------------------- MODULE MCClusterHashring --------------------------
(* Small clusters for TLC.                                                 *)
EXTENDS ClusterHashring

\* Keys are numbers; key k moves once, when bucket k comes.
SmallBucket ==
  [n \in 1 .. Cardinality(Instance) |-> [k \in Key |-> IF k < n THEN k ELSE 0]]

=============================================================================
