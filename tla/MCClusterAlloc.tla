---------------------------- MODULE MCClusterAlloc ----------------------------
(* ClusterAlloc for TLC.  Three entries compete for four clusters, so that  *)
(* the volume fills up while chains of up to three clusters are interleaved *)
(* in the table, shrink by more than one cluster and are given back.        *)
EXTENDS ClusterAlloc
=============================================================================
