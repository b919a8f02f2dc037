----------------------------- MODULE MCCluster ------------------------------
(* Small instances of Cluster for TLC. *)
EXTENDS Cluster

CONSTANTS cust1, cust2, n1, n2, n3

MCCustomers == <<cust1, cust2>>
MCRoute == {<<cust1, cust2>>}
=============================================================================
