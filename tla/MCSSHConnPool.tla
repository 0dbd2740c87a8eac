---------------------------- MODULE MCSSHConnPool ----------------------------
(* Two leases of one first hop: every race of the pool is between two       *)
(* leases of one identity, or of one lease with a watcher or a retirer.     *)
EXTENDS SSHConnPool

CONSTANTS l1, l2, i1, h1

MCIdentityOf == [l \in {l1, l2} |-> i1]
MCHostOf == [i \in {i1} |-> h1]

=============================================================================
