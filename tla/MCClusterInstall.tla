-------------------------- MODULE MCClusterInstall --------------------------
(***************************************************************************)
(* ClusterInstall where the private cable is in the first device or in the *)
(* second.                                                                 *)
(***************************************************************************)
EXTENDS ClusterInstall

LeftBlank == {{}, {"gateway"}}

\* A new gateway or none, an address that is the cluster's, and a name that was
\* deleted or has a space in it.
Typed(u) == {<<<<u, "gateway">>, <<<<u, "new">>>>>>, <<<<u, "gateway">>, <<SNAPPTIX_FILL>>>>,
             <<<<u, "ip">>, <<<<0, "ip">>>>>>,
             <<<<u, "host">>, <<>>>>, <<<<u, "host">>, <<<<u, "two">>, <<u, "words">>>>>>,
             <<<<0, "name">>, <<<<u, "two">>, <<u, "words">>>>>>}

Both   == {0, 1}
Either == BOOLEAN
=============================================================================
