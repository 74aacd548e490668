---------------------------- MODULE MCInventory ----------------------------
(***************************************************************************)
(* An instance of Inventory for TLC.                                       *)
(***************************************************************************)
EXTENDS Inventory, TLC

CONSTANT r1

\* The control planes of a cluster whose own name ends like a machine set of
\* another: prod-workers-control-planes.
WorkersCluster == r1 :> <<"prod", "workers">>
ControlPlanesSuffix == r1 :> ControlPlanes
=============================================================================
