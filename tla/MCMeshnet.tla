------------------------------ MODULE MCMeshnet ------------------------------
(* The hosts each node is told of. *)
EXTENDS Meshnet

BothDial == {<<1, 2>>, <<2, 1>>}
=============================================================================
