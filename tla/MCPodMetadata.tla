--------------------------- MODULE MCPodMetadata ---------------------------
(***************************************************************************)
(* Values for the constants of PodMetadata.                                *)
(***************************************************************************)
EXTENDS PodMetadata

CONSTANTS k1, k2, k3

ThreeKeys == {k1, k2, k3}
TwoKeys == {k1, k2}
=============================================================================
