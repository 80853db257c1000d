------------------------- MODULE MCTopologyRelease -------------------------
(***************************************************************************)
(* Small instances of TopologyRelease: the chains of nodes an              *)
(* administrator deploys.                                                  *)
(***************************************************************************)
EXTENDS TopologyRelease, TLC

CONSTANTS entry, relay, landing

\* One chain of two nodes whatever the graph revision, landing first.
PairOrder ==
    [g \in Revision |-> [root \in Root |-> landing :> 0 @@ entry :> 1]]

\* One chain of three nodes.
TripleOrder ==
    [g \in Revision |-> [root \in Root |-> landing :> 0 @@ relay :> 1 @@ entry :> 2]]

\* Nodes without an edge: each is a chain of its own.
SoloOrder ==
    [g \in Revision |-> [root \in Root |-> root :> 0]]
=============================================================================
