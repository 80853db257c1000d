-------------------------- MODULE MCTopologyDrafts --------------------------
(* Three machines: 21 and 22 share the second, so that it can be in two     *)
(* chains, or twice in one, or a relay of one and an entry of another.      *)
EXTENDS TopologyDrafts
MCNodeOf == 11 :> 1 @@ 21 :> 2 @@ 22 :> 2 @@ 31 :> 3
MCLinks == {<<1, 11, 21>>, <<2, 21, 31>>, <<2, 22, 31>>, <<3, 31, 22>>}
(* An entry and a landing, linked or not: the second machine can take both  *)
(* roads.  Where it holds a relay, it can take the older one only once that *)
(* is gone.                                                                 *)
Lone == 11 :> Gone @@ 21 :> Gone @@ 22 :> "entry" @@ 31 :> "landing"
MCFounders == {11 :> "entry" @@ 21 :> "relay" @@ 22 :> Unborn @@ 31 :> "landing",
               11 :> "entry" @@ 21 :> "relay" @@ 22 :> "landing" @@ 31 :> "relay",
               Lone}
CrossingFounders == {11 :> "entry" @@ 21 :> "landing" @@ 22 :> "entry" @@ 31 :> "landing"}
=============================================================================
