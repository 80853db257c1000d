---------------------------- MODULE StagedRollout ----------------------------
(***************************************************************************)
(* What a topology release promises the operator of a chain of nodes,      *)
(* whatever the panel does to keep it (P2-DESIGN.md, section 5.3):         *)
(*                                                                         *)
(*   - no node is told to switch before all of them are ready, nor before  *)
(*     every node downstream of it has confirmed that it switched;         *)
(*   - success means that every node has confirmed;                        *)
(*   - a rollout that succeeded stays as it is until its success is put in *)
(*     doubt, and one that stopped never moves on: it can only be          *)
(*     withdrawn;                                                          *)
(*   - it is withdrawn from the nodes upstream first.                      *)
(***************************************************************************)
EXTENDS Naturals

CONSTANTS Node, Release

VARIABLES
    order,      \* [Release -> [its nodes -> Nat]], 0 is furthest downstream
    stage,      \* held, ready, told, confirmed, recalled or withdrawn, by node
    verdict     \* none, open, succeeded or stopped

vars == <<order, stage, verdict>>

Chain(r) == DOMAIN order[r]

\* How far one step may take a node of a rollout that is open.
Forward == {<<"held", "ready">>, <<"held", "told">>, <<"ready", "held">>,
            <<"ready", "told">>, <<"told", "confirmed">>}

Init ==
    /\ \A r \in Release : verdict[r] = "none" /\ Chain(r) = {}
    /\ stage = order

Start(r) ==
    /\ verdict[r] = "none" /\ verdict'[r] = "open"
    /\ Chain(r)' \subseteq Node
    /\ DOMAIN stage'[r] = Chain(r)'
    /\ \A n \in Chain(r)' : stage'[r][n] = "held"

MayBeTold(r, n) ==
    \A m \in Chain(r) : /\ stage'[r][m] # "held"
                        /\ order[r][m] < order[r][n] => stage'[r][m] = "confirmed"

Advance(r) ==
    /\ verdict[r] = "open"
    /\ order'[r] = order[r] /\ DOMAIN stage'[r] = Chain(r)
    /\ \A n \in Chain(r) : stage'[r][n] # stage[r][n] =>
          /\ <<stage[r][n], stage'[r][n]>> \in Forward
          /\ stage'[r][n] = "told" => MayBeTold(r, n)
    /\ verdict'[r] = "succeeded" => \A n \in Chain(r) : stage'[r][n] = "confirmed"
    /\ verdict'[r] # "none"

\* Nodes that were never told to switch may still report on their preparation.
Untold == {"held", "ready"}
Switched == {"told", "confirmed", "recalled"}

Withdraw(r) ==
    /\ verdict[r] \in {"open", "stopped"} /\ verdict'[r] = "stopped"
    /\ order'[r] = order[r] /\ DOMAIN stage'[r] = Chain(r)
    /\ \A n \in Chain(r) : stage'[r][n] # stage[r][n] =>
          \/ stage[r][n] \in Untold /\ stage'[r][n] \in Untold
          \/ stage[r][n] \in Switched /\ stage'[r][n] = "recalled"
          \/ /\ stage[r][n] \in Switched /\ stage'[r][n] = "withdrawn"
             /\ \A m \in Chain(r) : order[r][m] > order[r][n] => stage'[r][m] \notin Switched

\* What the nodes run turned out to differ from what they confirmed.
Doubt(r) ==
    /\ verdict[r] = "succeeded" /\ verdict'[r] = "stopped"
    /\ order'[r] = order[r] /\ stage'[r] = stage[r]

\* Rollouts are independent: a step is one for every rollout that it changes.
Step(r) ==
    \/ order'[r] = order[r] /\ stage'[r] = stage[r] /\ verdict'[r] = verdict[r]
    \/ Start(r) \/ Advance(r) \/ Withdraw(r) \/ Doubt(r)

Next == \A r \in Release : Step(r)

Spec == Init /\ [][Next]_vars
=============================================================================
