-------------------------- MODULE MCClientDelivery --------------------------
(* Instances of ClientDelivery for TLC. *)
EXTENDS ClientDelivery, TLC

CONSTANTS u1, g1, g2, r1, r2

OneUser == {u1}
TwoGroups == {g1, g2}
OneNode == {1}
OneInbound == {11}
TwoProtocols == {"vless-reality", "hysteria2"}
TwoRequests == {r1, r2}
OnNode1 == [i \in OneInbound |-> 1]
SameOwner == [r \in TwoRequests |-> u1]
SameGroup == [r \in TwoRequests |-> g1]

\* Two devices of one user download the same subscription.
Interchangeable == Permutations(TwoRequests)
=============================================================================
