--------------------------- MODULE MCSubscriptions ---------------------------
(* Small instances of Subscriptions for TLC. *)
EXTENDS Subscriptions, TLC

CONSTANTS t1, t2

TwoTemplates == {t1, t2}
OneSub == {"s1"}
OneKey == {"node"}
OneNodeGroup == {"g1"}
OneProxyGroup == {"main"}
TheFormats == {"mihomo", "base64"}

\* Templates are interchangeable: nothing orders them.
Interchangeable == Permutations(TwoTemplates)
=============================================================================
